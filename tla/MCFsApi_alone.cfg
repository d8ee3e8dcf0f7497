SPECIFICATION Spec

CONSTANTS
  Name = {"a", "b", "d", "e", "opt"}
  Roots <- DeepRoots
  Client = {c1}
  Path <- Paths
  Ino = {i1, i2, i3, i4}
  DirIno = dir
  Requests <- AloneRequests
  TooLong = {"long"}

SYMMETRY Symmetry

INVARIANTS
  UnrelatedRequestsKeepPromise

CHECK_DEADLOCK FALSE
