SPECIFICATION Spec

CONSTANTS
  Name = {"a", "b", "d", "e", "opt"}
  Roots <- DeepRoots
  Client = {c1, c2}
  Path <- Paths
  Ino = {i1, i2, i3}
  DirIno = dir
  Requests <- CopyRequests
  TooLong = {"long"}

INVARIANTS
  CopyKeepsItsSource

CHECK_DEADLOCK FALSE
