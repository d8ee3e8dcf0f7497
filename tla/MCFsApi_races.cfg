SPECIFICATION Spec

CONSTANTS
  Name = {"a", "b", "d", "e", "opt"}
  Roots <- DeepRoots
  Client = {c1, c2}
  Path <- Paths
  Ino = {i1, i2, i3, i4}
  DirIno = dir
  Requests <- RaceRequests
  TooLong = {"long"}

SYMMETRY Symmetry

INVARIANTS
  TypeOK
  UnrelatedRequestsKeepPromise
  ReadersSeeWhatStays

CHECK_DEADLOCK FALSE
