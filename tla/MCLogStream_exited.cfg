SPECIFICATION Spec

CONSTANTS
  Stream = {out, err}
  Client = {c1}
  MaxLines = 2
  ChanCap = 1
  PipeCap = 2
  Fits = {TRUE}
  MaxOut = 2

INVARIANTS
  ExitedLogIsComplete

CHECK_DEADLOCK FALSE
