SPECIFICATION Spec

CONSTANTS
  Req = {r1, r2, r3, r4}
  Proc = {p1, p2}
  Pid = {n1, n2}
  Asked = {1, 2}
  Deaf = {}
  NoProc = NoProc
  NoPid = NoPid

SYMMETRY Symmetry

INVARIANTS
  StopReachesGroup

CHECK_DEADLOCK FALSE
