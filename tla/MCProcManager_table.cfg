SPECIFICATION FairSpec

CONSTANTS
  Req = {r1, r2, r3}
  Proc = {p1, p2}
  Pid = {n1, n2}
  Asked = {1, 2}
  Deaf = {p2}
  NoProc = NoProc
  NoPid = NoPid

INVARIANTS
  TypeOK
  TableIsCoherent
  OneRemoveWins
  EveryoneIsWaitedFor
  SignalsAreAskedFor

PROPERTIES
  IdsAreNotReused
  StopTakesEffect
  ZombiesAreReaped

CHECK_DEADLOCK FALSE
