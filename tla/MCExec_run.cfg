SPECIFICATION FairSpec

CONSTANTS
  Req = {r1}
  Durations = 64
  Second = 4
  DefaultSecs <- SomeDefaults
  MaxSecs <- SomeCaps
  Timeouts <- SomeTimeouts
  MaxOutput = 2
  MaxRing = 1
  HasFile = TRUE

INVARIANTS
  TypeOK
  TimeoutIsCapped
  KillIsReported
  ResultHasAllOutput
  NothingLeftBehind

PROPERTIES
  LeaderIsBounded
  RunEndsOrPipesAreHeld

CHECK_DEADLOCK FALSE
