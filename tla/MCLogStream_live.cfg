SPECIFICATION FairSpec

CONSTANTS
  Stream = {out, err}
  Client = {c1}
  MaxLines = 2
  ChanCap = 1
  PipeCap = 2
  Fits = {TRUE, FALSE}
  MaxOut = 2

INVARIANTS
  TypeOK
  CapturedIsPrefix
  StreamHasNoGap
  SubscribersAreOpen
  EndMeansExited

PROPERTIES
  StreamsEnd
  FeedPromise
  ReadersDoNotBlockPumps

CHECK_DEADLOCK FALSE
