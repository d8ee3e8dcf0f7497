SPECIFICATION FairSpec

CONSTANTS
  c1 = c1
  c2 = c2
  Caller = {c1, c2}
  Asks <- SomeAsks
  HasKey = TRUE
  HasFile = TRUE
  MaxRing = 1
  MaxBoots = 2

INVARIANTS
  RecentIsLatest
  TrailTellsWhatRan
  AnsweredIsInTrail
  TrailFollowsAnswers
  FileKeepsTrail

PROPERTIES
  DrainedIsAnswered
  StopsInTime

CHECK_DEADLOCK FALSE
