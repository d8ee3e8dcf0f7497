SPECIFICATION FairSpec

CONSTANTS
  WmTries = 5
  VncTries = 6
  StartTime = 2
  HasSecret = TRUE
  MaxBoots = 2
  MaxFaults = 1

INVARIANTS
  GivesUpOnlyWithoutDisplay

PROPERTIES
  DesktopComesUp
  BrowserComesBack

CHECK_DEADLOCK FALSE
