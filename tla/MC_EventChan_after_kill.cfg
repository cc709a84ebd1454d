SPECIFICATION FairSpec
CONSTANTS
  MaxMem = 2
  KillAt = 1
  Rejoin = FALSE
  Faults = {}
  Reader = "untilKill"
PROPERTIES ClosesAfterKill
CHECK_DEADLOCK FALSE
