SPECIFICATION FairSpec
CONSTANTS
  MaxMem = 3
  KillAt = 1
  Rejoin = FALSE
  Faults = {"watch", "inotify", "memory.events"}
  Reader = "select"
INVARIANTS TypeOK
PROPERTIES StreamPromise EventsPublished WatchedExit
CHECK_DEADLOCK FALSE
