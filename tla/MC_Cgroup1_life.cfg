SPECIFICATION Spec
CONSTANTS
  s1 = s1  s2 = s2  s3 = s3
  p1 = p1  p2 = p2  t1 = t1  t2 = t2  h1 = h1  h2 = h2
  NoThread = NoThread  NoHandle = NoHandle
  Order <- SubsystemOrder
  Required = {}
  Subsystem = {s1, s2}
  Pid = {p1, p2}
  Thread = {t1, t2}
  Handle = {h1, h2}
  Cgroup <- Nested
  Paths <- OnePath
  Names = {"c"}
  InitDirs <- EmptyTree
  Forks = TRUE
  Inactive = {}
  Filters = {{}}
  Adders <- OwnProcess
  Moves <- OneWay
  Ops <- AllOps
  WriteTries = 2
  RemoveTries = 2
INVARIANTS TypeOK DeletedHandleIdle NoDeadlockedSet
CHECK_DEADLOCK FALSE
