SPECIFICATION Spec
CONSTANTS
  s1 = s1  s2 = s2  s3 = s3
  p1 = p1  p2 = p2  t1 = t1  t2 = t2  h1 = h1  h2 = h2
  NoThread = NoThread  NoHandle = NoHandle
  Order <- SubsystemOrder
  Required = {}
  Subsystem = {s1, s2, s3}
  Pid = {p1, p2}
  Thread = {t1, t2}
  Handle = {h1, h2}
  Cgroup <- FlatA
  Paths <- OnePath
  Names = {}
  InitDirs <- FlatATrees
  Forks = TRUE
  Inactive = {s3}
  Filters = {{}, {s2}}
  Adders <- OwnProcess
  Moves = {}
  Ops = {"load", "add", "delete"}
  WriteTries = 2
  RemoveTries = 2
INVARIANTS DeletedIsGone AddLandsEverywhere
CHECK_DEADLOCK FALSE
