SPECIFICATION FairSpec
CONSTANTS
  root = root  a = a  b = b  x = x  p1 = p1  p2 = p2  c1 = c1  c2 = c2
  memory = memory  io = io
  Dir = {root, a, b}
  Path <- Paths
  Controller = {memory, io}
  Pid = {p1}
  Caller = {c1, c2}
  Menu <- ToggleMenu
  Denied = {root, a}
  BadValue = TRUE
  RemoveTries = 2
INVARIANTS TypeOK
PROPERTIES EnabledAllTheWay CallsReturn
CHECK_DEADLOCK FALSE
