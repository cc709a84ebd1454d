SPECIFICATION Spec
CONSTANTS
  root = root  a = a  b = b  x = x  p1 = p1  p2 = p2  c1 = c1  c2 = c2
  memory = memory  io = io
  Dir = {root, a, b, x}
  Path <- Paths
  Controller = {memory}
  Pid = {p1, p2}
  Caller = {c1, c2}
  Menu <- DeleteMenu
  Denied = {}
  BadValue = FALSE
  RemoveTries = 1
INVARIANTS DeleteSpares MoveTakesAll
SYMMETRY Alike
CHECK_DEADLOCK FALSE
