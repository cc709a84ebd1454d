SPECIFICATION SpecHere
CONSTANTS
  c1 = c1  c2 = c2  s1 = s1  s2 = s2  s3 = s3
  parent = parent  child = child  hp = hp  hc = hc  p1 = p1  p2 = p2
  Caller = {c1, c2}
  NoCaller = NoCaller
  Subsystem = {s1, s2, s3}
  Stater = {s1, s2}
  BadPath = {s2}
  Handlers = 1
  Dir <- Dirs
  Above <- DirsOver
  Pid = {p1, p2}
  Object = {hp, hc}
  DirOf <- Objects
  FreezerMenu <- Freezes
  Moves = 1
  UnitMenu <- UnitCalls
  Losses = 1
INVARIANTS AllTypeOK NeverBlocks MetricsFinal StaysFrozen OwnUnit PanicsOnlyLate
PROPERTIES AllReturn
CHECK_DEADLOCK FALSE
