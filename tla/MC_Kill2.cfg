SPECIFICATION FairSpec
CONSTANTS
  p1 = p1  p2 = p2  p3 = p3  d1 = d1  d2 = d2  c1 = c1  c2 = c2
  Pid = {p1, p2, p3}
  Child = {p1}
  Dir = {d1, d2}
  Caller = {c1, c2}
  Op <- KillAndThaw
  FreezeFile = TRUE
  Subreaper = FALSE
  Faults = {"kill", "walk"}
INVARIANTS TypeOK  LeavesThawed
 
CHECK_DEADLOCK FALSE
