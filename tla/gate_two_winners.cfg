SPECIFICATION Spec
CONSTANTS
  p1 = p1
  p2 = p2
  c1 = c1
  c2 = c2
  None = None
  Proposals = {p1}
  PlanLen <- TwoOps
  PlanHash <- OneHash
  Calls = {c1, c2}
  ReadOnly = {}
  Commands = {1, 2}
  TTL = 1
  MaxTime = 1
INVARIANTS
  ConcurrentAppliesCannotBothWin
CHECK_DEADLOCK FALSE
