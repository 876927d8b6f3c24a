SPECIFICATION Spec
CONSTANTS
  p1 = p1
  p2 = p2
  c1 = c1
  c2 = c2
  None = None
  Proposals = {p1}
  PlanLen <- TwoOps
  PlanHash <- OneHash
  Calls = {c1}
  ReadOnly = {}
  Commands = {1}
  TTL = 1
  MaxTime = 1
INVARIANTS
  InterruptedRunEndsFailed
CHECK_DEADLOCK FALSE
