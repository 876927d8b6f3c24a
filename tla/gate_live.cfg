SPECIFICATION FairSpec
CONSTANTS
  p1 = p1
  p2 = p2
  c1 = c1
  c2 = c2
  None = None
  Proposals = {p1, p2}
  PlanLen <- OneOp
  PlanHash <- OneHash
  Calls = {c1, c2}
  ReadOnly = {c2}
  Commands = {1}
  TTL = 1
  MaxTime = 2
INVARIANTS
  ChangesArePaidFor
PROPERTIES
  EveryCallReturns
CHECK_DEADLOCK FALSE
