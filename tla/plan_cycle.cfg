SPECIFICATION Spec
CONSTANTS
  Root = Root
  A = A
  B = B
  X = X
  Out = Out
  Y = Y
  Z = Z
  r1 = r1
  r2 = r2
  None = None
  Refs = {r1, r2}
  Folders <- AllFolders
  Ids <- AllIds
  Trees <- AllTrees
  Plans <- TwoFolderMoves
  Drafts <- NoPlans
  MaxOps = 3
  MaxMeddling = 0
INVARIANTS
  AcceptedPlansMakeNoCycle
CHECK_DEADLOCK FALSE
