SPECIFICATION MCSpec
CONSTANTS
  Root = Root
  A = A
  B = B
  X = X
  Out = Out
  Y = Y
  Z = Z
  r1 = r1
  r2 = r2
  None = None
  Refs = {r1, r2}
  Folders <- AllFolders
  Ids <- AllIds
  Trees <- AllTrees
  Plans <- ManyPlans
  Drafts <- AllDrafts
  MaxOps = 3
  MaxMeddling = 2
INVARIANTS
  UnchangedWorldRevalidates
  UndisturbedRunSucceeds
  OneFolderMoveKeepsTheTree
  AppliedPlanHolds
  DraftsOnlyFileAway
  RevalidatedPlansAreInside
  OutsideUntouched
PROPERTIES
  ExpectedParentIsHonoured
CHECK_DEADLOCK FALSE
