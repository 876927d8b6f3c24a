SPECIFICATION FairSpec
CONSTANTS
  one = one
  two = two
  A = A
  B = B
  D = D
  X = X
  Y = Y
  r1 = r1
  None = None
  Runs = {one, two}
  Plan <- TwoPlans
  Start <- TwoFiles
  Hands = {B}
  Refs = {r1}
  Attempts = 3
  MaxByHand = 1
INVARIANTS
  ExecutedStaysExecuted
  CleanFailureDoesNothing
  ConflictsAreSeen
  StrayFoldersComeFromRetries
PROPERTIES
  EveryRunEnds
CHECK_DEADLOCK FALSE
