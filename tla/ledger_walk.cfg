SPECIFICATION Spec
CONSTANTS
  Root = Root
  A = A
  B = B
  X = X
  Out = Out
  MyDrive = MyDrive
  init = init
  seed = seed
  None = None
  Refs = {}
  Folders <- AllFolders
  Drives <- OneDrive
  Asked <- SomeAsked
  Commands = {init, seed}
  Quota <- Quotas
  Into <- Targets
  Attempts = 2
  MaxOps = 3
  MaxWalks = 1
  MaxActs = 2
INVARIANTS
  TypeOK
  OneMoveCannotFoolASnapshot
  QuietSnapshotIsAtomic
  StaleRowsAcceptNothing
  MishapsCostOneFileEach
CHECK_DEADLOCK FALSE
