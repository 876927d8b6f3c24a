SPECIFICATION MCSpec
CONSTANTS
  Top = Top
  A = A
  B = B
  C = C
  X = X
  Y = Y
  None = None
  Folders <- AllFolders
  Trees <- AllTrees
  Looks <- SomeLooks
  Id <- Ids
  Rank <- Order
  Words <- SomeWords
  Numbers <- Numerals
  Length <- Letters
  Caps = {0, 3, 8, 9}
  MaxMoves = 1
  PageSize = 2
  MaxDepth = 3
INVARIANTS
  CompleteBelowTheCap
  OneMoveListsNothingForeign
  BreadthFirst
  TruncatedLacksSomething
  PageOrderDoesNotMatter
  NothingIsSilentlyUnique
  GroupsAreTwins
CHECK_DEADLOCK FALSE
