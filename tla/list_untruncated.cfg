SPECIFICATION DupSpec
CONSTANTS
  Top = Top
  A = A
  B = B
  C = C
  X = X
  Y = Y
  None = None
  Folders <- AllFolders
  Trees <- AllTrees
  Looks <- OneLook
  Id <- Ids
  Rank <- Order
  Words <- SomeWords
  Numbers <- Numerals
  Length <- Letters
  Caps = {2}
  MaxMoves = 0
  PageSize = 2
  MaxDepth = 6
INVARIANTS
  UntruncatedIsComplete
CHECK_DEADLOCK FALSE
