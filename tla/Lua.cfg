SPECIFICATION MCSpec
CONSTANTS
  MAXINDEXRK = 1
  LUAI_MAXCCALLS = 4
  LFIELDS_PER_FLUSH = 2
  StackSize = 90
  Family <- MCFamily
  Pool <- MCPool
  Longest <- MCLongest
  Text <- MCText
  Arguments0 <- MCArgs
  Instructions = 300
  Turns0 = 40
  Elems <- ListValues
  NoValue = NoValue
  Orders <- ListOrders
  Lists <- MCLists
  Unreliable = Unreliable
  None = None
  Limit = 13
  Wild = 4
  MaxOperations = 2
  MaxParts = 3
INVARIANTS Agrees Reloaded Confined PatternsFind
PROPERTIES ListsImplement
CHECK_DEADLOCK FALSE
