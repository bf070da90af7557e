SPECIFICATION MCSpec
CONSTANTS
  Obj = {1, 2, 3, 4, 5, 6, 7, 8, 9}
  Nil = Nil
  AliveObjects = 6
  StackSize = 2
  GraySize = 3
  MaxRefs = 2
  MaxNames = 3
  Programs = {"globals", "code"}
ACTION_CONSTRAINTS LowestFirst OneOrder
CHECK_DEADLOCK FALSE
INVARIANTS RootsAllocated
PROPERTIES MarkedKeepReferents CloseLeaksYoung
