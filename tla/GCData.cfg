SPECIFICATION MCSpec
CONSTANTS
  Obj = {1, 2, 3, 4, 5, 6, 7}
  Nil = Nil
  AliveObjects = 6
  StackSize = 3
  GraySize = 4
  MaxRefs = 2
  MaxNames = 2
  Programs = {"data"}
ACTION_CONSTRAINTS LowestFirst
CHECK_DEADLOCK FALSE
INVARIANTS TypeOK GrayExact TriColour MarkExact
PROPERTIES Implements CollectionEnds
