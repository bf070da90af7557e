SPECIFICATION MCSpec
CONSTANTS
  Width = 2
  Items <- MCItems
  Pushed <- MCPushed
  Value <- MCValue
  MaxOperations = 3
  Keys <- MCKeys
  Values = {1, 8}
  Absent = Absent
  Hash <- MCHash
  MapWidth = 3
  MapHeight = 3
  Literals <- MCLiterals
  TableKeys <- MCTableKeys
  TableHash <- MCTableHash
  TableValues <- MCTableValues
  Sizes <- MCSizes
INVARIANTS Shape MapShape TableShape TableBoundary
PROPERTIES Implements MapImplements TableImplements
CHECK_DEADLOCK FALSE
