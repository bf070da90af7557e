SPECIFICATION MCSpec
CONSTANTS
  Programs <- MacroFiles
  Library <- MCLibrary
  Argument <- MCArgument
  UINT8 = 256
  MacroFuel = 60
  Fuel = 60
  Calls = 6
CHECK_DEADLOCK FALSE
INVARIANT StackNeverBelowEmpty
