SPECIFICATION Spec
CONSTANTS
  Protos <- MCProtos
  Chunks = {"c6"}
  Code <- MCCode
  Arity <- MCArity
  Ups <- MCUps
  Depth <- MCDepth
  Natives = {}
  NativeResults = {}
  NativeRets = {0}
  Names <- MCNames
  Library <- MCLibrary
  MAX_CALLS = 5
  STACK_SIZE = 14
  MaxHost = 2
CHECK_DEADLOCK FALSE
INVARIANT FramesSuffice
