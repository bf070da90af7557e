SPECIFICATION Spec
CONSTANTS
  Protos <- MCProtos
  Chunks <- MCChunks
  Code <- MCCode
  Arity <- MCArity
  Ups <- MCUps
  Depth <- MCDepth
  Natives = {"n"}
  NativeResults <- MCResults
  NativeRets = {0}
  Names <- MCNames
  Library <- MCLibrary
  MAX_CALLS = 4
  STACK_SIZE = 14
  MaxHost = 3
CHECK_DEADLOCK FALSE
INVARIANTS TypeOK StackExact MarkKept
PROPERTY Implements
CONSTRAINT FewFiles
