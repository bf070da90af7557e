SPECIFICATION MCSpec
CONSTANTS
  Base = 8
  WIDTH = 2
  Byte <- MCByte
  Junk = Junk
  Files <- MCFiles
  Prototypes <- MCPrototypes
  Pieces = {2, 5}
  VERSION_MAJOR = 0
  VERSION_MINOR = 0
CHECK_DEADLOCK FALSE
INVARIANTS BytesInOrder RoundTrip TruncatedRefused ReadBack Accepted
PROPERTIES ReadsTheFile LoadEnds
