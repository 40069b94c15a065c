SPECIFICATION Spec
CONSTANTS
  kCheapPrepend = 2
  kInitialSize = 3
  kExtraBuf = 3
  Byte = {0, 1}
  Overrun = FALSE
  MaxLen = 3
  MaxSize = 8
CHECK_DEADLOCK FALSE
INVARIANTS
  InBounds
  ContentPreserved
  MakeSpaceAsserts
