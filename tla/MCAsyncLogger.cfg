SPECIFICATION LoggerFairSpec
CONSTANTS
  Writer = {w1, w2}
  l1 = l1
  l2 = l2
  l3 = l3
  l4 = l4
  Line <- MCLine
  Statement <- MCStatement
  Levels <- MCLevels
  kSize = 2
  RingSize = 1
  MaxBuf = 3
  MaxSize = 6
  CheckLines = 2
  FlushInterval = 0
  kRollPerSeconds = 2
  MaxTime = 2
CHECK_DEADLOCK FALSE
INVARIANTS
  SlotOwnership
  FifoUntilReuse
  FilesHoldLines
  TextAsLogged
PROPERTIES
  DtorReturns
