SPECIFICATION FairSpec
CONSTANTS
  Fd = {1, 2, 3}
  InitDelay = 1
  MaxDelay = 2
  Worker = {w1}
  MaxConnects = 2
  MaxQueue = 2
CHECK_DEADLOCK FALSE
INVARIANTS
  AssertsHold
  SocketsOwned
  NeverIdle
PROPERTIES
  StopEnds
