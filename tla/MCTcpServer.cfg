SPECIFICATION ServerSpec
CONSTANTS
  MaxThreads = 2
  MaxClients = 2
  MaxOthers = 1
  MaxFds = 3
CHECK_DEADLOCK FALSE
INVARIANTS
  LoopAliveWhenUsed
  ConnectionsEndClosed
  LeftBehind
PROPERTIES
  HangOnlyIfQuitErased
  WaitingIsServed
