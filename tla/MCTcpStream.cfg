SPECIFICATION FairSpec
CONSTANTS
  Worker = {w1}
  Message = {m1, m2}
  MsgLen = 2
  HighWater = 2
  LoopCalls = {"send", "shutdown", "forceClose"}
  WorkerCalls = {"send"}
  Deployments = {FALSE}
  MaxQueue = 2
CHECK_DEADLOCK FALSE
INVARIANTS
  StreamInOrder
PROPERTIES
  ClosedIsRemoved
  OutputGoesOut
  ShutdownHappens
