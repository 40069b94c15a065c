SPECIFICATION Spec
CONSTANTS
  Worker = {w1}
  Message = {m1}
  MsgLen = 1
  HighWater = 1
  LoopCalls = {"send", "shutdown", "forceClose", "forceCloseWithDelay", "startRead", "stopRead"}
  WorkerCalls = {"send", "shutdown", "forceClose", "forceCloseWithDelay", "startRead", "stopRead"}
  Deployments = {TRUE, FALSE}
  MaxQueue = 2
CHECK_DEADLOCK FALSE
INVARIANTS
  AssertsHold
  DestroyedClosed
  OutputIsWatched
  CallbacksPaired
  ShutdownAfterOutput
