SPECIFICATION Spec
CONSTANTS
  Worker = {w1}
  Message = {m1}
  MsgLen = 2
  HighWater = 2
  LoopCalls = {}
  WorkerCalls = {"send"}
  Deployments = {FALSE}
  MaxQueue = 3
CHECK_DEADLOCK FALSE
INVARIANTS
  NoGarbage
