SPECIFICATION HttpSpec
CONSTANTS
  Client <- MCConn
  Thread = {t1, t2}
  Task <- HttpTask
  Sizes = {0, 1}
  Streams <- MCStreams
  MaxReq = 3
  Callbacks = {"default", "user"}
CHECK_DEADLOCK FALSE
INVARIANTS
  AnswersInOrder
PROPERTIES
  AnsweredUnlessPipelined
  StopReturnsUnlessAsleep
