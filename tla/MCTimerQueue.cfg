SPECIFICATION FairSpec
CONSTANTS
  Ptr = {p1, p2}
  Delay = {1}
  Interval = {0, 1}
  MaxTimers = 3
  MaxTime = 2
  MaxQueue = 1
CHECK_DEADLOCK FALSE
INVARIANTS
  SameTimers
  NoDangling
  ArmedForFirst
  CancelSticks
PROPERTIES
  OnlyOwnCancel
  DueIsTaken
