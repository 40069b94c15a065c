SPECIFICATION FairSpec
CONSTANTS
  Client = {c1, c2}
  Thread = {w1, w2}
  Task = {t1, t2, t3}
  Sizes = {2}
CHECK_DEADLOCK FALSE
PROPERTY
  SubmittedIsRun
