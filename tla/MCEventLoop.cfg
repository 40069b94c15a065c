SPECIFICATION FairSpec
CONSTANTS
  Worker = {w1, w2}
  Functor = {f1, f2, f3}
  MayQuit = TRUE
  EarlyWork = TRUE
INVARIANTS
  NoLostWakeup
  NoLostQuit
PROPERTIES
  ImplementsTaskQueue
  HandedOverIsRun
  QuitStopsLoop
