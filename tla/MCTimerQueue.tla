---------------------------- MODULE MCTimerQueue ----------------------------
(* The timer queue for TLC: three timers at two addresses.                 *)
EXTENDS TimerQueue
=============================================================================
