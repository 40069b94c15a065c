----------------------------- MODULE MCEventLoop -----------------------------
(* The event loop for TLC: two workers, three functors.                    *)
EXTENDS EventLoop
=============================================================================
