------------------------------ MODULE TaskQueue ------------------------------
(***************************************************************************)
(* What an EventLoop promises to the threads that hand it work: a functor  *)
(* given to queueInLoop joins one queue, and the loop thread runs the      *)
(* functors of that queue one at a time, each once, in hand-over order.    *)
(* How the queue is split into pending_functors_ and the swapped batch,    *)
(* and how the loop is woken up, is not visible at this level.             *)
(***************************************************************************)
EXTENDS Sequences

CONSTANT Functor

VARIABLES queue,     \* functors handed over and not yet started
          executed   \* functors started, in the order the loop started them

vars == <<queue, executed>>

Init == queue = <<>> /\ executed = <<>>

HandOver(f) ==
  /\ queue' = Append(queue, f)
  /\ UNCHANGED executed

Execute ==
  /\ queue # <<>>
  /\ executed' = Append(executed, Head(queue))
  /\ queue' = Tail(queue)

Next == Execute \/ \E f \in Functor : HandOver(f)

Spec == Init /\ [][Next]_vars
=============================================================================
