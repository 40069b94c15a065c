--------------------------- MODULE EventLoopProofs ---------------------------
(***************************************************************************)
(* Proofs about EventLoop for any number of workers and functors: type     *)
(* correctness, no lost wakeup, no lost quit, and that the loop implements *)
(* TaskQueue.                                                              *)
(***************************************************************************)
EXTENDS EventLoop, SequenceTheorems, TLAPS

\* The phases of the loop in which pending_functors_ will not be looked at
\* again before the loop may fall asleep in poll().
BeforeSleep == {"created", "test", "poll", "run", "functor"}

\* NoLostWakeup is not inductive: it speaks of poll() only, and says nothing
\* of what is queued after the swap and before the next poll().
WakeupCovered ==
  pc \in BeforeSleep /\ ~(Range(pending) \subseteq early)
    => wakeupFd \/ Waking

IInv == TypeOK /\ FlagCoversBatch /\ WakeupCovered /\ NoLostQuit

LEMMA RangeAppend ==
  ASSUME NEW S, NEW s \in Seq(S), NEW e \in S
  PROVE  Range(Append(s, e)) = Range(s) \cup {e}
<1>1. /\ DOMAIN s = 1 .. Len(s)
      /\ DOMAIN Append(s, e) = 1 .. Len(s) + 1
      /\ Len(s) \in Nat
  OBVIOUS
<1>2. \A i \in 1 .. Len(s) : Append(s, e)[i] = s[i]
  OBVIOUS
<1>3. Append(s, e)[Len(s) + 1] = e
  OBVIOUS
<1>4. 1 .. Len(s) + 1 = (1 .. Len(s)) \cup {Len(s) + 1}
  BY <1>1
<1> QED
  BY <1>1, <1>2, <1>3, <1>4 DEF Range

LEMMA RangeEmpty == Range(<<>>) = {}
BY DEF Range

LEMMA InitTypeOK == Init => TypeOK
<1> SUFFICES ASSUME Init PROVE TypeOK
  OBVIOUS
<1>1. <<>> \in Seq(Functor)
  OBVIOUS
<1>2. wpc \in [Worker -> {"idle", "wakeup"}]
  BY DEF Init
<1> QED
  BY <1>1, <1>2 DEF Init, TypeOK, PCs

LEMMA NextTypeOK == TypeOK /\ [Next]_vars => TypeOK'
<1> SUFFICES ASSUME TypeOK, [Next]_vars PROVE TypeOK'
  OBVIOUS
<1> USE DEF TypeOK, PCs, Channels, loopVars, queueVars
<1>1. CASE LoopEnter
  BY <1>1 DEF LoopEnter
<1>2. CASE TestQuit
  BY <1>2 DEF TestQuit
<1>3. CASE PollReturn
  BY <1>3 DEF PollReturn
<1>4. CASE HandleRead
  BY <1>4 DEF HandleRead
<1>5. CASE HandleEvent
  BY <1>5 DEF HandleEvent
<1>6. CASE CallbackReturn
  BY <1>6 DEF CallbackReturn
<1>7. CASE EnterPendingFunctors
  BY <1>7 DEF EnterPendingFunctors
<1>8. CASE Swap
  BY <1>8 DEF Swap
<1>9. CASE RunFunctor
  BY <1>9 DEF RunFunctor
<1>10. CASE FunctorReturn
  BY <1>10 DEF FunctorReturn
<1>11. CASE LeavePendingFunctors
  BY <1>11 DEF LeavePendingFunctors
<1>12. CASE PollTimeout
  BY <1>12 DEF PollTimeout
<1>13. CASE LoopQuit
  BY <1>13 DEF LoopQuit
<1>14. ASSUME NEW f \in Functor, LoopQueueInLoop(f)
      PROVE  TypeOK'
  BY <1>14 DEF LoopQueueInLoop
<1>15. ASSUME NEW f \in Functor, LoopRunInLoop(f)
      PROVE  TypeOK'
  BY <1>15 DEF LoopRunInLoop
<1>16. ASSUME NEW w \in Worker, Quit(w)
      PROVE  TypeOK'
  BY <1>16 DEF Quit
<1>17. ASSUME NEW w \in Worker, Wakeup(w)
      PROVE  TypeOK'
  BY <1>17 DEF Wakeup
<1>18. ASSUME NEW w \in Worker, NEW f \in Functor, QueueInLoop(w, f)
      PROVE  TypeOK'
  BY <1>18 DEF QueueInLoop
<1>19. CASE UNCHANGED vars
  BY <1>19 DEF vars
<1>20. CASE Finished
  BY <1>19, <1>20 DEF Finished
<1> QED
  BY <1>1, <1>2, <1>3, <1>4, <1>5, <1>6, <1>7, <1>8, <1>9, <1>10, <1>11,
     <1>12, <1>13, <1>14, <1>15, <1>16, <1>17, <1>18, <1>19, <1>20
     DEF Next, LoopStep, UserStep, WorkerStep

\* EventLoop: the variables keep their types.
THEOREM TypeCorrect == Spec => []TypeOK
BY InitTypeOK, NextTypeOK, PTL DEF Spec

LEMMA NextFlagCoversBatch ==
  TypeOK /\ TypeOK' /\ FlagCoversBatch /\ [Next]_vars => FlagCoversBatch'
<1> SUFFICES ASSUME TypeOK, TypeOK', FlagCoversBatch, [Next]_vars
    PROVE  FlagCoversBatch'
  OBVIOUS
<1> USE DEF TypeOK, PCs, FlagCoversBatch, loopVars, queueVars
<1>1. CASE LoopEnter
  BY <1>1 DEF LoopEnter
<1>2. CASE TestQuit
  BY <1>2 DEF TestQuit
<1>3. CASE PollReturn
  BY <1>3 DEF PollReturn
<1>4. CASE HandleRead
  BY <1>4 DEF HandleRead
<1>5. CASE HandleEvent
  BY <1>5 DEF HandleEvent
<1>6. CASE CallbackReturn
  BY <1>6 DEF CallbackReturn
<1>7. CASE EnterPendingFunctors
  BY <1>7 DEF EnterPendingFunctors
<1>8. CASE Swap
  BY <1>8 DEF Swap
<1>9. CASE RunFunctor
  BY <1>9 DEF RunFunctor
<1>10. CASE FunctorReturn
  BY <1>10 DEF FunctorReturn
<1>11. CASE LeavePendingFunctors
  BY <1>11 DEF LeavePendingFunctors
<1>12. CASE PollTimeout
  BY <1>12 DEF PollTimeout
<1>13. CASE LoopQuit
  BY <1>13 DEF LoopQuit
<1>14. ASSUME NEW f \in Functor, LoopQueueInLoop(f)
      PROVE  FlagCoversBatch'
  BY <1>14 DEF LoopQueueInLoop
<1>15. ASSUME NEW f \in Functor, LoopRunInLoop(f)
      PROVE  FlagCoversBatch'
  BY <1>15 DEF LoopRunInLoop
<1>16. ASSUME NEW w \in Worker, Quit(w)
      PROVE  FlagCoversBatch'
  BY <1>16 DEF Quit
<1>17. ASSUME NEW w \in Worker, Wakeup(w)
      PROVE  FlagCoversBatch'
  BY <1>17 DEF Wakeup
<1>18. ASSUME NEW w \in Worker, NEW f \in Functor, QueueInLoop(w, f)
      PROVE  FlagCoversBatch'
  BY <1>18 DEF QueueInLoop
<1>19. CASE UNCHANGED vars
  BY <1>19 DEF vars
<1>20. CASE Finished
  BY <1>19, <1>20 DEF Finished
<1> QED
  BY <1>1, <1>2, <1>3, <1>4, <1>5, <1>6, <1>7, <1>8, <1>9, <1>10, <1>11,
     <1>12, <1>13, <1>14, <1>15, <1>16, <1>17, <1>18, <1>19, <1>20
     DEF Next, LoopStep, UserStep, WorkerStep

LEMMA NextWakeupCovered ==
  TypeOK /\ TypeOK' /\ FlagCoversBatch /\ WakeupCovered /\ [Next]_vars
  => WakeupCovered'
<1> SUFFICES ASSUME TypeOK, TypeOK', FlagCoversBatch, WakeupCovered,
                    [Next]_vars
    PROVE  WakeupCovered'
  OBVIOUS
<1> USE DEF TypeOK, PCs, FlagCoversBatch, WakeupCovered, Waking,
            BeforeSleep, loopVars, queueVars
<1>1. CASE LoopEnter
  BY <1>1 DEF LoopEnter
<1>2. CASE TestQuit
  BY <1>2 DEF TestQuit
<1>3. CASE PollReturn
  BY <1>3 DEF PollReturn
<1>4. CASE HandleRead
  BY <1>4 DEF HandleRead
<1>5. CASE HandleEvent
  BY <1>5 DEF HandleEvent
<1>6. CASE CallbackReturn
  BY <1>6 DEF CallbackReturn
<1>7. CASE EnterPendingFunctors
  BY <1>7 DEF EnterPendingFunctors
<1>8. CASE Swap
  BY <1>8, RangeEmpty DEF Swap
<1>9. CASE RunFunctor
  BY <1>9 DEF RunFunctor
<1>10. CASE FunctorReturn
  BY <1>10 DEF FunctorReturn
<1>11. CASE LeavePendingFunctors
  BY <1>11 DEF LeavePendingFunctors
<1>12. CASE PollTimeout
  BY <1>12 DEF PollTimeout
<1>13. CASE LoopQuit
  BY <1>13 DEF LoopQuit
<1>14. ASSUME NEW f \in Functor, LoopQueueInLoop(f)
      PROVE  WakeupCovered'
  BY <1>14, RangeAppend DEF LoopQueueInLoop, InUserCode
<1>15. ASSUME NEW f \in Functor, LoopRunInLoop(f)
      PROVE  WakeupCovered'
  BY <1>15 DEF LoopRunInLoop
<1>16. ASSUME NEW w \in Worker, Quit(w)
      PROVE  WakeupCovered'
  BY <1>16 DEF Quit
<1>17. ASSUME NEW w \in Worker, Wakeup(w)
      PROVE  WakeupCovered'
  BY <1>17 DEF Wakeup
<1>18. ASSUME NEW w \in Worker, NEW f \in Functor, QueueInLoop(w, f)
      PROVE  WakeupCovered'
  BY <1>18 DEF QueueInLoop
<1>19. CASE UNCHANGED vars
  BY <1>19 DEF vars
<1>20. CASE Finished
  BY <1>19, <1>20 DEF Finished
<1> QED
  BY <1>1, <1>2, <1>3, <1>4, <1>5, <1>6, <1>7, <1>8, <1>9, <1>10, <1>11,
     <1>12, <1>13, <1>14, <1>15, <1>16, <1>17, <1>18, <1>19, <1>20
     DEF Next, LoopStep, UserStep, WorkerStep

LEMMA NextNoLostQuit ==
  TypeOK /\ TypeOK' /\ NoLostQuit /\ [Next]_vars => NoLostQuit'
<1> SUFFICES ASSUME TypeOK, TypeOK', NoLostQuit, [Next]_vars
    PROVE  NoLostQuit'
  OBVIOUS
<1> USE DEF TypeOK, PCs, NoLostQuit, Waking, loopVars, queueVars
<1>1. CASE LoopEnter
  BY <1>1 DEF LoopEnter
<1>2. CASE TestQuit
  BY <1>2 DEF TestQuit
<1>3. CASE PollReturn
  BY <1>3 DEF PollReturn
<1>4. CASE HandleRead
  BY <1>4 DEF HandleRead
<1>5. CASE HandleEvent
  BY <1>5 DEF HandleEvent
<1>6. CASE CallbackReturn
  BY <1>6 DEF CallbackReturn
<1>7. CASE EnterPendingFunctors
  BY <1>7 DEF EnterPendingFunctors
<1>8. CASE Swap
  BY <1>8 DEF Swap
<1>9. CASE RunFunctor
  BY <1>9 DEF RunFunctor
<1>10. CASE FunctorReturn
  BY <1>10 DEF FunctorReturn
<1>11. CASE LeavePendingFunctors
  BY <1>11 DEF LeavePendingFunctors
<1>12. CASE PollTimeout
  BY <1>12 DEF PollTimeout
<1>13. CASE LoopQuit
  BY <1>13 DEF LoopQuit, InUserCode
<1>14. ASSUME NEW f \in Functor, LoopQueueInLoop(f)
      PROVE  NoLostQuit'
  BY <1>14 DEF LoopQueueInLoop
<1>15. ASSUME NEW f \in Functor, LoopRunInLoop(f)
      PROVE  NoLostQuit'
  BY <1>15 DEF LoopRunInLoop
<1>16. ASSUME NEW w \in Worker, Quit(w)
      PROVE  NoLostQuit'
  BY <1>16 DEF Quit
<1>17. ASSUME NEW w \in Worker, Wakeup(w)
      PROVE  NoLostQuit'
  BY <1>17 DEF Wakeup
<1>18. ASSUME NEW w \in Worker, NEW f \in Functor, QueueInLoop(w, f)
      PROVE  NoLostQuit'
  BY <1>18 DEF QueueInLoop
<1>19. CASE UNCHANGED vars
  BY <1>19 DEF vars
<1>20. CASE Finished
  BY <1>19, <1>20 DEF Finished
<1> QED
  BY <1>1, <1>2, <1>3, <1>4, <1>5, <1>6, <1>7, <1>8, <1>9, <1>10, <1>11,
     <1>12, <1>13, <1>14, <1>15, <1>16, <1>17, <1>18, <1>19, <1>20
     DEF Next, LoopStep, UserStep, WorkerStep

\* EventLoop: the inductive invariant behind NoLostWakeup and NoLostQuit.
\* Once the batch is swapped out, whatever joins pending_functors_ brings a
\* write of the eventfd with it, and only the dispatch phase, which is
\* followed by the next swap, resets the eventfd.
THEOREM Inductive == Spec => []IInv
<1>1. Init => IInv
  <2> SUFFICES ASSUME Init PROVE IInv
    OBVIOUS
  <2>1. TypeOK
    BY InitTypeOK
  <2>2. FlagCoversBatch
    BY DEF Init, FlagCoversBatch
  <2>3. WakeupCovered
    BY RangeEmpty DEF Init, WakeupCovered
  <2>4. NoLostQuit
    BY DEF Init, NoLostQuit
  <2> QED
    BY <2>1, <2>2, <2>3, <2>4 DEF IInv
<1>2. IInv /\ [Next]_vars => IInv'
  <2> SUFFICES ASSUME IInv, [Next]_vars PROVE IInv'
    OBVIOUS
  <2>1. TypeOK /\ TypeOK'
    BY NextTypeOK DEF IInv
  <2>2. FlagCoversBatch'
    BY <2>1, NextFlagCoversBatch DEF IInv
  <2>3. WakeupCovered'
    BY <2>1, NextWakeupCovered DEF IInv
  <2>4. NoLostQuit'
    BY <2>1, NextNoLostQuit DEF IInv
  <2> QED
    BY <2>1, <2>2, <2>3, <2>4 DEF IInv
<1> QED
  BY <1>1, <1>2, PTL DEF Spec

\* EventLoop::queueInLoop / doPendingFunctors: no wakeup is ever lost.
THEOREM NoWakeupIsLost == Spec => []NoLostWakeup
<1>1. IInv => NoLostWakeup
  BY DEF IInv, WakeupCovered, NoLostWakeup, BeforeSleep
<1> QED
  BY <1>1, Inductive, PTL

\* EventLoop::quit: no request to stop is ever lost by a sleeping loop.
THEOREM NoQuitIsLost == Spec => []NoLostQuit
<1>1. IInv => NoLostQuit
  BY DEF IInv
<1> QED
  BY <1>1, Inductive, PTL

LEMMA ConcatAppend ==
  ASSUME NEW S, NEW s \in Seq(S), NEW t \in Seq(S), NEW e \in S
  PROVE  s \o Append(t, e) = Append(s \o t, e)
OBVIOUS

LEMMA ConcatTail ==
  ASSUME NEW S, NEW s \in Seq(S), NEW t \in Seq(S), s # <<>>
  PROVE  /\ Head(s \o t) = Head(s)
         /\ Tail(s \o t) = Tail(s) \o t
         /\ s \o t # <<>>
OBVIOUS

LEMMA ConcatEmpty ==
  ASSUME NEW S, NEW s \in Seq(S)
  PROVE  s \o <<>> = s /\ <<>> \o s = s
OBVIOUS

LEMMA NextPromise ==
  TypeOK /\ FlagCoversBatch /\ [Next]_vars
  => [Promise!Next]_(Promise!vars)
<1> SUFFICES ASSUME TypeOK, FlagCoversBatch, [Next]_vars
    PROVE  [Promise!Next]_(Promise!vars)
  OBVIOUS
<1> USE DEF TypeOK, Promise!vars, loopVars, queueVars
<1>1. CASE LoopEnter
  BY <1>1 DEF LoopEnter
<1>2. CASE TestQuit
  BY <1>2 DEF TestQuit
<1>3. CASE PollReturn
  BY <1>3 DEF PollReturn
<1>4. CASE HandleRead
  BY <1>4 DEF HandleRead
<1>5. CASE HandleEvent
  BY <1>5 DEF HandleEvent
<1>6. CASE CallbackReturn
  BY <1>6 DEF CallbackReturn
<1>7. CASE EnterPendingFunctors
  BY <1>7 DEF EnterPendingFunctors
<1>8. CASE Swap
  <2>1. functors = <<>> /\ functors' = pending /\ pending' = <<>>
    BY <1>8 DEF Swap, FlagCoversBatch
  <2> QED
    BY <1>8, <2>1, ConcatEmpty DEF Swap
<1>9. CASE RunFunctor
  BY <1>9, ConcatTail DEF RunFunctor, Promise!Next, Promise!Execute
<1>10. CASE FunctorReturn
  BY <1>10 DEF FunctorReturn
<1>11. CASE LeavePendingFunctors
  BY <1>11 DEF LeavePendingFunctors
<1>12. CASE PollTimeout
  BY <1>12 DEF PollTimeout
<1>13. CASE LoopQuit
  BY <1>13 DEF LoopQuit
<1>14. ASSUME NEW f \in Functor, LoopQueueInLoop(f)
      PROVE  [Promise!Next]_(Promise!vars)
  BY <1>14, ConcatAppend DEF LoopQueueInLoop, Promise!Next, Promise!HandOver
<1>15. ASSUME NEW f \in Functor, LoopRunInLoop(f)
      PROVE  [Promise!Next]_(Promise!vars)
  BY <1>15 DEF LoopRunInLoop
<1>16. ASSUME NEW w \in Worker, Quit(w)
      PROVE  [Promise!Next]_(Promise!vars)
  BY <1>16 DEF Quit
<1>17. ASSUME NEW w \in Worker, Wakeup(w)
      PROVE  [Promise!Next]_(Promise!vars)
  BY <1>17 DEF Wakeup
<1>18. ASSUME NEW w \in Worker, NEW f \in Functor, QueueInLoop(w, f)
      PROVE  [Promise!Next]_(Promise!vars)
  BY <1>18, ConcatAppend DEF QueueInLoop, Promise!Next, Promise!HandOver
<1>19. CASE UNCHANGED vars
  BY <1>19 DEF vars
<1>20. CASE Finished
  BY <1>19, <1>20 DEF Finished
<1> QED
  BY <1>1, <1>2, <1>3, <1>4, <1>5, <1>6, <1>7, <1>8, <1>9, <1>10, <1>11,
     <1>12, <1>13, <1>14, <1>15, <1>16, <1>17, <1>18, <1>19, <1>20
     DEF Next, LoopStep, UserStep, WorkerStep

\* EventLoop implements TaskQueue: functors queued by any thread run on the
\* loop thread once each and in hand-over order, across the swap that moves
\* them from pending_functors_ to the local batch.
THEOREM Implementation == Spec => ImplementsTaskQueue
<1>1. Init => Promise!Init
  BY DEF Init, Promise!Init
<1>2. IInv /\ [Next]_vars => [Promise!Next]_(Promise!vars)
  BY NextPromise DEF IInv
<1> QED
  BY <1>1, <1>2, Inductive, PTL DEF Spec, ImplementsTaskQueue, Promise!Spec
=============================================================================
