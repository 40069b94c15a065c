------------------------------ MODULE EventLoop ------------------------------
(***************************************************************************)
(* fm::net::EventLoop (src/net/EventLoop.cpp): one thread runs loop();     *)
(* other threads hand functors to it with queueInLoop / runInLoop and ask  *)
(* it to stop with quit().  The only synchronisation is the mutex around   *)
(* pending_functors_, four atomic flags and the eventfd wakeup_fd_.        *)
(*                                                                         *)
(* Every step between two accesses to shared state is an action of its     *)
(* own.  A step of the loop thread that touches shared state once, or      *)
(* whose later accesses only the loop thread can observe, is one action.   *)
(***************************************************************************)
EXTENDS Naturals, Sequences, Functions

CONSTANTS
  Worker,      \* the threads, other than the loop's own, that use the loop
  Functor,     \* callable objects; each is handed over at most once
  MayQuit,     \* TRUE when workers, callbacks and functors may call quit()
  EarlyWork    \* TRUE when the loop's thread uses the loop before loop()

ASSUME EventLoopAssumption ==
  /\ MayQuit \in BOOLEAN
  /\ EarlyWork \in BOOLEAN

VARIABLES
  pc,          \* where the loop thread is
  looping,     \* looping_
  quit,        \* quit_
  calling,     \* calling_pending_functors_
  pending,     \* pending_functors_
  functors,    \* the local batch of doPendingFunctors()
  wakeupFd,    \* TRUE when the counter of wakeup_fd_ is not zero
  active,      \* active_channels_ not handled yet: "wakeup", "io"
  wpc,         \* where each worker is
  unused,      \* functors nobody has handed over yet
  early,       \* functors the loop thread queued before loop()
  executed     \* functors taken from the queue and started, in order

loopVars   == <<pc, looping, quit, calling, active>>
queueVars  == <<pending, functors, executed, unused, early>>
vars == <<pc, looping, quit, calling, pending, functors, wakeupFd, active,
          wpc, unused, early, executed>>

Channels == {"wakeup", "io"}

\* "created"  the constructor is done, loop() is not called yet
\* "test"     at while (!quit_)
\* "poll"     blocked in poller_->poll()
\* "dispatch" in the for loop over active_channels_
\* "callback" inside the callback of a channel that is not the wakeup one
\* "swap"     in doPendingFunctors(), flag set, queue not yet swapped
\* "run"      in the for loop over the swapped batch
\* "functor"  inside a functor of the batch
\* "stopped"  loop() has returned
PCs == {"created", "test", "poll", "dispatch", "callback", "swap", "run",
        "functor", "stopped"}

TypeOK ==
  /\ pc \in PCs
  /\ looping \in BOOLEAN
  /\ quit \in BOOLEAN
  /\ calling \in BOOLEAN
  /\ pending \in Seq(Functor)
  /\ functors \in Seq(Functor)
  /\ wakeupFd \in BOOLEAN
  /\ active \in SUBSET Channels
  /\ wpc \in [Worker -> {"idle", "wakeup"}]
  /\ unused \in SUBSET Functor
  /\ early \in SUBSET Functor
  /\ executed \in Seq(Functor)

Init ==
  /\ pc = "created"
  /\ looping = FALSE
  /\ quit = FALSE
  /\ calling = FALSE
  /\ pending = <<>>
  /\ functors = <<>>
  /\ wakeupFd = FALSE
  /\ active = {}
  /\ wpc = [w \in Worker |-> "idle"]
  /\ unused = Functor
  /\ early = {}
  /\ executed = <<>>

-----------------------------------------------------------------------------
(* Calls of other threads.                                                 *)

QueueInLoop_NoWakeup(w, f) ==
  /\ wpc[w] = "idle"
  /\ f \in unused
  /\ pending' = Append(pending, f)
  /\ unused' = unused \ {f}
  /\ UNCHANGED <<wpc, loopVars, functors, wakeupFd, early, executed>>

\* queueInLoop (and runInLoop) outside the loop thread: the push under the
\* mutex.  The wakeup() that follows the unlock is the separate step Wakeup.
QueueInLoop(w, f) ==
  /\ wpc[w] = "idle"
  /\ f \in unused
  /\ pending' = Append(pending, f)
  /\ unused' = unused \ {f}
  /\ wpc' = [wpc EXCEPT ![w] = "wakeup"]
  /\ UNCHANGED <<loopVars, functors, wakeupFd, early, executed>>

Quit_NoWakeup(w) ==
  /\ MayQuit
  /\ wpc[w] = "idle"
  /\ quit' = TRUE
  /\ UNCHANGED <<pc, looping, calling, active, queueVars, wakeupFd, wpc>>

\* quit() outside the loop thread: the store; its wakeup() is Wakeup.
Quit(w) ==
  /\ MayQuit
  /\ wpc[w] = "idle"
  /\ quit' = TRUE
  /\ wpc' = [wpc EXCEPT ![w] = "wakeup"]
  /\ UNCHANGED <<pc, looping, calling, active, queueVars, wakeupFd>>

\* wakeup(): the eventfd's counter becomes nonzero.
Wakeup(w) ==
  /\ wpc[w] = "wakeup"
  /\ wakeupFd' = TRUE
  /\ wpc' = [wpc EXCEPT ![w] = "idle"]
  /\ UNCHANGED <<loopVars, queueVars>>

-----------------------------------------------------------------------------
(* Calls of the code that runs on the loop thread itself: what the program *)
(* does between the constructor and loop(), channel callbacks, functors.   *)

InUserCode ==
  \/ pc \in {"callback", "functor"}
  \/ pc = "created" /\ EarlyWork

LoopQueueInLoop_NeverWakes(f) ==
  /\ InUserCode
  /\ f \in unused
  /\ pending' = Append(pending, f)
  /\ unused' = unused \ {f}
  /\ early' = IF pc = "created" THEN early \cup {f} ELSE early
  /\ UNCHANGED <<loopVars, functors, executed, wpc, wakeupFd>>

\* queueInLoop on the loop thread wakes the loop only inside a functor of
\* the batch (calling_pending_functors_).  One action: nobody but this
\* thread swaps the queue or reads the eventfd.
LoopQueueInLoop(f) ==
  /\ InUserCode
  /\ f \in unused
  /\ pending' = Append(pending, f)
  /\ unused' = unused \ {f}
  /\ early' = IF pc = "created" THEN early \cup {f} ELSE early
  /\ wakeupFd' = (wakeupFd \/ calling)
  /\ UNCHANGED <<loopVars, functors, executed, wpc>>

\* runInLoop on the loop thread: the functor runs at once, on this stack.
LoopRunInLoop(f) ==
  /\ InUserCode
  /\ f \in unused
  /\ unused' = unused \ {f}
  /\ UNCHANGED <<loopVars, pending, functors, executed, early, wpc, wakeupFd>>

\* quit() on the loop thread: no wakeup.
LoopQuit ==
  /\ MayQuit
  /\ InUserCode
  /\ quit' = TRUE
  /\ UNCHANGED <<pc, looping, calling, active, queueVars, wakeupFd, wpc>>

-----------------------------------------------------------------------------
(* loop().                                                                 *)

\* Entry of loop(): assert(!looping_), then the two stores.
LoopEnter ==
  /\ pc = "created"
  /\ pc' = "test"
  /\ looping' = TRUE
  /\ quit' = FALSE
  /\ UNCHANGED <<calling, active, queueVars, wakeupFd, wpc>>

\* while (!quit_), active_channels_.clear(); or the return of loop().
TestQuit ==
  /\ pc = "test"
  /\ pc' = IF quit THEN "stopped" ELSE "poll"
  /\ looping' = ~quit
  /\ active' = {}
  /\ UNCHANGED <<quit, calling, queueVars, wakeupFd, wpc>>

\* poll() returns: epoll is level triggered, so the wakeup channel is
\* active exactly when its counter is not zero; any other channel may be.
PollReturn ==
  /\ pc = "poll"
  /\ \E io \in SUBSET {"io"} :
       active' = io \cup (IF wakeupFd THEN {"wakeup"} ELSE {})
  /\ active' # {}
  /\ pc' = "dispatch"
  /\ UNCHANGED <<looping, quit, calling, queueVars, wakeupFd, wpc>>

\* poll() returns with nothing: kPollTimeMs has passed, or EINTR.
PollTimeout ==
  /\ pc = "poll"
  /\ ~wakeupFd
  /\ active' = {}
  /\ pc' = "dispatch"
  /\ UNCHANGED <<looping, quit, calling, queueVars, wakeupFd, wpc>>

\* handleRead(): reading the eventfd sets its counter to zero.
HandleRead ==
  /\ pc = "dispatch"
  /\ "wakeup" \in active
  /\ active' = active \ {"wakeup"}
  /\ wakeupFd' = FALSE
  /\ UNCHANGED <<pc, looping, quit, calling, queueVars, wpc>>

\* Another channel's handleEvent().
HandleEvent ==
  /\ pc = "dispatch"
  /\ "io" \in active
  /\ active' = active \ {"io"}
  /\ pc' = "callback"
  /\ UNCHANGED <<looping, quit, calling, queueVars, wakeupFd, wpc>>

CallbackReturn ==
  /\ pc = "callback"
  /\ pc' = "dispatch"
  /\ UNCHANGED <<looping, quit, calling, active, queueVars, wakeupFd, wpc>>

\* doPendingFunctors() begins: calling_pending_functors_ = true.
EnterPendingFunctors ==
  /\ pc = "dispatch"
  /\ active = {}
  /\ calling' = TRUE
  /\ pc' = "swap"
  /\ UNCHANGED <<looping, quit, active, queueVars, wakeupFd, wpc>>

\* The queue is read and cleared in two critical sections, so that what is
\* pushed between them is lost; here: the last functor pushed.
Swap_Torn ==
  /\ pc = "swap"
  /\ functors' = IF Len(pending) > 1 THEN SubSeq(pending, 1, Len(pending) - 1)
                 ELSE pending
  /\ pending' = <<>>
  /\ pc' = "run"
  /\ UNCHANGED <<looping, quit, calling, active, executed, unused, early,
                 wakeupFd, wpc>>

\* functors.swap(pending_functors_) under the mutex.
Swap ==
  /\ pc = "swap"
  /\ functors' = pending
  /\ pending' = <<>>
  /\ pc' = "run"
  /\ UNCHANGED <<looping, quit, calling, active, executed, unused, early,
                 wakeupFd, wpc>>

\* The next functor of the batch starts.
RunFunctor ==
  /\ pc = "run"
  /\ functors # <<>>
  /\ executed' = Append(executed, Head(functors))
  /\ functors' = Tail(functors)
  /\ pc' = "functor"
  /\ UNCHANGED <<looping, quit, calling, active, pending, unused, early,
                 wakeupFd, wpc>>

FunctorReturn ==
  /\ pc = "functor"
  /\ pc' = "run"
  /\ UNCHANGED <<looping, quit, calling, active, queueVars, wakeupFd, wpc>>

\* The batch is done: calling_pending_functors_ = false.
LeavePendingFunctors ==
  /\ pc = "run"
  /\ functors = <<>>
  /\ calling' = FALSE
  /\ pc' = "test"
  /\ UNCHANGED <<looping, quit, active, queueVars, wakeupFd, wpc>>

-----------------------------------------------------------------------------
\* What the loop thread does by itself, whether or not a timeout comes.
LoopStep ==
  \/ LoopEnter \/ TestQuit \/ PollReturn
  \/ HandleRead \/ HandleEvent \/ CallbackReturn
  \/ EnterPendingFunctors \/ Swap \/ RunFunctor \/ FunctorReturn
  \/ LeavePendingFunctors

UserStep ==
  \/ LoopQuit
  \/ \E f \in Functor : LoopQueueInLoop(f) \/ LoopRunInLoop(f)

WorkerStep(w) ==
  \/ Quit(w)
  \/ Wakeup(w)
  \/ \E f \in Functor : QueueInLoop(w, f)

\* loop() has returned and no worker is inside a call.
Finished ==
  /\ pc = "stopped"
  /\ UNCHANGED vars

Next ==
  \/ LoopStep
  \/ PollTimeout
  \/ UserStep
  \/ \E w \in Worker : WorkerStep(w)
  \/ Finished

Spec == Init /\ [][Next]_vars

\* The scheduler runs the loop thread and completes a wakeup() that a
\* worker has begun.  Nothing forces a timeout, an I/O event or a call.
\* When the loop is blocked in poll(), it is only the eventfd that makes
\* LoopStep's PollReturn enabled for good.
FairSpec ==
  /\ Spec
  /\ WF_vars(LoopStep /\ (pc = "poll" => wakeupFd))
  /\ \A w \in Worker : WF_vars(Wakeup(w))

-----------------------------------------------------------------------------
(* Properties.                                                             *)

\* A worker has pushed or set quit_ and has yet to write the eventfd.
Waking == \E w \in Worker : wpc[w] = "wakeup"

\* No lost wakeup (EventLoop::queueInLoop, doPendingFunctors): the loop
\* never sleeps in poll() on a functor that another thread, a callback or a
\* functor has queued, unless the eventfd is already readable or the thread
\* that queued it is about to make it so.  Functors the loop's own thread
\* queued before loop() are the exception: they wait for the next event or
\* the ten-second timeout.
NoLostWakeup ==
  pc = "poll" /\ ~(Range(pending) \subseteq early) => wakeupFd \/ Waking

\* No lost quit (EventLoop::quit): the loop never sleeps in poll() with
\* quit_ set unless it is being woken up.
NoLostQuit ==
  pc = "poll" /\ quit => wakeupFd \/ Waking

\* The flag calling_pending_functors_ tells the loop thread exactly when
\* the queue has been swapped and will not be looked at again before poll(),
\* and the batch of doPendingFunctors() is never left half done.
FlagCoversBatch ==
  /\ calling <=> pc \in {"swap", "run", "functor"}
  /\ functors # <<>> => pc \in {"run", "functor"}

\* The loop implements the queue it promises: refinement.
Promise == INSTANCE TaskQueue WITH queue <- functors \o pending
ImplementsTaskQueue == Promise!Spec

\* A functor handed over while the loop runs is started without the help of
\* the poll timeout, unless the loop is told to quit.
HandedOverIsRun ==
  \A f \in Functor :
    (f \in Range(pending) \ early) ~> (f \in Range(executed) \/ quit)

\* A quit() that arrives once loop() has begun makes loop() return.
QuitStopsLoop == (quit /\ looping) ~> (pc = "stopped")
=============================================================================
