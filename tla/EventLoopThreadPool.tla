------------------------- MODULE EventLoopThreadPool -------------------------
(***************************************************************************)
(* fm::net::EventLoopThreadPool (src/net/EventLoopThreadPool.cpp) and its  *)
(* EventLoopThreads (src/net/EventLoopThread.cpp): threads whose stacks    *)
(* hold an EventLoop, started and destroyed one after the other by the     *)
(* thread of the base loop, the owner.                                     *)
(*                                                                         *)
(* A loop is its queue of functors and its flag quit_, the queue in the    *)
(* sense of TaskQueue, which module EventLoop implements: a loop does not  *)
(* sleep on a functor or on a quit().  Loop 0 is the base loop.            *)
(***************************************************************************)
EXTENDS Naturals, Sequences, FiniteSets

CONSTANT MaxThreads    \* bound: threads of a pool

ASSUME PoolAssumption == MaxThreads \in Nat

Base == 0
Thread == 1..MaxThreads

VARIABLES
  numThreads,  \* numThreads_
  next,        \* next_
  owner, at,   \* where the owner is, and at which EventLoopThread
  tpc,         \* each thread: where threadFunc() is
  loopPtr,     \* each EventLoopThread: loop_ is not null
  quit,        \* each loop: quit_
  pending,     \* each loop: pending_functors_
  batch,       \* each loop: the functors that doPendingFunctors() runs
  erased       \* history: loop() has erased a quit()

threadVars == <<tpc, loopPtr, quit, erased>>
poolVars == <<numThreads, next, owner, at>>
loopVars == <<pending, batch>>
vars == <<poolVars, threadVars, loopVars>>

ThreadPC == {"none", "construct", "publish", "enter", "test", "poll", "swap",
             "run", "unpublish", "unwind", "exited"}

Init ==
  /\ numThreads \in 0..MaxThreads
  /\ next = 0
  /\ owner = "new"
  /\ at = 1
  /\ tpc = [i \in Thread |-> "none"]
  /\ loopPtr = [i \in Thread |-> FALSE]
  /\ quit = [i \in Thread |-> FALSE]
  /\ pending = [i \in {Base} \cup Thread |-> <<>>]
  /\ batch = [i \in Thread |-> <<>>]
  /\ erased = [i \in Thread |-> FALSE]

\* The EventLoop on the thread's stack exists.
Alive(i) == tpc[i] \notin {"none", "construct", "exited"}
Goto(i, label) == tpc' = [tpc EXCEPT ![i] = label]

-----------------------------------------------------------------------------
(* threadFunc() and loop(), thread i                                       *)

\* EventLoop loop;
Construct(i) ==
  /\ tpc[i] = "construct"
  /\ Goto(i, "publish")
  /\ UNCHANGED <<poolVars, loopPtr, quit, erased, loopVars>>

\* loop_ = &loop; cond_.notify_all(), under the mutex.
Publish(i) ==
  /\ tpc[i] = "publish"
  /\ loopPtr' = [loopPtr EXCEPT ![i] = TRUE]
  /\ Goto(i, "enter")
  /\ UNCHANGED <<poolVars, quit, erased, loopVars>>

\* The first lines of loop(): quit_ = false.
Enter(i) ==
  /\ tpc[i] = "enter"
  /\ quit' = [quit EXCEPT ![i] = FALSE]
  /\ erased' = [erased EXCEPT ![i] = quit[i]]
  /\ Goto(i, "test")
  /\ UNCHANGED <<poolVars, loopPtr, loopVars>>

\* while (!quit_).
TestQuit(i) ==
  /\ tpc[i] = "test"
  /\ Goto(i, IF quit[i] THEN "unpublish" ELSE "poll")
  /\ UNCHANGED <<poolVars, loopPtr, quit, erased, loopVars>>

\* poll() returns because of a functor or of quit().
PollReturn(i) ==
  /\ tpc[i] = "poll"
  /\ pending[i] # <<>> \/ quit[i]
  /\ Goto(i, "swap")
  /\ UNCHANGED <<poolVars, loopPtr, quit, erased, loopVars>>

Swap(i) ==
  /\ tpc[i] = "swap"
  /\ batch' = [batch EXCEPT ![i] = pending[i]]
  /\ pending' = [pending EXCEPT ![i] = <<>>]
  /\ Goto(i, "run")
  /\ UNCHANGED <<poolVars, loopPtr, quit, erased>>

EndOfBatch(i) ==
  /\ tpc[i] = "run"
  /\ batch[i] = <<>>
  /\ Goto(i, "test")
  /\ UNCHANGED <<poolVars, loopPtr, quit, erased, loopVars>>

\* loop() has returned: loop_ = nullptr under the mutex.
Unpublish(i) ==
  /\ tpc[i] = "unpublish"
  /\ loopPtr' = [loopPtr EXCEPT ![i] = FALSE]
  /\ Goto(i, "unwind")
  /\ UNCHANGED <<poolVars, quit, erased, loopVars>>

\* ~EventLoop(), and with it the functors that were not run.
Unwind(i) ==
  /\ tpc[i] = "unwind"
  /\ pending' = [pending EXCEPT ![i] = <<>>]
  /\ Goto(i, "exited")
  /\ UNCHANGED <<poolVars, loopPtr, quit, erased, batch>>

ThreadStep(i) ==
  \/ Construct(i) \/ Publish(i) \/ Enter(i) \/ TestQuit(i) \/ PollReturn(i)
  \/ Swap(i) \/ EndOfBatch(i) \/ Unpublish(i) \/ Unwind(i)

-----------------------------------------------------------------------------
(* The owner: start(), getNextLoop() and the destructor                    *)

\* start(): a new EventLoopThread, startLoop() ...
StartLoop ==
  /\ owner = "start"
  /\ owner' = "wait"
  /\ Goto(at, "construct")
  /\ UNCHANGED <<numThreads, next, at, loopPtr, quit, erased, loopVars>>

\* The loop's pointer is not waited for.
StartLoopReturn_NoWait ==
  /\ owner = "wait"
  /\ at' = at + 1
  /\ owner' = IF at = numThreads THEN "listen" ELSE "start"
  /\ UNCHANGED <<numThreads, next, threadVars, loopVars>>

\* ... and its while (!loop_) cond_.wait(lock).
StartLoopReturn ==
  /\ owner = "wait"
  /\ loopPtr[at]
  /\ at' = at + 1
  /\ owner' = IF at = numThreads THEN "listen" ELSE "start"
  /\ UNCHANGED <<numThreads, next, threadVars, loopVars>>

\* getNextLoop(): the loop, and next_ afterwards.
NextLoop == IF numThreads = 0 THEN Base ELSE next + 1
NextIndex == IF numThreads = 0 THEN next ELSE (next + 1) % numThreads

\* ~EventLoopThread(): if (loop_), read without the mutex.  A thread that is
\* neither joined nor detached ends the program (std::terminate).
DtorTest ==
  /\ owner = "dtor"
  /\ owner' = IF at > numThreads THEN "gone"
              ELSE IF loopPtr[at] THEN "quit" ELSE "terminate"
  /\ UNCHANGED <<numThreads, next, at, threadVars, loopVars>>

\* join() without quit().
DtorQuit_Missing ==
  /\ owner = "quit"
  /\ owner' = "join"
  /\ UNCHANGED <<numThreads, next, at, threadVars, loopVars>>

\* loop_->quit().
DtorQuit ==
  /\ owner = "quit"
  /\ quit' = [quit EXCEPT ![at] = TRUE]
  /\ owner' = "join"
  /\ UNCHANGED <<numThreads, next, at, tpc, loopPtr, erased, loopVars>>

\* thread_->join(), and the next EventLoopThread.
DtorJoin ==
  /\ owner = "join"
  /\ tpc[at] = "exited"
  /\ at' = at + 1
  /\ owner' = "dtor"
  /\ UNCHANGED <<numThreads, next, threadVars, loopVars>>

OwnerStep == StartLoop \/ StartLoopReturn \/ DtorTest \/ DtorQuit \/ DtorJoin

-----------------------------------------------------------------------------
\* No EventLoop is used before it is constructed or after its thread's stack
\* unwinds, from the return of start() up to and including the destructor's
\* store quit_ = true.  (The wakeup() after that store is not covered: a loop
\* that is between two polls sees the flag, returns and is destroyed first.)
\* And ~EventLoopThread() never finds loop_ null while thread_ is joinable.
LoopAliveWhenUsed ==
  /\ \A i \in 1..numThreads :
       \/ owner \in {"listen", "running", "closing"}
       \/ owner \in {"dtor", "quit"} /\ i >= at
       => Alive(i)
  /\ owner # "terminate"

\* The destructor joins every thread, unless its quit() overtook the thread
\* between the publication of loop_ and the first line of loop(), where
\* quit_ = false erases it: then join() waits for ever.
HangOnlyIfQuitErased ==
  (owner = "dtor") ~> (owner = "gone" \/ \E i \in Thread : erased[i])
=============================================================================
