----------------------------- MODULE TimerQueue -----------------------------
(***************************************************************************)
(* fm::net::TimerQueue (src/net/TimerQueue.cpp): the timers of one         *)
(* EventLoop, kept in timer_tree_ by expiration and in active_timers_ by   *)
(* TimerId, all served by one one-shot timerfd.  Timers are added and      *)
(* cancelled by other threads, through the loop's functor queue, and by    *)
(* the callbacks themselves, at once.                                      *)
(*                                                                         *)
(* A Timer is a heap block: its address may be that of an earlier Timer,   *)
(* its sequence number is new.  A TimerId is the pair <<address, number>>, *)
(* an entry of the tree the pair <<expiration, address>>.                  *)
(***************************************************************************)
EXTENDS Naturals, Sequences

CONSTANTS
  Ptr,        \* addresses
  Delay,      \* how far ahead timers are set
  Interval,   \* repeat intervals; 0 for a timer that runs once
  MaxTimers,  \* bound: timers created in a run
  MaxTime,    \* bound: how long the clock runs
  MaxQueue    \* bound: functors waiting

ASSUME TimerQueueAssumption ==
  /\ Delay \subseteq Nat /\ Interval \subseteq Nat
  /\ MaxTimers \in Nat /\ MaxTime \in Nat /\ MaxQueue \in Nat

VARIABLES
  now,        \* SystemClock::now(), which may be set
  mono,       \* CLOCK_MONOTONIC, the timerfd's, which may not
  alive,      \* the TimerQueue exists
  heap,       \* each address: the Timer there; its seq is 0 when free
  created,    \* numsTimerCreated_
  tree,       \* timer_tree_
  active,     \* active_timers_
  deleted,    \* deleted_timers_
  calling,    \* calling_expired_timers_
  batch,      \* expiredTimers of handleRead()
  todo,       \* those of the batch whose callback has not begun
  batchTime,  \* now of handleRead()
  armed,      \* the timerfd is set ...
  fdTime,     \* ... to this time; 0 if it is not
  functors,   \* addTimerInLoop and delTimerInLoop waiting in the loop
  ids,        \* TimerIds that addTimer() has returned
  cancelled   \* history: TimerIds that delTimerInLoop() found

clockVars == <<now, mono, alive>>
timerVars == <<heap, created, tree, active>>
batchVars == <<batch, todo, batchTime>>
fdVars == <<armed, fdTime>>
vars == <<clockVars, timerVars, deleted, calling, batchVars, fdVars, functors, ids,
          cancelled>>

TimerId == Ptr \X (1..MaxTimers)
TimerEntry == Nat \X Ptr
Timer == [seq : 0..MaxTimers, exp : Nat, interval : {0} \cup Interval]

Free == [seq |-> 0, exp |-> 0, interval |-> 0]
IdOf(p) == <<p, heap[p].seq>>

TypeOK ==
  /\ now \in 0..MaxTime + 1 /\ mono \in 0..MaxTime
  /\ alive \in BOOLEAN
  /\ heap \in [Ptr -> Timer]
  /\ created \in 0..MaxTimers
  /\ tree \in SUBSET TimerEntry
  /\ active \in SUBSET TimerId
  /\ deleted \in SUBSET TimerId
  /\ calling \in BOOLEAN
  /\ batch \in SUBSET TimerEntry
  /\ todo \in SUBSET TimerEntry
  /\ batchTime \in 0..MaxTime + 1
  /\ armed \in BOOLEAN
  /\ fdTime \in Nat
  /\ functors \in Seq({"add", "del"} \X TimerId)
  /\ ids \in SUBSET TimerId
  /\ cancelled \in SUBSET TimerId

Init ==
  /\ now = 0 /\ mono = 0
  /\ alive = TRUE
  /\ heap = [p \in Ptr |-> Free]
  /\ created = 0
  /\ tree = {} /\ active = {} /\ deleted = {}
  /\ calling = FALSE
  /\ batch = {} /\ todo = {} /\ batchTime = 0
  /\ armed = FALSE /\ fdTime = 0
  /\ functors = <<>>
  /\ ids = {}
  /\ cancelled = {}

-----------------------------------------------------------------------------
(* The operations on the loop's own thread.                                *)

Earlier(e, f) == e[1] <= f[1]
First(t) == CHOOSE e \in t : \A f \in t : Earlier(e, f)

\* timespecFromNow(): the time on the timerfd's clock; one that has passed is
\* the next instant.
Deadline(exp) == IF exp <= now THEN mono ELSE mono + (exp - now)

updateTimerfd(exp) ==
  /\ armed' = TRUE
  /\ fdTime' = Deadline(exp)

insertTimer_LastFirst(exp) == tree # {} /\ First(tree)[1] < exp

\* insertTimer() returns whether the new timer is the earliest one.
insertTimer(exp) == tree = {} \/ exp < First(tree)[1]

\* addTimerInLoop(), for the Timer t at address p.
addTimerInLoop(p, t) ==
  /\ tree' = tree \cup {<<t.exp, p>>}
  /\ active' = active \cup {<<p, t.seq>>}
  /\ IF insertTimer(t.exp) THEN updateTimerfd(t.exp) ELSE UNCHANGED fdVars

\* The TimerId is looked up by its address alone.
delTimerInLoop_ByAddress(id) ==
  /\ IF \E seq \in 1..MaxTimers : <<id[1], seq>> \in active
     THEN /\ tree' = tree \ {<<heap[id[1]].exp, id[1]>>}
          /\ active' = active \ {IdOf(id[1])}
          /\ heap' = [heap EXCEPT ![id[1]] = Free]
          /\ cancelled' = cancelled \cup {id}
          /\ UNCHANGED deleted
     ELSE UNCHANGED <<tree, active, heap, deleted, cancelled>>
  /\ UNCHANGED <<created, fdVars>>

\* A timer of the batch that is being run is not remembered as deleted.
delTimerInLoop_Forgets(id) ==
  /\ IF id \in active
     THEN /\ tree' = tree \ {<<heap[id[1]].exp, id[1]>>}
          /\ active' = active \ {id}
          /\ heap' = [heap EXCEPT ![id[1]] = Free]
     ELSE UNCHANGED <<tree, active, heap>>
  /\ cancelled' = IF id \in active \/ \E e \in batch : IdOf(e[2]) = id
                  THEN cancelled \cup {id} ELSE cancelled
  /\ UNCHANGED <<created, deleted, fdVars>>

\* The Timer is deleted, its entry in the tree stays.
delTimerInLoop_Dangling(id) ==
  /\ IF id \in active
     THEN /\ active' = active \ {id}
          /\ heap' = [heap EXCEPT ![id[1]] = Free]
     ELSE UNCHANGED <<active, heap>>
  /\ UNCHANGED <<created, tree, cancelled, deleted, fdVars>>

\* delTimerInLoop(): the timerfd stays as it is set.
delTimerInLoop(id) ==
  /\ IF id \in active
     THEN /\ tree' = tree \ {<<heap[id[1]].exp, id[1]>>}
          /\ active' = active \ {id}
          /\ heap' = [heap EXCEPT ![id[1]] = Free]
          /\ UNCHANGED deleted
     ELSE /\ deleted' = IF calling THEN deleted \cup {id} ELSE deleted
          /\ UNCHANGED <<tree, active, heap>>
  /\ cancelled' = IF id \in active \/ \E e \in batch : IdOf(e[2]) = id
                  THEN cancelled \cup {id} ELSE cancelled
  /\ UNCHANGED <<created, fdVars>>

\* new Timer(...): any free address.
NewTimer(p, t) ==
  /\ created < MaxTimers
  /\ heap[p] = Free
  /\ \E d \in Delay, i \in Interval :
       t = [seq |-> created + 1, exp |-> now + d, interval |-> i]
  /\ heap' = [heap EXCEPT ![p] = t]
  /\ created' = created + 1
  /\ ids' = ids \cup {<<p, t.seq>>}

NewTimers == [seq : {created + 1}, exp : {now + d : d \in Delay},
              interval : Interval]

-----------------------------------------------------------------------------
(* Other threads.                                                          *)

AddTimer(p, t) ==
  /\ Len(functors) < MaxQueue
  /\ NewTimer(p, t)
  /\ functors' = Append(functors, <<"add", <<p, t.seq>>>>)
  /\ UNCHANGED <<clockVars, tree, active, deleted, calling, batchVars, fdVars,
                 cancelled>>

DelTimer(id) ==
  /\ Len(functors) < MaxQueue
  /\ functors' = Append(functors, <<"del", id>>)
  /\ UNCHANGED <<clockVars, timerVars, deleted, calling, batchVars, fdVars, ids,
                 cancelled>>

-----------------------------------------------------------------------------
(* The loop.                                                               *)

\* User code is running on the loop's thread: a callback of the batch, or
\* outside handleRead() some channel's callback or functor.
InCallback == calling => todo # batch

\* addTimer() and delTimer() on the loop's thread: no functor is queued.
\* (A cancellation may so overtake the functor that adds the timer.)
CallbackAdd(p, t) ==
  /\ InCallback
  /\ NewTimer(p, t)
  /\ addTimerInLoop(p, t)
  /\ UNCHANGED <<clockVars, deleted, calling, batchVars, functors, cancelled>>

CallbackDel(id) ==
  /\ InCallback
  /\ delTimerInLoop(id)
  /\ UNCHANGED <<clockVars, calling, batchVars, functors, ids>>

RunAdd ==
  /\ ~calling
  /\ functors # <<>> /\ Head(functors)[1] = "add"
  /\ LET p == Head(functors)[2][1] IN addTimerInLoop(p, heap[p])
  /\ functors' = Tail(functors)
  /\ UNCHANGED <<clockVars, heap, created, deleted, calling, batchVars, ids,
                 cancelled>>

RunDel ==
  /\ ~calling
  /\ functors # <<>> /\ Head(functors)[1] = "del"
  /\ delTimerInLoop(Head(functors)[2])
  /\ functors' = Tail(functors)
  /\ UNCHANGED <<clockVars, calling, batchVars, ids>>

\* handleRead(): the timerfd has fired; getExpired() takes what is due.  Left out
\* is the report of a timerfd that a handler of the same poll has set again: its
\* read() gives EAGAIN, and what is due, if anything, is taken all the same.
HandleRead ==
  /\ ~calling
  /\ armed /\ fdTime <= mono
  /\ armed' = FALSE /\ fdTime' = 0
  /\ batchTime' = now
  /\ batch' = {e \in tree : e[1] <= now}
  /\ todo' = batch'
  /\ tree' = tree \ batch'
  /\ active' = {id \in active : \A e \in batch' : IdOf(e[2]) # id}
  /\ calling' = TRUE
  /\ deleted' = {}
  /\ UNCHANGED <<clockVars, heap, created, functors, ids, cancelled>>

\* The callbacks, in the order of their expirations; those of the same
\* expiration in the order of their addresses, which is any.
RunTimer ==
  /\ calling
  /\ \E e \in todo :
       /\ \A f \in todo : Earlier(e, f)
       /\ todo' = todo \ {e}
  /\ UNCHANGED <<clockVars, timerVars, deleted, calling, batch, batchTime, fdVars,
                 functors, ids, cancelled>>

\* The entries of the batch that resetTimer() starts again.
Restarted ==
  {e \in batch : heap[e[2]].interval > 0 /\ IdOf(e[2]) \notin deleted}

\* The timerfd is set again only if some timer was started again.
ResetTimer_Unarmed ==
  /\ calling /\ todo = {}
  /\ calling' = FALSE
  /\ batch' = {} /\ batchTime' = 0
  /\ heap' = [p \in Ptr |->
       IF \E e \in Restarted : e[2] = p
       THEN [heap[p] EXCEPT !.exp = batchTime + heap[p].interval]
       ELSE IF \E e \in batch : e[2] = p THEN Free ELSE heap[p]]
  /\ tree' = tree \cup {<<heap'[e[2]].exp, e[2]>> : e \in Restarted}
  /\ active' = active \cup {IdOf(e[2]) : e \in Restarted}
  /\ IF Restarted # {} THEN updateTimerfd(First(tree')[1]) ELSE UNCHANGED fdVars
  /\ UNCHANGED <<clockVars, created, deleted, todo, functors, ids,
                 cancelled>>

\* Timers that are not started again are not deleted either.
ResetTimer_Leak ==
  /\ calling /\ todo = {}
  /\ calling' = FALSE
  /\ batch' = {} /\ batchTime' = 0
  /\ heap' = [p \in Ptr |->
       IF \E e \in Restarted : e[2] = p
       THEN [heap[p] EXCEPT !.exp = batchTime + heap[p].interval]
       ELSE heap[p]]
  /\ tree' = tree \cup {<<heap'[e[2]].exp, e[2]>> : e \in Restarted}
  /\ active' = active \cup {IdOf(e[2]) : e \in Restarted}
  /\ IF tree' # {} THEN updateTimerfd(First(tree')[1]) ELSE UNCHANGED fdVars
  /\ UNCHANGED <<clockVars, created, deleted, todo, functors, ids,
                 cancelled>>

\* The end of handleRead(): resetTimer().
ResetTimer ==
  /\ calling /\ todo = {}
  /\ calling' = FALSE
  /\ batch' = {} /\ batchTime' = 0
  /\ heap' = [p \in Ptr |->
       IF \E e \in Restarted : e[2] = p
       THEN [heap[p] EXCEPT !.exp = batchTime + heap[p].interval]
       ELSE IF \E e \in batch : e[2] = p THEN Free ELSE heap[p]]
  /\ tree' = tree \cup {<<heap'[e[2]].exp, e[2]>> : e \in Restarted}
  /\ active' = active \cup {IdOf(e[2]) : e \in Restarted}
  /\ IF tree' # {} THEN updateTimerfd(First(tree')[1]) ELSE UNCHANGED fdVars
  /\ UNCHANGED <<clockVars, created, deleted, todo, functors, ids,
                 cancelled>>

\* ~TimerQueue(), with the loop: the timers of the tree are deleted, those in
\* functors that were not run are not.
DestroyQueue ==
  /\ ~calling
  /\ alive' = FALSE
  /\ armed' = FALSE /\ fdTime' = 0
  /\ heap' = [p \in Ptr |-> IF \E e \in tree : e[2] = p THEN Free ELSE heap[p]]
  /\ tree' = {} /\ active' = {} /\ deleted' = {}
  /\ ids' = {} /\ cancelled' = {}
  /\ UNCHANGED <<now, mono, created, calling, batchVars, functors>>

Tick ==
  /\ mono < MaxTime
  /\ mono' = mono + 1
  /\ now' = now + 1
  /\ UNCHANGED <<alive, timerVars, deleted, calling, batchVars, fdVars, functors,
                 ids, cancelled>>

\* The system's clock is set, once, ahead or back.
SetClock ==
  /\ now = mono /\ mono \in 1..MaxTime - 1
  /\ now' \in {now - 1, now + 1}
  /\ UNCHANGED <<mono, alive, timerVars, deleted, calling, batchVars, fdVars, functors,
                 ids, cancelled>>

-----------------------------------------------------------------------------
LoopStep == RunAdd \/ RunDel \/ HandleRead \/ RunTimer \/ ResetTimer

Next ==
  /\ alive
  /\ \/ LoopStep
     \/ DestroyQueue
     \/ Tick \/ SetClock
     \/ \E p \in Ptr, t \in NewTimers : AddTimer(p, t) \/ CallbackAdd(p, t)
     \/ \E id \in ids : DelTimer(id) \/ CallbackDel(id)

Spec == Init /\ [][Next]_vars

\* The clock goes on, epoll reports the timerfd, and the loop runs.
FairSpec ==
  /\ Spec
  /\ WF_vars(alive /\ Tick)
  /\ SF_vars(alive /\ HandleRead)
  /\ WF_vars(alive /\ RunTimer)
  /\ WF_vars(alive /\ ResetTimer)

-----------------------------------------------------------------------------
\* The two indices agree, whatever is added or cancelled meanwhile: the
\* tree has one entry for each active TimerId, under the expiration of its
\* Timer (the asserts on the two sizes and on every erase()).
SameTimers ==
  /\ TypeOK
  /\ active = {IdOf(e[2]) : e \in tree}
  /\ \A e \in tree : heap[e[2]].seq # 0 /\ heap[e[2]].exp = e[1]

\* No Timer is freed twice or used after it is freed: one that is in the
\* tree, in the batch that is being run, or on its way to the loop is on the
\* heap, and in one of the three places only; and none is leaked, not even by
\* the destructor but for functors that are never run.
PlacesOf(p) == {pl \in {"tree", "batch", "functor"} :
  \/ pl = "tree" /\ \E e \in tree : e[2] = p
  \/ pl = "batch" /\ \E e \in batch : e[2] = p
  \/ pl = "functor" /\ \E i \in DOMAIN functors :
       functors[i][1] = "add" /\ functors[i][2][1] = p}
NoDangling ==
  \A p \in Ptr :
    /\ \A a, b \in PlacesOf(p) : a = b
    /\ heap[p] # Free <=> PlacesOf(p) # {}

\* Outside handleRead() the timerfd is set, and not too late for the earliest
\* timer unless the system's clock was set ahead, even if it was set back and
\* the timerfd has fired for nothing.
ArmedForFirst ==
  ~calling /\ tree # {} => armed /\ (fdTime <= Deadline(First(tree)[1]) \/ now > mono)

\* A timer that delTimerInLoop() found, waiting or in the batch that is
\* being run, is never started again.
CancelSticks == cancelled \cap active = {}

\* A timer leaves the queue because it is due, with the queue, or because its own
\* TimerId was cancelled, not that of an earlier Timer at the same address.
OnlyOwnCancel ==
  [][\A id \in active \ active' :
       ~alive' \/ id \in cancelled' \/ \E e \in batch' : heap[e[2]].seq = id[2]]_vars

\* A timer that is due does not stay in the tree, whichever way the clock was
\* set: handleRead() takes it, or it was cancelled.
Due(p) == \E e \in tree : e[2] = p /\ e[1] <= now
DueIsTaken == \A p \in Ptr : Due(p) ~> ~Due(p)
=============================================================================
