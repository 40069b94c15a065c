----------------------------- MODULE ThreadPool -----------------------------
(***************************************************************************)
(* fm::util::ThreadPool (src/util/ThreadPool.cpp): clients submit tasks,   *)
(* worker threads take and run them, stop() joins the workers.             *)
(*                                                                         *)
(* A critical section of mutex_ is one action.  cond.wait(lock, pred)      *)
(* tests pred, and sleeps while it is false: a sleeper leaves the wait set *)
(* when it is notified and tests pred again.  Waking up spuriously changes *)
(* nothing while pred is false, and no sleeper relies on it.               *)
(***************************************************************************)
EXTENDS Naturals, Sequences, FiniteSets, Functions

CONSTANTS
  Client,     \* threads that call submit()
  Thread,     \* worker threads that setThreadNum() may ask for
  Task,       \* tasks; each is submitted at most once
  Sizes       \* the values of the constructor's maxSize

ASSUME ThreadPoolAssumption == Sizes \subseteq Nat

NoTask == <<>>   \* no member of Task

VARIABLES
  maxSize,    \* max_size_
  threads,    \* threads_
  queue,      \* queue_
  running,    \* running_
  client,     \* each client: the task it is submitting, or NoTask
  notFull,    \* clients asleep on not_full_
  worker,     \* each worker: where it is
  notEmpty,   \* workers asleep on not_empty_
  main,       \* the thread that calls start() and stop()
  unused,     \* tasks not submitted yet
  done        \* tasks that have been run, in order

vars == <<maxSize, threads, queue, running, client, notFull, worker, notEmpty,
          main, unused, done>>
config == <<maxSize, threads>>
poolVars == <<queue, running, unused>>

\* "test" at while (running_ || !isEmptyQueue()); "take" about to lock in
\* take(); "exit" the thread's function has returned.
WorkerState == {"none", "test", "take", "exit"}

TypeOK ==
  /\ maxSize \in Sizes
  /\ threads \in SUBSET Thread
  /\ queue \in Seq(Task)
  /\ running \in BOOLEAN
  /\ client \in [Client -> {NoTask} \cup Task]
  /\ notFull \in SUBSET Client
  /\ worker \in [Thread -> WorkerState]
  /\ notEmpty \in SUBSET Thread
  /\ main \in {"new", "started", "joining", "joined"}
  /\ unused \in SUBSET Task
  /\ done \in Seq(Task)

Init ==
  /\ maxSize \in Sizes
  /\ threads = {}
  /\ queue = <<>>
  /\ running = FALSE
  /\ client = [c \in Client |-> NoTask]
  /\ notFull = {}
  /\ worker = [t \in Thread |-> "none"]
  /\ notEmpty = {}
  /\ main = "new"
  /\ unused = Task
  /\ done = <<>>

\* notify_one(): some sleeper, if there is one.
NotifyOne(sleepers, left) ==
  \/ sleepers = {} /\ left = {}
  \/ \E s \in sleepers : left = sleepers \ {s}

-----------------------------------------------------------------------------
(* start() and stop()                                                      *)

SetThreadNum(S) ==
  /\ main = "new"
  /\ threads' = S
  /\ UNCHANGED <<maxSize, poolVars, client, notFull, worker, notEmpty, main,
                 done>>

Start ==
  /\ main = "new"
  /\ main' = "started"
  /\ running' = TRUE
  /\ worker' = [t \in Thread |-> IF t \in threads THEN "test" ELSE "none"]
  /\ UNCHANGED <<config, queue, client, notFull, notEmpty, unused, done>>

\* The workers are woken and running_ is left as it is.
Stop_NotifyOnly ==
  /\ main = "started"
  /\ main' = "joining"
  /\ notEmpty' = {}
  /\ UNCHANGED <<config, queue, running, client, notFull, worker, unused, done>>

\* stop(), the critical section: running_ = false, not_empty_.notify_all().
Stop ==
  /\ main = "started"
  /\ main' = "joining"
  /\ running' = FALSE
  /\ notEmpty' = {}
  /\ UNCHANGED <<config, queue, client, notFull, worker, unused, done>>

\* stop(), the joins.
Join ==
  /\ main = "joining"
  /\ \A t \in threads : worker[t] = "exit"
  /\ main' = "joined"
  /\ UNCHANGED <<config, poolVars, client, notFull, worker, notEmpty, done>>

-----------------------------------------------------------------------------
(* submit()                                                                *)

\* Without worker threads the task is run by the caller.
SubmitInline(c, task) ==
  /\ threads = {}
  /\ main = "started"
  /\ client[c] = NoTask
  /\ task \in unused
  /\ unused' = unused \ {task}
  /\ done' = Append(done, task)
  /\ UNCHANGED <<config, queue, running, client, notFull, worker, notEmpty, main>>

Submit(c, task) ==
  /\ threads # {}
  /\ main = "started"
  /\ client[c] = NoTask
  /\ task \in unused
  /\ unused' = unused \ {task}
  /\ client' = [client EXCEPT ![c] = task]
  /\ UNCHANGED <<config, queue, running, notFull, worker, notEmpty, main, done>>

\* The predicate submit() waits for.
SubmitPred == Len(queue) >= maxSize

\* not_full_.wait(): the predicate is false.
SubmitWait(c) ==
  /\ client[c] # NoTask
  /\ c \notin notFull
  /\ ~SubmitPred
  /\ notFull' = notFull \cup {c}
  /\ UNCHANGED <<config, poolVars, client, worker, notEmpty, main, done>>

\* The predicate is true: push, unlock, not_empty_.notify_one().
SubmitPush(c) ==
  /\ client[c] # NoTask
  /\ c \notin notFull
  /\ SubmitPred
  /\ queue' = Append(queue, client[c])
  /\ client' = [client EXCEPT ![c] = NoTask]
  /\ NotifyOne(notEmpty, notEmpty')
  /\ UNCHANGED <<config, running, notFull, worker, main, unused, done>>

-----------------------------------------------------------------------------
(* runInThread() and take()                                                *)

\* while (running_ || !isEmptyQueue()).
WorkerTest(t) ==
  /\ worker[t] = "test"
  /\ worker' = [worker EXCEPT ![t] =
                  IF running \/ queue # <<>> THEN "take" ELSE "exit"]
  /\ UNCHANGED <<config, poolVars, client, notFull, notEmpty, main, done>>

\* The predicate take() waits for.
TakePred == queue = <<>> /\ running

TakeWait(t) ==
  /\ worker[t] = "take"
  /\ t \notin notEmpty
  /\ ~TakePred
  /\ notEmpty' = notEmpty \cup {t}
  /\ UNCHANGED <<config, poolVars, client, notFull, worker, main, done>>

\* The predicate is true: pop the front task if there is one, unlock,
\* not_full_.notify_one(); runInThread() runs the task that was popped.
TakeReturn(t) ==
  /\ worker[t] = "take"
  /\ t \notin notEmpty
  /\ TakePred
  /\ worker' = [worker EXCEPT ![t] = "test"]
  /\ queue' = IF queue = <<>> THEN queue ELSE Tail(queue)
  /\ done' = IF queue = <<>> THEN done ELSE Append(done, Head(queue))
  /\ NotifyOne(notFull, notFull')
  /\ UNCHANGED <<config, running, client, notEmpty, main, unused>>

-----------------------------------------------------------------------------
ClientStep(c) ==
  \/ SubmitWait(c) \/ SubmitPush(c)

ThreadStep(t) ==
  \/ WorkerTest(t) \/ TakeWait(t) \/ TakeReturn(t)

Next ==
  \/ \E S \in SUBSET Thread : SetThreadNum(S)
  \/ Start \/ Stop \/ Join
  \/ \E c \in Client :
       \/ ClientStep(c)
       \/ \E task \in Task : SubmitInline(c, task) \/ Submit(c, task)
  \/ \E t \in Thread : ThreadStep(t)

Spec == Init /\ [][Next]_vars

\* The scheduler runs every thread that is not asleep.
FairSpec ==
  /\ Spec
  /\ \A c \in Client : WF_vars(ClientStep(c))
  /\ \A t \in Thread : WF_vars(ThreadStep(t))
  /\ WF_vars(Join)

-----------------------------------------------------------------------------
\* submit(): a submitted task is handed to a worker, which runs it.
SubmittedIsRun ==
  \A task \in Task :
    (task \notin unused) ~> (task \in Range(done) \/ main # "started")

\* Whenever stop() is called, with tasks queued and clients and workers anywhere,
\* it returns or else a worker sleeps in take() for good, on a predicate that
\* stop() or a task in the queue has made false, and that nobody makes true again.
\* Nothing else keeps stop(): no worker goes on spinning, as idle ones do before,
\* and one that has left take() gets to its end.
StopReturnsUnlessAsleep ==
  (main = "joining")
    ~> (main = "joined" \/ [](\E t \in threads : t \in notEmpty))
=============================================================================
