------------------------------ MODULE TcpClient ------------------------------
(***************************************************************************)
(* fm::net::TcpClient (src/net/TcpClient.cpp) over its Connector: the loop *)
(* they run on, the user's calls on that thread and on a worker, and the   *)
(* destructor.  The life of a connection is that of module TcpConnection;  *)
(* here it is up until it is closed by an event or by forceClose().        *)
(***************************************************************************)
EXTENDS Connector, SequencesExt

CONSTANTS
  Worker,       \* threads other than the loop's that use the client
  MaxConnects,  \* bound: calls of TcpClient::connect()
  MaxQueue      \* bound: functors queued when a call is made

ASSUME TcpClientAssumption == MaxConnects \in Nat

VARIABLES
  clientConnect,  \* TcpClient::connect_
  retryOn,        \* retry_, see enableRetry()
  conn,           \* the descriptor of connection_, None if it is null
  alive,          \* the TcpClient exists
  orphan,         \* descriptors of connections that outlive the TcpClient
  phase,          \* the part of the iteration the loop is in
  active,         \* the events of this iteration that are not handled yet
  batch,          \* the functors of this iteration that have not run yet
  lpc,            \* "down": in the connection callback of a connection that
                  \* closes; "restart": removeConnection() is to restart
  fresh,          \* retry timers set since the functors were last taken, with
                  \* a channel that a functor is to free
  expired,        \* retry timers that handleRead() has taken and is to run
  wpc,            \* each worker's next step
  connects,       \* calls of connect()
  causes          \* history: what made the asserts fail, see AssertsHold

loopVars == <<phase, active, batch, lpc, fresh, expired>>
clientVars == <<clientConnect, retryOn, conn, alive, orphan>>
callVars == <<wpc, connects, causes>>
vars == <<connectorVars, loopVars, clientVars, callVars>>

Ops == {"start", "stop", "reset", "destroyed", "forceClose"}

TypeOK ==
  /\ connect \in BOOLEAN /\ clientConnect \in BOOLEAN
  /\ state \in {"kDisconnected", "kConnecting", "kConnected"}
  /\ channel \in Fd \cup {None} /\ conn \in Fd \cup {None}
  /\ watched \in BOOLEAN
  /\ open \subseteq Fd /\ orphan \subseteq Fd
  /\ timers \in Nat /\ fresh \in 0..timers /\ expired \in 0..timers
  /\ delay \in InitDelay..MaxDelay
  /\ queue \in Seq([op : Ops, fd : Fd \cup {None}])
  /\ batch \in Seq([op : Ops, fd : Fd \cup {None}])
  /\ abort \in {"none", "start", "connecting", "destructor", "callback"}
  /\ gaveUp \in BOOLEAN
  /\ retryOn \in BOOLEAN /\ alive \in BOOLEAN
  /\ phase \in {"poll", "events", "functors"}
  /\ active \subseteq {"channel", "timer", "conn"}
  /\ lpc \in {"idle", "down", "restart"}
  /\ wpc \in [Worker -> {"idle", "startFlag", "start", "stopFlag", "stop"}]
  /\ connects \in 0..MaxConnects
  /\ causes \subseteq {"again", "overruled", "hasty", "destroyed"}

Init ==
  /\ ConnectorInit
  /\ clientConnect = TRUE
  /\ retryOn \in BOOLEAN
  /\ conn = None
  /\ alive = TRUE
  /\ orphan = {}
  /\ phase = "poll"
  /\ active = {}
  /\ batch = <<>>
  /\ lpc = "idle"
  /\ fresh = 0 /\ expired = 0
  /\ wpc = [w \in Worker |-> "idle"]
  /\ connects = 0
  /\ causes = {}

\* The Connector exists: the TcpClient and the retry timers share it.
Alive == alive \/ timers > 0

Running(p) == abort = "none" /\ phase = p /\ lpc = "idle" /\ expired = 0

-----------------------------------------------------------------------------
(* The loop.                                                               *)

\* The timerfd may be readable for a timer of the user.
Poll ==
  /\ Running("poll")
  /\ phase' = "events"
  /\ active' \in SUBSET ((IF watched THEN {"channel"} ELSE {})
                    \cup (IF conn # None THEN {"conn"} ELSE {})
                    \cup {"timer"})
  /\ UNCHANGED <<connectorVars, batch, lpc, fresh, expired, clientVars, callVars>>

\* All events are handled: the pending functors become the batch.
Swap ==
  /\ Running("events")
  /\ active = {}
  /\ phase' = "functors"
  /\ batch' = queue
  /\ queue' = <<>>
  /\ fresh' = 0
  /\ UNCHANGED <<connect, attemptVars, abort, gaveUp, active, lpc, expired,
                 clientVars, callVars>>

EndOfBatch ==
  /\ Running("functors")
  /\ batch = <<>>
  /\ phase' = "poll"
  /\ UNCHANGED <<connectorVars, active, batch, lpc, fresh, expired, clientVars,
                 callVars>>

\* The functor at the head of the batch runs; one that captured the raw this of
\* a Connector that is gone is undefined, and the loop stops before it.  The
\* stopInLoop() that ~TcpClient() queues is one, unless a timer holds the Connector.
AtHead(op) ==
  /\ Running("functors")
  /\ batch # <<>>
  /\ Head(batch).op = op
  /\ op \in {"start", "stop", "reset"} => Alive
  /\ batch' = Tail(batch)
  /\ UNCHANGED <<connect, phase, active, expired, clientVars, callVars>>

RunStart ==
  /\ AtHead("start")
  /\ startInLoop(Now)
  /\ UNCHANGED <<queue, lpc, fresh>>

RunStop ==
  /\ AtHead("stop")
  /\ stopInLoop
  /\ fresh' = fresh + (timers' - timers)
  /\ UNCHANGED <<abort, gaveUp, lpc>>

RunReset ==
  /\ AtHead("reset")
  /\ resetChannel
  /\ UNCHANGED <<state, open, timers, delay, queue, abort, gaveUp, lpc, fresh>>

\* connectDestroyed(); the last TcpConnectionPtr goes, and the socket.
RunDestroyed ==
  /\ AtHead("destroyed")
  /\ open' = open \ {Head(batch).fd}
  /\ UNCHANGED <<state, channel, watched, timers, delay, queue, abort, gaveUp, lpc,
                 fresh>>

\* forceCloseInLoop(), on a connection that may be closed already.
RunForceClose ==
  /\ AtHead("forceClose")
  /\ lpc' = IF conn # None /\ conn = Head(batch).fd THEN "down" ELSE lpc
  /\ UNCHANGED <<attemptVars, queue, abort, gaveUp, fresh>>

-----------------------------------------------------------------------------
(* Handlers of events.                                                     *)

\* TimerQueue::handleRead() takes the timers that are due.  One that was set
\* while the functor that frees the channel is still queued is among them if
\* the delay, which is given in microseconds, is over.
HandleTimers ==
  /\ Running("events")
  /\ "timer" \in active
  /\ active' = active \ {"timer"}
  /\ expired' \in 0..timers
  /\ causes' = IF expired' > timers - fresh THEN causes \cup {"hasty"} ELSE causes
  /\ UNCHANGED <<connectorVars, phase, batch, lpc, fresh, clientVars, wpc, connects>>

\* The callback of a retry timer.  It may hold the last reference to the
\* Connector, whose destructor asserts that there is no channel.
RunTimer ==
  /\ abort = "none" /\ lpc = "idle"
  /\ expired > 0
  /\ expired' = expired - 1
  /\ IF ~alive /\ ~connect /\ timers = 1
     THEN /\ timers' = 0
          /\ Destructor
          /\ UNCHANGED <<state, channel, watched, open, delay, gaveUp>>
     ELSE startInLoop([Now EXCEPT !.timers = @ - 1])
  /\ fresh' = 0
  /\ UNCHANGED <<connect, queue, phase, active, batch, lpc, clientVars, callVars>>

\* The channel of the attempt is ready.  newConnection() is called on the
\* TcpClient through its raw this.
HandleChannel ==
  /\ Running("events")
  /\ "channel" \in active
  /\ active' = active \ {"channel"}
  /\ \/ handleFailure /\ UNCHANGED <<conn, abort>>
     \/ /\ handleSuccess
        /\ conn' = IF connect THEN channel ELSE conn
        /\ abort' = IF connect /\ ~alive THEN "callback" ELSE abort
  /\ fresh' = fresh + (timers' - timers)
  /\ UNCHANGED <<connect, gaveUp, phase, batch, lpc, expired, clientConnect,
                 retryOn, alive, orphan, callVars>>

\* An event of the connection closes it.
HandleClose ==
  /\ Running("events")
  /\ "conn" \in active
  /\ active' = active \ {"conn"}
  /\ lpc' = IF conn # None THEN "down" ELSE lpc
  /\ UNCHANGED <<connectorVars, phase, batch, fresh, expired, clientVars, callVars>>

\* The event was another one.
IgnoreConn ==
  /\ Running("events")
  /\ "conn" \in active
  /\ active' = active \ {"conn"}
  /\ UNCHANGED <<connectorVars, phase, batch, lpc, fresh, expired, clientVars,
                 callVars>>

\* removeConnection() up to its test of retry_ and connect_ ...
RemoveConnection ==
  /\ abort = "none"
  /\ lpc = "down"
  /\ conn' = None
  /\ queue' = Append(queue, Functor("destroyed", conn))
  /\ lpc' = IF retryOn /\ clientConnect THEN "restart" ELSE "idle"
  /\ UNCHANGED <<connect, attemptVars, abort, gaveUp, phase, active, batch,
                 fresh, expired, clientConnect, retryOn, alive, orphan, callVars>>

\* restart() begins without setState(kDisconnected).
Restart_KeepsState ==
  /\ abort = "none"
  /\ lpc = "restart"
  /\ lpc' = "idle"
  /\ connect' = TRUE
  /\ startInLoop([Now EXCEPT !.connect = TRUE, !.delay = InitDelay])
  /\ UNCHANGED <<queue, phase, active, batch, fresh, expired, clientVars, callVars>>

\* ... and Connector::restart(), which stores connect_ = true whatever a
\* stop() has stored in between.
Restart ==
  /\ abort = "none"
  /\ lpc = "restart"
  /\ lpc' = "idle"
  /\ connect' = TRUE
  /\ causes' = IF connect THEN causes ELSE causes \cup {"overruled"}
  /\ startInLoop([Now EXCEPT !.connect = TRUE, !.state = "kDisconnected",
                             !.delay = InitDelay])
  /\ UNCHANGED <<queue, phase, active, batch, fresh, expired, clientVars, wpc, connects>>

-----------------------------------------------------------------------------
(* The user on the loop's thread, in a callback of its own or in the       *)
(* connection callback.                                                    *)

InUserCode ==
  /\ alive
  /\ (lpc = "down" /\ abort = "none") \/ Running("events")
  /\ Len(queue) < MaxQueue

CountConnect ==
  /\ connects < MaxConnects
  /\ connects' = connects + 1
  /\ causes' = IF connects > 0 \/ ~clientConnect THEN causes \cup {"again"} ELSE causes

LoopConnect ==
  /\ InUserCode
  /\ CountConnect
  /\ clientConnect' = TRUE
  /\ connect' = TRUE
  /\ startInLoop([Now EXCEPT !.connect = TRUE])
  /\ UNCHANGED <<queue, phase, active, batch, lpc, fresh, expired, retryOn, conn, alive,
                 orphan, wpc>>

LoopStop ==
  /\ InUserCode
  /\ clientConnect' = FALSE
  /\ connect' = FALSE
  /\ queue' = Append(queue, Functor("stop", None))
  /\ UNCHANGED <<attemptVars, abort, gaveUp, loopVars, retryOn, conn, alive,
                 orphan, callVars>>

\* What shutdown() does to the connection is in module TcpConnection.
LoopDisconnect ==
  /\ InUserCode
  /\ clientConnect' = FALSE
  /\ UNCHANGED <<connectorVars, loopVars, retryOn, conn, alive, orphan, callVars>>

LoopForceClose ==
  /\ InUserCode
  /\ conn # None
  /\ queue' = Append(queue, Functor("forceClose", conn))
  /\ UNCHANGED <<connect, attemptVars, abort, gaveUp, loopVars, clientVars, callVars>>

\* ~TcpClient(), when no worker uses it.  Without a connection the Connector is
\* stopped and let go.  With one, the connection outlives the client: its end is
\* not modelled, because the close callback that replaces removeConnection()
\* queues a functor with a reference to a shared_ptr of handleClose()'s frame.
\* The forceClose() of a connection nobody else holds only begins that end.
DestroyClient ==
  /\ Running("events")
  /\ alive
  /\ \A w \in Worker : wpc[w] = "idle"
  /\ alive' = FALSE
  /\ causes' = IF channel = None THEN causes ELSE causes \cup {"destroyed"}
  /\ conn' = None
  /\ IF conn # None
     THEN /\ orphan' = orphan \cup {conn}
          /\ UNCHANGED <<connect, queue>>
     ELSE /\ connect' = FALSE
          /\ queue' = Append(queue, Functor("stop", None))
          /\ UNCHANGED orphan
  /\ IF timers = 0 THEN Destructor ELSE UNCHANGED abort
  /\ UNCHANGED <<attemptVars, gaveUp, loopVars, clientConnect, retryOn, wpc,
                 connects>>

-----------------------------------------------------------------------------
(* The user on another thread: the store of TcpClient::connect_, the one   *)
(* of Connector::connect_, and the functor.                                *)

WorkerIdle(w) == alive /\ abort = "none" /\ wpc[w] = "idle"

WorkerConnect(w) ==
  /\ WorkerIdle(w)
  /\ CountConnect
  /\ clientConnect' = TRUE
  /\ wpc' = [wpc EXCEPT ![w] = "startFlag"]
  /\ UNCHANGED <<connectorVars, loopVars, retryOn, conn, alive, orphan>>

WorkerStop(w) ==
  /\ WorkerIdle(w)
  /\ Len(queue) < MaxQueue
  /\ clientConnect' = FALSE
  /\ wpc' = [wpc EXCEPT ![w] = "stopFlag"]
  /\ UNCHANGED <<connectorVars, loopVars, retryOn, conn, alive, orphan, connects,
                 causes>>

WorkerDisconnect(w) ==
  /\ WorkerIdle(w)
  /\ clientConnect' = FALSE
  /\ UNCHANGED <<connectorVars, loopVars, retryOn, conn, alive, orphan, callVars>>

\* Connector::start() and stop(): connect_ ...
WorkerFlag(w) ==
  /\ wpc[w] \in {"startFlag", "stopFlag"}
  /\ connect' = (wpc[w] = "startFlag")
  /\ wpc' = [wpc EXCEPT ![w] = IF @ = "startFlag" THEN "start" ELSE "stop"]
  /\ UNCHANGED <<attemptVars, queue, abort, gaveUp, loopVars, clientVars,
                 connects, causes>>

\* ... and runInLoop() or queueInLoop().
WorkerPush(w) ==
  /\ wpc[w] \in {"start", "stop"}
  /\ queue' = Append(queue, Functor(wpc[w], None))
  /\ wpc' = [wpc EXCEPT ![w] = "idle"]
  /\ UNCHANGED <<connect, attemptVars, abort, gaveUp, loopVars, clientVars,
                 connects, causes>>

-----------------------------------------------------------------------------
LoopStep ==
  \/ Poll \/ Swap \/ EndOfBatch
  \/ RunStart \/ RunStop \/ RunReset \/ RunDestroyed \/ RunForceClose
  \/ HandleTimers \/ RunTimer \/ HandleChannel \/ HandleClose \/ IgnoreConn
  \/ RemoveConnection \/ Restart

UserStep == LoopConnect \/ LoopStop \/ LoopDisconnect \/ LoopForceClose \/ DestroyClient

WorkerStep(w) ==
  \/ WorkerConnect(w) \/ WorkerStop(w) \/ WorkerDisconnect(w)
  \/ WorkerFlag(w) \/ WorkerPush(w)

Next == LoopStep \/ UserStep \/ \E w \in Worker : WorkerStep(w)

Spec == Init /\ [][Next]_vars

\* The loop runs, whatever the user does in between; a worker finishes its
\* call; and the clock goes on, so that every timer is due in the end.  The
\* network owes nothing: an attempt may stay in progress for ever.
FairSpec ==
  /\ Spec
  /\ WF_vars(LoopStep)
  /\ SF_vars(Poll /\ "timer" \in active')
  /\ SF_vars(HandleTimers /\ expired' = timers)
  /\ \A w \in Worker : WF_vars(WorkerFlag(w) \/ WorkerPush(w))

-----------------------------------------------------------------------------
(* Properties.                                                             *)

\* The asserts of Connector (startInLoop() finds kDisconnected, connecting()
\* and the destructor find no channel) hold, and newConnection() is never
\* called on a TcpClient that is gone, unless
\*   "again"      connect() was called a second time, or after a stop(),
\*   "overruled"  restart() stored connect_ = true over a stop() that came
\*                after removeConnection() had tested the client's flag,
\*   "hasty"      a retry timer fired before the functor that frees the
\*                channel, which was queued when the timer was set,
\*   "destroyed"  the TcpClient was destroyed while its Connector had a
\*                channel.
AssertsHold == abort # "none" => causes # {}

Owned ==
  (IF watched THEN {channel} ELSE {}) \cup (IF conn # None THEN {conn} ELSE {})
    \cup orphan
    \cup {f.fd : f \in {g \in ToSet(queue) \cup ToSet(batch) : g.op = "destroyed"}}

\* Every descriptor that is open is that of the attempt in progress or of a
\* connection, and theirs are open: none is leaked, and none is closed under
\* its owner, whatever becomes of an attempt.
SocketsOwned ==
  /\ TypeOK
  /\ abort = "none" => open = Owned

\* stop() ends the attempts: the channel and the timers go.
StopEnds ==
  (~connect) ~> (connect \/ abort # "none" \/ (channel = None /\ timers = 0))

\* A Connector that is to connect and does not is never idle: a timer is
\* set or startInLoop() is on its way, unless connect(2) failed for good.
NeverIdle ==
  connect /\ state = "kDisconnected" /\ abort = "none"
    => \/ timers > 0
       \/ gaveUp
       \/ \E f \in ToSet(queue) \cup ToSet(batch) : f.op = "start"
       \/ \E w \in Worker : wpc[w] = "start"
=============================================================================
