------------------------------ MODULE TcpServer ------------------------------
(***************************************************************************)
(* fm::net::TcpServer (src/net/TcpServer.cpp) with several loops: the base *)
(* loop accepts connections and removes them, each connection lives on an  *)
(* I/O loop of the EventLoopThreadPool (on the base loop if there is none) *)
(* and the destructor takes all of it down from the base loop's thread.    *)
(*                                                                         *)
(* Of a TcpConnection the model has its state_, whether its channel is in  *)
(* the epoll set, and who refers to it; module TcpConnection has the rest, *)
(* calls of other threads and forceClose() among it.  The channel has      *)
(* events enabled in the states kConnected and kDisconnecting.  Functors   *)
(* are records: what they call, and the shared_ptr they hold.  An assert   *)
(* that fails is recorded with its connection, and the program goes on as  *)
(* it does without asserts.  After the destructor a removal that is still  *)
(* queued holds a dangling this: running it is undefined, and not          *)
(* modelled.                                                               *)
(***************************************************************************)
EXTENDS EventLoopThreadPool, Acceptor

CONSTANT MaxFds    \* descriptors for connections, the spare and others

Conn == 1..MaxClients

VARIABLES
  state,        \* each connection: state_, "none" before newConnection()
  ioLoop,       \* each connection: its loop
  added,        \* each connection: its channel is in the epoll set
  connections,  \* connections_
  late,         \* history: connectDestroyed() was queued outside of poll
  failed        \* asserts that have failed, and their connections

connVars == <<state, ioLoop, added>>
serverVars == <<connVars, connections, late, failed>>
allVars == <<vars, acceptorVars, serverVars>>

ServerInit ==
  /\ Init
  /\ AcceptorInit
  /\ state = [c \in Conn |-> "none"]
  /\ ioLoop = [c \in Conn |-> Base]
  /\ added = [c \in Conn |-> FALSE]
  /\ connections = {}
  /\ late = {}
  /\ failed = {}

Functor(call, c) == [call |-> call, conn |-> c]
Holds(q, c) == \E k \in DOMAIN q : q[k].conn = c

\* Some shared_ptr to the connection is left.
Referenced(c) ==
  \/ c \in connections
  \/ \E i \in DOMAIN pending : Holds(pending[i], c)
  \/ \E i \in Thread : Holds(batch[i], c)

\* A descriptor is open for as long as its Socket exists.
Free ==
  MaxFds - others - Cardinality({c \in Conn : state[c] # "none" /\ Referenced(c)})
    - (IF spare THEN 1 ELSE 0) - (IF extra THEN 1 ELSE 0)

Failure(name, c) == [assert |-> name, conn |-> c]
Unless(ok, name, c) == IF ok THEN {} ELSE {Failure(name, c)}
QueueInLoop(i, f) == pending' = [pending EXCEPT ![i] = Append(@, f)]

\* A functor queued while the loop is elsewhere than between its test of quit_
\* and its swap may meet a quit() before it is run.
Late(c) ==
  late' = IF ioLoop[c] # Base /\ tpc[ioLoop[c]] \notin {"poll", "swap"}
          THEN late \cup {c} ELSE late

-----------------------------------------------------------------------------
(* TcpConnection, as the server uses it                                    *)

connectEstablished(c) ==
  /\ failed' = failed \cup Unless(state[c] = "kConnecting", "kConnecting", c)
  /\ state' = [state EXCEPT ![c] = "kConnected"]
  /\ added' = [added EXCEPT ![c] = TRUE]
  /\ UNCHANGED ioLoop

\* shutdown() in a callback of the connection, on its loop: of its events, or in
\* a functor.  shutdownInLoop() is called at once.
Shutdown(c) ==
  /\ state[c] = "kConnected"
  /\ IF ioLoop[c] = Base THEN owner = "running" /\ apc = "idle"
     ELSE tpc[ioLoop[c]] \in {"poll", "run"}
  /\ state' = [state EXCEPT ![c] = "kDisconnecting"]
  /\ UNCHANGED <<vars, acceptorVars, ioLoop, added, connections, late, failed>>

\* Only a connection that is kConnected is disabled.  channel_->remove() asserts
\* that no event is enabled, and that the channel is in the epoll set.
connectDestroyed(c) ==
  /\ failed' = failed \cup Unless(state[c] # "kDisconnecting", "isNoneEvent", c)
                    \cup Unless(added[c], "removeChannel", c)
  /\ state' = [state EXCEPT ![c] = IF @ = "kConnected" THEN "kDisconnected" ELSE @]
  /\ added' = [added EXCEPT ![c] = FALSE]
  /\ UNCHANGED ioLoop

\* The channel is left to the destructor of the connection.
removeConnectionInLoop_EraseOnly(c, queued) ==
  /\ failed' = failed \cup Unless(c \in connections, "erase", c)
  /\ connections' = connections \ {c}
  /\ pending' = queued
  /\ UNCHANGED late

\* erase(), and connectDestroyed() queued to the connection's loop.  queued is
\* what the loops' queues hold before that.
removeConnectionInLoop(c, queued) ==
  /\ failed' = failed \cup Unless(c \in connections, "erase", c)
  /\ connections' = connections \ {c}
  /\ pending' = [queued EXCEPT ![ioLoop[c]] = Append(@, Functor("connectDestroyed", c))]
  /\ Late(c)

\* The channel reports a close, and handleClose() calls removeConnection(), which
\* is done at once on the base loop.
handleClose(i, c) ==
  /\ ioLoop[c] = i /\ added[c]
  /\ state[c] \in {"kConnected", "kDisconnecting"}
  /\ state' = [state EXCEPT ![c] = "kDisconnected"]
  /\ IF i = Base
     THEN removeConnectionInLoop(c, pending)
     ELSE /\ QueueInLoop(Base, Functor("removeConnection", c))
          /\ UNCHANGED <<connections, late, failed>>
  /\ UNCHANGED <<ioLoop, added>>

-----------------------------------------------------------------------------
(* The thread of the base loop                                             *)

\* start(): the pool, then listen().
StartServer ==
  /\ owner = "new"
  /\ owner' = IF numThreads = 0 THEN "listen" ELSE "start"
  /\ UNCHANGED <<numThreads, next, at, threadVars, loopVars, acceptorVars, serverVars>>

Listen ==
  /\ owner = "listen"
  /\ owner' = "running"
  /\ UNCHANGED <<numThreads, next, at, threadVars, loopVars, acceptorVars, serverVars>>

\* handleRead() and newConnection(); runInLoop() on the base loop is a call.
NewConnection ==
  /\ owner = "running" /\ apc = "idle"
  /\ Waiting /\ Free > 0
  /\ handled' = handled + 1
  /\ \E c \in Conn :
       /\ state[c] = "none"
       /\ \A d \in 1..c - 1 : state[d] # "none"
       /\ connections' = connections \cup {c}
       /\ ioLoop' = [ioLoop EXCEPT ![c] = NextLoop]
       /\ next' = NextIndex
       /\ IF NextLoop = Base
          THEN /\ state' = [state EXCEPT ![c] = "kConnected"]
               /\ added' = [added EXCEPT ![c] = TRUE]
               /\ UNCHANGED pending
          ELSE /\ state' = [state EXCEPT ![c] = "kConnecting"]
               /\ QueueInLoop(NextLoop, Functor("connectEstablished", c))
               /\ UNCHANGED added
  /\ UNCHANGED <<numThreads, owner, at, threadVars, batch, arrived, spare, extra,
                 apc, others, logger, late, failed>>

\* handleRead() without a descriptor.
AcceptorStep ==
  /\ owner = "running"
  /\ AcceptFails(Free) \/ AcceptExtra(Free) \/ CloseExtra \/ Reopen(Free)
  /\ UNCHANGED <<vars, serverVars>>

\* A connection of the base loop is closed.
BaseClose ==
  /\ owner = "running" /\ apc = "idle"
  /\ \E c \in Conn : handleClose(Base, c)
  /\ UNCHANGED <<poolVars, threadVars, batch, acceptorVars>>

\* The base loop runs a functor.  It goes on after ~TcpServer().
RunBase ==
  /\ apc = "idle"
  /\ pending[Base] # <<>>
  /\ LET f == Head(pending[Base])
         rest == [pending EXCEPT ![Base] = Tail(@)]
     IN IF f.call = "removeConnection"
        THEN /\ owner = "running"
             /\ removeConnectionInLoop(f.conn, rest)
             /\ UNCHANGED connVars
        ELSE /\ owner \in {"running", "gone"}
             /\ connectDestroyed(f.conn)
             /\ pending' = rest
             /\ UNCHANGED <<connections, late>>
  /\ UNCHANGED <<poolVars, threadVars, batch, acceptorVars>>

\* ~TcpServer() ...
DestroyServer ==
  /\ owner = "running" /\ apc = "idle"
  /\ owner' = "closing"
  /\ UNCHANGED <<numThreads, next, at, threadVars, loopVars, acceptorVars, serverVars>>

\* connectDestroyed() is queued on the base loop too.
CloseConnection_Queued ==
  /\ owner = "closing"
  /\ \E c \in connections :
       /\ connections' = connections \ {c}
       /\ QueueInLoop(ioLoop[c], Functor("connectDestroyed", c))
       /\ Late(c)
  /\ UNCHANGED <<poolVars, threadVars, batch, acceptorVars, connVars, failed>>

\* ... runs connectDestroyed() of every connection in its loop ...
CloseConnection ==
  /\ owner = "closing"
  /\ \E c \in connections :
       /\ connections' = connections \ {c}
       /\ IF ioLoop[c] = Base
          THEN connectDestroyed(c) /\ UNCHANGED <<pending, late>>
          ELSE /\ QueueInLoop(ioLoop[c], Functor("connectDestroyed", c))
               /\ Late(c)
               /\ UNCHANGED <<connVars, failed>>
  /\ UNCHANGED <<poolVars, threadVars, batch, acceptorVars>>

\* ... and its members go: thread_pool_ with its threads, acceptor_.
DestroyMembers ==
  /\ owner = "closing"
  /\ connections = {}
  /\ owner' = "dtor"
  /\ at' = IF numThreads = 0 THEN numThreads + 1 ELSE 1
  /\ UNCHANGED <<numThreads, next, threadVars, loopVars, acceptorVars, serverVars>>

PoolStep ==
  /\ OwnerStep
  /\ UNCHANGED <<acceptorVars, serverVars>>

-----------------------------------------------------------------------------
(* An I/O thread                                                           *)

\* poll() returns because a connection was closed.
IoClose(i) ==
  /\ tpc[i] = "poll"
  /\ \E c \in Conn : handleClose(i, c)
  /\ Goto(i, "swap")
  /\ UNCHANGED <<poolVars, loopPtr, quit, erased, batch, acceptorVars>>

\* poll() returns because of a message, a timer or its timeout of 10 s.
IoOther(i) ==
  /\ tpc[i] = "poll"
  /\ Goto(i, "swap")
  /\ UNCHANGED <<poolVars, loopPtr, quit, erased, loopVars, acceptorVars, serverVars>>

RunFunctor(i) ==
  /\ tpc[i] = "run"
  /\ batch[i] # <<>>
  /\ LET f == Head(batch[i])
     IN IF f.call = "connectEstablished" THEN connectEstablished(f.conn)
        ELSE connectDestroyed(f.conn)
  /\ batch' = [batch EXCEPT ![i] = Tail(@)]
  /\ UNCHANGED <<poolVars, threadVars, pending, acceptorVars, connections, late>>

IoStep(i) ==
  \/ RunFunctor(i)
  \/ ThreadStep(i) /\ UNCHANGED <<acceptorVars, serverVars>>

-----------------------------------------------------------------------------
BaseStep ==
  \/ NewConnection \/ AcceptorStep \/ RunBase \/ CloseConnection
  \/ DestroyMembers \/ PoolStep \/ Listen

ServerNext ==
  \/ StartServer \/ DestroyServer \/ BaseClose \/ BaseStep
  \/ \E c \in Conn : Shutdown(c)
  \/ \E i \in Thread : IoStep(i) \/ IoClose(i) \/ IoOther(i)
  \/ /\ owner \in {"listen", "running"}
     /\ Arrive \/ (owner = "running" /\ ClientGone) \/ Others(Free)
     /\ UNCHANGED <<vars, serverVars>>

\* Every thread is scheduled: handleRead() runs as long as a client waits, and
\* start() and the destructor, once begun, go on.
ServerSpec ==
  /\ ServerInit /\ [][ServerNext]_allVars
  /\ WF_allVars(BaseStep)
  /\ WF_allVars(NewConnection \/ AcceptorStep)
  /\ WF_allVars(RunBase)
  /\ \A i \in Thread : WF_allVars(IoStep(i))

-----------------------------------------------------------------------------
\* When the last reference to a connection is gone it is closed and out of the
\* epoll set, as ~TcpConnection() and ~Channel() assert; and until then every
\* assert of its life holds: it is established once, in state kConnecting, found
\* by erase(), and its channel removed once and with no event enabled.  There are
\* two exceptions, both of ~TcpServer().  It ends a connection that shutdown()
\* has made kDisconnecting, before or after connectDestroyed() was queued: the
\* channel is removed with its events enabled and state_ stays as it is.  And
\* connectDestroyed() was queued while its loop was not between the test of quit_
\* and the swap, and quit() made that loop return without running it.
ConnectionsEndClosed ==
  /\ \A f \in failed :
       /\ f.assert = "isNoneEvent" /\ state[f.conn] = "kDisconnecting"
       /\ owner \notin {"new", "start", "wait", "listen", "running"}
  /\ \A c \in Conn :
       state[c] # "none" /\ ~Referenced(c)
         => \/ state[c] = "kDisconnected" /\ ~added[c]
            \/ Failure("isNoneEvent", c) \in failed /\ ~added[c]
            \/ c \in late /\ tpc[ioLoop[c]] = "exited"

\* When ~TcpServer() has returned, a functor that holds its dangling this is in
\* the queue of the base loop only if a connection was closed on an I/O thread;
\* and of a connection on the base loop nothing but its last functor is left.
LeftBehind ==
  owner = "gone" =>
    /\ connections = {}
    /\ \A k \in DOMAIN pending[Base] :
         LET f == pending[Base][k]
         IN /\ state[f.conn] = "kDisconnected"
            /\ f.call = "connectDestroyed" <=> ioLoop[f.conn] = Base

\* As long as the server runs every client is accepted or turned away, even
\* with no descriptor left, unless another thread took the spare descriptor
\* while it was given up or the log statement before the test has reset errno.
WaitingIsServed ==
  \A n \in 1..MaxClients :
    (owner = "running" /\ arrived >= n)
      ~> \/ handled >= n
         \/ ~ErrnoKept \/ Overtaken
         \/ owner # "running"
=============================================================================
