---------------------------- MODULE TcpConnection ----------------------------
(***************************************************************************)
(* One connection of a TcpServer (src/net/TcpConnection.cpp, TcpServer.cpp,*)
(* with its Channel and its entry in the Epoller): the I/O thread whose    *)
(* loop owns the connection, the main thread whose loop owns the server,   *)
(* worker threads that hold a TcpConnectionPtr, and the peer.              *)
(*                                                                         *)
(* A loop's functor queue is the one module EventLoop implements (module   *)
(* TaskQueue): first in, first out.  A handler is one action up to the     *)
(* user callback it makes; the user's calls follow as actions of their own.*)
(* state_ is a plain int that workers read and write without a lock: each  *)
(* access of a worker is a step.                                           *)
(***************************************************************************)
EXTENDS Naturals, Sequences, Functions, SequencesExt

CONSTANTS
  Worker,       \* threads, other than the loops', that use the connection
  Message,      \* messages; each is sent at most once
  MsgLen,       \* bytes of a message
  HighWater,    \* high_water_mark_, in bytes
  LoopCalls,    \* the members user callbacks on the I/O thread call
  WorkerCalls,  \* the members workers call
  Deployments,  \* values of singleLoop the model explores
  MaxQueue      \* bound: functors queued when a new call is made

Call == {"send", "shutdown", "forceClose", "forceCloseWithDelay",
         "startRead", "stopRead"}

ASSUME TcpConnectionAssumption ==
  /\ MsgLen \in Nat \ {0}
  /\ HighWater \in Nat
  /\ LoopCalls \subseteq Call
  /\ WorkerCalls \subseteq Call
  /\ Deployments \subseteq BOOLEAN
  /\ MaxQueue \in Nat \ {0}

\* With threads of its own ~TcpServer() leaves functors that hold its raw
\* this in the loops; what they then do is undefined and not modelled.

VARIABLES
  singleLoop, \* TRUE: the server has no I/O threads of its own
  state,      \* state_, or "none" before newConnection()
  reading,    \* reading_
  events,     \* channel_->events_
  index,      \* channel_->index_
  causes,     \* history: what put state_ or the channel out of step, below
  output,     \* output_buffer_
  revents,    \* events of the last poll that are not handled yet
  upcall,     \* TRUE: a user callback is running on the I/O thread
  ioQueue,    \* pending functors of the connection's loop
  mainQueue,  \* pending functors of the server's loop
  inMap,      \* connections_ has the connection
  shut,       \* the write half of the socket is shut down
  peer,       \* the peer's end, see PeerState
  wire,       \* history: bytes the kernel took, in order
  accepted,   \* history: bytes sendInLoop() took, in order
  dropped,    \* history: messages given up after send() found kConnected
  ups, downs, \* history: calls of connection_callback_, up and down
  wpc,        \* each worker: the call it makes, and its next step
  holds,      \* each worker: it has a TcpConnectionPtr
  unused,     \* messages nobody has sent yet
  abort       \* the assert() that has failed, "none" so far

connVars == <<state, reading>>
chanVars == <<events, index, causes>>
dataVars == <<output, wire, accepted, dropped>>
serverVars == <<mainQueue, inMap>>
callbackVars == <<ups, downs>>
workerVars == <<wpc, holds, unused>>
vars == <<singleLoop, connVars, chanVars, dataVars, revents, upcall, ioQueue,
          serverVars, shut, peer, callbackVars, workerVars, abort>>

Garbage == "garbage"   \* what a dangling reference to a message reads

Bytes(m) == [i \in 1..MsgLen |-> <<m, i>>]

\* "open"; "fin": it has closed its end; "rst": it has reset the
\* connection, the next read() fails; "dead": so has that read(), and
\* read() now returns 0.
PeerState == {"open", "fin", "rst", "dead"}

Idle == [call |-> "send", msg |-> Garbage, step |-> "idle"]

Library == "library"   \* who queued a functor, if not a worker
Functor(op, m, w) == [op |-> op, msg |-> m, by |-> w]
Simple(op) == Functor(op, Garbage, Library)

\* Functors that captured shared_from_this() or a TcpConnectionPtr; the
\* others captured the raw this.
Shared == {"established", "destroyed", "forceClose", "complete", "highWater"}
Raw == {"send", "shutdown", "startRead", "stopRead"}

FunctorSet ==
  [op : Shared \cup Raw, msg : Message \cup {Garbage}, by : Worker \cup {Library}]

Asserts == {"none", "established", "handleClose", "erase", "remove", "active"}

TypeOK ==
  /\ singleLoop \in BOOLEAN
  /\ state \in {"none", "kConnecting", "kConnected", "kDisconnecting",
                "kDisconnected"}
  /\ reading \in BOOLEAN
  /\ events \in SUBSET {"read", "write"}
  /\ index \in {"kNew", "kAdded", "kDeleted"}
  /\ causes \subseteq {"torn", "late", "readded", "closing", "active"}
  /\ output \in Seq((Message \cup {Garbage}) \X (1..MsgLen))
  /\ revents \in SUBSET {"hup", "in", "out"}
  /\ upcall \in BOOLEAN
  /\ ioQueue \in Seq(FunctorSet)
  /\ mainQueue \in Seq({"remove"})
  /\ inMap \in BOOLEAN /\ shut \in BOOLEAN
  /\ peer \in PeerState
  /\ wire \in Seq((Message \cup {Garbage}) \X (1..MsgLen))
  /\ accepted \in Seq((Message \cup {Garbage}) \X (1..MsgLen))
  /\ dropped \in SUBSET (Message \cup {Garbage})
  /\ ups \in Nat /\ downs \in Nat
  /\ wpc \in [Worker -> [call : Call, msg : Message \cup {Garbage},
                         step : {"idle", "set", "push", "return"}]]
  /\ holds \in [Worker -> BOOLEAN]
  /\ unused \in SUBSET Message
  /\ abort \in Asserts

Init ==
  /\ singleLoop \in Deployments
  /\ state = "none"
  /\ reading = TRUE
  /\ events = {}
  /\ index = "kNew"
  /\ causes = {}
  /\ output = <<>>
  /\ revents = {}
  /\ upcall = FALSE
  /\ ioQueue = <<>>
  /\ mainQueue = <<>>
  /\ inMap = FALSE
  /\ shut = FALSE
  /\ peer = "open"
  /\ wire = <<>> /\ accepted = <<>> /\ dropped = {}
  /\ ups = 0 /\ downs = 0
  /\ wpc = [w \in Worker |-> Idle]
  /\ holds = [w \in Worker |-> FALSE]
  /\ unused = Message
  /\ abort = "none"

\* Some shared_ptr to the connection exists; without one it is destroyed.
Referenced ==
  \/ inMap
  \/ mainQueue # <<>>
  \/ \E i \in DOMAIN ioQueue : ioQueue[i].op \in Shared
  \/ \E w \in Worker : holds[w]

Closed == state = "kDisconnected"

\* causes is a set of
\*   "torn"      a worker stored kDisconnecting over a kDisconnected that came
\*               after its test of state_
\*   "late"      startRead() or stopRead() was applied to a closed connection
\*   "closing"   ~TcpServer() came upon a connection that is shutting down
\*   "readded"   a connection was closed whose channel, not in epoll for lack
\*               of events, was so added to it again
\*   "active"    ~TcpServer() was called by the handler of another channel in an
\*               iteration in which epoll reported this one too
Writing == "write" \in events

\* The I/O thread is between two events or functors.
IoIdle == ~upcall /\ revents = {} /\ abort = "none"

-----------------------------------------------------------------------------
(* Channel and Epoller.                                                    *)

\* Epoller::updateChannel(): a channel that is new or deleted is added
\* whatever its events, an added one without events is deleted.
Updated(i, ev) == IF i = "kAdded" /\ ev = {} THEN "kDeleted" ELSE "kAdded"

\* Channel::enableReading() and the like: events_, then update().
SetEvents(ev) ==
  /\ events' = ev
  /\ index' = Updated(index, ev)
  /\ causes' = IF index = "kDeleted" /\ ev = {} /\ ~Closed
                THEN causes \cup {"readded"} ELSE causes

\* The same, called by startReadInLoop() and stopReadInLoop().
SetReading(on) ==
  LET ev == IF on THEN events \cup {"read"} ELSE events \ {"read"}
  IN /\ events' = ev
     /\ index' = Updated(index, ev)
     /\ reading' = on
     /\ causes' = IF Closed THEN causes \cup {"late"} ELSE causes

\* Both directions are shut down.
HangUp == peer \in {"rst", "dead"} \/ (peer = "fin" /\ shut)

\* What epoll_wait() may report: HUP unasked, the rest if asked for.
Ready ==
  {(IF HangUp THEN {"hup"} ELSE {})
     \cup (IF "read" \in events /\ (data \/ peer # "open") THEN {"in"} ELSE {})
     \cup (IF "write" \in events /\ (room \/ HangUp) THEN {"out"} ELSE {})
   : data, room \in BOOLEAN} \ {{}}

\* epoll_wait() reports the channel.
Poll ==
  /\ IoIdle
  /\ index = "kAdded"
  /\ revents' \in Ready
  /\ UNCHANGED <<singleLoop, connVars, chanVars, dataVars, upcall, ioQueue,
                 serverVars, shut, peer, callbackVars, workerVars, abort>>

-----------------------------------------------------------------------------
(* Handlers.  q is the functor queue of the I/O loop as the handler finds  *)
(* it: without the functor that is being run.                              *)

\* The program stops at the first assert() that fails.
Check(name, condition) == IF condition THEN abort ELSE name

\* The bytes are written at once even if others wait.
sendInLoop_Overtakes(m, q) ==
  \E n \in 0..MsgLen :
    /\ ~Closed
    /\ wire' = wire \o SubSeq(Bytes(m), 1, n)
    /\ output' = output \o SubSeq(Bytes(m), n + 1, MsgLen)
    /\ accepted' = accepted \o Bytes(m)
    /\ ioQueue' = q
    /\ IF n < MsgLen THEN SetEvents(events \cup {"write"})
                     ELSE UNCHANGED chanVars
    /\ UNCHANGED dropped

\* enableWriting() is forgotten.
sendInLoop_Unwatched(m, q) ==
  \E n \in 0..MsgLen :
    /\ ~Closed
    /\ output = <<>>
    /\ wire' = wire \o SubSeq(Bytes(m), 1, n)
    /\ output' = SubSeq(Bytes(m), n + 1, MsgLen)
    /\ accepted' = accepted \o Bytes(m)
    /\ ioQueue' = q
    /\ UNCHANGED <<dropped, chanVars>>

\* sendInLoop(): written at once when nothing waits, else or in part to
\* output_buffer_.  n = 0 stands for an error too; the message is given up
\* only on EPIPE or ECONNRESET, if errno still says so after the LOG_DEBUG.
sendInLoop(m, q) ==
  IF Closed THEN ioQueue' = q /\ UNCHANGED <<dataVars, chanVars>>
  ELSE
  LET direct == ~Writing /\ output = <<>>
      broken == shut \/ peer \in {"rst", "dead"}
  IN \E n \in (IF direct /\ ~broken THEN 0..MsgLen ELSE {0}),
        fault \in (IF direct /\ broken THEN BOOLEAN ELSE {FALSE}) :
       LET keep == n < MsgLen /\ ~fault
           crossed == /\ keep
                      /\ Len(output) < HighWater
                      /\ Len(output) + MsgLen - n >= HighWater
       IN /\ wire' = wire \o SubSeq(Bytes(m), 1, n)
          /\ output' = IF keep THEN output \o SubSeq(Bytes(m), n + 1, MsgLen)
                               ELSE output
          /\ accepted' = accepted \o Bytes(m)
          /\ dropped' = IF fault THEN dropped \cup {m} ELSE dropped
          /\ ioQueue' = q \o (IF n = MsgLen THEN <<Simple("complete")>>
                              ELSE IF crossed THEN <<Simple("highWater")>>
                              ELSE <<>>)
          /\ IF keep /\ ~Writing THEN SetEvents(events \cup {"write"})
                                 ELSE UNCHANGED chanVars

shutdownInLoop_Hasty == shut' = TRUE

\* shutdownInLoop(): left to handleWrite() while there is output.
shutdownInLoop == shut' = (shut \/ ~Writing)

startReadInLoop ==
  IF ~reading \/ "read" \notin events
  THEN SetReading(TRUE)
  ELSE UNCHANGED <<chanVars, reading>>

stopReadInLoop ==
  IF reading \/ "read" \in events
  THEN SetReading(FALSE)
  ELSE UNCHANGED <<chanVars, reading>>

\* connectEstablished(), up to the connection callback.
connectEstablished(q) ==
  /\ abort' = Check("established", state = "kConnecting")
  /\ state' = "kConnected"
  /\ SetEvents(events \cup {"read"})
  /\ ups' = ups + 1
  /\ upcall' = TRUE
  /\ ioQueue' = q

handleClose_Silent(q) ==
  /\ state' = "kDisconnected"
  /\ SetEvents({})
  /\ mainQueue' = Append(mainQueue, "remove")
  /\ ioQueue' = q
  /\ abort' = Check("handleClose", state \in {"kConnected", "kDisconnecting"})
  /\ UNCHANGED <<inMap, reading, downs>>

\* handleClose(): the connection callback, then TcpServer's
\* removeConnection(), which runs removeConnectionInLoop() at once if the
\* main loop is this thread's.
handleClose(q) ==
  /\ state' = "kDisconnected"
  /\ SetEvents({})
  /\ downs' = downs + 1
  /\ IF singleLoop
     THEN /\ inMap' = FALSE
          /\ ioQueue' = Append(q, Simple("destroyed"))
          /\ UNCHANGED mainQueue
     ELSE /\ mainQueue' = Append(mainQueue, "remove")
          /\ ioQueue' = q
          /\ UNCHANGED inMap
  /\ abort' = IF state \notin {"kConnected", "kDisconnecting"} THEN "handleClose"
              ELSE Check("erase", singleLoop => inMap)
  /\ UNCHANGED reading

\* connectDestroyed(): Channel::remove() asserts that no event is left.
connectDestroyed(q) ==
  LET up == state = "kConnected"
  IN /\ state' = IF up THEN "kDisconnected" ELSE state
     /\ events' = IF up THEN {} ELSE events
     /\ downs' = IF up THEN downs + 1 ELSE downs
     /\ index' = "kNew"
     /\ ioQueue' = q
     /\ abort' = Check("remove", index # "kNew" /\ events' = {})
     /\ causes' = IF inMap /\ state = "kDisconnecting"
                  THEN causes \cup {"closing"} ELSE causes
     /\ UNCHANGED reading

-----------------------------------------------------------------------------
(* The main thread.                                                        *)

\* newConnection(): connections_, and connectEstablished() as a functor.
\* On a single loop it is called at once: nothing comes before the functor.
\* Every worker may be given a TcpConnectionPtr.
NewConnection ==
  /\ IoIdle
  /\ state = "none"
  /\ inMap' = TRUE
  /\ holds' = [w \in Worker |-> TRUE]
  /\ state' = "kConnecting"
  /\ ioQueue' = <<Simple("established")>>
  /\ UNCHANGED <<singleLoop, reading, chanVars, dataVars, revents, upcall,
                 mainQueue, shut, peer, callbackVars, wpc, unused, abort>>

RemoveConnectionInLoop_EraseOnly ==
  /\ abort = "none"
  /\ mainQueue # <<>>
  /\ mainQueue' = Tail(mainQueue)
  /\ inMap' = FALSE
  /\ UNCHANGED <<singleLoop, connVars, chanVars, dataVars, revents, upcall,
                 shut, peer, callbackVars, workerVars, ioQueue, abort>>

\* removeConnectionInLoop(), run by the main loop.
RemoveConnectionInLoop ==
  /\ abort = "none"
  /\ mainQueue # <<>>
  /\ mainQueue' = Tail(mainQueue)
  /\ inMap' = FALSE
  /\ abort' = Check("erase", inMap)
  /\ ioQueue' = Append(ioQueue, Simple("destroyed"))
  /\ UNCHANGED <<singleLoop, connVars, chanVars, dataVars, revents, upcall,
                 shut, peer, callbackVars, workerVars>>

\* ~TcpServer() on the loop's own thread, in a functor or in the handler of
\* another channel.
DestroyServer ==
  /\ singleLoop
  /\ IoIdle
  /\ inMap
  /\ state # "kConnecting"
  /\ inMap' = FALSE
  /\ connectDestroyed(ioQueue)
  /\ UNCHANGED <<singleLoop, dataVars, revents, upcall, mainQueue, shut, peer,
                 ups, workerVars>>

\* The same in an iteration in which epoll reported this channel too:
\* EventLoop::removeChannel() asserts, while events are handled, that the channel
\* is the current one or none of those reported, whether or not it has had its
\* turn.  (Here it has not.)
DestroyServerInEvent ==
  /\ singleLoop
  /\ IoIdle
  /\ inMap
  /\ state = "kConnected"
  /\ index = "kAdded" /\ Ready # {}
  /\ inMap' = FALSE
  /\ state' = "kDisconnected"
  /\ events' = {} /\ index' = "kDeleted"
  /\ downs' = downs + 1
  /\ abort' = "active"
  /\ causes' = causes \cup {"active"}
  /\ UNCHANGED <<singleLoop, reading, dataVars, revents, upcall, ioQueue,
                 mainQueue, shut, peer, ups, workerVars>>

-----------------------------------------------------------------------------
(* The I/O thread: events.                                                 *)

\* Channel::handleEventWithGurad(): POLLHUP without POLLIN closes ...
HandleHup ==
  /\ abort = "none" /\ ~upcall
  /\ "hup" \in revents
  /\ revents' = revents \ {"hup"}
  /\ IF "in" \in revents
     THEN UNCHANGED <<connVars, chanVars, ioQueue, serverVars, downs, abort>>
     ELSE handleClose(ioQueue)
  /\ UNCHANGED <<singleLoop, dataVars, upcall, shut, peer, ups, workerVars>>

\* ... then handleRead(): data for the message callback, end of file, or
\* an error, which is only logged ...
HandleRead ==
  /\ abort = "none" /\ ~upcall
  /\ "in" \in revents /\ "hup" \notin revents
  /\ revents' = revents \ {"in"}
  /\ \/ /\ peer = "open"
        /\ upcall' = TRUE
        /\ UNCHANGED <<connVars, chanVars, ioQueue, serverVars, downs, abort, peer>>
     \/ /\ peer = "rst"
        /\ peer' = "dead"
        /\ UNCHANGED <<connVars, chanVars, ioQueue, serverVars, downs, abort, upcall>>
     \/ /\ peer \in {"fin", "dead"}
        /\ handleClose(ioQueue)
        /\ UNCHANGED <<upcall, peer>>
  /\ UNCHANGED <<singleLoop, dataVars, shut, ups, workerVars>>

HandleWrite_NoShutdown ==
  /\ abort = "none" /\ ~upcall
  /\ revents = {"out"}
  /\ revents' = {}
  /\ wire' = wire \o output
  /\ output' = <<>>
  /\ SetEvents(events \ {"write"})
  /\ UNCHANGED <<singleLoop, shut, ioQueue, connVars, accepted, dropped,
                 upcall, serverVars, peer, callbackVars, workerVars, abort>>

\* ... then handleWrite(), which does nothing if the channel does not want
\* to write any more, and shuts down when the output is out.
HandleWrite ==
  /\ abort = "none" /\ ~upcall
  /\ revents = {"out"}
  /\ revents' = {}
  /\ \E n \in 0..(IF Writing /\ peer \in {"open", "fin"} THEN Len(output) ELSE 0) :
       /\ wire' = wire \o SubSeq(output, 1, n)
       /\ output' = SubSeq(output, n + 1, Len(output))
       /\ IF n > 0 /\ n = Len(output)
          THEN /\ SetEvents(events \ {"write"})
               /\ ioQueue' = Append(ioQueue, Simple("complete"))
               /\ shut' = (shut \/ state = "kDisconnecting")
          ELSE UNCHANGED <<chanVars, ioQueue, shut>>
  /\ UNCHANGED <<singleLoop, connVars, accepted, dropped, upcall, serverVars,
                 peer, callbackVars, workerVars, abort>>

-----------------------------------------------------------------------------
(* The I/O thread: functors.                                               *)

\* The functor at the head of the queue is one of ops.  What a functor
\* with a raw this does to a destroyed connection is undefined.
AtHead(ops) ==
  /\ IoIdle
  /\ ioQueue # <<>>
  /\ Head(ioQueue).op \in ops
  /\ Head(ioQueue).op \in Raw => Referenced

RunEstablished ==
  /\ AtHead({"established"})
  /\ connectEstablished(Tail(ioQueue))
  /\ UNCHANGED <<singleLoop, reading, dataVars, revents, serverVars, shut,
                 peer, downs, workerVars>>

RunDestroyed ==
  /\ AtHead({"destroyed"})
  /\ connectDestroyed(Tail(ioQueue))
  /\ UNCHANGED <<singleLoop, dataVars, revents, upcall, serverVars, shut,
                 peer, ups, workerVars>>

\* The lambda of send(): it captured a reference, so the message is what
\* the worker gave only as long as that worker is inside the call; and it
\* is send() again, which tests state_ again.
RunSend ==
  /\ AtHead({"send"})
  /\ LET f == Head(ioQueue)
         m == IF wpc[f.by].msg = f.msg THEN f.msg ELSE Garbage
     IN IF state = "kConnected"
        THEN sendInLoop(m, Tail(ioQueue))
        ELSE /\ dropped' = dropped \cup {m}
             /\ ioQueue' = Tail(ioQueue)
             /\ UNCHANGED <<output, wire, accepted, chanVars>>
  /\ UNCHANGED <<singleLoop, connVars, revents, upcall, serverVars, shut,
                 peer, callbackVars, workerVars, abort>>

RunShutdown ==
  /\ AtHead({"shutdown"})
  /\ shutdownInLoop
  /\ ioQueue' = Tail(ioQueue)
  /\ UNCHANGED <<singleLoop, connVars, chanVars, dataVars, revents, upcall,
                 serverVars, peer, callbackVars, workerVars, abort>>

RunForceClose_Unchecked ==
  /\ AtHead({"forceClose"})
  /\ handleClose(Tail(ioQueue))
  /\ UNCHANGED <<singleLoop, dataVars, revents, upcall, shut, peer, ups,
                 workerVars>>

\* forceCloseInLoop().
RunForceClose ==
  /\ AtHead({"forceClose"})
  /\ IF state \in {"kConnected", "kDisconnecting"}
     THEN handleClose(Tail(ioQueue))
     ELSE /\ ioQueue' = Tail(ioQueue)
          /\ UNCHANGED <<connVars, chanVars, serverVars, downs, abort>>
  /\ UNCHANGED <<singleLoop, dataVars, revents, upcall, shut, peer, ups,
                 workerVars>>

RunReadControl ==
  /\ AtHead({"startRead", "stopRead"})
  /\ IF Head(ioQueue).op = "startRead" THEN startReadInLoop ELSE stopReadInLoop
  /\ ioQueue' = Tail(ioQueue)
  /\ UNCHANGED <<singleLoop, state, dataVars, revents, upcall, serverVars,
                 shut, peer, callbackVars, workerVars, abort>>

\* write_complete_callback_ and high_water_mark_callback_.
RunCallback ==
  /\ AtHead({"complete", "highWater"})
  /\ upcall' = TRUE
  /\ ioQueue' = Tail(ioQueue)
  /\ UNCHANGED <<singleLoop, connVars, chanVars, dataVars, revents,
                 serverVars, shut, peer, callbackVars, workerVars, abort>>

-----------------------------------------------------------------------------
(* User code on the I/O thread, inside a callback.  It leaves a connection *)
(* that is already closed alone.                                           *)

InCallback(call) ==
  /\ upcall /\ abort = "none"
  /\ call \in LoopCalls
  /\ ~Closed

LoopSend(m) ==
  /\ InCallback("send")
  /\ m \in unused
  /\ unused' = unused \ {m}
  /\ IF state = "kConnected" THEN sendInLoop(m, ioQueue)
                             ELSE UNCHANGED <<dataVars, chanVars, ioQueue>>
  /\ UNCHANGED <<singleLoop, connVars, revents, upcall, serverVars, shut,
                 peer, callbackVars, wpc, holds, abort>>

LoopShutdown ==
  /\ InCallback("shutdown")
  /\ state = "kConnected"
  /\ state' = "kDisconnecting"
  /\ shutdownInLoop
  /\ UNCHANGED <<singleLoop, reading, chanVars, dataVars, revents, upcall,
                 ioQueue, serverVars, peer, callbackVars, workerVars, abort>>

LoopForceClose ==
  /\ InCallback("forceClose")
  /\ Len(ioQueue) < MaxQueue
  /\ state' = "kDisconnecting"
  /\ ioQueue' = Append(ioQueue, Simple("forceClose"))
  /\ UNCHANGED <<singleLoop, reading, chanVars, dataVars, revents, upcall,
                 serverVars, shut, peer, callbackVars, workerVars, abort>>

\* forceCloseWithDelay() sets the state and nothing else.
LoopForceCloseWithDelay ==
  /\ InCallback("forceCloseWithDelay")
  /\ state' = "kDisconnecting"
  /\ UNCHANGED <<singleLoop, reading, chanVars, dataVars, revents, upcall,
                 ioQueue, serverVars, shut, peer, callbackVars, workerVars,
                 abort>>

LoopReadControl ==
  /\ \/ InCallback("startRead") /\ startReadInLoop
     \/ InCallback("stopRead") /\ stopReadInLoop
  /\ UNCHANGED <<singleLoop, state, dataVars, revents, upcall, ioQueue,
                 serverVars, shut, peer, callbackVars, workerVars, abort>>

CallbackReturn ==
  /\ upcall /\ abort = "none"
  /\ upcall' = FALSE
  /\ UNCHANGED <<singleLoop, connVars, chanVars, dataVars, revents, ioQueue,
                 serverVars, shut, peer, callbackVars, workerVars, abort>>

-----------------------------------------------------------------------------
(* Workers.                                                                *)

\* The state_ in which the call goes on.
Goes(call) ==
  CASE call \in {"send", "shutdown"} -> state = "kConnected"
    [] call \in {"forceClose", "forceCloseWithDelay"} ->
         state \in {"kConnected", "kDisconnecting"}
    [] OTHER -> state # "none"

\* A call begins: the test of state_.
WorkerCall(w, call, m) ==
  /\ abort = "none"
  /\ holds[w] /\ wpc[w].step = "idle"
  /\ call \in WorkerCalls
  /\ Goes(call)
  /\ Len(ioQueue) < MaxQueue /\ Len(mainQueue) < MaxQueue
  /\ IF call = "send" THEN m \in unused /\ unused' = unused \ {m}
                      ELSE m = Garbage /\ UNCHANGED unused
  /\ wpc' = [wpc EXCEPT ![w] =
       [call |-> call, msg |-> m,
        step |-> IF call \in {"send", "startRead", "stopRead"}
                 THEN "push" ELSE "set"]]
  /\ UNCHANGED <<singleLoop, connVars, chanVars, dataVars, revents, upcall,
                 ioQueue, serverVars, shut, peer, callbackVars, holds, abort>>

\* setState(kDisconnecting).
WorkerSetState(w) ==
  /\ abort = "none"
  /\ wpc[w].step = "set"
  /\ state' = "kDisconnecting"
  /\ wpc' = [wpc EXCEPT ![w].step =
       IF wpc[w].call = "forceCloseWithDelay" THEN "return" ELSE "push"]
  /\ causes' = IF Closed THEN causes \cup {"torn"} ELSE causes
  /\ UNCHANGED <<singleLoop, reading, events, index, dataVars, revents, upcall,
                 ioQueue, serverVars, shut, peer, callbackVars, holds, unused,
                 abort>>

\* loop_->runInLoop() or queueInLoop(): the functor is queued.
WorkerPush(w) ==
  /\ abort = "none"
  /\ wpc[w].step = "push"
  /\ ioQueue' = Append(ioQueue, Functor(wpc[w].call, wpc[w].msg, w))
  /\ wpc' = [wpc EXCEPT ![w].step = "return"]
  /\ UNCHANGED <<singleLoop, connVars, chanVars, dataVars, revents, upcall,
                 serverVars, shut, peer, callbackVars, holds, unused, abort>>

\* The call returns and the worker's message goes out of scope.
WorkerReturn(w) ==
  /\ abort = "none"
  /\ wpc[w].step = "return"
  /\ wpc' = [wpc EXCEPT ![w] = Idle]
  /\ UNCHANGED <<singleLoop, connVars, chanVars, dataVars, revents, upcall,
                 ioQueue, serverVars, shut, peer, callbackVars, holds, unused,
                 abort>>

\* The worker lets go of its TcpConnectionPtr.
WorkerRelease(w) ==
  /\ abort = "none"
  /\ holds[w] /\ wpc[w].step = "idle"
  /\ holds' = [holds EXCEPT ![w] = FALSE]
  /\ UNCHANGED <<singleLoop, connVars, chanVars, dataVars, revents, upcall,
                 ioQueue, serverVars, shut, peer, callbackVars, wpc, unused,
                 abort>>

-----------------------------------------------------------------------------
(* The peer and the network.                                               *)

PeerClose ==
  /\ abort = "none"
  /\ state \notin {"none", "kConnecting"}
  /\ \/ peer = "open" /\ peer' = "fin"
     \/ peer \in {"open", "fin"} /\ peer' = "rst"
  /\ UNCHANGED <<singleLoop, connVars, chanVars, dataVars, revents, upcall,
                 ioQueue, serverVars, shut, callbackVars, workerVars, abort>>

-----------------------------------------------------------------------------
\* ~TcpConnection(), which asserts kDisconnected, and in it ~Channel(), which
\* asserts that the loop does not have the channel.
Destroyed == state # "none" /\ ~Referenced /\ IoIdle
ChannelUnused == index = "kNew"

EventStep == HandleHup \/ HandleRead \/ HandleWrite

FunctorStep ==
  \/ RunEstablished \/ RunDestroyed \/ RunSend \/ RunShutdown \/ RunForceClose
  \/ RunReadControl \/ RunCallback

UserStep ==
  \/ \E m \in Message : LoopSend(m)
  \/ LoopShutdown \/ LoopForceClose \/ LoopForceCloseWithDelay
  \/ LoopReadControl

WorkerStep(w) ==
  \/ \E call \in Call, m \in Message \cup {Garbage} : WorkerCall(w, call, m)
  \/ WorkerSetState(w) \/ WorkerPush(w) \/ WorkerReturn(w) \/ WorkerRelease(w)

Next ==
  \/ NewConnection \/ RemoveConnectionInLoop \/ DestroyServer \/ DestroyServerInEvent
  \/ Poll \/ EventStep \/ FunctorStep \/ CallbackReturn
  \/ UserStep
  \/ \E w \in Worker : WorkerStep(w)
  \/ PeerClose

Spec == Init /\ [][Next]_vars

\* Both loops run: events that epoll has reported are handled, callbacks
\* return, and every iteration ends with the pending functors, however many
\* events come (hence strong fairness); a worker finishes the call it is in.
\* epoll reports an end of file and a hang-up, and room in the socket: the
\* kernel drains its send buffer, and a write() then takes at least a byte.
FairSpec ==
  /\ Spec
  /\ SF_vars(FunctorStep)
  /\ WF_vars(EventStep)
  /\ WF_vars(CallbackReturn)
  /\ WF_vars(RemoveConnectionInLoop)
  /\ WF_vars(Poll /\ peer # "open")
  /\ SF_vars(Poll /\ "out" \in revents')
  /\ SF_vars(HandleWrite /\ wire' # wire)
  /\ \A w \in Worker : WF_vars(WorkerSetState(w) \/ WorkerPush(w))

-----------------------------------------------------------------------------
(* Properties.                                                             *)

\* The asserts on the life of a connection (handleClose() on an open
\* connection only, connections_.erase() finds it, the channel is removed
\* without events left and not behind the loop's back) fail for the five
\* reasons in causes and no other: not for any other order of the calls, events and functors.
AssertsHold ==
  /\ TypeOK
  /\ abort # "none" => causes # {}

\* When the last shared pointer goes, the connection is closed, and its channel
\* has left the epoll set, as the destructors assert, again but for the causes.
DestroyedClosed == Destroyed /\ causes = {} => Closed /\ ChannelUnused

\* What the kernel takes is what sendInLoop() took, byte for byte and in
\* that order; nothing is missing but what waits in output_buffer_, unless
\* a message was given up.
StreamInOrder ==
  /\ IsPrefix(wire, accepted)
  /\ dropped = {} => wire \o output = accepted

\* While the connection is open the channel waits for POLLOUT exactly when
\* there is output: output is never forgotten, and there is no busy loop.
OutputIsWatched ==
  ups = 1 /\ downs = 0 => (Writing <=> output # <<>>)

\* The write half of an open connection is shut down only when all output
\* that sendInLoop() accepted is out.
ShutdownAfterOutput == shut => output = <<>> \/ downs > 0

\* The user sees one UP, and one DOWN after it exactly when it is closed
\* (again, unless state_ or the channel were put out of step).
CallbacksPaired ==
  causes = {} =>
    /\ ups <= 1 /\ downs <= ups
    /\ Closed <=> downs = 1

\* The bytes on the wire are those of messages the user sent.
NoGarbage == \A i \in DOMAIN wire : wire[i][1] # Garbage

\* A closed connection leaves connections_ and the epoll set.
ClosedIsRemoved == Closed ~> (~inMap /\ index = "kNew")

\* The output goes out, or the connection is closed.
OutputGoesOut == (output # <<>>) ~> (output = <<>> \/ Closed)

\* A shutdown() reaches the socket, or the connection is closed.
ShutdownHappens == (state = "kDisconnecting") ~> (shut \/ Closed)
=============================================================================
