------------------------------ MODULE Connector ------------------------------
(***************************************************************************)
(* fm::net::Connector (src/net/Connector.cpp): the attempts of a client to *)
(* connect.  It runs on its loop's thread; other threads set connect_ and  *)
(* queue startInLoop() and stopInLoop().                                   *)
(*                                                                         *)
(* The channel of an attempt is removed from epoll at once but freed by a  *)
(* functor, and a retry is a timer: what matters is in which part of which *)
(* iteration of the loop they come.  An iteration is a poll, the handlers  *)
(* of the events it reported, and the batch of functors queued until then. *)
(* Handlers are operators here; module TcpClient makes the steps of them.  *)
(***************************************************************************)
EXTENDS Naturals, Sequences, FiniteSetsExt

CONSTANTS
  Fd,         \* descriptors, natural numbers
  InitDelay,  \* kInitRetryDelayMs, in units of its own
  MaxDelay    \* kMaxRetryDelayMs

ASSUME ConnectorAssumption ==
  /\ Fd \subseteq Nat \ {0}
  /\ InitDelay \in Nat \ {0}
  /\ MaxDelay \in Nat /\ InitDelay <= MaxDelay

VARIABLES
  connect,   \* connect_
  state,     \* state_
  channel,   \* the descriptor of channel_, None if it is null
  watched,   \* channel_ is in epoll
  open,      \* the descriptors of the process that are in use here
  timers,    \* retry timers that are set
  delay,     \* retry_delay_ms_
  queue,     \* pending_functors_
  abort,     \* the first assert() that failed, "none" so far
  gaveUp     \* history: connect(2) failed for good

attemptVars == <<state, channel, watched, open, timers, delay>>
connectorVars == <<connect, attemptVars, queue, abort, gaveUp>>

None == 0

Functor(op, fd) == [op |-> op, fd |-> fd]

ConnectorInit ==
  /\ connect = FALSE
  /\ state = "kDisconnected"
  /\ channel = None
  /\ watched = FALSE
  /\ open = {}
  /\ timers = 0
  /\ delay = InitDelay
  /\ queue = <<>>
  /\ abort = "none"
  /\ gaveUp = FALSE

\* The lowest descriptor that is free.
NewFd == Min(Fd \ open)

-----------------------------------------------------------------------------
(* Handlers.  c is what the handler finds or has just stored: connect_,    *)
(* state_, retry_delay_ms_ and the number of timers.                       *)

Now == [connect |-> connect, state |-> state, delay |-> delay, timers |-> timers]

\* The descriptor is not closed.
retry_Leak(fd, c) ==
  /\ UNCHANGED open
  /\ state' = "kDisconnected"
  /\ timers' = IF c.connect THEN c.timers + 1 ELSE c.timers
  /\ delay' = IF c.connect THEN Min({2 * c.delay, MaxDelay}) ELSE c.delay

\* The first retry is the last: no timer once the delay has grown.
retry_GivesUp(fd, c) ==
  /\ open' = open \ {fd}
  /\ state' = "kDisconnected"
  /\ timers' = IF c.connect /\ c.delay < MaxDelay THEN c.timers + 1 ELSE c.timers
  /\ delay' = IF c.connect THEN Min({2 * c.delay, MaxDelay}) ELSE c.delay

\* retry(): runAfter(), and twice the delay the next time.
retry(fd, c) ==
  /\ open' = open \ {fd}
  /\ state' = "kDisconnected"
  /\ timers' = IF c.connect THEN c.timers + 1 ELSE c.timers
  /\ delay' = IF c.connect THEN Min({2 * c.delay, MaxDelay}) ELSE c.delay

\* connecting(): a channel that waits for POLLOUT.
connecting(fd, c) ==
  /\ state' = "kConnecting"
  /\ abort' = IF channel = None THEN abort ELSE "connecting"
  /\ channel' = fd
  /\ watched' = TRUE
  /\ open' = open \cup {fd}
  /\ delay' = c.delay
  /\ timers' = c.timers
  /\ UNCHANGED gaveUp

\* connect(): createNonblockingSocketOrDie() finds a descriptor; then the
\* attempt is in progress, or the error is worth a retry, or it is not.
tryConnect(c) ==
  /\ Fd \ open # {}
  /\ \/ connecting(NewFd, c)
     \/ /\ retry(NewFd, c)
        /\ UNCHANGED <<channel, watched, abort, gaveUp>>
     \/ /\ state' = c.state
        /\ delay' = c.delay
        /\ timers' = c.timers
        /\ gaveUp' = TRUE
        /\ UNCHANGED <<channel, watched, open, abort>>

startInLoop(c) ==
  IF c.state = "kDisconnected" /\ c.connect
  THEN tryConnect(c)
  ELSE /\ abort' = IF c.state = "kDisconnected" THEN abort ELSE "start"
       /\ timers' = c.timers
       /\ UNCHANGED <<state, channel, watched, open, delay, gaveUp>>

\* removeAndResetChannel(): out of epoll now, freed by a functor.
removeAndResetChannel ==
  /\ watched' = FALSE
  /\ queue' = Append(queue, Functor("reset", None))
  /\ UNCHANGED channel

\* An attempt in progress is left to end by itself.
stopInLoop_Patient == UNCHANGED <<attemptVars, queue>>

stopInLoop ==
  IF state = "kConnecting"
  THEN removeAndResetChannel /\ retry(channel, Now)
  ELSE UNCHANGED <<attemptVars, queue>>

\* ~Connector(): assert(!channel_).
Destructor == abort' = IF channel = None THEN abort ELSE "destructor"

resetChannel == channel' = None /\ watched' = FALSE

\* handleError(), or handleWrite() with SO_ERROR or a self-connection.  A
\* handleWrite() that follows handleError() finds kDisconnected.
handleFailure == removeAndResetChannel /\ retry(channel, Now)

\* handleWrite() with the connection made, but for new_connection_callback_,
\* which is called with the descriptor if connect_ still says so.
handleSuccess ==
  /\ removeAndResetChannel
  /\ state' = "kConnected"
  /\ open' = IF connect THEN open ELSE open \ {channel}
  /\ UNCHANGED <<timers, delay>>
=============================================================================
