-------------------------- MODULE TcpClientProofs --------------------------
(***************************************************************************)
(* TLAPS proofs of the safety of a TcpClient and its Connector, for any    *)
(* workers, descriptors and delays: who owns the sockets, that a client    *)
(* which is to connect is never idle, and the asserts and their causes.    *)
(*                                                                         *)
(* The invariant has two parts.  Sound holds until an assert fails: what   *)
(* the channel, the connection and the functors are in each state, with    *)
(* the functors in the order in which they will run.  Calm holds as long   *)
(* as none of the causes has come: there is one token to start an attempt, *)
(* and no retry timer is taken while a channel waits to be freed.          *)
(***************************************************************************)
EXTENDS TcpClient, SequenceTheorems, WellFoundedInduction, TLAPS

\* The functors in the order in which they will run.
Pend == batch \o queue

FunctorSet ==
  {Functor(op, None) : op \in {"start", "stop", "reset"}}
    \cup {Functor(op, fd) : op \in {"destroyed", "forceClose"}, fd \in Fd}

QueuesTyped == queue \in Seq(FunctorSet) /\ batch \in Seq(FunctorSet)

Has(q, f) == \E k \in 1..Len(q) : q[k] = f
InOrder(q, f, g) == \A k, l \in 1..Len(q) : q[k] = f /\ q[l] = g => k <= l

Reset == Functor("reset", None)
Start == Functor("start", None)
Destroyed(fd) == Functor("destroyed", fd)
Closing(fd) == Functor("forceClose", fd)

\* The parts of an iteration: the batch, the timers and the events belong to
\* one part each.
Phases ==
  /\ phase # "functors" => batch = <<>>
  /\ phase # "events" => active = {} /\ expired = 0
  /\ "channel" \in active => watched /\ "conn" \notin active

\* A channel is watched exactly while an attempt is in progress.
Attempt ==
  /\ watched <=> state = "kConnecting"
  /\ watched => channel # None
  /\ conn # None => state = "kConnected"
  /\ lpc = "down" => conn # None
  /\ lpc = "restart" => conn = None /\ state = "kConnected"

\* A channel that is not watched is about to be freed, once; forceClose() of
\* a connection comes after the functor that frees its channel and before the
\* one that lets the connection go.
Functors ==
  /\ QueuesTyped
  /\ Has(Pend, Reset) <=> channel # None /\ ~watched
  /\ InOrder(Pend, Reset, Reset)
  /\ \A fd \in Fd :
       /\ InOrder(Pend, Destroyed(fd), Destroyed(fd))
       /\ InOrder(Pend, Closing(fd), Destroyed(fd))
       /\ fd = conn => InOrder(Pend, Reset, Closing(fd))
       /\ Has(Pend, Closing(fd)) => fd \in open /\ ~(watched /\ fd = channel)

\* Every descriptor has one owner.
Sockets ==
  \A fd \in Fd :
    /\ fd \in open <=> \/ watched /\ fd = channel
                       \/ fd = conn
                       \/ fd \in orphan
                       \/ Has(Pend, Destroyed(fd))
    /\ watched /\ fd = channel => fd \notin orphan /\ ~Has(Pend, Destroyed(fd))
    /\ fd = conn => fd \notin orphan /\ ~Has(Pend, Destroyed(fd))
    /\ fd \in orphan => ~Has(Pend, Destroyed(fd))

Sound == abort = "none" => Phases /\ Attempt /\ Functors /\ Sockets

Quiet == state = "kDisconnected" /\ channel = None /\ timers = 0

\* The functor that frees the channel is in this iteration's batch.
Freeing == phase = "functors" /\ Has(batch, Reset)

Starting(w) == wpc[w] \in {"startFlag", "start"}

\* The one call of connect() is on its way: nothing has happened before.
Token ==
  /\ connects = 0 => Quiet /\ ~Has(Pend, Start) /\ \A w \in Worker : ~Starting(w)
  /\ Has(Pend, Start) => Quiet /\ \A w \in Worker : ~Starting(w)
  /\ InOrder(Pend, Start, Start)
  /\ \A w \in Worker : Starting(w) => Quiet
  /\ \A v, w \in Worker : Starting(v) /\ Starting(w) => v = w

\* A retry waits for the channel of the attempt before to be freed.
Retry ==
  /\ timers = 0 \/ (timers = 1 /\ state = "kDisconnected")
  /\ timers > 0 /\ channel # None => expired = 0 /\ (fresh = timers \/ Freeing)

\* So does the end of a connection.
Release ==
  /\ conn # None /\ channel # None =>
       (phase = "events" /\ "conn" \notin active) \/ Freeing
  /\ lpc # "idle" => channel = None

\* A Connector that outlives its TcpClient starts no attempt.
Outlived ==
  ~alive => /\ conn = None /\ channel = None /\ lpc = "idle"
            /\ connect => state = "kConnected"
            /\ \A w \in Worker : wpc[w] = "idle"

Calm == causes = {} => abort = "none" /\ Token /\ Retry /\ Release /\ Outlived

USE ConnectorAssumption, TcpClientAssumption

-----------------------------------------------------------------------------
(* Queues of functors                                                      *)

LEMMA AppendQueue ==
  ASSUME NEW S, NEW q \in Seq(S), NEW h \in S
  PROVE  /\ Append(q, h) \in Seq(S)
         /\ \A f : Has(Append(q, h), f) <=> Has(q, f) \/ f = h
         /\ \A f, g : InOrder(q, f, g) /\ (h = f => ~Has(q, g))
              => InOrder(Append(q, h), f, g)
<1> DEFINE r == Append(q, h)
           n == Len(q)
<1>1. /\ r \in Seq(S) /\ n \in Nat /\ Len(r) = n + 1 /\ r[n + 1] = h
      /\ \A k \in 1..n : r[k] = q[k]
  OBVIOUS
<1>2. /\ \A k \in 1..(n + 1) : k \in 1..n \/ k = n + 1
      /\ \A k \in 1..n : k <= n + 1 /\ k \in 1..(n + 1)
      /\ n + 1 \in 1..(n + 1) /\ n + 1 <= n + 1
  BY <1>1
<1> HIDE DEF r, n
<1>3. ASSUME NEW f PROVE Has(r, f) <=> Has(q, f) \/ f = h
  BY <1>1, <1>2 DEF Has, n
<1>4. ASSUME NEW f, NEW g, InOrder(q, f, g), h = f => ~Has(q, g)
      PROVE  InOrder(r, f, g)
  <2> SUFFICES ASSUME NEW k \in 1..(n + 1), NEW l \in 1..(n + 1), r[k] = f, r[l] = g
               PROVE  k <= l
    BY <1>1 DEF InOrder
  <2>1. CASE l = n + 1
    BY <2>1, <1>2
  <2>2. CASE k \in 1..n /\ l \in 1..n
    BY <2>2, <1>1, <1>4 DEF InOrder, n
  <2>3. CASE k = n + 1 /\ l \in 1..n
    BY <2>3, <1>1, <1>4 DEF Has, n
  <2> QED
    BY <2>1, <2>2, <2>3, <1>2
<1> QED
  BY <1>1, <1>3, <1>4 DEF r

LEMMA TailQueue ==
  ASSUME NEW S, NEW q \in Seq(S), q # <<>>
  PROVE  /\ Tail(q) \in Seq(S) /\ Head(q) \in S
         /\ \A f : Has(q, f) <=> Has(Tail(q), f) \/ f = Head(q)
         /\ \A f, g : InOrder(q, f, g) => InOrder(Tail(q), f, g)
         /\ \A f, g : InOrder(q, f, g) /\ g = Head(q) => ~Has(Tail(q), f)
<1> DEFINE r == Tail(q)
           n == Len(r)
<1>1. /\ r \in Seq(S) /\ n \in Nat /\ Len(q) = n + 1 /\ Head(q) = q[1] /\ Head(q) \in S
      /\ \A k \in 1..n : r[k] = q[k + 1]
  OBVIOUS
<1>2. /\ \A k \in 1..(n + 1) : k = 1 \/ (k - 1 \in 1..n /\ k = (k - 1) + 1)
      /\ \A k \in 1..n : k + 1 \in 1..(n + 1) /\ ~(k + 1 <= 1)
      /\ \A k, l \in 1..n : k + 1 <= l + 1 => k <= l
      /\ 1 \in 1..(n + 1)
  BY <1>1
<1> HIDE DEF r, n
<1>3. ASSUME NEW f PROVE Has(q, f) <=> Has(r, f) \/ f = Head(q)
  <2>1. ASSUME Has(r, f) PROVE Has(q, f)
    <3>1. PICK k \in 1..n : r[k] = f
      BY <2>1 DEF Has, n
    <3> QED
      BY <3>1, <1>1, <1>2 DEF Has
  <2>2. f = Head(q) => Has(q, f)
    BY <1>1, <1>2 DEF Has
  <2>3. ASSUME Has(q, f), f # Head(q) PROVE Has(r, f)
    <3>1. PICK k \in 1..(n + 1) : q[k] = f
      BY <2>3, <1>1 DEF Has
    <3>2. k - 1 \in 1..n /\ r[k - 1] = f
      BY <3>1, <2>3, <1>1, <1>2
    <3> QED
      BY <3>2 DEF Has, n
  <2> QED
    BY <2>1, <2>2, <2>3
<1>4. ASSUME NEW f, NEW g, InOrder(q, f, g) PROVE InOrder(r, f, g)
  <2> SUFFICES ASSUME NEW k \in 1..n, NEW l \in 1..n, r[k] = f, r[l] = g
               PROVE  k <= l
    BY DEF InOrder, n
  <2>1. k + 1 \in 1..Len(q) /\ l + 1 \in 1..Len(q) /\ q[k + 1] = f /\ q[l + 1] = g
    BY <1>1, <1>2
  <2>2. k + 1 <= l + 1
    BY <2>1, <1>4 DEF InOrder
  <2> QED
    BY <2>2, <1>2
<1>5. ASSUME NEW f, NEW g, InOrder(q, f, g), g = Head(q) PROVE ~Has(r, f)
  <2> SUFFICES ASSUME NEW k \in 1..n, r[k] = f PROVE FALSE
    BY DEF Has, n
  <2>1. k + 1 \in 1..Len(q) /\ q[k + 1] = f /\ 1 \in 1..Len(q) /\ q[1] = g
    BY <1>1, <1>2, <1>5
  <2>2. k + 1 <= 1
    BY <2>1, <1>5 DEF InOrder
  <2> QED
    BY <2>2, <1>2
<1> QED
  BY <1>1, <1>3, <1>4, <1>5 DEF r

LEMMA ConcatQueue ==
  ASSUME NEW S, NEW b \in Seq(S), NEW q \in Seq(S)
  PROVE  /\ b \o q \in Seq(S)
         /\ \A f : Has(b \o q, f) <=> Has(b, f) \/ Has(q, f)
         /\ \A h \in S : b \o Append(q, h) = Append(b \o q, h)
         /\ b = <<>> => b \o q = q
         /\ b # <<>> => /\ b \o q # <<>> /\ Head(b \o q) = Head(b)
                        /\ Tail(b) \o q = Tail(b \o q)
<1> DEFINE r == b \o q
           m == Len(b)
           n == Len(q)
<1>1. /\ r \in Seq(S) /\ m \in Nat /\ n \in Nat /\ Len(r) = m + n
      /\ \A k \in 1..m : r[k] = b[k]
      /\ \A k \in 1..n : r[m + k] = q[k]
  OBVIOUS
<1>2. /\ \A k \in 1..(m + n) : k \in 1..m \/ (k - m \in 1..n /\ k = m + (k - m))
      /\ \A k \in 1..m : k \in 1..(m + n)
      /\ \A k \in 1..n : m + k \in 1..(m + n)
  BY <1>1
<1> HIDE DEF r, m, n
<1>3. ASSUME NEW f PROVE Has(r, f) <=> Has(b, f) \/ Has(q, f)
  <2>1. Has(b, f) => Has(r, f)
    BY <1>1, <1>2 DEF Has, m
  <2>2. ASSUME Has(q, f) PROVE Has(r, f)
    <3>1. PICK k \in 1..n : q[k] = f
      BY <2>2 DEF Has, n
    <3> QED
      BY <3>1, <1>1, <1>2 DEF Has
  <2>3. ASSUME Has(r, f), ~Has(b, f) PROVE Has(q, f)
    <3>1. PICK k \in 1..(m + n) : r[k] = f
      BY <2>3, <1>1 DEF Has
    <3>2. ~(k \in 1..m)
      BY <3>1, <2>3, <1>1 DEF Has, m
    <3>3. k - m \in 1..n /\ q[k - m] = f
      BY <3>1, <3>2, <1>1, <1>2
    <3> QED
      BY <3>3 DEF Has, n
  <2> QED
    BY <2>1, <2>2, <2>3
<1>4. ASSUME NEW h \in S PROVE b \o Append(q, h) = Append(b \o q, h)
  OBVIOUS
<1>5. b = <<>> => b \o q = q
  OBVIOUS
<1>6. ASSUME b # <<>>
      PROVE  b \o q # <<>> /\ Head(b \o q) = Head(b) /\ Tail(b) \o q = Tail(b \o q)
  BY <1>6
<1> QED
  BY <1>1, <1>3, <1>4, <1>5, <1>6 DEF r

-----------------------------------------------------------------------------
(* What the handlers of the Connector may do                               *)

LEMMA LeastElement ==
  ASSUME NEW T, T \subseteq Nat, T # {}
  PROVE  Min(T) \in T
<1>1. PICK x \in T : \A y \in T : ~(<<y, x>> \in OpToRel(<, Nat))
  BY WFMin, NatLessThanWellFounded, Zenon
<1>2. \A y \in T : ~(y < x)
  BY <1>1 DEF OpToRel
<1>3. \A y \in T : x <= y
  BY <1>2
<1> QED
  BY <1>3 DEF Min

LEMMA NewFdIsFree ==
  ASSUME Fd \ open # {}
  PROVE  NewFd \in Fd /\ NewFd \notin open
<1>1. Fd \ open \subseteq Nat
  BY DEF ConnectorAssumption
<1>2. Min(Fd \ open) \in Fd \ open
  BY <1>1, LeastElement
<1> QED
  BY <1>2 DEF NewFd

Delays == InitDelay..MaxDelay

\* The retry delay stays between its first value and its limit.
LEMMA DelayGrows ==
  ASSUME NEW d \in Delays
  PROVE  Min({2 * d, MaxDelay}) \in Delays
<1>1. /\ d \in Nat /\ InitDelay \in Nat /\ MaxDelay \in Nat
      /\ InitDelay <= d /\ d <= MaxDelay /\ 2 * d \in Nat /\ d <= 2 * d
  BY DEF ConnectorAssumption, Delays
<1>2. Min({2 * d, MaxDelay}) \in {2 * d, MaxDelay}
  BY <1>1, LeastElement
<1>3. MaxDelay <= MaxDelay /\ InitDelay <= MaxDelay /\ InitDelay <= 2 * d
  BY <1>1
<1>4. CASE Min({2 * d, MaxDelay}) = MaxDelay
  BY <1>1, <1>3, <1>4 DEF Delays
<1>5. CASE Min({2 * d, MaxDelay}) = 2 * d
  <2>1. \E x \in {2 * d, MaxDelay} : \A y \in {2 * d, MaxDelay} : x <= y
    BY <1>1
  <2>2. Min({2 * d, MaxDelay}) <= MaxDelay
    BY <2>1 DEF Min
  <2> QED
    BY <1>1, <1>3, <1>5, <2>2 DEF Delays
<1> QED
  BY <1>2, <1>4, <1>5

States == {"kDisconnected", "kConnecting", "kConnected"}
Aborts == {"none", "start", "connecting", "destructor", "callback"}

\* Delay, descriptors and state have their types.
AttemptTypes ==
  /\ state \in States /\ channel \in Fd \cup {None} /\ watched \in BOOLEAN
  /\ open \subseteq Fd /\ delay \in Delays /\ abort \in Aborts /\ gaveUp \in BOOLEAN

\* startInLoop() with what c says: an attempt began, failed to and is to be
\* retried or was given up, there was nothing to do, or an assert failed.
Began(c) ==
  /\ c.state = "kDisconnected" /\ c.connect /\ channel = None
  /\ state' = "kConnecting" /\ watched' = TRUE /\ timers' = c.timers
  /\ \E fd \in Fd \ open : channel' = fd /\ open' = open \cup {fd}
  /\ UNCHANGED <<abort, gaveUp>>

Retried(c) ==
  /\ c.state = "kDisconnected" /\ c.connect
  /\ state' = "kDisconnected" /\ timers' = c.timers + 1
  /\ UNCHANGED <<channel, watched, open, abort, gaveUp>>

GaveUp(c) ==
  /\ c.state = "kDisconnected" /\ c.connect
  /\ state' = "kDisconnected" /\ timers' = c.timers /\ gaveUp' = TRUE
  /\ UNCHANGED <<channel, watched, open, abort>>

Idled(c) ==
  /\ c.state = "kDisconnected" /\ ~c.connect
  /\ timers' = c.timers
  /\ UNCHANGED <<state, channel, watched, open, abort, gaveUp>>

Failed(c) ==
  /\ abort' # "none" /\ timers' = c.timers
  /\ c.state # "kDisconnected" \/ (c.connect /\ channel # None)

Contexts == [connect : BOOLEAN, state : States, delay : Delays, timers : Nat]

LEMMA StartCases ==
  ASSUME AttemptTypes, abort = "none", NEW c \in Contexts, startInLoop(c)
  PROVE  /\ AttemptTypes'
         /\ Began(c) \/ Retried(c) \/ GaveUp(c) \/ Idled(c) \/ Failed(c)
<1> USE DEF AttemptTypes, Contexts
<1>1. CASE c.state = "kDisconnected" /\ c.connect
  <2>1. tryConnect(c) /\ Fd \ open # {}
    BY <1>1 DEF startInLoop, tryConnect
  <2>2. NewFd \in Fd /\ NewFd \notin open
    BY <2>1, NewFdIsFree
  <2>3. CASE connecting(NewFd, c)
    <3>1. /\ state' = "kConnecting" /\ channel' = NewFd /\ watched' = TRUE
          /\ open' = open \cup {NewFd} /\ delay' = c.delay /\ timers' = c.timers
          /\ gaveUp' = gaveUp
          /\ abort' = IF channel = None THEN abort ELSE "connecting"
      BY <2>3 DEF connecting
    <3>2. AttemptTypes'
      BY <3>1, <2>2 DEF States, Aborts
    <3> QED
      BY <3>1, <3>2, <2>2, <1>1 DEF Began, Failed
  <2>4. CASE retry(NewFd, c) /\ UNCHANGED <<channel, watched, abort, gaveUp>>
    <3>1. /\ state' = "kDisconnected" /\ open' = open /\ timers' = c.timers + 1
          /\ delay' = Min({2 * c.delay, MaxDelay})
      BY <2>4, <2>2, <1>1 DEF retry
    <3>2. delay' \in Delays
      BY <3>1, DelayGrows
    <3>3. AttemptTypes'
      BY <3>1, <3>2, <2>4 DEF States
    <3> QED
      BY <3>1, <3>3, <2>4, <1>1 DEF Retried
  <2>5. CASE /\ state' = c.state /\ delay' = c.delay /\ timers' = c.timers
             /\ gaveUp' = TRUE /\ UNCHANGED <<channel, watched, open, abort>>
    BY <2>5, <1>1 DEF GaveUp
  <2> QED
    BY <2>1, <2>3, <2>4, <2>5 DEF tryConnect
<1>2. CASE ~(c.state = "kDisconnected" /\ c.connect)
  <2>1. /\ abort' = IF c.state = "kDisconnected" THEN abort ELSE "start"
        /\ timers' = c.timers
        /\ UNCHANGED <<state, channel, watched, open, delay, gaveUp>>
    BY <1>2 DEF startInLoop
  <2>2. AttemptTypes'
    BY <2>1 DEF Aborts
  <2> QED
    BY <2>1, <2>2, <1>2 DEF Idled, Failed
<1> QED
  BY <1>1, <1>2

\* removeAndResetChannel() and retry(), as a handler or stopInLoop() calls them.
LEMMA FailureTypes ==
  ASSUME AttemptTypes, connect \in BOOLEAN, timers \in Nat, retry(channel, Now)
  PROVE  /\ state' = "kDisconnected" /\ open' = open \ {channel} /\ delay' \in Delays
         /\ timers' = IF connect THEN timers + 1 ELSE timers
<1>1. /\ state' = "kDisconnected" /\ open' = open \ {channel}
      /\ timers' = IF connect THEN timers + 1 ELSE timers
      /\ delay' = IF connect THEN Min({2 * delay, MaxDelay}) ELSE delay
  BY DEF retry, Now
<1>2. Min({2 * delay, MaxDelay}) \in Delays /\ delay \in Delays
  BY DelayGrows DEF AttemptTypes
<1> QED
  BY <1>1, <1>2

-----------------------------------------------------------------------------
(* Types                                                                   *)

AnyFunctor == [op : Ops, fd : Fd \cup {None}]

TimerTypes == timers \in Nat /\ fresh \in 0..timers /\ expired \in 0..timers
QueueTypes == queue \in Seq(AnyFunctor) /\ batch \in Seq(AnyFunctor)
ClientTypes ==
  /\ connect \in BOOLEAN /\ clientConnect \in BOOLEAN /\ retryOn \in BOOLEAN
  /\ alive \in BOOLEAN /\ conn \in Fd \cup {None} /\ orphan \subseteq Fd
LoopTypes ==
  /\ phase \in {"poll", "events", "functors"}
  /\ active \subseteq {"channel", "timer", "conn"}
  /\ lpc \in {"idle", "down", "restart"}
CallTypes ==
  /\ wpc \in [Worker -> {"idle", "startFlag", "start", "stopFlag", "stop"}]
  /\ connects \in 0..MaxConnects
  /\ causes \subseteq {"again", "overruled", "hasty", "destroyed"}

AllTypes ==
  /\ AttemptTypes /\ TimerTypes /\ QueueTypes /\ ClientTypes /\ LoopTypes /\ CallTypes

LEMMA TypeParts == TypeOK <=> AllTypes
BY DEF TypeOK, AllTypes, AttemptTypes, TimerTypes, QueueTypes, ClientTypes,
       LoopTypes, CallTypes, States, Aborts, Delays, AnyFunctor

LEMMA TypePartsNext == TypeOK' <=> AllTypes'
BY TypeParts, PTL

LEMMA StartTypes ==
  ASSUME AllTypes, abort = "none", NEW c \in Contexts, startInLoop(c)
  PROVE  AttemptTypes' /\ timers' \in {c.timers, c.timers + 1}
BY StartCases DEF AllTypes, Began, Retried, GaveUp, Idled, Failed

LEMMA NowInContexts ==
  ASSUME AllTypes
  PROVE  /\ Now \in Contexts
         /\ timers > 0 => [Now EXCEPT !.timers = @ - 1] \in Contexts
         /\ [Now EXCEPT !.connect = TRUE] \in Contexts
         /\ [Now EXCEPT !.connect = TRUE, !.state = "kDisconnected",
                        !.delay = InitDelay] \in Contexts
<1>1. /\ connect \in BOOLEAN /\ state \in States /\ delay \in Delays /\ timers \in Nat
      /\ InitDelay \in Delays /\ "kDisconnected" \in States /\ TRUE \in BOOLEAN
      /\ timers > 0 => timers - 1 \in Nat
  BY DEF AllTypes, ClientTypes, AttemptTypes, TimerTypes, Delays, States, ConnectorAssumption
<1>2. Now \in Contexts
  BY <1>1 DEF Now, Contexts
<1>3. timers > 0 => [Now EXCEPT !.timers = @ - 1] \in Contexts
  BY <1>1 DEF Now, Contexts
<1>4. [Now EXCEPT !.connect = TRUE] \in Contexts
  BY <1>1 DEF Now, Contexts
<1>5. [Now EXCEPT !.connect = TRUE, !.state = "kDisconnected", !.delay = InitDelay] \in Contexts
  BY <1>1 DEF Now, Contexts
<1> QED
  BY <1>2, <1>3, <1>4, <1>5

LEMMA FunctorTypes ==
  /\ \A op \in Ops, fd \in Fd \cup {None} : Functor(op, fd) \in AnyFunctor
  /\ \A q \in Seq(AnyFunctor), f \in AnyFunctor : Append(q, f) \in Seq(AnyFunctor)
  /\ \A q \in Seq(AnyFunctor) : q # <<>> => Tail(q) \in Seq(AnyFunctor) /\ Head(q) \in AnyFunctor
  /\ {"start", "stop", "reset", "destroyed", "forceClose"} \subseteq Ops
<1>1. \A op \in Ops, fd \in Fd \cup {None} : Functor(op, fd) \in AnyFunctor
  BY DEF Functor, AnyFunctor
<1> QED
  BY <1>1, AppendQueue, TailQueue DEF Ops

\* The loop's own steps.
LEMMA LoopStepTypes == AllTypes /\ LoopStep => AllTypes'
<1> SUFFICES ASSUME AllTypes, LoopStep PROVE AllTypes'
  OBVIOUS
<1> USE DEF AllTypes
<1>1. CASE Poll
  BY <1>1 DEF Poll, AttemptTypes, TimerTypes, QueueTypes, ClientTypes, LoopTypes, CallTypes,
     connectorVars, attemptVars, clientVars, callVars
<1>2. CASE Swap
  BY <1>2 DEF Swap, AttemptTypes, TimerTypes, QueueTypes, ClientTypes, LoopTypes, CallTypes,
     connectorVars, attemptVars, clientVars, callVars
<1>3. CASE EndOfBatch
  BY <1>3 DEF EndOfBatch, AttemptTypes, TimerTypes, QueueTypes, ClientTypes, LoopTypes, CallTypes,
     connectorVars, attemptVars, clientVars, callVars
<1>4. CASE RunStart
  <2>1. AttemptTypes' /\ timers' \in {timers, timers + 1}
    BY <1>4, StartTypes, NowInContexts DEF RunStart, AtHead, Running, Now
  <2>2. TimerTypes'
    BY <1>4, <2>1 DEF RunStart, AtHead, TimerTypes
  <2>3. QueueTypes'
    BY <1>4, FunctorTypes DEF RunStart, AtHead, QueueTypes
  <2> QED
    BY <1>4, <2>1, <2>2, <2>3 DEF RunStart, AtHead, ClientTypes, LoopTypes, CallTypes, clientVars, callVars
<1>5. CASE RunStop
  <2>1. CASE state = "kConnecting"
    <3>1. removeAndResetChannel /\ retry(channel, Now)
      BY <1>5, <2>1 DEF RunStop, stopInLoop
    <3>2. /\ state' = "kDisconnected" /\ open' = open \ {channel} /\ delay' \in Delays
          /\ timers' = IF connect THEN timers + 1 ELSE timers
      BY <3>1, FailureTypes DEF ClientTypes, TimerTypes
    <3>3. AttemptTypes'
      BY <1>5, <3>1, <3>2 DEF RunStop, AttemptTypes, removeAndResetChannel, States
    <3>4. TimerTypes'
      BY <1>5, <3>2 DEF RunStop, AtHead, TimerTypes, ClientTypes
    <3>5. QueueTypes'
      BY <1>5, <3>1, FunctorTypes DEF RunStop, AtHead, QueueTypes, removeAndResetChannel
    <3> QED
      BY <1>5, <3>3, <3>4, <3>5 DEF RunStop, AtHead, ClientTypes, LoopTypes, CallTypes, clientVars, callVars
  <2>2. CASE state # "kConnecting"
    <3>1. UNCHANGED <<attemptVars, queue>>
      BY <1>5, <2>2 DEF RunStop, stopInLoop
    <3>2. AttemptTypes' /\ TimerTypes'
      BY <1>5, <3>1 DEF RunStop, AtHead, AttemptTypes, TimerTypes, attemptVars
    <3>5. QueueTypes'
      BY <1>5, <3>1, FunctorTypes DEF RunStop, AtHead, QueueTypes
    <3> QED
      BY <1>5, <3>2, <3>5 DEF RunStop, AtHead, ClientTypes, LoopTypes, CallTypes, clientVars, callVars
  <2> QED
    BY <2>1, <2>2
<1>6. CASE RunReset
  BY <1>6, FunctorTypes DEF RunReset, AtHead, resetChannel, AttemptTypes, TimerTypes, QueueTypes,
     ClientTypes, LoopTypes, CallTypes, clientVars, callVars
<1>7. CASE RunDestroyed
  BY <1>7, FunctorTypes DEF RunDestroyed, AtHead, AttemptTypes, TimerTypes, QueueTypes,
     ClientTypes, LoopTypes, CallTypes, clientVars, callVars
<1>8. CASE RunForceClose
  BY <1>8, FunctorTypes DEF RunForceClose, AtHead, AttemptTypes, TimerTypes, QueueTypes,
     ClientTypes, LoopTypes, CallTypes, attemptVars, clientVars, callVars
<1>9. CASE HandleTimers
  BY <1>9 DEF HandleTimers, AttemptTypes, TimerTypes, QueueTypes,
     ClientTypes, LoopTypes, CallTypes, connectorVars, attemptVars, clientVars
<1>10. CASE RunTimer
  <2>0. timers > 0 /\ expired \in Nat /\ expired > 0 /\ expired <= timers /\ timers \in Nat
        /\ expired' = expired - 1 /\ fresh' = 0 /\ timers - 1 \in Nat
    BY <1>10 DEF RunTimer, TimerTypes
  <2>1. CASE ~alive /\ ~connect /\ timers = 1
    <3>1. timers' = 0 /\ Destructor /\ UNCHANGED <<state, channel, watched, open, delay, gaveUp>>
      BY <1>10, <2>1 DEF RunTimer
    <3>2. AttemptTypes'
      BY <3>1 DEF AttemptTypes, Destructor, Aborts
    <3>3. TimerTypes'
      BY <3>1, <2>0, <2>1 DEF TimerTypes
    <3> QED
      BY <1>10, <3>2, <3>3 DEF RunTimer, QueueTypes, ClientTypes, LoopTypes, CallTypes, clientVars, callVars
  <2>2. CASE ~(~alive /\ ~connect /\ timers = 1)
    <3> DEFINE c == [Now EXCEPT !.timers = @ - 1]
    <3>1. startInLoop(c) /\ c \in Contexts /\ c.timers = timers - 1
      BY <1>10, <2>0, <2>2, NowInContexts DEF RunTimer, Now
    <3>2. AttemptTypes' /\ timers' \in {timers - 1, (timers - 1) + 1}
      BY <3>1, <1>10, StartTypes DEF RunTimer
    <3>3. TimerTypes'
      BY <3>2, <2>0 DEF TimerTypes
    <3> QED
      BY <1>10, <3>2, <3>3 DEF RunTimer, QueueTypes, ClientTypes, LoopTypes, CallTypes, clientVars, callVars
  <2> QED
    BY <2>1, <2>2
<1>11. CASE HandleChannel
  <2>1. QueueTypes'
    BY <1>11, FunctorTypes DEF HandleChannel, handleFailure, handleSuccess, removeAndResetChannel, QueueTypes
  <2>2. LoopTypes' /\ CallTypes'
    BY <1>11 DEF HandleChannel, LoopTypes, CallTypes, callVars
  <2>3. CASE handleFailure /\ UNCHANGED <<conn, abort>>
    <3>1. /\ state' = "kDisconnected" /\ open' = open \ {channel} /\ delay' \in Delays
          /\ timers' = IF connect THEN timers + 1 ELSE timers
      BY <2>3, FailureTypes DEF handleFailure, ClientTypes, TimerTypes
    <3>2. AttemptTypes'
      BY <1>11, <2>3, <3>1 DEF HandleChannel, handleFailure, removeAndResetChannel, AttemptTypes, States
    <3>3. TimerTypes'
      BY <1>11, <3>1 DEF HandleChannel, TimerTypes, ClientTypes
    <3>4. ClientTypes'
      BY <1>11, <2>3 DEF HandleChannel, ClientTypes
    <3> QED
      BY <2>1, <2>2, <3>2, <3>3, <3>4
  <2>4. CASE /\ handleSuccess
             /\ conn' = IF connect THEN channel ELSE conn
             /\ abort' = IF connect /\ ~alive THEN "callback" ELSE abort
    <3>1. AttemptTypes'
      BY <1>11, <2>4 DEF HandleChannel, handleSuccess, removeAndResetChannel, AttemptTypes,
         States, Aborts
    <3>3. TimerTypes'
      BY <1>11, <2>4 DEF HandleChannel, handleSuccess, TimerTypes
    <3>2. ClientTypes'
      BY <1>11, <2>4 DEF HandleChannel, ClientTypes, AttemptTypes
    <3> QED
      BY <2>1, <2>2, <3>1, <3>2, <3>3
  <2> QED
    BY <1>11, <2>3, <2>4 DEF HandleChannel
<1>12. CASE HandleClose \/ IgnoreConn
  <2>1. LoopTypes' /\ ClientTypes' /\ CallTypes'
    BY <1>12 DEF HandleClose, IgnoreConn, LoopTypes, ClientTypes, CallTypes, connectorVars,
       clientVars, callVars
  <2>2. AttemptTypes' /\ TimerTypes' /\ QueueTypes'
    BY <1>12 DEF HandleClose, IgnoreConn, AttemptTypes, TimerTypes, QueueTypes, connectorVars,
       attemptVars
  <2> QED
    BY <2>1, <2>2
<1>13. CASE RemoveConnection
  <2>1. QueueTypes'
    BY <1>13, FunctorTypes DEF RemoveConnection, QueueTypes, ClientTypes
  <2> QED
    BY <1>13, <2>1 DEF RemoveConnection, AttemptTypes, TimerTypes, ClientTypes, LoopTypes,
       CallTypes, attemptVars, callVars
<1>14. CASE Restart
  <2> DEFINE c == [Now EXCEPT !.connect = TRUE, !.state = "kDisconnected", !.delay = InitDelay]
  <2>1. startInLoop(c) /\ c \in Contexts /\ c.timers = timers
    BY <1>14, NowInContexts DEF Restart, Now
  <2>2. AttemptTypes' /\ timers' \in {timers, timers + 1}
    BY <2>1, <1>14, StartTypes DEF Restart
  <2>3. TimerTypes'
    BY <1>14, <2>2 DEF Restart, TimerTypes
  <2>4. causes' \subseteq {"again", "overruled", "hasty", "destroyed"}
    BY <1>14 DEF Restart, CallTypes
  <2> QED
    BY <1>14, <2>2, <2>3, <2>4 DEF Restart, QueueTypes, ClientTypes, LoopTypes, CallTypes, clientVars
<1> QED
  BY <1>1, <1>2, <1>3, <1>4, <1>5, <1>6, <1>7, <1>8, <1>9, <1>10, <1>11, <1>12, <1>13, <1>14
     DEF LoopStep

\* The steps of the user.
LEMMA UserStepTypes == AllTypes /\ UserStep => AllTypes'
<1> SUFFICES ASSUME AllTypes, UserStep PROVE AllTypes'
  OBVIOUS
<1> USE DEF AllTypes
<1>1. CASE LoopConnect
  <2> DEFINE c == [Now EXCEPT !.connect = TRUE]
  <2>1. startInLoop(c) /\ c \in Contexts /\ c.timers = timers /\ abort = "none"
    BY <1>1, NowInContexts DEF LoopConnect, Now, InUserCode, Running
  <2>2. AttemptTypes' /\ timers' \in {timers, timers + 1}
    BY <2>1, StartTypes
  <2>3. TimerTypes'
    BY <1>1, <2>2 DEF LoopConnect, TimerTypes
  <2>4. CallTypes'
    BY <1>1 DEF LoopConnect, CountConnect, CallTypes
  <2> QED
    BY <1>1, <2>2, <2>3, <2>4 DEF LoopConnect, QueueTypes, ClientTypes, LoopTypes
<1>2. CASE LoopStop
  <2>1. QueueTypes'
    BY <1>2, FunctorTypes DEF LoopStop, QueueTypes, loopVars
  <2> QED
    BY <1>2, <2>1 DEF LoopStop, AttemptTypes, TimerTypes, ClientTypes, LoopTypes, CallTypes,
       attemptVars, loopVars, callVars
<1>3. CASE LoopDisconnect
  BY <1>3 DEF LoopDisconnect, AttemptTypes, TimerTypes, QueueTypes, ClientTypes, LoopTypes,
     CallTypes, connectorVars, attemptVars, loopVars, callVars
<1>4. CASE LoopForceClose
  <2>1. QueueTypes'
    BY <1>4, FunctorTypes DEF LoopForceClose, QueueTypes, ClientTypes, loopVars
  <2> QED
    BY <1>4, <2>1 DEF LoopForceClose, AttemptTypes, TimerTypes, ClientTypes, LoopTypes,
       CallTypes, attemptVars, loopVars, clientVars, callVars
<1>5. CASE DestroyClient
  <2>1. QueueTypes'
    BY <1>5, FunctorTypes DEF DestroyClient, QueueTypes, loopVars
  <2>2. AttemptTypes'
    BY <1>5 DEF DestroyClient, Destructor, AttemptTypes, Aborts, attemptVars
  <2>3. ClientTypes'
    BY <1>5 DEF DestroyClient, ClientTypes
  <2>4. CallTypes'
    BY <1>5 DEF DestroyClient, CallTypes
  <2> QED
    BY <1>5, <2>1, <2>2, <2>3, <2>4 DEF DestroyClient, TimerTypes, LoopTypes, attemptVars, loopVars
<1> QED
  BY <1>1, <1>2, <1>3, <1>4, <1>5 DEF UserStep

LEMMA WorkerStepTypes ==
  ASSUME AllTypes, NEW w \in Worker, WorkerStep(w)
  PROVE  AllTypes'
<1> USE DEF AllTypes
<1>1. CASE WorkerConnect(w)
  <2>1. CallTypes'
    BY <1>1 DEF WorkerConnect, CountConnect, CallTypes
  <2> QED
    BY <1>1, <2>1 DEF WorkerConnect, AttemptTypes, TimerTypes, QueueTypes, ClientTypes,
       LoopTypes, connectorVars, attemptVars, loopVars
<1>2. CASE WorkerStop(w) \/ WorkerDisconnect(w)
  <2>1. CallTypes'
    BY <1>2 DEF WorkerStop, WorkerDisconnect, CallTypes, callVars
  <2> QED
    BY <1>2, <2>1 DEF WorkerStop, WorkerDisconnect, AttemptTypes, TimerTypes, QueueTypes,
       ClientTypes, LoopTypes, connectorVars, attemptVars, loopVars
<1>3. CASE WorkerFlag(w)
  <2>1. CallTypes'
    BY <1>3 DEF WorkerFlag, CallTypes
  <2> QED
    BY <1>3, <2>1 DEF WorkerFlag, AttemptTypes, TimerTypes, QueueTypes, ClientTypes, LoopTypes,
       attemptVars, loopVars, clientVars
<1>4. CASE WorkerPush(w)
  <2>1. CallTypes'
    BY <1>4 DEF WorkerPush, CallTypes
  <2>2. QueueTypes'
    BY <1>4, FunctorTypes DEF WorkerPush, QueueTypes, loopVars
  <2> QED
    BY <1>4, <2>1, <2>2 DEF WorkerPush, AttemptTypes, TimerTypes, ClientTypes, LoopTypes,
       attemptVars, loopVars, clientVars
<1> QED
  BY <1>1, <1>2, <1>3, <1>4 DEF WorkerStep

LEMMA InitTypes == Init => AllTypes
<1> SUFFICES ASSUME Init PROVE AllTypes
  OBVIOUS
<1>1. InitDelay \in Delays
  BY DEF Delays, ConnectorAssumption
<1>2. AttemptTypes
  BY <1>1 DEF Init, ConnectorInit, AttemptTypes, States, Aborts
<1>3. QueueTypes /\ TimerTypes
  BY DEF Init, ConnectorInit, QueueTypes, TimerTypes
<1>4. ClientTypes /\ LoopTypes
  BY DEF Init, ConnectorInit, ClientTypes, LoopTypes
<1>5. CallTypes
  BY DEF Init, CallTypes, TcpClientAssumption
<1> QED
  BY <1>2, <1>3, <1>4, <1>5 DEF AllTypes

LEMMA StutterTypes == AllTypes /\ UNCHANGED vars => AllTypes'
BY DEF vars, connectorVars, attemptVars, loopVars, clientVars, callVars, AllTypes,
       AttemptTypes, TimerTypes, QueueTypes, ClientTypes, LoopTypes, CallTypes

\* The variables of the client and its connector keep their types.
LEMMA Typed == Spec => [](TypeOK /\ AllTypes)
<1>1. AllTypes /\ [Next]_vars => AllTypes'
  BY LoopStepTypes, UserStepTypes, WorkerStepTypes, StutterTypes DEF Next
<1> QED
  BY <1>1, InitTypes, TypeParts, PTL DEF Spec

-----------------------------------------------------------------------------
(* What a step does to the functors that are pending                       *)

Stop == Functor("stop", None)

Tracked ==
  {Start, Reset} \cup {Destroyed(fd) : fd \in Fd} \cup {Closing(fd) : fd \in Fd}

Queued(h) ==
  \A f \in Tracked :
    /\ Has(Pend', f) <=> Has(Pend, f) \/ f = h
    /\ \A g \in Tracked :
         InOrder(Pend, f, g) /\ (h = f => ~Has(Pend, g)) => InOrder(Pend', f, g)

Dequeued(h) ==
  \A f \in Tracked :
    /\ Has(Pend, f) <=> Has(Pend', f) \/ f = h
    /\ \A g \in Tracked : InOrder(Pend, f, g) => InOrder(Pend', f, g)
    /\ InOrder(Pend, f, h) => ~Has(Pend', f)

\* All but the functors that start or stop are as they were.
Kept ==
  \A f, g \in Tracked \ {Start} :
    /\ Has(Pend', f) <=> Has(Pend, f)
    /\ InOrder(Pend, f, g) => InOrder(Pend', f, g)

LEMMA FunctorFacts ==
  /\ Start \in FunctorSet /\ Stop \in FunctorSet /\ Reset \in FunctorSet
  /\ Start.op = "start" /\ Stop.op = "stop" /\ Reset.op = "reset"
  /\ \A fd \in Fd : /\ Destroyed(fd) \in FunctorSet /\ Closing(fd) \in FunctorSet
                    /\ Destroyed(fd).op = "destroyed" /\ Closing(fd).op = "forceClose"
                    /\ Destroyed(fd).fd = fd /\ Closing(fd).fd = fd
  /\ \A h \in FunctorSet :
       /\ h.op = "start" => h = Start
       /\ h.op = "stop" => h = Stop
       /\ h.op = "reset" => h = Reset
       /\ h.op = "destroyed" => h.fd \in Fd /\ h = Destroyed(h.fd)
       /\ h.op = "forceClose" => h.fd \in Fd /\ h = Closing(h.fd)
<1>1. \A op, fd : Functor(op, fd).op = op /\ Functor(op, fd).fd = fd
  BY DEF Functor
<1>2. /\ \A op \in {"start", "stop", "reset"} : Functor(op, None) \in FunctorSet
      /\ \A op \in {"destroyed", "forceClose"}, fd \in Fd : Functor(op, fd) \in FunctorSet
  BY DEF FunctorSet
<1>3. ASSUME NEW h \in FunctorSet
      PROVE  \/ \E op \in {"start", "stop", "reset"} : h = Functor(op, None)
             \/ \E op \in {"destroyed", "forceClose"}, fd \in Fd : h = Functor(op, fd)
  BY DEF FunctorSet
<1>4. ASSUME NEW h \in FunctorSet
      PROVE  /\ h.op = "start" => h = Start
             /\ h.op = "stop" => h = Stop
             /\ h.op = "reset" => h = Reset
             /\ h.op = "destroyed" => h.fd \in Fd /\ h = Destroyed(h.fd)
             /\ h.op = "forceClose" => h.fd \in Fd /\ h = Closing(h.fd)
  BY <1>1, <1>3 DEF Start, Stop, Reset, Destroyed, Closing
<1> QED
  BY <1>1, <1>2, <1>4 DEF Start, Stop, Reset, Destroyed, Closing

LEMMA TrackedFacts ==
  /\ Tracked \subseteq FunctorSet /\ Stop \notin Tracked
  /\ Start \in Tracked /\ Reset \in Tracked /\ Reset # Start
  /\ \A fd \in Fd : /\ Destroyed(fd) \in Tracked /\ Destroyed(fd) \notin {Start, Reset}
                    /\ Closing(fd) \in Tracked /\ Closing(fd) \notin {Start, Reset}
  /\ \A c, d \in Fd : /\ Destroyed(c) # Closing(d)
                      /\ Destroyed(c) = Destroyed(d) => c = d
                      /\ Closing(c) = Closing(d) => c = d
<1>1. Tracked \subseteq FunctorSet
  BY FunctorFacts DEF Tracked
<1> QED
  BY <1>1, FunctorFacts DEF Tracked

LEMMA QueueSame ==
  ASSUME Pend' = Pend
  PROVE  Kept
BY DEF Kept

LEMMA QueueSwap ==
  ASSUME QueuesTyped, batch = <<>>, batch' = queue, queue' = <<>>
  PROVE  QueuesTyped' /\ Pend' = Pend /\ Pend = queue
<1>1. <<>> \o queue = queue /\ queue \o <<>> = queue
  BY DEF QueuesTyped
<1> QED
  BY <1>1 DEF Pend, QueuesTyped

LEMMA QueueParts ==
  ASSUME QueuesTyped
  PROVE  /\ Pend \in Seq(FunctorSet)
         /\ \A f : Has(Pend, f) <=> Has(batch, f) \/ Has(queue, f)
BY ConcatQueue DEF QueuesTyped, Pend

LEMMA QueueAppend ==
  ASSUME QueuesTyped, NEW h \in FunctorSet, batch' = batch, queue' = Append(queue, h)
  PROVE  /\ QueuesTyped' /\ Queued(h)
         /\ h \in {Start, Stop} => Kept
<1>1. Pend' = Append(Pend, h) /\ Pend \in Seq(FunctorSet)
  BY ConcatQueue DEF QueuesTyped, Pend
<1>2. QueuesTyped'
  BY AppendQueue DEF QueuesTyped
<1>3. /\ \A f : Has(Pend', f) <=> Has(Pend, f) \/ f = h
      /\ \A f, g : InOrder(Pend, f, g) /\ (h = f => ~Has(Pend, g)) => InOrder(Pend', f, g)
  BY <1>1, AppendQueue
<1>4. Queued(h)
  BY <1>3 DEF Queued
<1>5. h \in {Start, Stop} => Kept
  BY <1>3, TrackedFacts DEF Kept
<1> QED
  BY <1>2, <1>4, <1>5

LEMMA QueueHead ==
  ASSUME QueuesTyped, batch # <<>>, batch' = Tail(batch)
  PROVE  /\ batch' \in Seq(FunctorSet) /\ Head(batch) \in FunctorSet
         /\ \A f : Has(batch, f) <=> Has(batch', f) \/ f = Head(batch)
         /\ queue' = queue => /\ QueuesTyped' /\ Dequeued(Head(batch))
                              /\ Head(batch) \in {Start, Stop} => Kept
         /\ queue' = Append(queue, Reset) /\ Head(batch) = Stop =>
              QueuesTyped' /\ Queued(Reset)
<1> DEFINE h == Head(batch)
           r == Tail(batch) \o queue
<1>1. /\ batch' \in Seq(FunctorSet) /\ h \in FunctorSet
      /\ \A f : Has(batch, f) <=> Has(batch', f) \/ f = h
  BY TailQueue DEF QueuesTyped
<1>2. Pend \in Seq(FunctorSet) /\ Pend # <<>> /\ Head(Pend) = h /\ r = Tail(Pend)
  BY ConcatQueue DEF QueuesTyped, Pend
<1>3. /\ r \in Seq(FunctorSet)
      /\ \A f : Has(Pend, f) <=> Has(r, f) \/ f = h
      /\ \A f, g : InOrder(Pend, f, g) => InOrder(r, f, g)
      /\ \A f : InOrder(Pend, f, h) => ~Has(r, f)
  <2> HIDE DEF h, r
  <2>1. /\ Tail(Pend) \in Seq(FunctorSet)
        /\ \A f : Has(Pend, f) <=> Has(Tail(Pend), f) \/ f = Head(Pend)
        /\ \A f, g : InOrder(Pend, f, g) => InOrder(Tail(Pend), f, g)
        /\ \A f, g : InOrder(Pend, f, g) /\ g = Head(Pend) => ~Has(Tail(Pend), f)
    BY ONLY <1>2, TailQueue
  <2> QED
    BY <1>2, <2>1
<1>4. ASSUME queue' = queue
      PROVE  QueuesTyped' /\ Dequeued(h) /\ (h \in {Start, Stop} => Kept)
  <2>1. Pend' = r
    BY <1>4 DEF Pend
  <2>2. QueuesTyped'
    BY <1>1, <1>4 DEF QueuesTyped
  <2> HIDE DEF r, h
  <2>3. Dequeued(h)
    BY <1>3, <2>1 DEF Dequeued
  <2>4. h \in {Start, Stop} => Kept
    BY <1>3, <2>1, TrackedFacts DEF Kept
  <2> QED
    BY <2>2, <2>3, <2>4
<1>5. ASSUME queue' = Append(queue, Reset), h = Stop
      PROVE  QueuesTyped' /\ Queued(Reset)
  <2>1. Tail(batch) \in Seq(FunctorSet) /\ queue \in Seq(FunctorSet) /\ Reset \in FunctorSet
    BY TailQueue, FunctorFacts DEF QueuesTyped
  <2>2. Tail(batch) \o Append(queue, Reset) = Append(Tail(batch) \o queue, Reset)
    BY ONLY <2>1, ConcatQueue
  <2>3. Pend' = Append(r, Reset)
    BY <2>2, <1>5 DEF Pend
  <2>4. QueuesTyped'
    BY <2>1, <1>1, <1>5, AppendQueue DEF QueuesTyped
  <2> HIDE DEF r, h
  <2>5. /\ \A f : Has(Pend', f) <=> Has(r, f) \/ f = Reset
        /\ \A f, g : InOrder(r, f, g) /\ (Reset = f => ~Has(r, g)) => InOrder(Pend', f, g)
    BY <2>3, <2>1, <1>3, AppendQueue
  <2>6. Queued(Reset)
    BY <2>5, <1>3, <1>5, TrackedFacts DEF Queued
  <2> QED
    BY <2>4, <2>6
<1> QED
  BY <1>1, <1>4, <1>5

-----------------------------------------------------------------------------
(* The sockets, as long as no assert has failed                            *)

Safe == Attempt /\ Functors /\ Sockets

CoreKept == UNCHANGED <<state, channel, watched, open, conn, orphan, lpc>>

LEMMA FdFacts == None \notin Fd /\ Fd \subseteq Nat
BY DEF None, ConnectorAssumption

\* A step that leaves the attempt, the connection and their functors alone.
LEMMA KeptSafe ==
  ASSUME Safe, CoreKept, Kept, QueuesTyped'
  PROVE  Safe'
<1> USE DEF Safe, CoreKept
<1>1. Attempt'
  BY DEF Attempt
<1>2. Functors'
  <2>1. Has(Pend', Reset) <=> channel' # None /\ ~watched'
    BY TrackedFacts DEF Functors, Kept
  <2>2. InOrder(Pend', Reset, Reset)
    BY TrackedFacts DEF Functors, Kept
  <2>3. ASSUME NEW fd \in Fd
        PROVE  /\ InOrder(Pend', Destroyed(fd), Destroyed(fd))
               /\ InOrder(Pend', Closing(fd), Destroyed(fd))
               /\ fd = conn' => InOrder(Pend', Reset, Closing(fd))
               /\ Has(Pend', Closing(fd)) => fd \in open' /\ ~(watched' /\ fd = channel')
    BY TrackedFacts DEF Functors, Kept
  <2> QED
    BY <2>1, <2>2, <2>3 DEF Functors
<1>3. Sockets'
  BY TrackedFacts DEF Sockets, Kept
<1> QED
  BY <1>1, <1>2, <1>3

\* startInLoop(), from a state in which there is no connection.
LEMMA StartSafe ==
  ASSUME Safe, AllTypes, Kept, QueuesTyped', UNCHANGED <<conn, orphan>>, NEW c,
         Began(c) \/ Retried(c) \/ GaveUp(c) \/ Idled(c), conn = None, ~watched,
         lpc' = "idle"
  PROVE  Safe'
<1>1. CASE Began(c)
  <2>1. PICK new \in Fd \ open : channel' = new /\ open' = open \cup {new}
    BY <1>1 DEF Began
  <2>2. /\ channel = None /\ state' = "kConnecting" /\ watched' = TRUE
        /\ conn' = None /\ orphan' = orphan
    BY <1>1 DEF Began
  <2>3. Attempt'
    BY <2>1, <2>2, FdFacts DEF Attempt
  <2>4. /\ ~Has(Pend', Reset) /\ InOrder(Pend', Reset, Reset)
    BY <2>2, TrackedFacts DEF Safe, Functors, Kept
  <2>5. ASSUME NEW fd \in Fd
        PROVE  /\ InOrder(Pend', Destroyed(fd), Destroyed(fd))
               /\ InOrder(Pend', Closing(fd), Destroyed(fd))
               /\ Has(Pend', Closing(fd)) => fd \in open' /\ fd # channel'
    BY <2>1, TrackedFacts DEF Safe, Functors, Kept
  <2>6. Functors'
    BY <2>2, <2>4, <2>5, FdFacts DEF Functors
  <2>7. Sockets'
    BY <2>1, <2>2, FdFacts, TrackedFacts DEF Safe, Sockets, Kept
  <2> QED
    BY <2>3, <2>6, <2>7 DEF Safe
<1>2. CASE Retried(c) \/ GaveUp(c) \/ Idled(c)
  <2>1. /\ UNCHANGED <<channel, watched, open, conn, orphan>>
        /\ state' = "kDisconnected" \/ state' = state
    BY <1>2 DEF Retried, GaveUp, Idled
  <2>2. Attempt'
    BY <2>1 DEF Safe, Attempt
  <2>3. Functors'
    <3>1. Has(Pend', Reset) <=> channel' # None /\ ~watched'
      BY <2>1, TrackedFacts DEF Safe, Functors, Kept
    <3>2. InOrder(Pend', Reset, Reset)
      BY TrackedFacts DEF Safe, Functors, Kept
    <3>3. ASSUME NEW fd \in Fd
          PROVE  /\ InOrder(Pend', Destroyed(fd), Destroyed(fd))
                 /\ InOrder(Pend', Closing(fd), Destroyed(fd))
                 /\ fd = conn' => InOrder(Pend', Reset, Closing(fd))
                 /\ Has(Pend', Closing(fd)) => fd \in open' /\ ~(watched' /\ fd = channel')
      BY <2>1, TrackedFacts DEF Safe, Functors, Kept
    <3> QED
      BY <3>1, <3>2, <3>3 DEF Functors
  <2>4. Sockets'
    BY <2>1, TrackedFacts DEF Safe, Sockets, Kept
  <2> QED
    BY <2>2, <2>3, <2>4 DEF Safe
<1> QED
  BY <1>1, <1>2

\* An attempt ends: its channel leaves epoll and is to be freed; the socket is
\* closed, or is that of a connection from now on.
LEMMA EndSafe ==
  ASSUME Safe, AllTypes, Queued(Reset), QueuesTyped', watched, ~watched',
         UNCHANGED <<channel, orphan>>, lpc' = "idle",
         \/ state' # "kConnecting" /\ open' = open \ {channel} /\ conn' = conn
         \/ state' = "kConnected" /\ open' = open /\ conn' = channel
  PROVE  Safe'
<1>1. channel \in Fd /\ conn = None /\ ~Has(Pend, Reset)
  BY DEF Safe, Attempt, Functors, AllTypes, AttemptTypes
<1>2. Attempt'
  BY <1>1, FdFacts DEF Attempt
<1>3. Has(Pend', Reset) /\ InOrder(Pend', Reset, Reset)
  BY <1>1, TrackedFacts DEF Safe, Functors, Queued
<1>4. ASSUME NEW fd \in Fd
      PROVE  /\ InOrder(Pend', Destroyed(fd), Destroyed(fd))
             /\ InOrder(Pend', Closing(fd), Destroyed(fd))
             /\ Has(Pend', Closing(fd)) <=> Has(Pend, Closing(fd))
             /\ Has(Pend', Destroyed(fd)) <=> Has(Pend, Destroyed(fd))
  BY TrackedFacts DEF Safe, Functors, Queued
<1>5. ASSUME NEW fd \in Fd, fd = conn'
      PROVE  InOrder(Pend', Reset, Closing(fd))
  <2>1. fd = channel
    BY <1>1, <1>5, FdFacts
  <2>2. ~Has(Pend', Closing(fd))
    BY <1>4, <2>1 DEF Safe, Functors
  <2> QED
    BY <2>2 DEF Has, InOrder
<1>6. ASSUME NEW fd \in Fd, Has(Pend', Closing(fd))
      PROVE  fd \in open'
  BY <1>4, <1>6 DEF Safe, Functors
<1>7. Functors'
  BY <1>1, <1>3, <1>4, <1>5, <1>6, FdFacts DEF Functors
<1>8. Sockets'
  BY <1>1, <1>4, FdFacts DEF Safe, Sockets
<1> QED
  BY <1>2, <1>7, <1>8 DEF Safe

LEMMA PhasesKept ==
  ASSUME Phases, UNCHANGED <<phase, batch, active, expired, watched>>
  PROVE  Phases'
BY DEF Phases

LEMMA RunResetSound ==
  ASSUME AllTypes, Phases, Safe, RunReset
  PROVE  Phases' /\ Safe'
<1>1. /\ batch # <<>> /\ Head(batch).op = "reset" /\ batch' = Tail(batch) /\ queue' = queue
      /\ channel' = None /\ watched' = FALSE /\ phase = "functors" /\ lpc = "idle"
      /\ UNCHANGED <<state, open, conn, orphan, lpc, phase, active, expired>>
  BY DEF RunReset, AtHead, resetChannel, Running, clientVars
<1>2. QueuesTyped' /\ Dequeued(Reset) /\ Has(Pend, Reset)
  <2>1. Head(batch) = Reset /\ QueuesTyped' /\ Dequeued(Reset)
    BY <1>1, QueueHead, FunctorFacts DEF Safe, Functors
  <2> QED
    BY <2>1, TrackedFacts DEF Dequeued
<1>3. ~watched
  BY <1>2 DEF Safe, Functors
<1>4. Phases'
  BY <1>1, <1>3 DEF Phases
<1>5. Attempt'
  BY <1>1, <1>3 DEF Safe, Attempt
<1>6. ~Has(Pend', Reset) /\ InOrder(Pend', Reset, Reset)
  BY <1>2, TrackedFacts DEF Safe, Functors, Dequeued
<1>7. ASSUME NEW fd \in Fd
      PROVE  /\ InOrder(Pend', Destroyed(fd), Destroyed(fd))
             /\ InOrder(Pend', Closing(fd), Destroyed(fd))
             /\ fd = conn => InOrder(Pend', Reset, Closing(fd))
             /\ Has(Pend', Closing(fd)) <=> Has(Pend, Closing(fd))
             /\ Has(Pend', Destroyed(fd)) <=> Has(Pend, Destroyed(fd))
  BY <1>2, TrackedFacts DEF Safe, Functors, Dequeued
<1>8. Functors'
  BY <1>1, <1>2, <1>6, <1>7 DEF Safe, Functors
<1>9. Sockets'
  BY <1>1, <1>3, <1>7 DEF Safe, Sockets
<1> QED
  BY <1>4, <1>5, <1>8, <1>9 DEF Safe

LEMMA RunDestroyedSound ==
  ASSUME AllTypes, Phases, Safe, RunDestroyed
  PROVE  Phases' /\ Safe'
<1>1. /\ batch # <<>> /\ Head(batch).op = "destroyed" /\ batch' = Tail(batch) /\ queue' = queue
      /\ phase = "functors" /\ open' = open \ {Head(batch).fd}
      /\ UNCHANGED <<state, channel, watched, conn, orphan, lpc, phase, active, expired>>
  BY DEF RunDestroyed, AtHead, Running, clientVars
<1>2. PICK gone \in Fd : Head(batch) = Destroyed(gone) /\ Head(batch).fd = gone
  BY <1>1, QueueHead, FunctorFacts DEF Safe, Functors
<1>3. QueuesTyped' /\ Dequeued(Destroyed(gone)) /\ Has(Pend, Destroyed(gone))
  <2>1. QueuesTyped' /\ Dequeued(Destroyed(gone))
    BY <1>1, <1>2, QueueHead DEF Safe, Functors
  <2> QED
    BY <2>1, TrackedFacts DEF Dequeued
<1>4. Phases'
  BY <1>1 DEF Phases
<1>5. Attempt'
  BY <1>1 DEF Safe, Attempt
<1>6. /\ Has(Pend', Reset) <=> Has(Pend, Reset)
      /\ InOrder(Pend', Reset, Reset)
  BY <1>3, TrackedFacts DEF Safe, Functors, Dequeued
<1>7. ASSUME NEW fd \in Fd
      PROVE  /\ InOrder(Pend', Destroyed(fd), Destroyed(fd))
             /\ InOrder(Pend', Closing(fd), Destroyed(fd))
             /\ fd = conn => InOrder(Pend', Reset, Closing(fd))
             /\ Has(Pend', Closing(fd)) <=> Has(Pend, Closing(fd))
             /\ Has(Pend', Destroyed(fd)) <=> Has(Pend, Destroyed(fd)) /\ fd # gone
             /\ Has(Pend', Closing(fd)) => fd # gone
  BY <1>3, TrackedFacts DEF Safe, Functors, Dequeued
<1>8. Functors'
  BY <1>1, <1>2, <1>3, <1>6, <1>7 DEF Safe, Functors
<1>9. Sockets'
  BY <1>1, <1>2, <1>3, <1>7 DEF Safe, Sockets
<1> QED
  BY <1>4, <1>5, <1>8, <1>9 DEF Safe

LEMMA RunForceCloseSound ==
  ASSUME AllTypes, Phases, Safe, RunForceClose
  PROVE  Phases' /\ Safe'
<1>1. /\ batch # <<>> /\ Head(batch).op = "forceClose" /\ batch' = Tail(batch) /\ queue' = queue
      /\ phase = "functors" /\ lpc' \in {"idle", "down"}
      /\ lpc' = "down" => conn # None
      /\ UNCHANGED <<state, channel, watched, open, conn, orphan, phase, active, expired>>
  BY DEF RunForceClose, AtHead, Running, clientVars, attemptVars
<1>2. PICK c \in Fd : Head(batch) = Closing(c)
  BY <1>1, QueueHead, FunctorFacts DEF Safe, Functors
<1>3. QueuesTyped' /\ Dequeued(Closing(c))
  BY <1>1, <1>2, QueueHead DEF Safe, Functors
<1>4. Phases'
  BY <1>1 DEF Phases
<1>5. Attempt'
  BY <1>1 DEF Safe, Attempt
<1>6. /\ Has(Pend', Reset) <=> Has(Pend, Reset)
      /\ InOrder(Pend', Reset, Reset)
  BY <1>3, TrackedFacts DEF Safe, Functors, Dequeued
<1>7. ASSUME NEW fd \in Fd
      PROVE  /\ InOrder(Pend', Destroyed(fd), Destroyed(fd))
             /\ InOrder(Pend', Closing(fd), Destroyed(fd))
             /\ fd = conn => InOrder(Pend', Reset, Closing(fd))
             /\ Has(Pend', Closing(fd)) => Has(Pend, Closing(fd))
             /\ Has(Pend', Destroyed(fd)) <=> Has(Pend, Destroyed(fd))
  BY <1>3, TrackedFacts DEF Safe, Functors, Dequeued
<1>8. Functors'
  BY <1>1, <1>3, <1>6, <1>7 DEF Safe, Functors
<1>9. Sockets'
  BY <1>1, <1>7 DEF Safe, Sockets
<1> QED
  BY <1>4, <1>5, <1>8, <1>9 DEF Safe

LEMMA RemoveConnectionSound ==
  ASSUME AllTypes, Phases, Safe, RemoveConnection
  PROVE  Phases' /\ Safe'
<1>1. /\ lpc = "down" /\ conn' = None /\ queue' = Append(queue, Destroyed(conn))
      /\ lpc' \in {"restart", "idle"} /\ batch' = batch
      /\ UNCHANGED <<state, channel, watched, open, orphan, phase, active, expired>>
  BY DEF RemoveConnection, attemptVars, Destroyed
<1>2. conn \in Fd /\ state = "kConnected"
  BY <1>1 DEF Safe, Attempt, AllTypes, ClientTypes
<1>3. QueuesTyped' /\ Queued(Destroyed(conn))
  BY <1>1, <1>2, QueueAppend, FunctorFacts DEF Safe, Functors
<1>4. Phases'
  BY <1>1, PhasesKept
<1>5. Attempt'
  BY <1>1, <1>2 DEF Safe, Attempt
<1>6. /\ Has(Pend', Reset) <=> Has(Pend, Reset)
      /\ InOrder(Pend', Reset, Reset)
  BY <1>2, <1>3, TrackedFacts DEF Safe, Functors, Queued
<1>7. ASSUME NEW fd \in Fd
      PROVE  /\ InOrder(Pend', Destroyed(fd), Destroyed(fd))
             /\ InOrder(Pend', Closing(fd), Destroyed(fd))
             /\ Has(Pend', Closing(fd)) <=> Has(Pend, Closing(fd))
             /\ Has(Pend', Destroyed(fd)) <=> Has(Pend, Destroyed(fd)) \/ fd = conn
  BY <1>2, <1>3, TrackedFacts DEF Safe, Functors, Sockets, Queued
<1>8. Functors'
  BY <1>1, <1>3, <1>6, <1>7, FdFacts DEF Safe, Functors
<1>9. Sockets'
  BY <1>1, <1>2, <1>7, FdFacts DEF Safe, Sockets, Attempt
<1> QED
  BY <1>4, <1>5, <1>8, <1>9 DEF Safe

LEMMA LoopForceCloseSound ==
  ASSUME AllTypes, Phases, Safe, LoopForceClose
  PROVE  Phases' /\ Safe'
<1>1. /\ conn # None /\ queue' = Append(queue, Closing(conn)) /\ batch' = batch
      /\ CoreKept /\ UNCHANGED <<phase, active, expired, watched>>
  BY DEF LoopForceClose, Closing, CoreKept, attemptVars, loopVars, clientVars
<1>2. conn \in Fd /\ state = "kConnected" /\ ~watched /\ conn \in open
  BY <1>1 DEF Safe, Attempt, Sockets, AllTypes, ClientTypes
<1>3. QueuesTyped' /\ Queued(Closing(conn))
  BY <1>1, <1>2, QueueAppend, FunctorFacts DEF Safe, Functors
<1>4. Phases'
  BY <1>1, PhasesKept
<1>5. Attempt'
  BY <1>1 DEF Safe, Attempt, CoreKept
<1>6. /\ Has(Pend', Reset) <=> Has(Pend, Reset)
      /\ InOrder(Pend', Reset, Reset)
  BY <1>2, <1>3, TrackedFacts DEF Safe, Functors, Queued
<1>7. ASSUME NEW fd \in Fd
      PROVE  /\ InOrder(Pend', Destroyed(fd), Destroyed(fd))
             /\ InOrder(Pend', Closing(fd), Destroyed(fd))
             /\ fd = conn => InOrder(Pend', Reset, Closing(fd))
             /\ Has(Pend', Closing(fd)) <=> Has(Pend, Closing(fd)) \/ fd = conn
             /\ Has(Pend', Destroyed(fd)) <=> Has(Pend, Destroyed(fd))
  BY <1>2, <1>3, TrackedFacts DEF Safe, Functors, Sockets, Queued
<1>8. Functors'
  BY <1>1, <1>2, <1>3, <1>6, <1>7 DEF Safe, Functors, CoreKept
<1>9. Sockets'
  BY <1>1, <1>7 DEF Safe, Sockets, CoreKept
<1> QED
  BY <1>4, <1>5, <1>8, <1>9 DEF Safe

LEMMA DestroyClientSound ==
  ASSUME AllTypes, Phases, Safe, DestroyClient
  PROVE  Phases' /\ Safe'
<1>1. /\ conn' = None /\ lpc = "idle" /\ batch' = batch
      /\ UNCHANGED <<state, channel, watched, open, lpc, phase, active, expired>>
  BY DEF DestroyClient, Running, attemptVars, loopVars
<1>2. Phases'
  BY <1>1, PhasesKept
<1>3. CASE conn # None
  <2>1. orphan' = orphan \cup {conn} /\ queue' = queue /\ Pend' = Pend
    BY <1>1, <1>3 DEF DestroyClient, Pend
  <2>2. conn \in Fd /\ state = "kConnected" /\ ~watched
    BY <1>3 DEF Safe, Attempt, AllTypes, ClientTypes
  <2>3. Attempt'
    BY <1>1 DEF Safe, Attempt
  <2>4. Functors'
    BY <1>1, <2>1, FdFacts DEF Safe, Functors, QueuesTyped
  <2>5. Sockets'
    BY <1>1, <2>1, <2>2, FdFacts DEF Safe, Sockets
  <2> QED
    BY <1>2, <2>3, <2>4, <2>5 DEF Safe
<1>4. CASE conn = None
  <2>1. orphan' = orphan /\ queue' = Append(queue, Stop)
    BY <1>4 DEF DestroyClient, Stop
  <2>2. QueuesTyped' /\ Kept
    BY <1>1, <2>1, QueueAppend, FunctorFacts DEF Safe, Functors
  <2> QED
    BY <1>1, <1>2, <1>4, <2>1, <2>2, KeptSafe DEF CoreKept
<1> QED
  BY <1>3, <1>4

\* The steps that call startInLoop(): with which context, and what else they do.
Outcome(c) == Began(c) \/ Retried(c) \/ GaveUp(c) \/ Idled(c) \/ Failed(c)

LEMMA RunStartIs ==
  ASSUME AllTypes, RunStart
  PROVE  /\ \E c : Outcome(c) /\ c.connect = connect /\ c.state = state /\ c.timers = timers
         /\ abort = "none" /\ phase = "functors" /\ lpc = "idle" /\ expired = 0
         /\ batch # <<>> /\ Head(batch).op = "start" /\ batch' = Tail(batch)
         /\ UNCHANGED <<connect, queue, phase, active, lpc, fresh, expired, conn, alive,
                        orphan, wpc, connects, causes>>
<1>1. /\ startInLoop(Now) /\ abort = "none" /\ phase = "functors" /\ lpc = "idle" /\ expired = 0
      /\ batch # <<>> /\ Head(batch).op = "start" /\ batch' = Tail(batch)
      /\ UNCHANGED <<connect, queue, phase, active, lpc, fresh, expired, conn, alive,
                     orphan, wpc, connects, causes>>
  BY DEF RunStart, AtHead, Running, clientVars, callVars
<1>2. Outcome(Now)
  BY <1>1, NowInContexts, StartCases DEF AllTypes, Outcome
<1> QED
  BY <1>1, <1>2 DEF Now

LEMMA RunTimerIs ==
  ASSUME AllTypes, RunTimer
  PROVE  /\ \/ /\ ~alive /\ ~connect /\ timers = 1 /\ timers' = 0
               /\ abort' = IF channel = None THEN abort ELSE "destructor"
               /\ UNCHANGED <<state, channel, watched, open, gaveUp>>
            \/ \E c : Outcome(c) /\ c.connect = connect /\ c.state = state
                        /\ c.timers = timers - 1
         /\ abort = "none" /\ lpc = "idle" /\ expired > 0 /\ timers > 0
         /\ expired' = expired - 1
         /\ UNCHANGED <<connect, queue, phase, active, batch, lpc, conn, alive,
                        orphan, wpc, connects, causes>>
<1>1. /\ abort = "none" /\ lpc = "idle" /\ expired > 0 /\ expired' = expired - 1
      /\ UNCHANGED <<connect, queue, phase, active, batch, lpc, conn, alive,
                     orphan, wpc, connects, causes>>
  BY DEF RunTimer, clientVars, callVars
<1>2. timers > 0
  BY <1>1 DEF AllTypes, TimerTypes
<1>3. CASE ~alive /\ ~connect /\ timers = 1
  BY <1>1, <1>2, <1>3 DEF RunTimer, Destructor
<1>4. CASE ~(~alive /\ ~connect /\ timers = 1)
  <2> DEFINE c == [Now EXCEPT !.timers = @ - 1]
  <2>1. startInLoop(c)
    BY <1>4 DEF RunTimer
  <2>2. c \in Contexts /\ c.connect = connect /\ c.state = state /\ c.timers = timers - 1
    BY <1>2, NowInContexts DEF Now
  <2> HIDE DEF c
  <2>3. Outcome(c)
    BY <2>1, <2>2, <1>1, StartCases DEF AllTypes, Outcome
  <2> QED
    BY <1>1, <1>2, <2>2, <2>3
<1> QED
  BY <1>3, <1>4

LEMMA RestartIs ==
  ASSUME AllTypes, Restart
  PROVE  /\ \E c : Outcome(c) /\ c.connect = TRUE /\ c.state = "kDisconnected"
                     /\ c.timers = timers
         /\ abort = "none" /\ lpc = "restart" /\ lpc' = "idle" /\ connect' = TRUE
         /\ causes' = IF connect THEN causes ELSE causes \cup {"overruled"}
         /\ UNCHANGED <<queue, phase, active, batch, fresh, expired, conn, alive,
                        orphan, wpc, connects>>
<1> DEFINE c == [Now EXCEPT !.connect = TRUE, !.state = "kDisconnected", !.delay = InitDelay]
<1>1. /\ startInLoop(c)
      /\ abort = "none" /\ lpc = "restart" /\ lpc' = "idle" /\ connect' = TRUE
      /\ causes' = IF connect THEN causes ELSE causes \cup {"overruled"}
      /\ UNCHANGED <<queue, phase, active, batch, fresh, expired, conn, alive,
                     orphan, wpc, connects>>
  BY DEF Restart, clientVars
<1>2. /\ c \in Contexts /\ c.connect = TRUE /\ c.state = "kDisconnected" /\ c.timers = timers
  BY NowInContexts DEF Now
<1> HIDE DEF c
<1>3. Outcome(c)
  BY <1>1, <1>2, StartCases DEF AllTypes, Outcome
<1> QED
  BY <1>1, <1>2, <1>3

LEMMA LoopConnectIs ==
  ASSUME AllTypes, LoopConnect
  PROVE  /\ \E c : Outcome(c) /\ c.connect = TRUE /\ c.state = state /\ c.timers = timers
         /\ abort = "none" /\ (lpc = "down" \/ Running("events")) /\ alive
         /\ connect' = TRUE /\ connects' = connects + 1
         /\ causes' = {} => connects = 0 /\ causes = {}
         /\ UNCHANGED <<queue, phase, active, batch, lpc, fresh, expired, conn, alive,
                        orphan, wpc>>
<1> DEFINE c == [Now EXCEPT !.connect = TRUE]
<1>1. /\ startInLoop(c)
      /\ abort = "none" /\ (lpc = "down" \/ Running("events")) /\ alive
      /\ connect' = TRUE /\ connects' = connects + 1
      /\ causes' = IF connects > 0 \/ ~clientConnect THEN causes \cup {"again"} ELSE causes
      /\ UNCHANGED <<queue, phase, active, batch, lpc, fresh, expired, conn, alive,
                     orphan, wpc>>
  BY DEF LoopConnect, InUserCode, CountConnect, Running
<1>2. c \in Contexts /\ c.connect = TRUE /\ c.state = state /\ c.timers = timers
  BY NowInContexts DEF Now
<1>3. causes' = {} => connects = 0 /\ causes = {}
  BY <1>1 DEF AllTypes, CallTypes, TcpClientAssumption
<1> HIDE DEF c
<1>4. Outcome(c)
  BY <1>1, <1>2, StartCases DEF AllTypes, Outcome
<1> QED
  BY <1>1, <1>2, <1>3, <1>4

-----------------------------------------------------------------------------
\* What is left of an iteration when an attempt begins or is put off.
LEMMA PhasesStart ==
  ASSUME Phases, ~watched, UNCHANGED <<phase, batch, active, expired>>
  PROVE  Phases'
BY DEF Phases

LEMMA StartStepsSound ==
  ASSUME AllTypes, AllTypes', Phases, Safe, abort' = "none",
         RunStart \/ RunTimer \/ Restart \/ LoopConnect
  PROVE  Phases' /\ Safe'
<1>1. CASE RunStart
  <2>1. PICK c : Outcome(c) /\ c.state = state
    BY <1>1, RunStartIs
  <2>2. /\ phase = "functors" /\ lpc' = "idle" /\ lpc = "idle"
        /\ batch # <<>> /\ Head(batch).op = "start" /\ batch' = Tail(batch)
        /\ UNCHANGED <<queue, phase, active, expired, conn, orphan>>
    BY <1>1, RunStartIs
  <2>3. Kept /\ QueuesTyped'
    BY <2>2, QueueHead, FunctorFacts DEF Safe, Functors
  <2>4. /\ Began(c) \/ Retried(c) \/ GaveUp(c) \/ Idled(c)
        /\ c.state = "kDisconnected"
    BY <2>1 DEF Outcome, Failed, Began, Retried, GaveUp, Idled
  <2>5. conn = None /\ ~watched
    BY <2>1, <2>4 DEF Safe, Attempt
  <2>6. Safe'
    BY <2>2, <2>3, <2>4, <2>5, StartSafe
  <2> QED
    BY <2>2, <2>5, <2>6 DEF Phases
<1>2. CASE RunTimer
  <2>1. /\ lpc' = "idle" /\ lpc = "idle" /\ expired > 0 /\ expired' = expired - 1
        /\ UNCHANGED <<queue, phase, active, batch, conn, orphan>>
    BY <1>2, RunTimerIs
  <2>2. Kept /\ QueuesTyped' /\ phase = "events"
    BY <2>1, QueueSame DEF Pend, Safe, Functors, QueuesTyped, Phases
  <2>3. CASE UNCHANGED <<state, channel, watched, open>>
    <3>1. Safe'
      BY <2>1, <2>2, <2>3, KeptSafe DEF CoreKept
    <3> QED
      BY <2>1, <2>2, <2>3, <3>1 DEF Phases
  <2>4. CASE \E c : Outcome(c) /\ c.state = state
    <3>1. PICK c : Outcome(c) /\ c.state = state
      BY <2>4
    <3>2. /\ Began(c) \/ Retried(c) \/ GaveUp(c) \/ Idled(c)
          /\ c.state = "kDisconnected"
      BY <3>1 DEF Outcome, Failed, Began, Retried, GaveUp, Idled
    <3>3. conn = None /\ ~watched
      BY <3>1, <3>2 DEF Safe, Attempt
    <3>4. Safe'
      BY <2>1, <2>2, <3>2, <3>3, StartSafe
    <3> QED
      BY <2>1, <2>2, <3>3, <3>4 DEF Phases
  <2> QED
    BY <1>2, <2>3, <2>4, RunTimerIs
<1>3. CASE Restart
  <2>1. PICK c : Outcome(c) /\ c.state = "kDisconnected"
    BY <1>3, RestartIs
  <2>2. /\ lpc = "restart" /\ lpc' = "idle"
        /\ UNCHANGED <<queue, batch, phase, active, expired, conn, orphan>>
    BY <1>3, RestartIs
  <2>3. Kept /\ QueuesTyped'
    BY <2>2, QueueSame DEF Pend, Safe, Functors, QueuesTyped
  <2>4. Began(c) \/ Retried(c) \/ GaveUp(c) \/ Idled(c)
    BY <2>1 DEF Outcome, Failed
  <2>5. conn = None /\ ~watched
    BY <2>2 DEF Safe, Attempt
  <2>6. Safe'
    BY <2>2, <2>3, <2>4, <2>5, StartSafe
  <2> QED
    BY <2>2, <2>5, <2>6, PhasesStart
<1>4. CASE LoopConnect
  <2>1. PICK c : Outcome(c) /\ c.state = state
    BY <1>4, LoopConnectIs
  <2>2. /\ lpc = "down" \/ lpc = "idle"
        /\ UNCHANGED <<lpc, queue, batch, phase, active, expired, conn, orphan>>
    BY <1>4, LoopConnectIs DEF Running
  <2>3. Kept /\ QueuesTyped'
    BY <2>2, QueueSame DEF Pend, Safe, Functors, QueuesTyped
  <2>4. /\ Began(c) \/ Retried(c) \/ GaveUp(c) \/ Idled(c)
        /\ c.state = "kDisconnected"
    BY <2>1 DEF Outcome, Failed, Began, Retried, GaveUp, Idled
  <2>5. conn = None /\ ~watched /\ lpc = "idle"
    BY <2>1, <2>2, <2>4 DEF Safe, Attempt
  <2>6. Safe'
    BY <2>2, <2>3, <2>4, <2>5, StartSafe
  <2> QED
    BY <2>2, <2>5, <2>6, PhasesStart
<1> QED
  BY <1>1, <1>2, <1>3, <1>4

\* The steps that end an attempt.
LEMMA RunStopIs ==
  ASSUME AllTypes, RunStop
  PROVE  /\ abort = "none" /\ phase = "functors" /\ lpc = "idle" /\ expired = 0
         /\ batch # <<>> /\ Head(batch).op = "stop" /\ batch' = Tail(batch)
         /\ UNCHANGED <<connect, abort, gaveUp, phase, active, lpc, expired, conn, alive,
                        orphan, wpc, connects, causes>>
         /\ \/ /\ state # "kConnecting" /\ fresh' = fresh
               /\ UNCHANGED <<state, channel, watched, open, timers, queue>>
            \/ /\ state = "kConnecting" /\ state' = "kDisconnected"
               /\ channel' = channel /\ watched' = FALSE /\ open' = open \ {channel}
               /\ timers' = IF connect THEN timers + 1 ELSE timers
               /\ fresh' = IF connect THEN fresh + 1 ELSE fresh
               /\ queue' = Append(queue, Reset)
<1>1. /\ abort = "none" /\ phase = "functors" /\ lpc = "idle" /\ expired = 0
      /\ batch # <<>> /\ Head(batch).op = "stop" /\ batch' = Tail(batch)
      /\ fresh' = fresh + (timers' - timers) /\ stopInLoop
      /\ UNCHANGED <<connect, abort, gaveUp, phase, active, lpc, expired, conn, alive,
                     orphan, wpc, connects, causes>>
  BY DEF RunStop, AtHead, Running, clientVars, callVars
<1>2. timers \in Nat /\ fresh \in Nat /\ connect \in BOOLEAN
  BY DEF AllTypes, TimerTypes, ClientTypes
<1>3. CASE state = "kConnecting"
  <2>1. removeAndResetChannel /\ retry(channel, Now)
    BY <1>1, <1>3 DEF stopInLoop
  <2>2. /\ state' = "kDisconnected" /\ open' = open \ {channel}
        /\ timers' = IF connect THEN timers + 1 ELSE timers
    BY <2>1, <1>2, FailureTypes DEF AllTypes
  <2>3. fresh' = IF connect THEN fresh + 1 ELSE fresh
    BY <1>1, <1>2, <2>2
  <2> QED
    BY <1>1, <1>3, <2>1, <2>2, <2>3 DEF removeAndResetChannel, Reset
<1>4. CASE state # "kConnecting"
  <2>1. UNCHANGED <<state, channel, watched, open, timers, queue>>
    BY <1>1, <1>4 DEF stopInLoop, attemptVars
  <2>2. fresh' = fresh
    BY <1>1, <1>2, <2>1
  <2> QED
    BY <1>1, <1>4, <2>1, <2>2
<1> QED
  BY <1>3, <1>4

LEMMA HandleChannelIs ==
  ASSUME AllTypes, HandleChannel
  PROVE  /\ Running("events") /\ "channel" \in active /\ active' = active \ {"channel"}
         /\ channel' = channel /\ watched' = FALSE /\ queue' = Append(queue, Reset)
         /\ UNCHANGED <<connect, gaveUp, phase, batch, lpc, expired, alive, orphan,
                        wpc, connects, causes>>
         /\ \/ /\ state' = "kDisconnected" /\ open' = open \ {channel}
               /\ timers' = IF connect THEN timers + 1 ELSE timers
               /\ fresh' = IF connect THEN fresh + 1 ELSE fresh
               /\ UNCHANGED <<conn, abort>>
            \/ /\ state' = "kConnected" /\ timers' = timers /\ fresh' = fresh
               /\ open' = IF connect THEN open ELSE open \ {channel}
               /\ conn' = IF connect THEN channel ELSE conn
               /\ abort' = IF connect /\ ~alive THEN "callback" ELSE abort
<1>1. /\ Running("events") /\ "channel" \in active /\ active' = active \ {"channel"}
      /\ channel' = channel /\ watched' = FALSE /\ queue' = Append(queue, Reset)
      /\ fresh' = fresh + (timers' - timers)
      /\ UNCHANGED <<connect, gaveUp, phase, batch, lpc, expired, alive, orphan,
                     wpc, connects, causes>>
  BY DEF HandleChannel, handleFailure, handleSuccess, removeAndResetChannel, Reset, callVars
<1>2. timers \in Nat /\ fresh \in Nat /\ connect \in BOOLEAN
  BY DEF AllTypes, TimerTypes, ClientTypes
<1>3. CASE handleFailure /\ UNCHANGED <<conn, abort>>
  <2>1. /\ state' = "kDisconnected" /\ open' = open \ {channel}
        /\ timers' = IF connect THEN timers + 1 ELSE timers
    BY <1>2, <1>3, FailureTypes DEF AllTypes, handleFailure
  <2>2. fresh' = IF connect THEN fresh + 1 ELSE fresh
    BY <1>1, <1>2, <2>1
  <2> QED
    BY <1>1, <1>3, <2>1, <2>2
<1>4. CASE /\ handleSuccess
           /\ conn' = IF connect THEN channel ELSE conn
           /\ abort' = IF connect /\ ~alive THEN "callback" ELSE abort
  <2>1. /\ state' = "kConnected" /\ timers' = timers
        /\ open' = IF connect THEN open ELSE open \ {channel}
    BY <1>4 DEF handleSuccess
  <2>2. fresh' = fresh
    BY <1>1, <1>2, <2>1
  <2> QED
    BY <1>1, <1>4, <2>1, <2>2
<1> QED
  BY <1>3, <1>4 DEF HandleChannel

LEMMA EndStepsSound ==
  ASSUME AllTypes, Phases, Safe, RunStop \/ HandleChannel
  PROVE  Phases' /\ Safe'
<1>1. CASE RunStop
  <2>1. /\ phase = "functors" /\ lpc = "idle" /\ batch # <<>> /\ Head(batch).op = "stop"
        /\ batch' = Tail(batch) /\ UNCHANGED <<phase, active, lpc, expired, conn, orphan>>
    BY <1>1, RunStopIs
  <2>2. Head(batch) = Stop
    BY <2>1, QueueHead, FunctorFacts DEF Safe, Functors
  <2>3. CASE UNCHANGED <<state, channel, watched, open, timers, queue>>
    <3>1. Kept /\ QueuesTyped'
      BY <2>1, <2>2, <2>3, QueueHead DEF Safe, Functors
    <3>2. Safe'
      BY <2>1, <2>3, <3>1, KeptSafe DEF CoreKept
    <3> QED
      BY <2>1, <2>3, <3>2 DEF Phases
  <2>4. CASE /\ state = "kConnecting" /\ state' = "kDisconnected"
             /\ channel' = channel /\ watched' = FALSE /\ open' = open \ {channel}
             /\ queue' = Append(queue, Reset)
    <3>1. Queued(Reset) /\ QueuesTyped'
      BY <2>1, <2>2, <2>4, QueueHead DEF Safe, Functors
    <3>2. watched
      BY <2>4 DEF Safe, Attempt
    <3>3. Safe'
      BY <2>1, <2>4, <3>1, <3>2, EndSafe
    <3> QED
      BY <2>1, <3>3 DEF Phases
  <2> QED
    BY <1>1, <2>3, <2>4, RunStopIs
<1>2. CASE HandleChannel
  <2>1. /\ phase = "events" /\ lpc = "idle" /\ "channel" \in active
        /\ active' = active \ {"channel"}
        /\ channel' = channel /\ watched' = FALSE /\ queue' = Append(queue, Reset)
        /\ UNCHANGED <<phase, batch, lpc, expired, orphan>>
    BY <1>2, HandleChannelIs DEF Running
  <2>2. watched
    BY <2>1 DEF Phases
  <2>3. Queued(Reset) /\ QueuesTyped'
    BY <2>1, QueueAppend, FunctorFacts DEF Safe, Functors
  <2>4. \/ state' # "kConnecting" /\ open' = open \ {channel} /\ conn' = conn
        \/ state' = "kConnected" /\ open' = open /\ conn' = channel
    BY <1>2, HandleChannelIs
  <2>5. Safe'
    BY <2>1, <2>2, <2>3, <2>4, EndSafe
  <2> QED
    BY <2>1, <2>5 DEF Phases
<1> QED
  BY <1>1, <1>2

\* The steps that touch no socket.
LEMMA PlainStepsSound ==
  ASSUME AllTypes, Phases, Safe,
         \/ Poll \/ Swap \/ EndOfBatch \/ HandleTimers \/ HandleClose \/ IgnoreConn
         \/ LoopStop \/ LoopDisconnect \/ \E w \in Worker : WorkerStep(w)
  PROVE  Phases' /\ Safe'
<1>1. QueuesTyped
  BY DEF Safe, Functors
<1>2. CASE Poll
  <2>1. /\ phase' = "events" /\ expired = 0 /\ lpc = "idle" /\ batch' = batch /\ CoreKept
        /\ queue' = queue /\ phase = "poll"
        /\ active' \in SUBSET ((IF watched THEN {"channel"} ELSE {})
                    \cup (IF conn # None THEN {"conn"} ELSE {}) \cup {"timer"})
    BY <1>2 DEF Poll, Running, connectorVars, attemptVars, clientVars, CoreKept
  <2>2. Safe'
    BY <1>1, <2>1, QueueSame, KeptSafe DEF Pend, QueuesTyped
  <2>3. conn # None => ~watched
    BY DEF Safe, Attempt
  <2> QED
    BY <2>1, <2>2, <2>3 DEF Phases, CoreKept
<1>3. CASE Swap
  <2>1. /\ phase = "events" /\ phase' = "functors" /\ active = {} /\ expired = 0
        /\ batch' = queue /\ queue' = <<>> /\ CoreKept /\ UNCHANGED <<active, expired>>
    BY <1>3 DEF Swap, Running, attemptVars, clientVars, CoreKept
  <2>2. Pend' = Pend /\ QueuesTyped'
    BY <1>1, <2>1, QueueSwap DEF Phases
  <2>3. Safe'
    BY <2>1, <2>2, QueueSame, KeptSafe
  <2> QED
    BY <2>1, <2>3 DEF Phases
<1>4. CASE EndOfBatch
  <2>1. /\ phase = "functors" /\ phase' = "poll" /\ batch = <<>> /\ batch' = batch
        /\ CoreKept /\ UNCHANGED <<queue, active, expired>>
    BY <1>4 DEF EndOfBatch, Running, connectorVars, attemptVars, clientVars, CoreKept
  <2>2. Safe'
    BY <1>1, <2>1, QueueSame, KeptSafe DEF Pend, QueuesTyped
  <2> QED
    BY <2>1, <2>2 DEF Phases
<1>5. CASE HandleTimers
  <2>1. /\ phase = "events" /\ active' \subseteq active
        /\ CoreKept /\ UNCHANGED <<batch, queue, phase>>
    BY <1>5 DEF HandleTimers, Running, connectorVars, attemptVars, clientVars, CoreKept
  <2>2. Safe'
    BY <1>1, <2>1, QueueSame, KeptSafe DEF Pend, QueuesTyped
  <2> QED
    BY <2>1, <2>2 DEF Phases, CoreKept
<1>6. CASE HandleClose \/ IgnoreConn
  <2>1. /\ phase = "events" /\ active' \subseteq active
        /\ lpc' \in {"idle", "down"} /\ (lpc' = "down" => conn # None)
        /\ UNCHANGED <<state, channel, watched, open, conn, orphan, batch, queue, phase, expired>>
    BY <1>6 DEF HandleClose, IgnoreConn, Running, connectorVars, attemptVars, clientVars
  <2>2. Pend' = Pend /\ QueuesTyped'
    BY <1>1, <2>1 DEF Pend, QueuesTyped
  <2>3. Attempt'
    BY <2>1 DEF Safe, Attempt
  <2>4. Functors' /\ Sockets'
    BY <2>1, <2>2 DEF Safe, Functors, Sockets
  <2> QED
    BY <2>1, <2>3, <2>4 DEF Phases, Safe
<1>7. CASE LoopStop \/ LoopDisconnect \/ \E w \in Worker : WorkerStep(w)
  <2>1. /\ CoreKept /\ UNCHANGED <<phase, batch, active, expired, watched>>
        /\ \/ queue' = queue
           \/ \E h \in {Start, Stop} : queue' = Append(queue, h)
    BY <1>7 DEF LoopStop, LoopDisconnect, WorkerStep, WorkerConnect, WorkerStop, WorkerDisconnect,
       WorkerFlag, WorkerPush, CoreKept, Start, Stop, connectorVars, attemptVars, loopVars,
       clientVars, callVars
  <2>2. CASE queue' = queue
    BY <1>1, <2>1, <2>2, QueueSame, KeptSafe, PhasesKept DEF Pend, QueuesTyped
  <2>3. CASE \E h \in {Start, Stop} : queue' = Append(queue, h)
    <3>1. Kept /\ QueuesTyped'
      BY <1>1, <2>1, <2>3, QueueAppend, FunctorFacts
    <3> QED
      BY <2>1, <3>1, KeptSafe, PhasesKept
  <2> QED
    BY <2>1, <2>2, <2>3
<1> QED
  BY <1>2, <1>3, <1>4, <1>5, <1>6, <1>7

LEMMA InitSound == Init => Phases /\ Safe
<1> SUFFICES ASSUME Init PROVE Phases /\ Safe
  OBVIOUS
<1>1. /\ queue = <<>> /\ batch = <<>> /\ QueuesTyped /\ Pend = <<>>
  BY DEF Init, ConnectorInit, QueuesTyped, Pend
<1>2. \A f, g : ~Has(Pend, f) /\ InOrder(Pend, f, g)
  BY <1>1 DEF Has, InOrder
<1>3. Phases /\ Attempt
  BY DEF Init, ConnectorInit, Phases, Attempt
<1>4. Functors /\ Sockets
  BY <1>1, <1>2, FdFacts DEF Init, ConnectorInit, Functors, Sockets
<1> QED
  BY <1>3, <1>4 DEF Safe

\* A failed assert ends the program.
LEMMA AbortStays ==
  ASSUME [Next]_vars, abort' = "none"
  PROVE  abort = "none"
<1>1. CASE LoopStep
  BY <1>1 DEF LoopStep, Poll, Swap, EndOfBatch, RunStart, RunStop, RunReset, RunDestroyed,
     RunForceClose, AtHead, HandleTimers, RunTimer, HandleChannel, HandleClose, IgnoreConn,
     RemoveConnection, Restart, Running
<1>2. CASE UserStep
  BY <1>2 DEF UserStep, LoopConnect, LoopStop, LoopDisconnect, LoopForceClose, DestroyClient,
     InUserCode, Running
<1>3. CASE UNCHANGED vars \/ \E w \in Worker : WorkerStep(w)
  BY <1>3 DEF vars, WorkerStep, WorkerConnect, WorkerStop, WorkerDisconnect, WorkerFlag,
     WorkerPush, connectorVars
<1> QED
  BY <1>1, <1>2, <1>3 DEF Next

LEMMA NextSound ==
  ASSUME AllTypes, AllTypes', Sound, [Next]_vars
  PROVE  Sound'
<1> SUFFICES ASSUME abort' = "none" PROVE Phases' /\ Safe'
  BY DEF Sound, Safe
<1>1. abort = "none"
  BY AbortStays
<1>2. Phases /\ Safe
  BY <1>1 DEF Sound, Safe
<1>3. CASE UNCHANGED vars
  <2>1. CoreKept /\ UNCHANGED <<queue, batch, phase, active, expired, watched>>
    BY <1>3 DEF vars, connectorVars, attemptVars, loopVars, clientVars, CoreKept
  <2> QED
    BY <1>2, <2>1, QueueSame, KeptSafe, PhasesKept DEF Pend, QueuesTyped, Safe, Functors
<1> QED
  BY <1>2, <1>3, RunResetSound, RunDestroyedSound, RunForceCloseSound, RemoveConnectionSound,
     LoopForceCloseSound, DestroyClientSound, StartStepsSound, EndStepsSound, PlainStepsSound
     DEF Next, LoopStep, UserStep

LEMMA ToSetHas ==
  ASSUME NEW S, NEW q \in Seq(S)
  PROVE  \A f : f \in ToSet(q) <=> Has(q, f)
<1>1. DOMAIN q = 1..Len(q)
  OBVIOUS
<1> QED
  BY <1>1 DEF ToSet, Has

LEMMA OwnersOfSockets ==
  ASSUME AllTypes, Safe
  PROVE  open = Owned
<1> DEFINE D == {f.fd : f \in {g \in ToSet(queue) \cup ToSet(batch) : g.op = "destroyed"}}
<1>1. \A f : f \in ToSet(queue) \cup ToSet(batch) <=> Has(Pend, f)
  BY ToSetHas, QueueParts DEF Safe, Functors, QueuesTyped
<1>2. \A f : Has(Pend, f) => f \in FunctorSet
  <2>1. Pend \in Seq(FunctorSet)
    BY QueueParts DEF Safe, Functors
  <2>2. \A k \in 1..Len(Pend) : Pend[k] \in FunctorSet
    BY <2>1
  <2> QED
    BY <2>2 DEF Has
<1>3. D \subseteq Fd
  BY <1>1, <1>2, FunctorFacts
<1>4. ASSUME NEW fd \in Fd PROVE fd \in D <=> Has(Pend, Destroyed(fd))
  <2>1. ASSUME fd \in D PROVE Has(Pend, Destroyed(fd))
    <3>1. PICK f : f \in ToSet(queue) \cup ToSet(batch) /\ f.op = "destroyed" /\ f.fd = fd
      BY <2>1
    <3> QED
      BY <3>1, <1>1, <1>2, FunctorFacts
  <2>2. ASSUME Has(Pend, Destroyed(fd)) PROVE fd \in D
    BY <2>2, <1>1, FunctorFacts
  <2> QED
    BY <2>1, <2>2
<1> HIDE DEF D
<1>5. Owned = (IF watched THEN {channel} ELSE {}) \cup (IF conn # None THEN {conn} ELSE {})
                \cup orphan \cup D
  BY DEF Owned, D
<1>6. /\ open \subseteq Fd /\ orphan \subseteq Fd /\ conn \in Fd \cup {None}
      /\ watched => channel \in Fd
  BY DEF Safe, Attempt, AllTypes, AttemptTypes, ClientTypes
<1>7. \A fd \in Fd : fd \in open <=> fd \in Owned
  BY <1>4, <1>5, <1>6, FdFacts DEF Safe, Sockets
<1>8. Owned \subseteq Fd
  BY <1>3, <1>5, <1>6
<1> QED
  BY <1>6, <1>7, <1>8

\* Every open descriptor has one owner, whatever becomes of the attempts, the
\* client and the functors (Connector::retry() and handleWrite(),
\* TcpClient::removeConnection() and ~TcpClient()).
THEOREM SocketsAlwaysOwned == Spec => []SocketsOwned
<1>1. Init => Sound
  BY InitSound DEF Sound, Safe
<1>2. TypeOK /\ AllTypes /\ Sound => SocketsOwned
  BY OwnersOfSockets DEF Sound, Safe, SocketsOwned
<1> QED
  BY <1>1, <1>2, Typed, NextSound, PTL DEF Spec

-----------------------------------------------------------------------------
(* Never idle                                                              *)

\* Something will make the Connector try, or has made it give up.
Driven ==
  timers > 0 \/ gaveUp \/ Has(Pend, Start) \/ \E w \in Worker : wpc[w] = "start"

Busy == connect /\ state = "kDisconnected" /\ abort = "none" => Driven

LEMMA BusyKept ==
  ASSUME Busy, connect' => connect, UNCHANGED <<state, timers, gaveUp, abort>>,
         Has(Pend, Start) => Has(Pend', Start),
         \A w \in Worker : wpc[w] = "start" => wpc'[w] = "start"
  PROVE  Busy'
BY DEF Busy, Driven

LEMMA StartStepsBusy ==
  ASSUME AllTypes, Busy, RunStart \/ RunTimer \/ Restart \/ LoopConnect
  PROVE  Busy'
<1>1. ASSUME NEW c, Outcome(c), c.timers \in Nat, connect' = c.connect
      PROVE  Busy'
  <2>1. CASE Began(c) \/ Idled(c) \/ Failed(c)
    BY <2>1, <1>1 DEF Busy, Began, Idled, Failed
  <2>2. CASE Retried(c)
    <3>1. timers' > 0
      BY <2>2, <1>1 DEF Retried
    <3> QED
      BY <3>1 DEF Busy, Driven
  <2>3. CASE GaveUp(c)
    BY <2>3 DEF Busy, Driven, GaveUp
  <2> QED
    BY <2>1, <2>2, <2>3, <1>1 DEF Outcome
<1>2. timers \in Nat
  BY DEF AllTypes, TimerTypes
<1>3. CASE RunStart
  BY <1>1, <1>2, <1>3, RunStartIs
<1>4. CASE RunTimer
  <2>1. timers - 1 \in Nat /\ connect' = connect
    BY <1>2, <1>4, RunTimerIs
  <2>2. CASE ~connect
    BY <2>1, <2>2 DEF Busy
  <2> QED
    BY <1>1, <1>4, <2>1, <2>2, RunTimerIs
<1>5. CASE Restart
  BY <1>1, <1>2, <1>5, RestartIs
<1>6. CASE LoopConnect
  BY <1>1, <1>2, <1>6, LoopConnectIs
<1> QED
  BY <1>3, <1>4, <1>5, <1>6

LEMMA EndStepsBusy ==
  ASSUME AllTypes, Safe, Busy, RunStop \/ HandleChannel
  PROVE  Busy'
<1>1. ASSUME state' = "kDisconnected", connect' = connect,
             timers' = IF connect THEN timers + 1 ELSE timers
      PROVE  Busy'
  <2>1. timers \in Nat
    BY DEF AllTypes, TimerTypes
  <2>2. connect => timers' > 0
    BY <1>1, <2>1
  <2> QED
    BY <1>1, <2>2 DEF Busy, Driven
<1>2. CASE RunStop
  <2>1. CASE state = "kConnecting"
    BY <1>1, <1>2, <2>1, RunStopIs
  <2>2. CASE state # "kConnecting"
    <3>1. /\ batch # <<>> /\ Head(batch).op = "stop" /\ batch' = Tail(batch)
          /\ UNCHANGED <<connect, abort, gaveUp, wpc, state, timers, queue>>
      BY <1>2, <2>2, RunStopIs
    <3>2. Dequeued(Stop)
      BY <3>1, QueueHead, FunctorFacts DEF Safe, Functors
    <3>3. Has(Pend, Start) => Has(Pend', Start)
      BY <3>2, TrackedFacts DEF Dequeued
    <3> QED
      BY <3>1, <3>3, BusyKept
  <2> QED
    BY <2>1, <2>2
<1>3. CASE HandleChannel
  <2>1. CASE state' = "kConnected"
    BY <2>1 DEF Busy
  <2> QED
    BY <1>1, <1>3, <2>1, HandleChannelIs
<1> QED
  BY <1>2, <1>3

LEMMA OtherStepsBusy ==
  ASSUME AllTypes, Phases, Safe, Busy, abort' = abort,
         \/ Poll \/ Swap \/ EndOfBatch \/ RunReset \/ RunDestroyed \/ RunForceClose
         \/ HandleTimers \/ HandleClose \/ IgnoreConn \/ RemoveConnection
         \/ LoopStop \/ LoopDisconnect \/ LoopForceClose \/ DestroyClient
  PROVE  Busy'
<1>1. /\ connect' => connect
      /\ UNCHANGED <<state, timers, gaveUp, wpc>>
  BY DEF Poll, Swap, EndOfBatch, RunReset, RunDestroyed, RunForceClose, AtHead, HandleTimers,
     HandleClose, IgnoreConn, RemoveConnection, LoopStop, LoopDisconnect, LoopForceClose,
     DestroyClient, connectorVars, attemptVars, callVars
<1>2. CASE RunReset \/ RunDestroyed \/ RunForceClose
  <2>1. /\ batch # <<>> /\ Head(batch).op # "start" /\ batch' = Tail(batch) /\ queue' = queue
    BY <1>2 DEF RunReset, RunDestroyed, RunForceClose, AtHead
  <2>2. Dequeued(Head(batch)) /\ Head(batch) # Start
    BY <2>1, QueueHead, FunctorFacts DEF Safe, Functors
  <2>3. Has(Pend, Start) => Has(Pend', Start)
    BY <2>2, TrackedFacts DEF Dequeued
  <2> QED
    BY <1>1, <2>3, BusyKept
<1>3. CASE Swap
  <2>1. Pend' = Pend
    BY <1>3, QueueSwap DEF Swap, Running, Phases, Safe, Functors
  <2> QED
    BY <1>1, <2>1, BusyKept
<1>4. CASE UNCHANGED <<batch, queue>>
  <2>1. Pend' = Pend
    BY <1>4 DEF Pend
  <2> QED
    BY <1>1, <2>1, BusyKept
<1>5. CASE batch' = batch /\ \E h \in FunctorSet : queue' = Append(queue, h)
  <2>1. Has(Pend, Start) => Has(Pend', Start)
    BY <1>5, QueueAppend, TrackedFacts DEF Safe, Functors, Queued
  <2> QED
    BY <1>1, <2>1, BusyKept
<1>6. CASE RemoveConnection \/ LoopForceClose
  <2>1. conn \in Fd
    BY <1>6 DEF RemoveConnection, LoopForceClose, Safe, Attempt, AllTypes, ClientTypes
  <2>2. Destroyed(conn) \in FunctorSet /\ Closing(conn) \in FunctorSet
    BY <2>1, FunctorFacts
  <2>3. batch' = batch /\ (queue' = Append(queue, Destroyed(conn)) \/ queue' = Append(queue, Closing(conn)))
    BY <1>6 DEF RemoveConnection, LoopForceClose, loopVars, Destroyed, Closing
  <2> QED
    BY <1>5, <2>2, <2>3
<1>7. CASE LoopStop \/ DestroyClient
  <2>1. batch' = batch /\ (queue' = queue \/ queue' = Append(queue, Stop))
    BY <1>7 DEF LoopStop, DestroyClient, loopVars, Stop
  <2> QED
    BY <1>4, <1>5, <2>1, FunctorFacts
<1>8. CASE Poll \/ EndOfBatch \/ HandleTimers \/ HandleClose \/ IgnoreConn \/ LoopDisconnect
  BY <1>4, <1>8 DEF Poll, EndOfBatch, HandleTimers, HandleClose, IgnoreConn, LoopDisconnect,
     connectorVars, loopVars
<1> QED
  BY <1>2, <1>3, <1>6, <1>7, <1>8

LEMMA WorkerStepBusy ==
  ASSUME AllTypes, Safe, Busy, NEW w \in Worker, WorkerStep(w)
  PROVE  Busy'
<1>1. UNCHANGED <<state, timers, gaveUp, abort, batch>>
  BY DEF WorkerStep, WorkerConnect, WorkerStop, WorkerDisconnect, WorkerFlag, WorkerPush,
     connectorVars, attemptVars, loopVars
<1>2. DOMAIN wpc = Worker
  BY DEF AllTypes, CallTypes
<1>3. CASE WorkerConnect(w) \/ WorkerStop(w) \/ WorkerDisconnect(w)
  <2>1. UNCHANGED <<connect, queue>>
    BY <1>3 DEF WorkerConnect, WorkerStop, WorkerDisconnect, connectorVars
  <2>2. \A v \in Worker : wpc[v] = "start" => wpc'[v] = "start"
    BY <1>2, <1>3 DEF WorkerConnect, WorkerStop, WorkerDisconnect, WorkerIdle, callVars
  <2>3. Pend' = Pend
    BY <1>1, <2>1 DEF Pend
  <2> QED
    BY <1>1, <2>1, <2>2, <2>3, BusyKept
<1>4. CASE WorkerFlag(w)
  <2>1. CASE wpc[w] = "startFlag"
    <3>1. wpc'[w] = "start"
      BY <1>2, <1>4, <2>1 DEF WorkerFlag
    <3> QED
      BY <3>1 DEF Busy, Driven
  <2>2. CASE wpc[w] # "startFlag"
    <3>1. connect' = FALSE
      BY <1>4, <2>2 DEF WorkerFlag
    <3> QED
      BY <3>1 DEF Busy
  <2> QED
    BY <2>1, <2>2
<1>5. CASE WorkerPush(w)
  <2>1. PICK h \in {Start, Stop} : queue' = Append(queue, h) /\ (wpc[w] = "start" => h = Start)
    BY <1>5 DEF WorkerPush, Start, Stop
  <2>2. Queued(h)
    BY <1>1, <2>1, QueueAppend, FunctorFacts DEF Safe, Functors
  <2>3. /\ Has(Pend, Start) => Has(Pend', Start)
        /\ wpc[w] = "start" => Has(Pend', Start)
    BY <2>1, <2>2, TrackedFacts DEF Queued
  <2>4. connect' = connect /\ \A v \in Worker : wpc[v] = "start" => wpc'[v] = "start" \/ v = w
    BY <1>2, <1>5 DEF WorkerPush
  <2> QED
    BY <1>1, <2>3, <2>4 DEF Busy, Driven
<1> QED
  BY <1>3, <1>4, <1>5 DEF WorkerStep

LEMMA NextBusy ==
  ASSUME AllTypes, Sound, Busy, [Next]_vars
  PROVE  Busy'
<1> SUFFICES ASSUME abort' = "none" PROVE Busy'
  BY DEF Busy
<1>1. abort = "none" /\ Phases /\ Safe
  BY AbortStays DEF Sound, Safe
<1>2. CASE UNCHANGED vars
  BY <1>2, BusyKept DEF vars, connectorVars, attemptVars, loopVars, callVars, Pend
<1> QED
  BY <1>1, <1>2, StartStepsBusy, EndStepsBusy, OtherStepsBusy, WorkerStepBusy
     DEF Next, LoopStep, UserStep

\* A Connector that is to connect and is not connecting has a retry timer or a
\* startInLoop() on its way, or connect(2) failed for good: no failed attempt
\* and no interleaving of connect(), stop() and restart() leaves it idle.
THEOREM ConnectorNeverIdle == Spec => []NeverIdle
<1>1. Init => Sound /\ Busy
  BY InitSound DEF Sound, Safe, Busy, Init, ConnectorInit
<1>2. AllTypes /\ Sound /\ Busy => NeverIdle
  <2> SUFFICES ASSUME AllTypes, Sound, Busy, abort = "none", Has(Pend, Start)
               PROVE  \E f \in ToSet(queue) \cup ToSet(batch) : f.op = "start"
    BY DEF NeverIdle, Busy, Driven
  <2>1. Start \in ToSet(queue) \cup ToSet(batch)
    BY ToSetHas, QueueParts DEF Sound, Functors, QueuesTyped
  <2> QED
    BY <2>1, FunctorFacts
<1> QED
  BY <1>1, <1>2, Typed, NextSound, NextBusy, PTL DEF Spec

-----------------------------------------------------------------------------
(* The asserts, as long as none of the causes has come                     *)

Peace == Token /\ Retry /\ Release /\ Outlived

LEMMA TokenKept ==
  ASSUME Token, UNCHANGED <<wpc, connects>>, Quiet => Quiet',
         Has(Pend', Start) => Has(Pend, Start),
         InOrder(Pend, Start, Start) => InOrder(Pend', Start, Start)
  PROVE  Token'
BY DEF Token, Starting

\* Once an attempt was made, the one token is gone.
LEMMA TokenGone ==
  ASSUME Token, ~Quiet, UNCHANGED <<wpc, connects>>,
         Has(Pend', Start) => Has(Pend, Start),
         InOrder(Pend, Start, Start) => InOrder(Pend', Start, Start)
  PROVE  Token'
BY DEF Token, Starting

LEMMA RetryKept ==
  ASSUME Retry, UNCHANGED <<timers, state, channel, expired, fresh>>, Freeing => Freeing'
  PROVE  Retry'
BY DEF Retry

LEMMA ReleaseKept ==
  ASSUME Release, UNCHANGED <<conn, channel, phase, lpc>>, active' \subseteq active,
         Freeing => Freeing'
  PROVE  Release'
BY DEF Release

LEMMA OutlivedKept ==
  ASSUME Outlived, UNCHANGED <<alive, conn, channel, lpc, connect, state, wpc>>
  PROVE  Outlived'
BY DEF Outlived

LEMMA StartQueue ==
  ASSUME Safe,
         \/ Pend' = Pend
         \/ Queued(Reset) \/ Dequeued(Stop) \/ Dequeued(Reset)
         \/ batch' = batch /\ \E h \in FunctorSet : h # Start /\ queue' = Append(queue, h)
  PROVE  /\ Has(Pend', Start) => Has(Pend, Start)
         /\ InOrder(Pend, Start, Start) => InOrder(Pend', Start, Start)
<1>1. CASE Pend' = Pend \/ Queued(Reset) \/ Dequeued(Stop) \/ Dequeued(Reset)
  BY <1>1, TrackedFacts, FunctorFacts DEF Queued, Dequeued
<1>2. CASE batch' = batch /\ \E h \in FunctorSet : h # Start /\ queue' = Append(queue, h)
  <2>1. PICK h \in FunctorSet : h # Start /\ queue' = Append(queue, h)
    BY <1>2
  <2>2. Queued(h)
    BY <1>2, <2>1, QueueAppend DEF Safe, Functors
  <2> QED
    BY <2>1, <2>2, TrackedFacts DEF Queued
<1> QED
  BY <1>1, <1>2

\* The iteration goes on.
LEMMA IterationPeace ==
  ASSUME AllTypes, Phases, Safe, Peace, Poll \/ Swap \/ EndOfBatch
  PROVE  abort' = abort /\ Peace'
<1> USE DEF Peace
<1>1. lpc = "idle" /\ expired = 0 /\ expired' = 0 /\ lpc' = "idle"
  BY DEF Poll, Swap, EndOfBatch, Running
<1>2. CoreKept /\ UNCHANGED <<abort, connect, timers, alive, wpc, connects>>
  BY DEF Poll, Swap, EndOfBatch, connectorVars, attemptVars, clientVars, callVars, CoreKept
<1>3. Pend' = Pend
  BY QueueSwap DEF Poll, Swap, EndOfBatch, Running, connectorVars, Phases, Safe, Functors, Pend
<1>4. Token'
  BY <1>2, <1>3, TokenKept DEF CoreKept, Quiet
<1>5. Outlived'
  BY <1>2, OutlivedKept DEF CoreKept
<1>6. ASSUME timers > 0 \/ conn # None, channel # None
      PROVE  Has(Pend, Reset)
  <2>1. state # "kConnecting"
    BY <1>6 DEF Retry, Safe, Attempt
  <2> QED
    BY <1>6, <2>1 DEF Safe, Attempt, Functors
<1>7. CASE Poll
  <2>1. phase = "poll" /\ phase' = "events" /\ fresh' = fresh
    BY <1>7 DEF Poll, Running
  <2>2. Retry'
    BY <1>1, <1>2, <2>1 DEF Retry, Freeing, CoreKept
  <2>3. Release'
    BY <1>1, <1>2, <2>1 DEF Release, Freeing, CoreKept
  <2> QED
    BY <1>2, <1>4, <1>5, <2>2, <2>3
<1>8. CASE Swap
  <2>1. /\ phase' = "functors" /\ batch' = queue /\ Pend = queue
    BY <1>8, QueueSwap DEF Swap, Running, Phases, Safe, Functors
  <2>2. (timers > 0 \/ conn # None) /\ channel # None => Freeing'
    BY <1>6, <2>1 DEF Freeing
  <2>3. Retry' /\ Release'
    BY <1>1, <1>2, <2>2 DEF Retry, Release, CoreKept
  <2> QED
    BY <1>2, <1>4, <1>5, <2>3
<1>9. CASE EndOfBatch
  <2>1. phase = "functors" /\ batch = <<>> /\ fresh' = fresh
    BY <1>9 DEF EndOfBatch, Running
  <2>2. ~Freeing
    BY <2>1 DEF Freeing, Has
  <2>3. Retry' /\ Release'
    BY <1>1, <1>2, <2>1, <2>2 DEF Retry, Release, CoreKept
  <2> QED
    BY <1>2, <1>4, <1>5, <2>3
<1> QED
  BY <1>7, <1>8, <1>9

\* startInLoop() finds kDisconnected and no channel.
LEMMA AttemptPeace ==
  ASSUME AllTypes, Peace, Safe, NEW c, Outcome(c), abort = "none",
         c.state = "kDisconnected", c.timers = 0, channel = None, conn = None, ~watched,
         UNCHANGED <<conn, alive>>, lpc' = "idle",
         alive \/ (~c.connect /\ connect' = connect /\ wpc' = wpc /\ state = "kDisconnected")
  PROVE  abort' = "none" /\ Retry' /\ Release' /\ Outlived'
<1>1. Began(c) \/ Retried(c) \/ GaveUp(c) \/ Idled(c)
  BY DEF Outcome, Failed
<1>2. abort' = "none"
  BY <1>1 DEF Began, Retried, GaveUp, Idled
<1>3. Retry'
  <2>1. \/ timers' = 0
        \/ timers' = 1 /\ state' = "kDisconnected" /\ channel' = None
    BY <1>1 DEF Began, Retried, GaveUp, Idled
  <2> QED
    BY <2>1 DEF Retry
<1>4. Release'
  BY DEF Release
<1>5. Outlived'
  <2>1. CASE ~alive
    <3>1. Idled(c)
      BY <1>1, <2>1 DEF Began, Retried, GaveUp
    <3> QED
      BY <2>1, <3>1 DEF Peace, Outlived, Idled
  <2> QED
    BY <2>1 DEF Outlived
<1> QED
  BY <1>2, <1>3, <1>4, <1>5

LEMMA RunStartPeace ==
  ASSUME AllTypes, Phases, Safe, Peace, RunStart
  PROVE  abort' = "none" /\ Peace'
<1>1. PICK c : Outcome(c) /\ c.connect = connect /\ c.state = state /\ c.timers = timers
  BY RunStartIs
<1>2. /\ abort = "none" /\ lpc = "idle" /\ batch # <<>> /\ Head(batch).op = "start"
      /\ batch' = Tail(batch)
      /\ UNCHANGED <<connect, queue, lpc, conn, alive, wpc, connects>>
  BY RunStartIs
<1>3. Dequeued(Start) /\ Has(Pend, Start)
  <2>1. Dequeued(Start)
    BY <1>2, QueueHead, FunctorFacts DEF Safe, Functors
  <2> QED
    BY <2>1, TrackedFacts DEF Dequeued
<1>4. Quiet
  BY <1>3 DEF Peace, Token
<1>5. conn = None /\ ~watched
  BY <1>4 DEF Quiet, Safe, Attempt
<1>6. ~alive => ~connect
  BY <1>4 DEF Peace, Outlived, Quiet
<1>7. abort' = "none" /\ Retry' /\ Release' /\ Outlived'
  BY <1>1, <1>2, <1>4, <1>5, <1>6, AttemptPeace DEF Quiet
<1>8. Token'
  BY <1>2, <1>3, TrackedFacts DEF Peace, Token, Dequeued, Starting
<1> QED
  BY <1>7, <1>8 DEF Peace

LEMMA RunTimerPeace ==
  ASSUME AllTypes, AllTypes', Phases, Safe, Peace, RunTimer
  PROVE  abort' = "none" /\ Peace'
<1>1. /\ abort = "none" /\ lpc = "idle" /\ expired > 0 /\ timers > 0
      /\ UNCHANGED <<connect, queue, batch, lpc, conn, alive, wpc, connects>>
  BY RunTimerIs
<1>2. timers = 1 /\ state = "kDisconnected" /\ channel = None
  BY <1>1 DEF Peace, Retry
<1>3. conn = None /\ ~watched /\ ~Quiet
  BY <1>1, <1>2 DEF Quiet, Safe, Attempt
<1>4. Token'
  BY <1>1, <1>3, TokenGone DEF Pend, Peace
<1>5. CASE /\ timers' = 0
           /\ abort' = IF channel = None THEN abort ELSE "destructor"
           /\ UNCHANGED <<state, channel, watched, open, gaveUp>>
  <2>1. abort' = "none" /\ Retry'
    BY <1>1, <1>2, <1>5 DEF Retry
  <2>2. Release' /\ Outlived'
    BY <1>1, <1>2, <1>3, <1>5, OutlivedKept DEF Release, Peace
  <2> QED
    BY <1>4, <2>1, <2>2 DEF Peace
<1>6. CASE \E c : Outcome(c) /\ c.connect = connect /\ c.state = state /\ c.timers = timers - 1
  <2>1. PICK c : Outcome(c) /\ c.connect = connect /\ c.state = state /\ c.timers = timers - 1
    BY <1>6
  <2>2. c.timers = 0
    BY <1>2, <2>1
  <2>3. ~alive => ~connect
    BY <1>2 DEF Peace, Outlived
  <2>4. abort' = "none" /\ Retry' /\ Release' /\ Outlived'
    BY <1>1, <1>2, <1>3, <2>1, <2>2, <2>3, AttemptPeace
  <2> QED
    BY <1>4, <2>4 DEF Peace
<1> QED
  BY <1>5, <1>6, RunTimerIs

LEMMA RestartPeace ==
  ASSUME AllTypes, Phases, Safe, Peace, Restart
  PROVE  abort' = "none" /\ Peace'
<1>1. PICK c : Outcome(c) /\ c.connect = TRUE /\ c.state = "kDisconnected" /\ c.timers = timers
  BY RestartIs
<1>2. /\ abort = "none" /\ lpc = "restart" /\ lpc' = "idle"
      /\ UNCHANGED <<queue, batch, conn, alive, wpc, connects>>
  BY RestartIs
<1>3. state = "kConnected" /\ conn = None /\ ~watched /\ ~Quiet
  BY <1>2 DEF Safe, Attempt, Quiet
<1>4. timers = 0 /\ channel = None /\ alive
  BY <1>2, <1>3 DEF Peace, Retry, Release, Outlived
<1>5. abort' = "none" /\ Retry' /\ Release' /\ Outlived'
  BY <1>1, <1>2, <1>3, <1>4, AttemptPeace
<1>6. Token'
  BY <1>2, <1>3, TokenGone DEF Pend, Peace
<1> QED
  BY <1>5, <1>6 DEF Peace

LEMMA LoopConnectPeace ==
  ASSUME AllTypes, Phases, Safe, Peace, LoopConnect, causes' = {}
  PROVE  abort' = "none" /\ Peace'
<1>1. PICK c : Outcome(c) /\ c.connect = TRUE /\ c.state = state /\ c.timers = timers
  BY LoopConnectIs
<1>2. /\ abort = "none" /\ connects = 0 /\ connects' = 1 /\ alive
      /\ lpc = "down" \/ lpc = "idle"
      /\ UNCHANGED <<queue, batch, lpc, conn, alive, wpc>>
  BY LoopConnectIs DEF Running
<1>3. Quiet /\ ~Has(Pend, Start) /\ \A w \in Worker : ~Starting(w)
  BY <1>2 DEF Peace, Token
<1>4. conn = None /\ ~watched /\ lpc = "idle"
  BY <1>2, <1>3 DEF Quiet, Safe, Attempt
<1>5. abort' = "none" /\ Retry' /\ Release' /\ Outlived'
  BY <1>1, <1>2, <1>3, <1>4, AttemptPeace DEF Quiet
<1>6. Token'
  BY <1>2, <1>3 DEF Pend, Peace, Token, Starting
<1> QED
  BY <1>5, <1>6 DEF Peace

\* An attempt ends, in stopInLoop() or in a handler of the channel.
LEMMA EndPeace ==
  ASSUME AllTypes, Safe, Peace, watched, channel' = channel, Queued(Reset), expired' = expired,
         lpc' = "idle", UNCHANGED <<alive, wpc, connects>>,
         \/ /\ state' = "kDisconnected" /\ conn' = conn
            /\ timers' = IF connect THEN timers + 1 ELSE timers
            /\ fresh' = IF connect THEN fresh + 1 ELSE fresh
         \/ /\ timers' = timers
            /\ conn' # None => phase' = "events" /\ "conn" \notin active'
  PROVE  alive /\ Peace'
<1>1. channel # None /\ state = "kConnecting" /\ conn = None
  BY DEF Safe, Attempt
<1>2. timers = 0 /\ alive /\ ~Quiet
  BY <1>1 DEF Peace, Retry, Outlived, Quiet
<1>3. fresh = 0 /\ expired = 0
  BY <1>2 DEF AllTypes, TimerTypes
<1>4. Token'
  BY <1>2, StartQueue, TokenGone DEF Peace
<1>5. Retry'
  <2>1. timers' = 0 \/ (timers' = 1 /\ fresh' = 1 /\ state' = "kDisconnected")
    BY <1>2, <1>3
  <2> QED
    BY <1>3, <2>1 DEF Retry
<1>6. Release'
  BY <1>1 DEF Release
<1>7. Outlived'
  BY <1>2 DEF Outlived
<1> QED
  BY <1>2, <1>4, <1>5, <1>6, <1>7 DEF Peace

LEMMA EndStepsPeace ==
  ASSUME AllTypes, Phases, Safe, Peace, abort = "none", RunStop \/ HandleChannel
  PROVE  abort' = "none" /\ Peace'
<1>1. CASE RunStop
  <2>1. /\ phase = "functors" /\ lpc = "idle" /\ batch # <<>> /\ Head(batch).op = "stop"
        /\ batch' = Tail(batch)
        /\ UNCHANGED <<connect, abort, phase, active, lpc, expired, conn, alive, wpc, connects>>
    BY <1>1, RunStopIs
  <2>2. Head(batch) = Stop
    BY <2>1, QueueHead, FunctorFacts DEF Safe, Functors
  <2>3. CASE fresh' = fresh /\ UNCHANGED <<state, channel, watched, open, timers, queue>>
    <3>1. Dequeued(Stop)
      BY <2>1, <2>2, <2>3, QueueHead DEF Safe, Functors
    <3>2. Freeing => Freeing'
      BY <2>1, <2>2, QueueHead, FunctorFacts DEF Freeing, Safe, Functors
    <3>3. Token'
      BY <2>1, <2>3, <3>1, StartQueue, TokenKept DEF Peace, Quiet
    <3>4. Retry' /\ Release' /\ Outlived'
      BY <2>1, <2>3, <3>2, RetryKept, ReleaseKept, OutlivedKept DEF Peace
    <3> QED
      BY <2>1, <3>3, <3>4 DEF Peace
  <2>4. CASE /\ state = "kConnecting" /\ state' = "kDisconnected"
             /\ channel' = channel /\ queue' = Append(queue, Reset)
             /\ timers' = IF connect THEN timers + 1 ELSE timers
             /\ fresh' = IF connect THEN fresh + 1 ELSE fresh
    <3>1. Queued(Reset)
      BY <2>1, <2>2, <2>4, QueueHead DEF Safe, Functors
    <3>2. watched
      BY <2>4 DEF Safe, Attempt
    <3> QED
      BY <2>1, <2>4, <3>1, <3>2, EndPeace
  <2> QED
    BY <1>1, <2>3, <2>4, RunStopIs
<1>2. CASE HandleChannel
  <2>1. /\ phase = "events" /\ lpc = "idle" /\ "channel" \in active
        /\ active' = active \ {"channel"} /\ channel' = channel /\ queue' = Append(queue, Reset)
        /\ UNCHANGED <<phase, batch, lpc, expired, alive, wpc, connects>>
    BY <1>2, HandleChannelIs DEF Running
  <2>2. watched /\ "conn" \notin active'
    BY <2>1 DEF Phases
  <2>3. Queued(Reset)
    BY <2>1, QueueAppend, FunctorFacts DEF Safe, Functors
  <2>4. \/ /\ state' = "kDisconnected" /\ conn' = conn
           /\ timers' = IF connect THEN timers + 1 ELSE timers
           /\ fresh' = IF connect THEN fresh + 1 ELSE fresh
        \/ timers' = timers
    BY <1>2, HandleChannelIs
  <2>5. alive /\ Peace'
    BY <2>1, <2>2, <2>3, <2>4, EndPeace
  <2> QED
    BY <1>2, <2>5, HandleChannelIs
<1> QED
  BY <1>1, <1>2

\* The functors that free a channel, let a connection go or close it.
LEMMA FunctorStepsPeace ==
  ASSUME AllTypes, Phases, Safe, Peace, RunReset \/ RunDestroyed \/ RunForceClose
  PROVE  abort' = abort /\ Peace'
<1>1. /\ phase = "functors" /\ lpc = "idle" /\ batch # <<>> /\ batch' = Tail(batch)
      /\ Head(batch).op \in {"reset", "destroyed", "forceClose"}
      /\ UNCHANGED <<abort, connect, state, timers, queue, phase, active, fresh, expired, conn,
                     alive, wpc, connects>>
  BY DEF RunReset, RunDestroyed, RunForceClose, AtHead, Running, attemptVars, clientVars, callVars
<1> DEFINE h == Head(batch)
<1>2. /\ h \in FunctorSet /\ Dequeued(h) /\ h # Start
      /\ \A f : Has(batch, f) <=> Has(batch', f) \/ f = h
  BY <1>1, QueueHead, FunctorFacts DEF Safe, Functors
<1> HIDE DEF h
<1>3. /\ Has(Pend', Start) => Has(Pend, Start)
      /\ InOrder(Pend, Start, Start) => InOrder(Pend', Start, Start)
  BY <1>2, TrackedFacts DEF Dequeued
<1>4. CASE RunReset
  <2>1. channel' = None /\ lpc' = "idle"
    BY <1>4 DEF RunReset, AtHead, Running, resetChannel
  <2>2. Token'
    BY <1>1, <1>3, <2>1, TokenKept DEF Peace, Quiet
  <2>3. Retry' /\ Release' /\ Outlived'
    BY <1>1, <2>1 DEF Peace, Retry, Release, Outlived
  <2> QED
    BY <1>1, <2>2, <2>3 DEF Peace
<1>5. CASE RunDestroyed \/ RunForceClose
  <2>1. channel' = channel /\ h.op # "reset"
    BY <1>5 DEF RunDestroyed, RunForceClose, AtHead, attemptVars, h
  <2>2. Freeing => Freeing'
    BY <1>1, <1>2, <2>1, FunctorFacts DEF Freeing
  <2>3. Token' /\ Retry'
    BY <1>1, <1>3, <2>1, <2>2, TokenKept, RetryKept DEF Peace, Quiet
  <2>4. CASE lpc' = lpc
    <3>1. Release' /\ Outlived'
      BY <1>1, <2>1, <2>2, <2>4, ReleaseKept, OutlivedKept DEF Peace
    <3> QED
      BY <1>1, <2>3, <3>1 DEF Peace
  <2>5. CASE lpc' # lpc
    <3>1. conn # None /\ conn = h.fd /\ h.op = "forceClose"
      BY <1>5, <2>5 DEF RunDestroyed, RunForceClose, AtHead, h
    <3>2. conn \in Fd /\ h = Closing(conn) /\ state = "kConnected"
      BY <1>2, <3>1, FunctorFacts DEF Safe, Attempt
    <3>3. ~Has(Pend, Reset)
      BY <1>2, <3>2, TrackedFacts DEF Safe, Functors, Dequeued
    <3>4. channel = None
      BY <3>2, <3>3 DEF Safe, Functors, Attempt
    <3>5. Release' /\ Outlived'
      BY <1>1, <2>1, <3>1, <3>4 DEF Peace, Release, Outlived
    <3> QED
      BY <1>1, <2>3, <3>5 DEF Peace
  <2> QED
    BY <2>4, <2>5
<1> QED
  BY <1>4, <1>5

LEMMA HandleTimersPeace ==
  ASSUME AllTypes, AllTypes', Phases, Safe, Peace, HandleTimers, causes' = {}
  PROVE  abort' = abort /\ Peace'
<1>1. /\ phase = "events" /\ active' \subseteq active
      /\ CoreKept /\ UNCHANGED <<abort, connect, timers, batch, queue, phase, fresh, alive, wpc, connects>>
      /\ causes' = IF expired' > timers - fresh THEN causes \cup {"hasty"} ELSE causes
  BY DEF HandleTimers, Running, connectorVars, attemptVars, clientVars, CoreKept
<1>2. Pend' = Pend /\ ~Freeing
  BY <1>1 DEF Pend, Freeing
<1>3. Token' /\ Release' /\ Outlived'
  BY <1>1, <1>2, TokenKept, ReleaseKept, OutlivedKept DEF Peace, CoreKept, Quiet
<1>4. ASSUME timers > 0, channel # None
      PROVE  fresh = timers /\ expired' = 0
  <2>1. fresh = timers
    BY <1>2, <1>4 DEF Peace, Retry
  <2>2. ~(expired' > timers - fresh)
    BY <1>1
  <2> QED
    BY <2>1, <2>2 DEF AllTypes, TimerTypes
<1>5. Retry'
  BY <1>1, <1>4 DEF Peace, Retry, CoreKept
<1> QED
  BY <1>1, <1>3, <1>5 DEF Peace

\* A connection is closed, or not.
LEMMA CloseStepsPeace ==
  ASSUME AllTypes, Phases, Safe, Peace, HandleClose \/ IgnoreConn \/ RemoveConnection
  PROVE  abort' = abort /\ Peace'
<1>1. /\ active' \subseteq active
      /\ UNCHANGED <<abort, connect, state, channel, timers, phase, batch, fresh, expired,
                     alive, wpc, connects>>
  BY DEF HandleClose, IgnoreConn, RemoveConnection, connectorVars, attemptVars, clientVars, callVars
<1>2. Freeing => Freeing'
  BY <1>1 DEF Freeing
<1>3. Retry'
  BY <1>1, <1>2, RetryKept DEF Peace
<1>4. CASE HandleClose \/ IgnoreConn
  <2>1. /\ phase = "events" /\ "conn" \in active /\ UNCHANGED <<queue, conn>>
        /\ lpc = "idle" /\ lpc' \in {"idle", "down"} /\ (lpc' = "down" => conn # None)
    BY <1>4 DEF HandleClose, IgnoreConn, Running, connectorVars, clientVars
  <2>2. Token'
    BY <1>1, <2>1, TokenKept DEF Peace, Pend, Quiet
  <2>3. conn # None => channel = None
    BY <2>1 DEF Peace, Release, Freeing
  <2>4. Release' /\ Outlived'
    BY <1>1, <2>1, <2>3 DEF Peace, Release, Outlived
  <2> QED
    BY <1>1, <1>3, <2>2, <2>4 DEF Peace
<1>5. CASE RemoveConnection
  <2>1. /\ lpc = "down" /\ conn' = None /\ queue' = Append(queue, Destroyed(conn))
    BY <1>5 DEF RemoveConnection, Destroyed
  <2>2. conn \in Fd /\ channel = None /\ alive
    BY <2>1 DEF Safe, Attempt, AllTypes, ClientTypes, Peace, Release, Outlived
  <2>3. Destroyed(conn) \in FunctorSet /\ Destroyed(conn) # Start
    BY <2>2, FunctorFacts
  <2>4. Token'
    BY <1>1, <2>1, <2>3, StartQueue, TokenKept DEF Peace, Quiet
  <2>5. Release' /\ Outlived'
    BY <1>1, <2>1, <2>2 DEF Release, Outlived
  <2> QED
    BY <1>1, <1>3, <2>4, <2>5 DEF Peace
<1> QED
  BY <1>4, <1>5

\* The user on the loop's thread.
LEMMA UserStepsPeace ==
  ASSUME AllTypes, Phases, Safe, Peace, causes' = {}, abort = "none",
         LoopStop \/ LoopDisconnect \/ LoopForceClose \/ DestroyClient
  PROVE  abort' = "none" /\ Peace'
<1>1. UNCHANGED <<state, channel, timers, phase, active, batch, lpc, fresh, expired, wpc, connects>>
  BY DEF LoopStop, LoopDisconnect, LoopForceClose, DestroyClient, connectorVars, attemptVars,
     loopVars, clientVars, callVars
<1>2. Freeing => Freeing'
  BY <1>1 DEF Freeing
<1>3. Retry'
  BY <1>1, <1>2, RetryKept DEF Peace
<1>4. CASE LoopStop \/ LoopDisconnect \/ LoopForceClose
  <2>1. abort' = "none" /\ UNCHANGED <<conn, alive>> /\ alive
    BY <1>4 DEF LoopStop, LoopDisconnect, LoopForceClose, InUserCode, connectorVars, clientVars
  <2>2. \/ queue' = queue \/ queue' = Append(queue, Stop)
        \/ conn # None /\ queue' = Append(queue, Closing(conn))
    BY <1>4 DEF LoopStop, LoopDisconnect, LoopForceClose, connectorVars, Stop, Closing
  <2>3. conn # None => Closing(conn) \in FunctorSet /\ Closing(conn) # Start
    BY FunctorFacts DEF AllTypes, ClientTypes
  <2>4. \/ Pend' = Pend
        \/ \E h \in FunctorSet : h # Start /\ queue' = Append(queue, h)
    BY <1>1, <2>2, <2>3, FunctorFacts DEF Pend
  <2>5. Token'
    BY <1>1, <2>4, StartQueue, TokenKept DEF Peace, Quiet
  <2>6. Release'
    BY <1>1, <1>2, <2>1, ReleaseKept DEF Peace
  <2>7. Outlived'
    BY <2>1 DEF Outlived
  <2> QED
    BY <1>3, <2>1, <2>5, <2>6, <2>7 DEF Peace
<1>5. CASE DestroyClient
  <2>1. /\ lpc = "idle" /\ \A w \in Worker : wpc[w] = "idle"
        /\ causes' = IF channel = None THEN causes ELSE causes \cup {"destroyed"}
        /\ conn' = None
        /\ \/ conn # None /\ connect' = connect /\ queue' = queue
           \/ conn = None /\ connect' = FALSE /\ queue' = Append(queue, Stop)
        /\ abort' = abort \/ abort' = IF channel = None THEN abort ELSE "destructor"
    BY <1>5 DEF DestroyClient, Destructor, Running, Stop
  <2>2. channel = None /\ abort' = "none"
    BY <2>1
  <2>3. \/ Pend' = Pend
        \/ \E h \in FunctorSet : h # Start /\ queue' = Append(queue, h)
    BY <1>1, <2>1, FunctorFacts DEF Pend
  <2>4. Token'
    BY <1>1, <2>3, StartQueue, TokenKept DEF Peace, Quiet
  <2>5. Release'
    BY <1>1, <2>1, <2>2 DEF Release
  <2>6. connect' => state' = "kConnected"
    BY <1>1, <2>1 DEF Safe, Attempt
  <2>7. Outlived'
    BY <1>1, <2>1, <2>2, <2>6 DEF Outlived
  <2> QED
    BY <1>3, <2>2, <2>4, <2>5, <2>7 DEF Peace
<1> QED
  BY <1>4, <1>5

LEMMA WorkerStepPeace ==
  ASSUME AllTypes, Safe, Peace, NEW w \in Worker, WorkerStep(w), causes' = {}
  PROVE  abort' = abort /\ Peace'
<1>1. UNCHANGED <<abort, state, channel, timers, phase, active, batch, lpc, fresh, expired,
                  conn, alive>>
  BY DEF WorkerStep, WorkerConnect, WorkerStop, WorkerDisconnect, WorkerFlag, WorkerPush,
     connectorVars, attemptVars, loopVars, clientVars
<1>2. Freeing => Freeing'
  BY <1>1 DEF Freeing
<1>3. Retry' /\ Release'
  BY <1>1, <1>2, RetryKept, ReleaseKept DEF Peace
<1>4. alive
  BY DEF WorkerStep, WorkerConnect, WorkerStop, WorkerDisconnect, WorkerIdle, WorkerFlag,
     WorkerPush, Peace, Outlived
<1>5. Outlived'
  BY <1>1, <1>4 DEF Outlived
<1>6. DOMAIN wpc = Worker /\ Quiet' = Quiet /\ connects \in Nat
  BY <1>1 DEF AllTypes, CallTypes, Quiet, TcpClientAssumption
<1>7. CASE WorkerConnect(w)
  <2>1. /\ connects' = connects + 1 /\ Pend' = Pend
        /\ wpc' = [wpc EXCEPT ![w] = "startFlag"]
        /\ causes' = IF connects > 0 \/ ~clientConnect THEN causes \cup {"again"} ELSE causes
    BY <1>7 DEF WorkerConnect, CountConnect, connectorVars, loopVars, Pend
  <2>2. connects = 0 /\ connects' # 0
    BY <1>6, <2>1
  <2>3. Quiet /\ ~Has(Pend, Start) /\ \A v \in Worker : ~Starting(v)
    BY <2>2 DEF Peace, Token
  <2>4. \A v \in Worker : Starting(v)' => v = w
    BY <1>6, <2>1, <2>3 DEF Starting
  <2>5. Token'
    BY <1>6, <2>1, <2>2, <2>3, <2>4 DEF Peace, Token
  <2> QED
    BY <1>1, <1>3, <1>5, <2>5 DEF Peace
<1>8. CASE WorkerStop(w) \/ WorkerDisconnect(w) \/ WorkerFlag(w)
  <2>1. /\ connects' = connects /\ Pend' = Pend
        /\ \A v \in Worker : Starting(v)' => Starting(v)
    BY <1>6, <1>8 DEF WorkerStop, WorkerDisconnect, WorkerFlag, WorkerIdle, connectorVars,
       loopVars, callVars, Pend, Starting
  <2>2. Token'
    BY <1>6, <2>1 DEF Peace, Token
  <2> QED
    BY <1>1, <1>3, <1>5, <2>2 DEF Peace
<1>9. CASE WorkerPush(w)
  <2>1. /\ connects' = connects /\ wpc' = [wpc EXCEPT ![w] = "idle"] /\ wpc[w] \in {"start", "stop"}
        /\ queue' = Append(queue, Functor(wpc[w], None))
    BY <1>9 DEF WorkerPush
  <2>2. ~Starting(w)' /\ \A v \in Worker : v # w => (Starting(v)' <=> Starting(v))
    BY <1>6, <2>1 DEF Starting
  <2>3. CASE wpc[w] = "start"
    <3>1. queue' = Append(queue, Start) /\ Starting(w)
      BY <2>1, <2>3 DEF Start, Starting
    <3>2. Queued(Start)
      BY <1>1, <3>1, QueueAppend, FunctorFacts DEF Safe, Functors
    <3>3. Quiet /\ connects # 0 /\ ~Has(Pend, Start) /\ \A v \in Worker : v # w => ~Starting(v)
      BY <3>1 DEF Peace, Token
    <3>4. InOrder(Pend', Start, Start)
      BY <3>2, <3>3, TrackedFacts DEF Peace, Token, Queued
    <3>5. Token'
      BY <1>6, <2>1, <2>2, <3>3, <3>4 DEF Token
    <3> QED
      BY <1>1, <1>3, <1>5, <3>5 DEF Peace
  <2>4. CASE wpc[w] = "stop"
    <3>1. queue' = Append(queue, Stop)
      BY <2>1, <2>4 DEF Stop
    <3>2. /\ Has(Pend', Start) => Has(Pend, Start)
          /\ InOrder(Pend, Start, Start) => InOrder(Pend', Start, Start)
      BY <1>1, <3>1, StartQueue, FunctorFacts
    <3>3. \A v \in Worker : Starting(v)' => Starting(v)
      BY <2>2
    <3>4. Token'
      BY <1>6, <2>1, <3>2, <3>3 DEF Peace, Token
    <3> QED
      BY <1>1, <1>3, <1>5, <3>4 DEF Peace
  <2> QED
    BY <2>1, <2>3, <2>4
<1> QED
  BY <1>7, <1>8, <1>9 DEF WorkerStep

\* A cause that has come is not forgotten.
LEMMA CausesStay ==
  ASSUME [Next]_vars, causes' = {}
  PROVE  causes = {}
<1>1. CASE LoopStep
  BY <1>1 DEF LoopStep, Poll, Swap, EndOfBatch, RunStart, RunStop, RunReset, RunDestroyed,
     RunForceClose, AtHead, HandleTimers, RunTimer, HandleChannel, HandleClose, IgnoreConn,
     RemoveConnection, Restart, callVars
<1>2. CASE UserStep
  BY <1>2 DEF UserStep, LoopConnect, LoopStop, LoopDisconnect, LoopForceClose, DestroyClient,
     CountConnect, callVars
<1>3. CASE UNCHANGED vars \/ \E w \in Worker : WorkerStep(w)
  BY <1>3 DEF vars, WorkerStep, WorkerConnect, WorkerStop, WorkerDisconnect, WorkerFlag,
     WorkerPush, CountConnect, callVars
<1> QED
  BY <1>1, <1>2, <1>3 DEF Next

LEMMA NextCalm ==
  ASSUME AllTypes, AllTypes', Sound, Calm, [Next]_vars
  PROVE  Calm'
<1> SUFFICES ASSUME causes' = {} PROVE abort' = "none" /\ Peace'
  BY DEF Calm, Peace
<1>1. abort = "none" /\ Phases /\ Safe /\ Peace
  BY CausesStay DEF Calm, Sound, Safe, Peace
<1>2. CASE UNCHANGED vars
  <2>1. UNCHANGED <<abort, state, channel, timers, connect, phase, active, batch, queue, lpc,
                    fresh, expired, conn, alive, wpc, connects>>
    BY <1>2 DEF vars, connectorVars, attemptVars, loopVars, clientVars, callVars
  <2>2. Token' /\ Outlived'
    BY <1>1, <2>1, TokenKept, OutlivedKept DEF Pend, Peace, Quiet
  <2>3. Retry' /\ Release'
    BY <1>1, <2>1, RetryKept, ReleaseKept DEF Peace, Freeing
  <2> QED
    BY <1>1, <2>1, <2>2, <2>3 DEF Peace
<1> QED
  BY <1>1, <1>2, IterationPeace, RunStartPeace, RunTimerPeace, RestartPeace, LoopConnectPeace,
     EndStepsPeace, FunctorStepsPeace, HandleTimersPeace, CloseStepsPeace, UserStepsPeace,
     WorkerStepPeace DEF Next, LoopStep, UserStep

LEMMA InitCalm == Init => Calm
<1> SUFFICES ASSUME Init PROVE abort = "none" /\ Peace
  BY DEF Calm, Peace
<1>1. Pend = <<>>
  BY DEF Init, ConnectorInit, Pend
<1>2. ~Has(Pend, Start) /\ InOrder(Pend, Start, Start)
  BY <1>1 DEF Has, InOrder
<1>3. \A w \in Worker : ~Starting(w)
  BY DEF Init, Starting
<1>4. Token
  BY <1>2, <1>3 DEF Init, ConnectorInit, Token, Quiet
<1>5. Retry /\ Release /\ Outlived
  BY DEF Init, ConnectorInit, Retry, Release, Outlived
<1> QED
  BY <1>4, <1>5 DEF Init, ConnectorInit, Peace

\* The asserts of Connector hold and newConnection() is never called on a
\* TcpClient that is gone, unless connect() came again or after a stop(),
\* restart() overruled a stop(), a retry timer fired before the channel was
\* freed, or the TcpClient was destroyed with a channel.
THEOREM AssertsHoldUnlessCaused == Spec => []AssertsHold
<1>1. Init => Sound
  BY InitSound DEF Sound, Safe
<1>2. Calm => AssertsHold
  BY DEF Calm, AssertsHold
<1> QED
  BY <1>1, <1>2, InitCalm, Typed, NextSound, NextCalm, PTL DEF Spec
=============================================================================
