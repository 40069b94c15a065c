-------------------------- MODULE TcpServerProofs --------------------------
(***************************************************************************)
(* TLAPS proofs, for any number of I/O threads, clients and descriptors: a *)
(* TcpServer uses the loops of its pool only while they exist; and the     *)
(* asserts in the life of its connections hold, whatever order the         *)
(* functors of their two loops and the destructor come in, but for the one *)
(* that ~TcpServer() breaks by ending a connection that is shutting down.  *)
(*                                                                         *)
(* LoopAliveWhenUsed is not inductive: a loop that exists may be on its    *)
(* way out.  The invariant says of every thread how far startLoop() and    *)
(* the destructor have come with it: untouched, starting, or up, that is,  *)
(* inside loop() with loop_ published and nobody having called quit().     *)
(* The connections come after it, with an invariant of their own.          *)
(***************************************************************************)
EXTENDS TcpServer, TLAPS

Fresh(i) == tpc[i] = "none" /\ ~loopPtr[i] /\ ~quit[i]

Up(i) ==
  /\ tpc[i] \in {"enter", "test", "poll", "swap", "run"}
  /\ loopPtr[i] /\ ~quit[i]

Starting(i) ==
  \/ tpc[i] \in {"construct", "publish"} /\ ~loopPtr[i] /\ ~quit[i]
  \/ Up(i)

OwnerPC == {"new", "start", "wait", "listen", "running", "closing", "dtor",
            "quit", "join", "gone"}

PoolTypeOK ==
  /\ numThreads \in 0..MaxThreads
  /\ at \in Nat \ {0}
  /\ owner \in OwnerPC
  /\ tpc \in [Thread -> ThreadPC]
  /\ loopPtr \in [Thread -> BOOLEAN]
  /\ quit \in [Thread -> BOOLEAN]

\* How far the owner has come with the threads.
Progress ==
  /\ owner = "new" => at = 1 /\ \A i \in Thread : Fresh(i)
  /\ owner \in {"start", "wait"} =>
       /\ at <= numThreads
       /\ \A i \in Thread : (i < at => Up(i)) /\ (i > at => Fresh(i))
  /\ owner = "start" => \A i \in Thread : i = at => Fresh(i)
  /\ owner = "wait" => \A i \in Thread : i = at => Starting(i)
  /\ owner \in {"listen", "running", "closing"} =>
       \A i \in Thread : i <= numThreads => Up(i)
  /\ owner \in {"dtor", "quit"} =>
       \A i \in Thread : at <= i /\ i <= numThreads => Up(i)
  /\ owner \in {"quit", "join"} => at <= numThreads
  /\ owner = "join" => \A i \in Thread : at < i /\ i <= numThreads => Up(i)

PoolInv == PoolTypeOK /\ Progress

USE PoolAssumption DEF Thread, PoolInv, PoolTypeOK

-----------------------------------------------------------------------------
\* A thread takes a step of its own: what the owner knows of it and of the other
\* threads stays true.
ThreadMoves(i) ==
  /\ UNCHANGED <<numThreads, owner, at>>
  /\ tpc' \in [Thread -> ThreadPC] /\ loopPtr' \in [Thread -> BOOLEAN]
  /\ quit' \in [Thread -> BOOLEAN]
  /\ \A j \in Thread \ {i} :
       tpc'[j] = tpc[j] /\ loopPtr'[j] = loopPtr[j] /\ quit'[j] = quit[j]
  /\ ~Fresh(i)
  /\ Up(i) => Up(i)'
  /\ Starting(i) => Starting(i)'

\* Steps of threadFunc() and loop() are such steps: a loop that nobody told to
\* quit finds quit_ false.
LEMMA ThreadStepMoves ==
  ASSUME PoolInv, NEW i \in Thread, ThreadStep(i)
  PROVE  ThreadMoves(i)
<1> USE DEF Fresh, Up, Starting, Goto, ThreadMoves, ThreadPC, poolVars
<1>1. CASE Construct(i)
  BY <1>1 DEF Construct
<1>2. CASE Publish(i)
  BY <1>2 DEF Publish
<1>3. CASE Enter(i)
  BY <1>3 DEF Enter
<1>4. CASE TestQuit(i)
  BY <1>4 DEF TestQuit
<1>5. CASE PollReturn(i)
  BY <1>5 DEF PollReturn
<1>6. CASE Swap(i)
  BY <1>6 DEF Swap
<1>7. CASE EndOfBatch(i)
  BY <1>7 DEF EndOfBatch
<1>8. CASE Unpublish(i)
  BY <1>8 DEF Unpublish
<1>9. CASE Unwind(i)
  BY <1>9 DEF Unwind
<1>10. QED
  BY <1>1, <1>2, <1>3, <1>4, <1>5, <1>6, <1>7, <1>8, <1>9 DEF ThreadStep

LEMMA MovesKeepInv ==
  ASSUME PoolInv, NEW i \in Thread, ThreadMoves(i)
  PROVE  PoolInv'
<1>1. \A j \in Thread : (Fresh(j) => Fresh(j)') /\ (Up(j) => Up(j)')
                        /\ (Starting(j) => Starting(j)')
  BY DEF ThreadMoves, Fresh, Up, Starting
<1>2. PoolTypeOK'
  BY DEF ThreadMoves
<1>3. Progress'
  <2> HIDE DEF PoolTypeOK
  <2>1. UNCHANGED <<numThreads, owner, at>>
    BY DEF ThreadMoves
  <2> QED
    BY <1>1, <2>1 DEF Progress
<1> QED
  BY <1>2, <1>3

\* A step that leaves the pool and its threads alone keeps the invariant.
LEMMA IdleKeepsInv ==
  ASSUME PoolInv, UNCHANGED <<numThreads, owner, at, tpc, loopPtr, quit>>
  PROVE  PoolInv'
BY DEF Progress, Fresh, Up, Starting

-----------------------------------------------------------------------------
\* The owner's part: start() of the server and of each thread, and the
\* destructors.
LEMMA OwnerKeepsInv ==
  ASSUME PoolInv,
         StartServer \/ Listen \/ DestroyServer \/ DestroyMembers \/ OwnerStep
  PROVE  PoolInv'
<1> USE DEF Progress, Fresh, Up, Starting, OwnerPC, ThreadPC, threadVars
<1>1. CASE StartServer
  BY <1>1 DEF StartServer
<1>2. CASE Listen
  BY <1>2 DEF Listen
<1>3. CASE DestroyServer
  BY <1>3 DEF DestroyServer
<1>4. CASE DestroyMembers
  BY <1>4 DEF DestroyMembers
<1>5. CASE StartLoop
  BY <1>5 DEF StartLoop, Goto
<1>6. CASE StartLoopReturn
  BY <1>6 DEF StartLoopReturn
<1>7. CASE DtorTest
  BY <1>7 DEF DtorTest
<1>8. CASE DtorQuit
  BY <1>8 DEF DtorQuit
<1>9. CASE DtorJoin
  BY <1>9 DEF DtorJoin
<1>10. QED
  BY <1>1, <1>2, <1>3, <1>4, <1>5, <1>6, <1>7, <1>8, <1>9 DEF OwnerStep

LEMMA InitInv == ServerInit => PoolInv
BY DEF ServerInit, Init, Progress, Fresh, OwnerPC, ThreadPC

\* Every step of the server keeps the invariant.
LEMMA NextKeepsInv == PoolInv /\ [ServerNext]_allVars => PoolInv'
<1> SUFFICES ASSUME PoolInv, [ServerNext]_allVars PROVE PoolInv'
  OBVIOUS
<1> USE DEF vars, poolVars, threadVars
<1>1. CASE StartServer \/ DestroyServer
  BY <1>1, OwnerKeepsInv
<1>2. CASE BaseClose \/ \E c \in Conn : Shutdown(c)
  BY <1>2, IdleKeepsInv DEF BaseClose, Shutdown
<1>3. CASE BaseStep
  <2>1. CASE NewConnection
    BY <2>1, IdleKeepsInv DEF NewConnection
  <2>2. CASE AcceptorStep
    BY <2>2, IdleKeepsInv DEF AcceptorStep
  <2>3. CASE RunBase
    BY <2>3, IdleKeepsInv DEF RunBase
  <2>4. CASE CloseConnection
    BY <2>4, IdleKeepsInv DEF CloseConnection
  <2>5. CASE DestroyMembers \/ PoolStep \/ Listen
    BY <2>5, OwnerKeepsInv DEF PoolStep
  <2> QED
    BY <1>3, <2>1, <2>2, <2>3, <2>4, <2>5 DEF BaseStep
<1>4. ASSUME NEW i \in Thread, IoStep(i) \/ IoClose(i) \/ IoOther(i)
      PROVE  PoolInv'
  <2>1. CASE RunFunctor(i)
    BY <2>1, IdleKeepsInv DEF RunFunctor
  <2>2. CASE ThreadStep(i)
    BY <2>2, ThreadStepMoves, MovesKeepInv
  <2>3. CASE IoClose(i) \/ IoOther(i)
    <3>1. ThreadMoves(i)
      BY <2>3 DEF IoClose, IoOther, ThreadMoves, Goto, Fresh, Up, Starting, ThreadPC
    <3> QED
      BY <3>1, MovesKeepInv
  <2> QED
    BY <1>4, <2>1, <2>2, <2>3 DEF IoStep
<1>5. CASE UNCHANGED <<vars, serverVars>>
  BY <1>5, IdleKeepsInv
<1>6. CASE UNCHANGED allVars
  BY <1>6, IdleKeepsInv DEF allVars
<1>7. QED
  BY <1>1, <1>2, <1>3, <1>4, <1>5, <1>6 DEF ServerNext

\* The invariant gives the property: a loop that is up exists.
LEMMA InvAlive == PoolInv => LoopAliveWhenUsed
BY DEF Progress, Up, Alive, LoopAliveWhenUsed, OwnerPC

\* For any number of threads, no EventLoop of the pool is used before it is
\* constructed or after its thread's stack unwinds, and the destructor never
\* finds loop_ null while the thread is joinable.
THEOREM LoopsAlive == ServerSpec => []LoopAliveWhenUsed
<1>1. ServerSpec => ServerInit /\ [][ServerNext]_allVars
  BY PTL DEF ServerSpec
<1>2. ServerInit => PoolInv
  BY InitInv
<1>3. PoolInv /\ [ServerNext]_allVars => PoolInv'
  BY NextKeepsInv
<1>4. PoolInv => LoopAliveWhenUsed
  BY InvAlive
<1> QED
  BY <1>1, <1>2, <1>3, <1>4, PTL

-----------------------------------------------------------------------------
HIDE PoolAssumption DEF Thread, PoolInv, PoolTypeOK

(* The connections.  ConnectionsEndClosed says what holds when the last    *)
(* shared_ptr is gone; the invariant says, at every moment, which functors *)
(* of a connection are queued, where and in which order, and what is still *)
(* to come: established once and before it is destroyed, removed once and  *)
(* only while it is in connections_, destroyed once.                       *)

Loop == {Base} \cup Thread
Call == {"connectEstablished", "connectDestroyed", "removeConnection"}
ConnState == {"none", "kConnecting", "kConnected", "kDisconnecting", "kDisconnected"}
Cut(c) == Failure("isNoneEvent", c)
Fn == [call : Call, conn : Conn]

Establish(c) == Functor("connectEstablished", c)
Destroy(c) == Functor("connectDestroyed", c)
Remove(c) == Functor("removeConnection", c)

Has(q, f) == \E k \in 1..Len(q) : q[k] = f
Distinct(q) == \A k, l \in 1..Len(q) : q[k] = q[l] => k = l

\* A connection is established before it is destroyed.
Ordered(q) ==
  \A k, l \in 1..Len(q) :
    /\ q[k].call = "connectEstablished" /\ q[l].call = "connectDestroyed"
    /\ q[k].conn = q[l].conn
    => k < l

\* The functor waits on loop i, in pending_functors_ or in the batch.
Queued(i, f) == Has(pending[i], f) \/ (i \in Thread /\ Has(batch[i], f))

ConnTypeOK ==
  /\ pending \in [Loop -> Seq(Fn)]
  /\ batch \in [Thread -> Seq(Fn)]
  /\ next \in Nat /\ (numThreads # 0 => next < numThreads)
  /\ state \in [Conn -> ConnState]
  /\ ioLoop \in [Conn -> Loop]
  /\ added \in [Conn -> BOOLEAN]
  /\ connections \subseteq Conn
  /\ late \subseteq Conn
  /\ failed \subseteq {Cut(c) : c \in Conn}

\* Connections and functors are on loops that exist: of the pool, and not yet
\* unwound.  No assert fails before the destructor.
Loops ==
  /\ failed # {} => owner \notin {"new", "start", "wait", "listen", "running"}
  /\ \A c \in Conn : state[c] # "none" => ioLoop[c] <= numThreads
  /\ owner \in {"new", "start", "wait", "listen"} => \A c \in Conn : state[c] = "none"
  /\ connections # {} => owner \in {"running", "closing"}
  /\ \A i \in Thread, f \in Fn :
       /\ Has(batch[i], f) => tpc[i] = "run"
       /\ Has(pending[i], f) => tpc[i] # "exited"

\* No functor is queued twice, and connectEstablished() is ahead of
\* connectDestroyed().
Queues ==
  /\ \A i \in Loop : Distinct(pending[i]) /\ Ordered(pending[i])
  /\ \A i \in Thread :
       /\ Distinct(batch[i]) /\ Ordered(batch[i])
       /\ \A f \in Fn : ~(Has(pending[i], f) /\ Has(batch[i], f))
       /\ \A c \in Conn : ~(Has(pending[i], Establish(c)) /\ Has(batch[i], Destroy(c)))

\* What a functor of connection c on loop i says of the connection.
SortedAt(i, c) ==
  /\ Queued(i, Establish(c)) =>
       i = ioLoop[c] /\ i # Base /\ state[c] = "kConnecting"
  /\ Queued(i, Destroy(c)) =>
       /\ i = ioLoop[c] /\ c \notin connections
       /\ added[c] \/ state[c] = "kConnecting"
       /\ i = Base => state[c] = "kDisconnected"
  /\ Queued(i, Remove(c)) =>
       /\ i = Base /\ ioLoop[c] # Base /\ state[c] = "kDisconnected"
       /\ owner = "running" => c \in connections

Sorted == \A i \in Loop, c \in Conn : SortedAt(i, c)

\* What a connection says of the functors that are still to run.
PhaseAt(c) ==
  /\ state[c] = "none" => c \notin connections /\ ~added[c]
  /\ state[c] = "kConnecting" =>
       /\ ioLoop[c] # Base /\ ~added[c]
       /\ Queued(ioLoop[c], Establish(c)) \/ tpc[ioLoop[c]] = "exited"
  /\ state[c] = "kConnected" => added[c]
  /\ state[c] = "kDisconnecting" => added[c] \/ Cut(c) \in failed
  /\ Cut(c) \in failed =>
       state[c] = "kDisconnecting" /\ ~added[c] /\ c \notin connections
  /\ c \in connections /\ state[c] = "kDisconnected" =>
       added[c] /\ Queued(Base, Remove(c))
  /\ owner = "running" /\ c \notin connections =>
       state[c] \in {"none", "kDisconnected"}
  /\ c \notin connections /\ state[c] # "none" =>
       \/ Queued(ioLoop[c], Destroy(c))
       \/ state[c] = "kDisconnected" /\ ~added[c]
       \/ Cut(c) \in failed
       \/ c \in late /\ ioLoop[c] # Base /\ tpc[ioLoop[c]] = "exited"

Phases == \A c \in Conn : PhaseAt(c)

\* A connectDestroyed() that is not late is run before quit_ is looked at.
InTimeAt(c) ==
  c \notin late /\ ioLoop[c] # Base /\ Has(pending[ioLoop[c]], Destroy(c))
    => tpc[ioLoop[c]] \in {"poll", "swap"}

InTime == \A c \in Conn : InTimeAt(c)

ConnInv == ConnTypeOK /\ Loops /\ Queues /\ Sorted /\ Phases /\ InTime

-----------------------------------------------------------------------------
(* Functors and their queues                                               *)

LEMMA FunctorFacts ==
  /\ \A c \in Conn : Establish(c) \in Fn /\ Destroy(c) \in Fn /\ Remove(c) \in Fn
  /\ \A c, d \in Conn :
       /\ Establish(c) # Destroy(d) /\ Establish(c) # Remove(d) /\ Destroy(c) # Remove(d)
       /\ Establish(c) = Establish(d) => c = d
       /\ Destroy(c) = Destroy(d) => c = d
       /\ Remove(c) = Remove(d) => c = d
  /\ \A c \in Conn :
       /\ Establish(c).call = "connectEstablished" /\ Establish(c).conn = c
       /\ Destroy(c).call = "connectDestroyed" /\ Destroy(c).conn = c
       /\ Remove(c).call = "removeConnection" /\ Remove(c).conn = c
  /\ \A f \in Fn :
       /\ f.conn \in Conn /\ f.call \in Call
       /\ f.call = "connectEstablished" => f = Establish(f.conn)
       /\ f.call = "connectDestroyed" => f = Destroy(f.conn)
       /\ f.call = "removeConnection" => f = Remove(f.conn)
BY DEF Fn, Call, Functor, Establish, Destroy, Remove

LEMMA EmptyQueue ==
  /\ <<>> \in Seq(Fn) /\ Distinct(<<>>) /\ Ordered(<<>>)
  /\ \A g \in Fn : ~Has(<<>>, g)
BY DEF Distinct, Ordered, Has

LEMMA AppendQueue ==
  ASSUME NEW q \in Seq(Fn), NEW f \in Fn
  PROVE  /\ Append(q, f) \in Seq(Fn)
         /\ \A g \in Fn : Has(Append(q, f), g) <=> Has(q, g) \/ g = f
         /\ Distinct(q) /\ ~Has(q, f) => Distinct(Append(q, f))
         /\ /\ Ordered(q)
            /\ f.call = "connectEstablished" => ~Has(q, Destroy(f.conn))
            => Ordered(Append(q, f))
<1> DEFINE r == Append(q, f)
           n == Len(q)
<1>1. /\ r \in Seq(Fn) /\ n \in Nat /\ Len(r) = n + 1 /\ r[n + 1] = f
      /\ \A k \in 1..n : r[k] = q[k]
  OBVIOUS
<1>2. \A k \in 1..(n + 1) : k \in 1..n \/ k = n + 1
  BY <1>1
<1>3. 1..n \subseteq 1..(n + 1) /\ n + 1 \in 1..(n + 1) /\ \A k \in 1..n : k < n + 1
  BY <1>1
<1>4. \A k \in 1..n : q[k] \in Fn
  BY <1>1
<1> HIDE DEF r, n
<1>5. \A g \in Fn : Has(r, g) <=> Has(q, g) \/ g = f
  BY <1>1, <1>2, <1>3 DEF Has, n
<1>6. ASSUME Distinct(q), ~Has(q, f) PROVE Distinct(r)
  BY <1>1, <1>2, <1>3, <1>6 DEF Has, Distinct, n
<1>7. ASSUME Ordered(q), f.call = "connectEstablished" => ~Has(q, Destroy(f.conn))
      PROVE  Ordered(r)
  <2> SUFFICES ASSUME NEW k \in 1..Len(r), NEW l \in 1..Len(r),
                      r[k].call = "connectEstablished", r[l].call = "connectDestroyed",
                      r[k].conn = r[l].conn
               PROVE  k < l
    BY DEF Ordered
  <2>1. CASE k \in 1..n /\ l \in 1..n
    BY <2>1, <1>1, <1>7 DEF Ordered, n
  <2>2. CASE k \in 1..n /\ l = n + 1
    BY <2>2, <1>3
  <2>3. CASE k = n + 1 /\ l \in 1..n
    <3>1. q[l] = Destroy(f.conn) /\ f.call = "connectEstablished"
      BY <2>3, <1>1, <1>4, FunctorFacts
    <3> QED
      BY <3>1, <2>3, <1>7 DEF Has, n
  <2>4. CASE k = n + 1 /\ l = n + 1
    BY <2>4
  <2> QED
    BY <1>1, <1>2, <2>1, <2>2, <2>3, <2>4
<1> QED
  BY <1>1, <1>5, <1>6, <1>7 DEF r

LEMMA TailQueue ==
  ASSUME NEW q \in Seq(Fn), q # <<>>, Distinct(q), Ordered(q)
  PROVE  /\ Tail(q) \in Seq(Fn) /\ Head(q) \in Fn /\ Has(q, Head(q))
         /\ \A g \in Fn : Has(Tail(q), g) <=> Has(q, g) /\ g # Head(q)
         /\ Distinct(Tail(q)) /\ Ordered(Tail(q))
         /\ Head(q).call = "connectDestroyed" => ~Has(q, Establish(Head(q).conn))
<1> DEFINE r == Tail(q)
           n == Len(r)
<1>1. /\ r \in Seq(Fn) /\ n \in Nat /\ Len(q) = n + 1 /\ Head(q) = q[1]
      /\ \A k \in 1..n : r[k] = q[k + 1]
  OBVIOUS
<1>2. /\ \A k \in 1..(n + 1) : k = 1 \/ (k - 1 \in 1..n /\ k = (k - 1) + 1)
      /\ \A k \in 1..n : k + 1 \in 1..(n + 1) /\ k + 1 # 1 /\ ~(k + 1 < 1)
      /\ \A k, l \in 1..n : (k + 1 = l + 1 <=> k = l) /\ (k + 1 < l + 1 <=> k < l)
      /\ 1 \in 1..(n + 1)
  BY <1>1
<1>3. \A k \in 1..(n + 1) : q[k] \in Fn
  BY <1>1
<1> HIDE DEF r, n
<1>4. Head(q) \in Fn /\ Has(q, Head(q))
  BY <1>1, <1>2, <1>3 DEF Has
<1>5. ASSUME NEW g \in Fn PROVE Has(r, g) <=> Has(q, g) /\ g # Head(q)
  <2>1. ASSUME Has(r, g) PROVE Has(q, g) /\ g # Head(q)
    <3>1. PICK k \in 1..n : r[k] = g
      BY <2>1 DEF Has, n
    <3>2. q[k + 1] = g /\ k + 1 \in 1..Len(q) /\ k + 1 # 1 /\ 1 \in 1..Len(q)
      BY <3>1, <1>1, <1>2
    <3> QED
      BY <3>2, <1>1 DEF Has, Distinct
  <2>2. ASSUME Has(q, g), g # Head(q) PROVE Has(r, g)
    <3>1. PICK k \in 1..Len(q) : q[k] = g
      BY <2>2 DEF Has
    <3>2. k - 1 \in 1..n /\ k = (k - 1) + 1
      BY <3>1, <2>2, <1>1, <1>2
    <3>3. r[k - 1] = g
      BY <3>1, <3>2, <1>1
    <3> QED
      BY <3>2, <3>3 DEF Has, n
  <2> QED
    BY <2>1, <2>2
<1>6. Distinct(r)
  <2> SUFFICES ASSUME NEW k \in 1..n, NEW l \in 1..n, r[k] = r[l] PROVE k = l
    BY DEF Distinct, n
  <2>1. /\ k + 1 \in 1..Len(q) /\ l + 1 \in 1..Len(q)
        /\ r[k] = q[k + 1] /\ r[l] = q[l + 1]
    BY <1>1, <1>2
  <2>2. k + 1 = l + 1
    BY <2>1 DEF Distinct
  <2> QED
    BY <2>2, <1>2
<1>7. Ordered(r)
  <2> SUFFICES ASSUME NEW k \in 1..n, NEW l \in 1..n,
                      r[k].call = "connectEstablished", r[l].call = "connectDestroyed",
                      r[k].conn = r[l].conn
               PROVE  k < l
    BY DEF Ordered, n
  <2>1. /\ k + 1 \in 1..Len(q) /\ l + 1 \in 1..Len(q)
        /\ r[k] = q[k + 1] /\ r[l] = q[l + 1]
    BY <1>1, <1>2
  <2>2. k + 1 < l + 1
    BY <2>1 DEF Ordered
  <2> QED
    BY <2>2, <1>2
<1>8. ASSUME Head(q).call = "connectDestroyed" PROVE ~Has(q, Establish(Head(q).conn))
  <2> SUFFICES ASSUME NEW k \in 1..Len(q), q[k] = Establish(Head(q).conn) PROVE FALSE
    BY DEF Has
  <2>1. q[k].call = "connectEstablished" /\ q[k].conn = q[1].conn
    BY <1>1, <1>4, FunctorFacts
  <2>2. k < 1
    BY <2>1, <1>1, <1>2, <1>8 DEF Ordered
  <2> QED
    BY <2>2
<1> QED
  BY <1>1, <1>4, <1>5, <1>6, <1>7, <1>8 DEF r

-----------------------------------------------------------------------------
(* Connections and queues that a step leaves alone                         *)

LEMMA LoopFacts ==
  /\ Base \notin Thread /\ Thread \subseteq Loop /\ Base \in Loop
  /\ \A i \in Loop : i \in Nat /\ (i # Base => i \in Thread)
BY PoolAssumption DEF Loop, Base, Thread

FunctorsOf(c) == {Establish(c), Destroy(c), Remove(c)}

\* Nothing of a connection changes, nor where its functors are.
Untouched(c) ==
  /\ state'[c] = state[c] /\ added'[c] = added[c] /\ ioLoop'[c] = ioLoop[c]
  /\ c \in connections' <=> c \in connections
  /\ c \in late' <=> c \in late
  /\ Cut(c) \in failed' <=> Cut(c) \in failed
  /\ owner' = "running" => owner = "running" \/ state[c] = "none"
  /\ \A f \in FunctorsOf(c) :
       /\ \A i \in Loop : Has(pending'[i], f) <=> Has(pending[i], f)
       /\ \A i \in Thread : Has(batch'[i], f) <=> Has(batch[i], f)
  /\ ioLoop[c] # Base =>
       /\ tpc'[ioLoop[c]] = "exited" <=> tpc[ioLoop[c]] = "exited"
       /\ tpc[ioLoop[c]] \in {"poll", "swap"} => tpc'[ioLoop[c]] \in {"poll", "swap"}

LEMMA UntouchedKeeps ==
  ASSUME ConnInv, NEW c \in Conn, Untouched(c)
  PROVE  PhaseAt(c)' /\ InTimeAt(c)' /\ \A i \in Loop : SortedAt(i, c)'
<1> USE DEF Untouched
<1>0. ioLoop[c] \in Loop /\ Base \in Loop
  BY LoopFacts DEF ConnInv, ConnTypeOK
<1>1. \A i \in Loop, f \in FunctorsOf(c) : Queued(i, f)' <=> Queued(i, f)
  BY DEF Queued
<1>2. Establish(c) \in FunctorsOf(c) /\ Destroy(c) \in FunctorsOf(c) /\ Remove(c) \in FunctorsOf(c)
  BY DEF FunctorsOf
<1>3. PhaseAt(c) /\ InTimeAt(c) /\ \A i \in Loop : SortedAt(i, c)
  BY DEF ConnInv, Phases, InTime, Sorted
<1>4. PhaseAt(c)'
  <2>1. /\ Queued(ioLoop[c], Establish(c))' <=> Queued(ioLoop[c], Establish(c))
        /\ Queued(ioLoop[c], Destroy(c))' <=> Queued(ioLoop[c], Destroy(c))
        /\ Queued(Base, Remove(c))' <=> Queued(Base, Remove(c))
    BY <1>0, <1>1, <1>2
  <2> QED
    BY <1>3, <2>1 DEF PhaseAt
<1>5. InTimeAt(c)'
  BY <1>0, <1>2, <1>3 DEF InTimeAt
<1>6. ASSUME NEW i \in Loop PROVE SortedAt(i, c)'
  BY <1>1, <1>2, <1>3 DEF SortedAt
<1> QED
  BY <1>4, <1>5, <1>6

\* Every connection is one that the step leaves alone, or satisfies its part.
LEMMA ByConnection ==
  ASSUME ConnInv, ConnTypeOK', Loops', Queues', NEW S \in SUBSET Conn,
         \A c \in Conn \ S : Untouched(c),
         \A c \in S : PhaseAt(c)' /\ InTimeAt(c)' /\ \A i \in Loop : SortedAt(i, c)'
  PROVE  ConnInv'
<1>1. ASSUME NEW c \in Conn
      PROVE  PhaseAt(c)' /\ InTimeAt(c)' /\ \A i \in Loop : SortedAt(i, c)'
  BY UntouchedKeeps
<1> QED
  BY <1>1 DEF ConnInv, Phases, InTime, Sorted

\* A functor is appended to one queue of several, or taken off its front.
QueuesOK(p, S) ==
  p \in [S -> Seq(Fn)] /\ \A i \in S : Distinct(p[i]) /\ Ordered(p[i])

AppendedTo(r, p, k, f) == r = [p EXCEPT ![k] = Append(@, f)]
TakenOff(r, p, k) == p[k] # <<>> /\ r = [p EXCEPT ![k] = Tail(@)]

LEMMA AppendQueues ==
  ASSUME NEW S, NEW p, QueuesOK(p, S), NEW k \in S, NEW f \in Fn, NEW r,
         AppendedTo(r, p, k, f),
         ~Has(p[k], f),
         f.call = "connectEstablished" => ~Has(p[k], Destroy(f.conn))
  PROVE  /\ QueuesOK(r, S)
         /\ \A i \in S, g \in Fn : Has(r[i], g) <=> Has(p[i], g) \/ (i = k /\ g = f)
<1>1. p \in [S -> Seq(Fn)] /\ p[k] \in Seq(Fn) /\ Distinct(p[k]) /\ Ordered(p[k])
  BY DEF QueuesOK
<1>2. r[k] = Append(p[k], f) /\ \A i \in S \ {k} : r[i] = p[i]
  BY <1>1 DEF AppendedTo
<1>3. /\ r[k] \in Seq(Fn) /\ Distinct(r[k]) /\ Ordered(r[k])
      /\ \A g \in Fn : Has(r[k], g) <=> Has(p[k], g) \/ g = f
  BY <1>1, <1>2, AppendQueue
<1>4. r \in [S -> Seq(Fn)]
  BY <1>1, <1>2, <1>3 DEF AppendedTo, TakenOff
<1>5. \A i \in S : Distinct(r[i]) /\ Ordered(r[i])
  BY <1>2, <1>3 DEF QueuesOK
<1> QED
  BY <1>2, <1>3, <1>4, <1>5 DEF QueuesOK

LEMMA TailQueues ==
  ASSUME NEW S, NEW p, QueuesOK(p, S), NEW k \in S, NEW r, TakenOff(r, p, k)
  PROVE  /\ QueuesOK(r, S)
         /\ Head(p[k]) \in Fn /\ Has(p[k], Head(p[k]))
         /\ \A i \in S, g \in Fn :
              Has(r[i], g) <=> Has(p[i], g) /\ ~(i = k /\ g = Head(p[k]))
         /\ Head(p[k]).call = "connectDestroyed" =>
              ~Has(p[k], Establish(Head(p[k]).conn))
<1>1. p \in [S -> Seq(Fn)] /\ p[k] \in Seq(Fn) /\ Distinct(p[k]) /\ Ordered(p[k])
  BY DEF QueuesOK
<1>2. p[k] # <<>> /\ r[k] = Tail(p[k]) /\ \A i \in S \ {k} : r[i] = p[i]
  BY <1>1 DEF TakenOff
<1>3. /\ r[k] \in Seq(Fn) /\ Distinct(r[k]) /\ Ordered(r[k])
      /\ Head(p[k]) \in Fn /\ Has(p[k], Head(p[k]))
      /\ \A g \in Fn : Has(r[k], g) <=> Has(p[k], g) /\ g # Head(p[k])
      /\ Head(p[k]).call = "connectDestroyed" => ~Has(p[k], Establish(Head(p[k]).conn))
  BY <1>1, <1>2, TailQueue
<1>4. r \in [S -> Seq(Fn)]
  BY <1>1, <1>2, <1>3 DEF AppendedTo, TakenOff
<1>5. \A i \in S : Distinct(r[i]) /\ Ordered(r[i])
  BY <1>2, <1>3 DEF QueuesOK
<1> QED
  BY <1>2, <1>3, <1>4, <1>5 DEF QueuesOK

LEMMA InvQueuesOK ==
  ASSUME ConnInv
  PROVE  QueuesOK(pending, Loop) /\ QueuesOK(batch, Thread)
BY DEF ConnInv, ConnTypeOK, Queues, QueuesOK

-----------------------------------------------------------------------------
(* Steps that touch no queue                                               *)

\* A step of a thread or of the owner that leaves the queues and the
\* connections alone.
Quiet ==
  /\ UNCHANGED <<pending, batch, next, numThreads, serverVars>>
  /\ \A j \in Thread :
       /\ tpc'[j] = "exited" <=> tpc[j] = "exited"
       /\ tpc[j] = "run" /\ batch[j] # <<>> => tpc'[j] = "run"
       /\ tpc[j] \in {"poll", "swap"} => tpc'[j] \in {"poll", "swap"}
  /\ owner' \in {"new", "start", "wait", "listen"} =>
       owner \in {"new", "start", "wait", "listen"}
  /\ connections # {} /\ owner \in {"running", "closing"} =>
       owner' \in {"running", "closing"}
  /\ owner' = "running" => owner \in {"running", "listen"}

LEMMA QuietKeepsInv ==
  ASSUME ConnInv, Quiet
  PROVE  ConnInv'
<1> USE DEF Quiet, serverVars, connVars
<1>1. ConnTypeOK'
  BY DEF ConnInv, ConnTypeOK
<1>2. Loops'
  <2>1. /\ \A c \in Conn : (state[c] # "none" => ioLoop[c] <= numThreads)'
        /\ (owner \in {"new", "start", "wait", "listen"} =>
              \A c \in Conn : state[c] = "none")'
        /\ (connections # {} => owner \in {"running", "closing"})'
        /\ (failed # {} => owner \notin {"new", "start", "wait", "listen", "running"})'
    BY DEF ConnInv, Loops
  <2>2. ASSUME NEW i \in Thread, NEW f \in Fn
        PROVE  /\ (Has(batch[i], f) => tpc[i] = "run")'
               /\ (Has(pending[i], f) => tpc[i] # "exited")'
    <3>1. Has(batch[i], f) => batch[i] # <<>>
      BY EmptyQueue
    <3> QED
      BY <3>1 DEF ConnInv, Loops
  <2> QED
    BY <2>1, <2>2 DEF Loops
<1>3. Queues'
  BY DEF ConnInv, Queues
<1>4. ASSUME NEW c \in Conn PROVE Untouched(c)
  <2>1. ioLoop[c] # Base => ioLoop[c] \in Thread
    BY LoopFacts DEF ConnInv, ConnTypeOK
  <2>2. owner' = "running" => owner = "running" \/ state[c] = "none"
    BY DEF ConnInv, Loops
  <2> QED
    BY <2>1, <2>2 DEF Untouched
<1> QED
  BY <1>1, <1>2, <1>3, <1>4, ByConnection

\* A thread on its way out is none of those that the server uses.
LEMMA UsedLoopsUp ==
  ASSUME PoolInv, ConnInv, owner \in {"running", "closing"},
         NEW c \in Conn, state[c] # "none", ioLoop[c] # Base
  PROVE  ioLoop[c] \in Thread /\ Up(ioLoop[c])
<1>1. ioLoop[c] \in Thread /\ ioLoop[c] <= numThreads
  BY LoopFacts DEF ConnInv, ConnTypeOK, Loops
<1> QED
  BY <1>1 DEF PoolInv, Progress

\* connectDestroyed() closes the connection, unless it was shutting down.
LEMMA DestroyedOutcome ==
  ASSUME ConnInv, NEW c \in Conn, connectDestroyed(c), added[c],
         state[c] \in {"kConnected", "kDisconnecting", "kDisconnected"}
  PROVE  /\ state' \in [Conn -> ConnState] /\ added' \in [Conn -> BOOLEAN]
         /\ UNCHANGED ioLoop /\ ~added'[c]
         /\ failed' \subseteq {Cut(d) : d \in Conn}
         /\ \/ /\ state[c] = "kDisconnecting" /\ state'[c] = "kDisconnecting"
               /\ Cut(c) \in failed'
            \/ /\ state[c] # "kDisconnecting" /\ state'[c] = "kDisconnected"
               /\ UNCHANGED failed /\ Cut(c) \notin failed'
         /\ \A d \in Conn \ {c} :
              /\ state'[d] = state[d] /\ added'[d] = added[d]
              /\ Cut(d) \in failed' <=> Cut(d) \in failed
<1>1. /\ state \in [Conn -> ConnState] /\ added \in [Conn -> BOOLEAN]
      /\ failed \subseteq {Cut(d) : d \in Conn} /\ PhaseAt(c)
  BY DEF ConnInv, ConnTypeOK, Phases
<1>2. /\ state' = [state EXCEPT ![c] = IF @ = "kConnected" THEN "kDisconnected" ELSE @]
      /\ added' = [added EXCEPT ![c] = FALSE] /\ UNCHANGED ioLoop
  BY DEF connectDestroyed
<1>3. failed' = IF state[c] = "kDisconnecting" THEN failed \cup {Cut(c)} ELSE failed
  BY DEF connectDestroyed, Unless, Cut
<1>4. /\ Cut(c) \notin failed
      /\ \A d \in Conn : Cut(d) = Cut(c) => d = c
  BY <1>1 DEF PhaseAt, Cut, Failure
<1>5. /\ state' \in [Conn -> ConnState] /\ added' \in [Conn -> BOOLEAN] /\ ~added'[c]
      /\ \A d \in Conn \ {c} : state'[d] = state[d] /\ added'[d] = added[d]
      /\ state'[c] = IF state[c] = "kDisconnecting" THEN "kDisconnecting" ELSE "kDisconnected"
  BY <1>1, <1>2 DEF ConnState
<1> QED
  BY <1>1, <1>2, <1>3, <1>4, <1>5

-----------------------------------------------------------------------------
(* The steps of an I/O thread                                              *)

LEMMA SwapKeepsInv ==
  ASSUME PoolInv, ConnInv, NEW t \in Thread, Swap(t), UNCHANGED serverVars
  PROVE  ConnInv'
<1> USE DEF serverVars, connVars
<1>1. /\ tpc[t] = "swap" /\ tpc' = [tpc EXCEPT ![t] = "run"]
      /\ batch' = [batch EXCEPT ![t] = pending[t]]
      /\ pending' = [pending EXCEPT ![t] = <<>>]
      /\ UNCHANGED <<numThreads, next, owner>>
  BY DEF Swap, Goto, poolVars
<1>2. /\ pending \in [Loop -> Seq(Fn)] /\ batch \in [Thread -> Seq(Fn)] /\ t \in Loop
      /\ tpc \in [Thread -> ThreadPC]
  BY LoopFacts DEF ConnInv, ConnTypeOK, PoolInv, PoolTypeOK
<1>3. /\ batch'[t] = pending[t] /\ pending'[t] = <<>> /\ tpc'[t] = "run"
      /\ \A i \in Loop \ {t} : pending'[i] = pending[i]
      /\ \A i \in Thread \ {t} : batch'[i] = batch[i] /\ tpc'[i] = tpc[i]
  BY <1>1, <1>2
<1>4. \A f \in Fn : ~Has(batch[t], f)
  BY <1>1 DEF ConnInv, Loops
<1>5. \A f \in Fn : ~Has(pending'[t], f)
  BY <1>3, EmptyQueue
<1>6. ConnTypeOK'
  BY <1>1, <1>2, <1>3, EmptyQueue DEF ConnInv, ConnTypeOK
<1>7. Loops'
  <2>1. /\ \A c \in Conn : (state[c] # "none" => ioLoop[c] <= numThreads)'
        /\ (owner \in {"new", "start", "wait", "listen"} =>
              \A c \in Conn : state[c] = "none")'
        /\ (connections # {} => owner \in {"running", "closing"})'
        /\ (failed # {} => owner \notin {"new", "start", "wait", "listen", "running"})'
    BY <1>1 DEF ConnInv, Loops
  <2>2. ASSUME NEW i \in Thread, NEW f \in Fn
        PROVE  /\ (Has(batch[i], f) => tpc[i] = "run")'
               /\ (Has(pending[i], f) => tpc[i] # "exited")'
    BY <1>3, LoopFacts DEF ConnInv, Loops
  <2> QED
    BY <2>1, <2>2 DEF Loops
<1>8. Queues'
  <2>1. \A i \in Loop : Distinct(pending'[i]) /\ Ordered(pending'[i])
    BY <1>3, EmptyQueue DEF ConnInv, Queues
  <2>2. ASSUME NEW i \in Thread
        PROVE  /\ Distinct(batch'[i]) /\ Ordered(batch'[i])
               /\ \A f \in Fn : ~(Has(pending'[i], f) /\ Has(batch'[i], f))
               /\ \A c \in Conn :
                    ~(Has(pending'[i], Establish(c)) /\ Has(batch'[i], Destroy(c)))
    <3>1. CASE i = t
      BY <3>1, <1>2, <1>3, <1>5, FunctorFacts DEF ConnInv, Queues
    <3>2. CASE i # t
      BY <3>2, <1>3, LoopFacts DEF ConnInv, Queues
    <3> QED
      BY <3>1, <3>2
  <2> QED
    BY <2>1, <2>2 DEF Queues
<1>9. ASSUME NEW c \in Conn
      PROVE  PhaseAt(c)' /\ InTimeAt(c)' /\ \A i \in Loop : SortedAt(i, c)'
  <2>1. \A i \in Loop, f \in Fn : Queued(i, f)' <=> Queued(i, f)
    BY <1>3, <1>4, <1>5 DEF Queued
  <2>2. /\ ioLoop[c] \in Loop /\ Base \in Loop /\ (ioLoop[c] # Base => ioLoop[c] \in Thread)
        /\ Establish(c) \in Fn /\ Destroy(c) \in Fn /\ Remove(c) \in Fn
    BY LoopFacts, FunctorFacts DEF ConnInv, ConnTypeOK
  <2>3. PhaseAt(c) /\ InTimeAt(c) /\ \A i \in Loop : SortedAt(i, c)
    BY DEF ConnInv, Phases, InTime, Sorted
  <2>4. ioLoop[c] # Base => (tpc'[ioLoop[c]] = "exited" <=> tpc[ioLoop[c]] = "exited")
    BY <1>1, <1>3, <2>2
  <2>5. PhaseAt(c)'
    <3>1. /\ Queued(ioLoop[c], Establish(c))' <=> Queued(ioLoop[c], Establish(c))
          /\ Queued(ioLoop[c], Destroy(c))' <=> Queued(ioLoop[c], Destroy(c))
          /\ Queued(Base, Remove(c))' <=> Queued(Base, Remove(c))
      BY <2>1, <2>2
    <3> QED
      BY <1>1, <2>3, <2>4, <3>1 DEF PhaseAt
  <2>6. InTimeAt(c)'
    BY <1>3, <1>5, <2>2, <2>3 DEF InTimeAt
  <2>7. ASSUME NEW i \in Loop PROVE SortedAt(i, c)'
    BY <1>1, <2>1, <2>2, <2>3 DEF SortedAt
  <2> QED
    BY <2>5, <2>6, <2>7
<1> QED
  BY <1>6, <1>7, <1>8, <1>9, ByConnection

\* A loop that was told to quit unwinds: what is still queued there is late.
LEMMA UnwindKeepsInv ==
  ASSUME PoolInv, ConnInv, NEW t \in Thread, Unwind(t), UNCHANGED serverVars
  PROVE  ConnInv'
<1> USE DEF serverVars, connVars
<1>1. /\ tpc[t] = "unwind" /\ tpc' = [tpc EXCEPT ![t] = "exited"]
      /\ pending' = [pending EXCEPT ![t] = <<>>]
      /\ UNCHANGED <<numThreads, next, owner, batch>>
  BY DEF Unwind, Goto, poolVars
<1>2. /\ pending \in [Loop -> Seq(Fn)] /\ t \in Loop /\ t # Base
      /\ tpc \in [Thread -> ThreadPC]
  BY LoopFacts DEF ConnInv, ConnTypeOK, PoolInv, PoolTypeOK
<1>3. /\ pending'[t] = <<>> /\ tpc'[t] = "exited"
      /\ \A i \in Loop \ {t} : pending'[i] = pending[i]
      /\ \A i \in Thread \ {t} : tpc'[i] = tpc[i]
  BY <1>1, <1>2
<1>4. \A f \in Fn : ~Has(batch[t], f)
  BY <1>1 DEF ConnInv, Loops
<1>5. \A f \in Fn : ~Has(pending'[t], f)
  BY <1>3, EmptyQueue
<1>6. ConnTypeOK'
  BY <1>1, <1>2, <1>3, EmptyQueue DEF ConnInv, ConnTypeOK
<1>7. Loops'
  <2>1. /\ \A c \in Conn : (state[c] # "none" => ioLoop[c] <= numThreads)'
        /\ (owner \in {"new", "start", "wait", "listen"} =>
              \A c \in Conn : state[c] = "none")'
        /\ (connections # {} => owner \in {"running", "closing"})'
        /\ (failed # {} => owner \notin {"new", "start", "wait", "listen", "running"})'
    BY <1>1 DEF ConnInv, Loops
  <2>2. ASSUME NEW i \in Thread, NEW f \in Fn
        PROVE  /\ (Has(batch[i], f) => tpc[i] = "run")'
               /\ (Has(pending[i], f) => tpc[i] # "exited")'
    <3>1. CASE i = t
      BY <3>1, <1>1, <1>4, <1>5
    <3>2. CASE i # t
      BY <3>2, <1>1, <1>3, LoopFacts DEF ConnInv, Loops
    <3> QED
      BY <3>1, <3>2
  <2> QED
    BY <2>1, <2>2 DEF Loops
<1>8. Queues'
  <2>1. \A i \in Loop : Distinct(pending'[i]) /\ Ordered(pending'[i])
    BY <1>3, EmptyQueue DEF ConnInv, Queues
  <2>2. ASSUME NEW i \in Thread
        PROVE  /\ Distinct(batch'[i]) /\ Ordered(batch'[i])
               /\ \A f \in Fn : ~(Has(pending'[i], f) /\ Has(batch'[i], f))
               /\ \A c \in Conn :
                    ~(Has(pending'[i], Establish(c)) /\ Has(batch'[i], Destroy(c)))
    <3>1. CASE i = t
      BY <3>1, <1>1, <1>5, FunctorFacts DEF ConnInv, Queues
    <3>2. CASE i # t
      BY <3>2, <1>1, <1>3, LoopFacts DEF ConnInv, Queues
    <3> QED
      BY <3>1, <3>2
  <2> QED
    BY <2>1, <2>2 DEF Queues
<1>9. ASSUME NEW c \in Conn
      PROVE  PhaseAt(c)' /\ InTimeAt(c)' /\ \A i \in Loop : SortedAt(i, c)'
  <2>1. \A i \in Loop, f \in Fn : Queued(i, f)' <=> i # t /\ Queued(i, f)
    BY <1>1, <1>3, <1>4, <1>5 DEF Queued
  <2>2. /\ ioLoop[c] \in Loop /\ Base \in Loop /\ (ioLoop[c] # Base => ioLoop[c] \in Thread)
        /\ Establish(c) \in Fn /\ Destroy(c) \in Fn /\ Remove(c) \in Fn
    BY LoopFacts, FunctorFacts DEF ConnInv, ConnTypeOK
  <2>3. PhaseAt(c) /\ InTimeAt(c) /\ \A i \in Loop : SortedAt(i, c)
    BY DEF ConnInv, Phases, InTime, Sorted
  <2>4. ASSUME NEW i \in Loop PROVE SortedAt(i, c)'
    BY <1>1, <2>1, <2>2, <2>3 DEF SortedAt
  <2>5. InTimeAt(c)'
    <3>1. CASE ioLoop[c] = t
      BY <3>1, <1>5, <2>2 DEF InTimeAt
    <3>2. CASE ioLoop[c] # t
      BY <3>2, <1>3, <2>2, <2>3 DEF InTimeAt
    <3> QED
      BY <3>1, <3>2
  <2>6. PhaseAt(c)'
    <3>0. Queued(Base, Remove(c))' <=> Queued(Base, Remove(c))
      BY <1>2, <2>1, <2>2
    <3>1. CASE ioLoop[c] # t
      <4>1. /\ Queued(ioLoop[c], Establish(c))' <=> Queued(ioLoop[c], Establish(c))
            /\ Queued(ioLoop[c], Destroy(c))' <=> Queued(ioLoop[c], Destroy(c))
            /\ ioLoop[c] # Base => tpc'[ioLoop[c]] = tpc[ioLoop[c]]
        BY <3>1, <1>3, <2>1, <2>2
      <4> QED
        BY <1>1, <2>3, <3>0, <4>1 DEF PhaseAt
    <3>2. CASE ioLoop[c] = t
      <4>1. state[c] # "none" => owner \notin {"running", "closing"}
        BY <3>2, <1>1, <1>2, UsedLoopsUp DEF Up
      <4>2. c \notin connections
        <5>1. c \in connections => owner \in {"running", "closing"} /\ state[c] # "none"
          BY <2>3 DEF ConnInv, Loops, PhaseAt
        <5> QED
          BY <4>1, <5>1
      <4>3. Queued(t, Destroy(c)) => c \in late
        <5>1. Queued(t, Destroy(c)) => Has(pending[t], Destroy(c))
          BY <1>4, <2>2 DEF Queued
        <5> QED
          BY <3>2, <5>1, <1>1, <1>2, <2>3 DEF InTimeAt
      <4> QED
        BY <3>2, <1>1, <1>2, <1>3, <2>3, <4>1, <4>2, <4>3 DEF PhaseAt
    <3> QED
      BY <3>1, <3>2
  <2> QED
    BY <2>4, <2>5, <2>6
<1> QED
  BY <1>6, <1>7, <1>8, <1>9, ByConnection

\* connectEstablished() finds kConnecting, connectDestroyed() a channel that is
\* in the epoll set.
LEMMA RunFunctorKeepsInv ==
  ASSUME PoolInv, ConnInv, NEW t \in Thread, RunFunctor(t)
  PROVE  ConnInv'
<1>1. /\ tpc[t] = "run" /\ TakenOff(batch', batch, t)
      /\ UNCHANGED <<numThreads, next, owner, tpc, pending, connections, late>>
  BY DEF RunFunctor, poolVars, threadVars, TakenOff
<1>2. PICK f \in Fn, c \in Conn :
        /\ c = f.conn /\ QueuesOK(batch', Thread) /\ Has(batch[t], f)
        /\ f.call = "connectEstablished" => connectEstablished(c)
        /\ f.call # "connectEstablished" => connectDestroyed(c)
        /\ \A i \in Thread, g \in Fn :
             Has(batch'[i], g) <=> Has(batch[i], g) /\ ~(i = t /\ g = f)
        /\ f.call = "connectDestroyed" => ~Has(batch[t], Establish(c))
  <2>1. QueuesOK(batch, Thread)
    BY InvQueuesOK
  <2>2. /\ QueuesOK(batch', Thread) /\ Head(batch[t]) \in Fn /\ Has(batch[t], Head(batch[t]))
        /\ \A i \in Thread, g \in Fn :
             Has(batch'[i], g) <=> Has(batch[i], g) /\ ~(i = t /\ g = Head(batch[t]))
        /\ Head(batch[t]).call = "connectDestroyed" =>
             ~Has(batch[t], Establish(Head(batch[t]).conn))
    BY <1>1, <2>1, TailQueues
  <2>3. /\ Head(batch[t]).call = "connectEstablished" => connectEstablished(Head(batch[t]).conn)
        /\ Head(batch[t]).call # "connectEstablished" => connectDestroyed(Head(batch[t]).conn)
    BY DEF RunFunctor
  <2>4. Head(batch[t]).conn \in Conn
    BY <2>2, FunctorFacts
  <2> QED
    BY <2>2, <2>3, <2>4
<1>3. /\ c \in Conn /\ t \in Loop /\ t # Base /\ Queued(t, f)
      /\ \A d \in Conn : Establish(d) \in Fn /\ Destroy(d) \in Fn /\ Remove(d) \in Fn
  BY <1>2, LoopFacts, FunctorFacts DEF Queued
<1>4. PhaseAt(c) /\ InTimeAt(c) /\ \A i \in Loop : SortedAt(i, c)
  BY <1>3 DEF ConnInv, Phases, InTime, Sorted
<1>5. /\ f = Establish(c) \/ f = Destroy(c)
      /\ f = Establish(c) <=> f.call = "connectEstablished"
      /\ ioLoop[c] = t
  BY <1>2, <1>3, <1>4, FunctorFacts DEF SortedAt, Call
<1>6. /\ state' \in [Conn -> ConnState] /\ added' \in [Conn -> BOOLEAN]
      /\ UNCHANGED ioLoop /\ failed' \subseteq {Cut(d) : d \in Conn}
      /\ \A d \in Conn \ {c} :
           /\ state'[d] = state[d] /\ added'[d] = added[d]
           /\ Cut(d) \in failed' <=> Cut(d) \in failed
      /\ f = Establish(c) =>
           /\ state[c] = "kConnecting" /\ state'[c] = "kConnected" /\ added'[c]
           /\ UNCHANGED failed /\ Cut(c) \notin failed
      /\ f = Destroy(c) =>
           /\ state[c] \notin {"none", "kConnecting"} /\ c \notin connections /\ ~added'[c]
           /\ \/ /\ state[c] = "kDisconnecting" /\ state'[c] = "kDisconnecting"
                 /\ Cut(c) \in failed'
              \/ /\ state[c] # "kDisconnecting" /\ state'[c] = "kDisconnected"
                 /\ UNCHANGED failed /\ Cut(c) \notin failed'
  <2>1. /\ state \in [Conn -> ConnState] /\ added \in [Conn -> BOOLEAN]
        /\ failed \subseteq {Cut(d) : d \in Conn}
    BY DEF ConnInv, ConnTypeOK
  <2>2. CASE f = Establish(c)
    <3>1. state[c] = "kConnecting"
      BY <2>2, <1>3, <1>4 DEF SortedAt
    <3>2. f # Destroy(c)
      BY <2>2, <1>3, FunctorFacts
    <3>3. connectEstablished(c)
      BY <2>2, <1>2, <1>5
    <3>4. UNCHANGED failed /\ Cut(c) \notin failed
      BY <3>1, <3>3, <1>4 DEF connectEstablished, Unless, PhaseAt
    <3>5. /\ state' \in [Conn -> ConnState] /\ added' \in [Conn -> BOOLEAN]
          /\ UNCHANGED ioLoop /\ state'[c] = "kConnected" /\ added'[c]
          /\ \A d \in Conn \ {c} : state'[d] = state[d] /\ added'[d] = added[d]
      BY <2>1, <3>3, <1>3 DEF connectEstablished, ConnState
    <3> QED
      BY <2>1, <2>2, <3>1, <3>2, <3>4, <3>5
  <2>3. CASE f = Destroy(c)
    <3>1. f # Establish(c) /\ f.call = "connectDestroyed"
      BY <2>3, <1>3, FunctorFacts
    <3>2. ~Queued(t, Establish(c))
      BY <2>3, <3>1, <1>2, <1>3 DEF Queued, ConnInv, Queues
    <3>3. c \notin connections /\ state[c] # "kConnecting" /\ added[c] /\ state[c] # "none"
      BY <2>3, <3>2, <1>1, <1>3, <1>4, <1>5 DEF SortedAt, PhaseAt
    <3>4. state[c] \in {"kConnected", "kDisconnecting", "kDisconnected"}
      BY <2>1, <3>3, <1>3 DEF ConnState
    <3>5. connectDestroyed(c)
      BY <3>1, <1>2
    <3> QED
      BY <2>3, <3>1, <3>3, <3>4, <3>5, <1>3, DestroyedOutcome
  <2> QED
    BY <1>5, <2>2, <2>3
<1>7. ConnTypeOK'
  BY <1>1, <1>2, <1>6 DEF ConnInv, ConnTypeOK, QueuesOK
<1>8. Loops'
  <2>1. \A d \in Conn : state'[d] = "none" <=> state[d] = "none"
    BY <1>3, <1>5, <1>6
  <2>2. failed' # {} => owner \notin {"new", "start", "wait", "listen", "running"}
    BY <1>3, <1>4, <1>5, <1>6 DEF ConnInv, Loops, PhaseAt
  <2> QED
    BY <2>1, <2>2, <1>1, <1>2, <1>6 DEF ConnInv, Loops
<1>9. Queues'
  BY <1>1, <1>2, <1>3 DEF ConnInv, Queues, QueuesOK
<1>10. ASSUME NEW d \in Conn \ {c} PROVE Untouched(d)
  <2>1. f \notin FunctorsOf(d) /\ FunctorsOf(d) \subseteq Fn
    BY <1>3, <1>5, FunctorFacts DEF FunctorsOf
  <2> QED
    BY <2>1, <1>1, <1>2, <1>6 DEF Untouched
<1>11. PhaseAt(c)' /\ InTimeAt(c)' /\ \A i \in Loop : SortedAt(i, c)'
  <2>1. \A i \in Loop, g \in Fn : Queued(i, g)' <=> Queued(i, g) /\ ~(i = t /\ g = f)
    BY <1>1, <1>2, <1>3 DEF Queued, ConnInv, Queues
  <2>2. Establish(c) # Destroy(c) /\ Establish(c) # Remove(c) /\ Destroy(c) # Remove(c)
    BY <1>3, FunctorFacts
  <2>3. InTimeAt(c)'
    BY <1>1, <1>4, <1>6 DEF InTimeAt
  <2>4. Base \in Loop
    BY LoopFacts
  <2>5. CASE f = Establish(c)
    <3>1. ~Queued(t, Establish(c))' /\ (Queued(t, Destroy(c))' <=> Queued(t, Destroy(c)))
      BY <2>1, <2>2, <2>5, <1>3
    <3>2. PhaseAt(c)'
      BY <2>5, <3>1, <1>1, <1>4, <1>5, <1>6 DEF PhaseAt
    <3>3. ASSUME NEW i \in Loop PROVE SortedAt(i, c)'
      BY <2>1, <2>2, <2>5, <1>1, <1>3, <1>4, <1>5, <1>6 DEF SortedAt
    <3> QED
      BY <2>3, <3>2, <3>3
  <2>6. CASE f = Destroy(c)
    <3>1. PhaseAt(c)'
      BY <2>6, <1>1, <1>4, <1>6 DEF PhaseAt
    <3>2. ASSUME NEW i \in Loop PROVE SortedAt(i, c)'
      BY <2>1, <2>2, <2>6, <1>1, <1>3, <1>4, <1>5, <1>6 DEF SortedAt
    <3> QED
      BY <2>3, <3>1, <3>2
  <2> QED
    BY <1>5, <2>5, <2>6
<1> QED
  <2>1. {c} \in SUBSET Conn
    BY <1>3
  <2> QED
    BY <2>1, <1>7, <1>8, <1>9, <1>10, <1>11, ByConnection

\* A connection is closed on an I/O loop: its removal is queued once.
LEMMA IoCloseKeepsInv ==
  ASSUME PoolInv, ConnInv, NEW t \in Thread, IoClose(t)
  PROVE  ConnInv'
<1>0. t \in Loop /\ t # Base /\ Base \in Loop
  BY LoopFacts
<1>1. PICK c \in Conn : added[c] /\ handleClose(t, c)
  BY DEF IoClose, handleClose
<1>2. /\ tpc[t] = "poll" /\ tpc' = [tpc EXCEPT ![t] = "swap"]
      /\ UNCHANGED <<numThreads, next, owner, batch>>
  BY DEF IoClose, Goto, poolVars
<1>3. /\ ioLoop[c] = t /\ state[c] \in {"kConnected", "kDisconnecting"}
      /\ state' = [state EXCEPT ![c] = "kDisconnected"]
      /\ AppendedTo(pending', pending, Base, Remove(c))
      /\ UNCHANGED <<connections, late, failed, ioLoop, added>>
  BY <1>0, <1>1 DEF handleClose, QueueInLoop, Remove, AppendedTo
<1>4. /\ \A d \in Conn : Establish(d) \in Fn /\ Destroy(d) \in Fn /\ Remove(d) \in Fn
      /\ Establish(c) # Destroy(c) /\ Establish(c) # Remove(c) /\ Destroy(c) # Remove(c)
      /\ Remove(c).call # "connectEstablished"
  BY FunctorFacts
<1>5. PhaseAt(c) /\ InTimeAt(c) /\ \A i \in Loop : SortedAt(i, c)
  BY DEF ConnInv, Phases, InTime, Sorted
<1>6. \A i \in Loop : ~Queued(i, Remove(c)) /\ ~Queued(i, Establish(c))
  BY <1>3, <1>5 DEF SortedAt
<1>7. /\ QueuesOK(pending', Loop)
      /\ \A i \in Loop, g \in Fn :
           Has(pending'[i], g) <=> Has(pending[i], g) \/ (i = Base /\ g = Remove(c))
  <2>1. QueuesOK(pending, Loop)
    BY InvQueuesOK
  <2>2. ~Has(pending[Base], Remove(c))
    BY <1>0, <1>6 DEF Queued
  <2> QED
    BY <1>0, <1>3, <1>4, <2>1, <2>2, AppendQueues
<1>8. /\ tpc'[t] = "swap" /\ \A i \in Thread \ {t} : tpc'[i] = tpc[i]
  BY <1>2 DEF PoolInv, PoolTypeOK
<1>9. /\ state'[c] = "kDisconnected" /\ \A d \in Conn \ {c} : state'[d] = state[d]
      /\ state' \in [Conn -> ConnState]
  BY <1>3 DEF ConnInv, ConnTypeOK, ConnState
<1>10. ConnTypeOK'
  BY <1>2, <1>3, <1>7, <1>9 DEF ConnInv, ConnTypeOK, QueuesOK
<1>11. Loops'
  <2>1. \A d \in Conn : state'[d] = "none" <=> state[d] = "none"
    BY <1>3, <1>9
  <2>2. ASSUME NEW i \in Thread, NEW g \in Fn
        PROVE  /\ (Has(batch[i], g) => tpc[i] = "run")'
               /\ (Has(pending[i], g) => tpc[i] # "exited")'
    BY <1>2, <1>7, <1>8, LoopFacts DEF ConnInv, Loops
  <2> QED
    BY <2>1, <2>2, <1>2, <1>3 DEF ConnInv, Loops
<1>12. Queues'
  BY <1>2, <1>4, <1>7, LoopFacts DEF ConnInv, Queues, QueuesOK
<1>13. ASSUME NEW d \in Conn \ {c} PROVE Untouched(d)
  <2>1. Remove(c) \notin FunctorsOf(d) /\ FunctorsOf(d) \subseteq Fn
    BY FunctorFacts DEF FunctorsOf
  <2>2. ioLoop[d] # Base => ioLoop[d] \in Thread
    BY LoopFacts DEF ConnInv, ConnTypeOK
  <2> QED
    BY <2>1, <2>2, <1>2, <1>3, <1>7, <1>8, <1>9 DEF Untouched
<1>14. PhaseAt(c)' /\ InTimeAt(c)' /\ \A i \in Loop : SortedAt(i, c)'
  <2>1. \A i \in Loop, g \in Fn :
          Queued(i, g)' <=> Queued(i, g) \/ (i = Base /\ g = Remove(c))
    BY <1>2, <1>7 DEF Queued
  <2>2. InTimeAt(c)'
    BY <1>0, <1>2, <1>3, <1>4, <1>7, <1>8, <1>5 DEF InTimeAt
  <2>3. Queued(Base, Remove(c))' /\ (Queued(t, Destroy(c))' <=> Queued(t, Destroy(c)))
    BY <1>0, <1>4, <2>1
  <2>4. /\ Cut(c) \notin failed
        /\ c \notin connections => Queued(t, Destroy(c)) \/ (c \in late /\ tpc[t] = "exited")
    BY <1>1, <1>3, <1>5 DEF PhaseAt
  <2>5. PhaseAt(c)'
    BY <1>0, <1>1, <1>2, <1>3, <1>9, <2>3, <2>4 DEF PhaseAt
  <2>6. owner = "running" => c \in connections
    BY <1>3, <1>5 DEF PhaseAt
  <2>7. ASSUME NEW i \in Loop PROVE SortedAt(i, c)'
    BY <1>0, <1>1, <1>2, <1>3, <1>4, <1>5, <1>6, <1>9, <2>1, <2>6 DEF SortedAt
  <2> QED
    BY <2>2, <2>5, <2>7
<1> QED
  <2>1. {c} \in SUBSET Conn
    OBVIOUS
  <2> QED
    BY <2>1, <1>10, <1>11, <1>12, <1>13, <1>14, ByConnection

-----------------------------------------------------------------------------
(* The steps of the base loop's thread                                     *)

\* A functor that is nowhere on its loop is queued there.
LEMMA AppendStep ==
  ASSUME ConnInv, NEW k \in Loop, NEW f \in Fn, AppendedTo(pending', pending, k, f),
         UNCHANGED batch, ~Queued(k, f),
         f.call = "connectEstablished" => ~Queued(k, Destroy(f.conn))
  PROVE  /\ pending' \in [Loop -> Seq(Fn)] /\ Queues'
         /\ \A i \in Loop, g \in Fn :
              /\ Has(pending'[i], g) <=> Has(pending[i], g) \/ (i = k /\ g = f)
              /\ Queued(i, g)' <=> Queued(i, g) \/ (i = k /\ g = f)
<1>1. /\ QueuesOK(pending', Loop)
      /\ \A i \in Loop, g \in Fn : Has(pending'[i], g) <=> Has(pending[i], g) \/ (i = k /\ g = f)
  <2>1. QueuesOK(pending, Loop)
    BY InvQueuesOK
  <2>2. /\ ~Has(pending[k], f)
        /\ f.call = "connectEstablished" => ~Has(pending[k], Destroy(f.conn))
    BY DEF Queued
  <2> QED
    BY <2>1, <2>2, AppendQueues
<1>2. \A i \in Loop, g \in Fn : Queued(i, g)' <=> Queued(i, g) \/ (i = k /\ g = f)
  BY <1>1 DEF Queued
<1>3. ASSUME NEW i \in Thread
      PROVE  /\ \A g \in Fn : ~(Has(pending'[i], g) /\ Has(batch'[i], g))
             /\ \A c \in Conn : ~(Has(pending'[i], Establish(c)) /\ Has(batch'[i], Destroy(c)))
  <2>1. i \in Loop /\ \A c \in Conn : Establish(c) \in Fn /\ Destroy(c) \in Fn
    BY LoopFacts, FunctorFacts
  <2>2. \A g \in Fn : ~(Has(pending'[i], g) /\ Has(batch'[i], g))
    BY <1>1, <2>1 DEF ConnInv, Queues, Queued
  <2>3. ASSUME NEW c \in Conn PROVE ~(Has(pending'[i], Establish(c)) /\ Has(batch'[i], Destroy(c)))
    <3>1. CASE i = k /\ f = Establish(c)
      <4>1. f.call = "connectEstablished" /\ f.conn = c
        BY <3>1, FunctorFacts
      <4> QED
        BY <3>1, <4>1 DEF Queued
    <3>2. CASE ~(i = k /\ f = Establish(c))
      BY <3>2, <1>1, <2>1 DEF ConnInv, Queues
    <3> QED
      BY <3>1, <3>2
  <2> QED
    BY <2>2, <2>3
<1>4. Queues'
  BY <1>1, <1>3 DEF ConnInv, Queues, QueuesOK
<1> QED
  BY <1>1, <1>2, <1>4 DEF QueuesOK

\* The threads stand still and functors come to loops that have not exited.
LEMMA BaseLoops ==
  ASSUME ConnInv, UNCHANGED <<numThreads, owner, tpc, batch>>,
         owner \in {"running", "closing", "gone"},
         connections' # {} => owner # "gone",
         failed' # {} => owner # "running",
         \A c \in Conn : state'[c] # "none" => ioLoop'[c] <= numThreads,
         \A i \in Thread, f \in Fn :
           Has(pending'[i], f) => Has(pending[i], f) \/ tpc[i] # "exited"
  PROVE  Loops'
BY DEF ConnInv, Loops

\* newConnection().
LEMMA NewConnectionKeepsInv ==
  ASSUME PoolInv, ConnInv, NewConnection
  PROVE  ConnInv'
<1> USE DEF threadVars
<1>1. PICK c \in Conn :
        /\ state[c] = "none"
        /\ connections' = connections \cup {c}
        /\ ioLoop' = [ioLoop EXCEPT ![c] = NextLoop]
        /\ next' = NextIndex
        /\ \/ /\ NextLoop = Base
              /\ state' = [state EXCEPT ![c] = "kConnected"]
              /\ added' = [added EXCEPT ![c] = TRUE]
              /\ UNCHANGED pending
           \/ /\ NextLoop # Base
              /\ state' = [state EXCEPT ![c] = "kConnecting"]
              /\ AppendedTo(pending', pending, NextLoop, Establish(c))
              /\ UNCHANGED added
  BY DEF NewConnection, QueueInLoop, AppendedTo, Establish
<1>2. owner = "running" /\ UNCHANGED <<numThreads, owner, tpc, batch, late, failed>>
  BY DEF NewConnection
<1>3. PICK k \in Loop : /\ k = NextLoop /\ k <= numThreads
                        /\ k # Base => k \in Thread /\ tpc[k] # "exited"
  <2>1. /\ NextLoop \in Loop /\ NextLoop <= numThreads
        /\ NextLoop # Base => NextLoop \in Thread
    BY PoolAssumption
    DEF PoolInv, PoolTypeOK, ConnInv, ConnTypeOK, NextLoop, Loop, Thread, Base
  <2>2. NextLoop # Base => tpc[NextLoop] # "exited"
    BY <1>2, <2>1 DEF PoolInv, Progress, Up
  <2> QED
    BY <2>1, <2>2
<1>4. next' \in Nat /\ (numThreads' # 0 => next' < numThreads')
  <2>1. numThreads \in Nat /\ next \in Nat /\ (numThreads # 0 => next < numThreads)
    BY PoolAssumption DEF PoolInv, PoolTypeOK, ConnInv, ConnTypeOK
  <2>2. \A m, n \in Nat : n # 0 => (m + 1) % n \in Nat /\ (m + 1) % n < n
    OBVIOUS
  <2> QED
    BY <1>1, <1>2, <2>1, <2>2 DEF NextIndex
<1>5. /\ \A d \in Conn \ {c} :
           state'[d] = state[d] /\ added'[d] = added[d] /\ ioLoop'[d] = ioLoop[d]
      /\ state' \in [Conn -> ConnState] /\ added' \in [Conn -> BOOLEAN]
      /\ ioLoop' \in [Conn -> Loop] /\ ioLoop'[c] = k
      /\ k = Base => state'[c] = "kConnected" /\ added'[c]
      /\ k # Base => state'[c] = "kConnecting" /\ added'[c] = added[c]
  BY <1>1, <1>3 DEF ConnInv, ConnTypeOK, ConnState
<1>6. PhaseAt(c) /\ InTimeAt(c) /\ \A i \in Loop : SortedAt(i, c)
  BY DEF ConnInv, Phases, InTime, Sorted
<1>7. \A i \in Loop :
        ~Queued(i, Remove(c)) /\ ~Queued(i, Establish(c)) /\ ~Queued(i, Destroy(c))
  BY <1>1, <1>6 DEF SortedAt, PhaseAt
<1>8. /\ \A d \in Conn : Establish(d) \in Fn /\ Destroy(d) \in Fn /\ Remove(d) \in Fn
      /\ Establish(c) # Destroy(c) /\ Establish(c) # Remove(c) /\ Destroy(c) # Remove(c)
      /\ Establish(c).conn = c
  BY FunctorFacts
<1>9. /\ pending' \in [Loop -> Seq(Fn)] /\ Queues'
      /\ \A i \in Loop, g \in Fn :
           /\ Has(pending'[i], g) <=> Has(pending[i], g) \/ (k # Base /\ i = k /\ g = Establish(c))
           /\ Queued(i, g)' <=> Queued(i, g) \/ (k # Base /\ i = k /\ g = Establish(c))
  <2>1. CASE k = Base
    BY <2>1, <1>1, <1>2, <1>3 DEF Queued, ConnInv, ConnTypeOK, Queues
  <2>2. CASE k # Base
    BY <2>2, <1>1, <1>2, <1>3, <1>7, <1>8, AppendStep
  <2> QED
    BY <2>1, <2>2
<1>10. ConnTypeOK'
  BY <1>1, <1>2, <1>4, <1>5, <1>9 DEF ConnInv, ConnTypeOK
<1>11. Loops'
  <2>1. \A d \in Conn : state'[d] # "none" => ioLoop'[d] <= numThreads
    BY <1>3, <1>5 DEF ConnInv, Loops
  <2>2. \A i \in Thread, f \in Fn : Has(pending'[i], f) => Has(pending[i], f) \/ tpc[i] # "exited"
    BY <1>3, <1>9, LoopFacts
  <2>3. failed' # {} => owner # "running"
    BY <1>2 DEF ConnInv, Loops
  <2> QED
    BY <1>2, <2>1, <2>2, <2>3, BaseLoops
<1>12. ASSUME NEW d \in Conn \ {c} PROVE Untouched(d)
  <2>1. Establish(c) \notin FunctorsOf(d) /\ FunctorsOf(d) \subseteq Fn
    BY FunctorFacts DEF FunctorsOf
  <2> QED
    BY <2>1, <1>1, <1>2, <1>5, <1>9 DEF Untouched
<1>13. PhaseAt(c)' /\ InTimeAt(c)' /\ \A i \in Loop : SortedAt(i, c)'
  <2>1. PhaseAt(c)'
    <3>1. k # Base => Queued(k, Establish(c))'
      BY <1>8, <1>9
    <3> QED
      BY <3>1, <1>1, <1>2, <1>5, <1>6 DEF PhaseAt
  <2>2. InTimeAt(c)'
    <3>1. ~Has(pending'[k], Destroy(c))
      BY <1>7, <1>8, <1>9 DEF Queued
    <3> QED
      BY <3>1, <1>5 DEF InTimeAt
  <2>3. ASSUME NEW i \in Loop PROVE SortedAt(i, c)'
    BY <1>5, <1>7, <1>8, <1>9 DEF SortedAt
  <2> QED
    BY <2>1, <2>2, <2>3
<1> QED
  <2>1. {c} \in SUBSET Conn
    OBVIOUS
  <2> QED
    BY <2>1, <1>9, <1>10, <1>11, <1>12, <1>13, ByConnection

\* A connection leaves connections_ and its connectDestroyed() is queued; done
\* says whether the functor that removes it is taken off the base loop's queue.
LEMMA DestroyQueuedKeepsInv ==
  ASSUME PoolInv, ConnInv, NEW c \in connections, NEW done \in BOOLEAN,
         owner \in {"running", "closing"},
         UNCHANGED <<numThreads, next, owner, tpc, batch, ioLoop, added, failed>>,
         connections' = connections \ {c}, Late(c),
         pending' \in [Loop -> Seq(Fn)], Queues',
         \A i \in Loop, g \in Fn :
           Has(pending'[i], g) <=>
             \/ Has(pending[i], g) /\ ~(done /\ i = Base /\ g = Remove(c))
             \/ i = ioLoop[c] /\ g = Destroy(c),
         state' \in [Conn -> ConnState], \A d \in Conn \ {c} : state'[d] = state[d],
         \/ state'[c] = state[c]
         \/ state[c] \in {"kConnected", "kDisconnecting"} /\ state'[c] = "kDisconnected",
         ioLoop[c] = Base \/ owner = "running" => state'[c] = "kDisconnected",
         owner = "running" => ~Queued(Base, Remove(c))'
  PROVE  ConnInv'
<1>1. c \in Conn /\ ioLoop[c] \in Loop /\ Base \in Loop
  BY LoopFacts DEF ConnInv, ConnTypeOK
<1>2. PhaseAt(c) /\ InTimeAt(c) /\ \A i \in Loop : SortedAt(i, c)
  BY <1>1 DEF ConnInv, Phases, InTime, Sorted
<1>3. /\ \A d \in Conn : Establish(d) \in Fn /\ Destroy(d) \in Fn /\ Remove(d) \in Fn
      /\ Establish(c) # Destroy(c) /\ Establish(c) # Remove(c) /\ Destroy(c) # Remove(c)
  BY <1>1, FunctorFacts
<1>4. state[c] # "none" /\ state'[c] # "none" /\ \A i \in Loop : ~Queued(i, Destroy(c))
  BY <1>1, <1>2 DEF PhaseAt, SortedAt
<1>5. ioLoop[c] # Base => ioLoop[c] \in Thread /\ tpc[ioLoop[c]] # "exited"
  BY <1>1, <1>4, UsedLoopsUp DEF Up
<1>6. /\ late' \subseteq Conn /\ (\A d \in Conn \ {c} : d \in late' <=> d \in late)
      /\ ioLoop[c] # Base /\ c \notin late' => tpc[ioLoop[c]] \in {"poll", "swap"}
  BY <1>1 DEF Late, ConnInv, ConnTypeOK
<1>7. ConnTypeOK'
  BY <1>6 DEF ConnInv, ConnTypeOK
<1>8. Loops'
  <2>1. \A d \in Conn : state'[d] # "none" => ioLoop'[d] <= numThreads
    BY <1>4 DEF ConnInv, Loops
  <2>2. \A i \in Thread, f \in Fn : Has(pending'[i], f) => Has(pending[i], f) \/ tpc[i] # "exited"
    BY <1>5, LoopFacts
  <2>3. failed' # {} => owner # "running"
    BY DEF ConnInv, Loops
  <2> QED
    BY <2>1, <2>2, <2>3, BaseLoops
<1>9. ASSUME NEW d \in Conn \ {c} PROVE Untouched(d)
  <2>1. /\ Destroy(c) \notin FunctorsOf(d) /\ Remove(c) \notin FunctorsOf(d)
        /\ FunctorsOf(d) \subseteq Fn
    BY <1>1, FunctorFacts DEF FunctorsOf
  <2> QED
    BY <2>1, <1>6 DEF Untouched
<1>10. PhaseAt(c)' /\ InTimeAt(c)' /\ \A i \in Loop : SortedAt(i, c)'
  <2>1. ASSUME NEW i \in Loop
        PROVE  /\ Queued(i, Establish(c))' <=> Queued(i, Establish(c))
               /\ Queued(i, Destroy(c))' <=> i = ioLoop[c]
               /\ Queued(i, Remove(c))' => Queued(i, Remove(c))
    <3>1. Establish(c) \in Fn /\ Destroy(c) \in Fn /\ Remove(c) \in Fn
      BY <1>1, <1>3
    <3>2. /\ Has(pending'[i], Establish(c)) <=> Has(pending[i], Establish(c))
          /\ Has(pending'[i], Destroy(c)) <=> Has(pending[i], Destroy(c)) \/ i = ioLoop[c]
          /\ Has(pending'[i], Remove(c)) => Has(pending[i], Remove(c))
      BY <1>3, <3>1
    <3> QED
      BY <1>4, <3>2 DEF Queued
  <2>2. InTimeAt(c)'
    BY <1>6 DEF InTimeAt
  <2>3. PhaseAt(c)'
    BY <1>1, <1>2, <2>1 DEF PhaseAt
  <2>4. ASSUME NEW i \in Loop PROVE SortedAt(i, c)'
    <3>1. added[c] \/ state[c] = "kConnecting"
      BY <1>1, <1>2, <1>4 DEF PhaseAt, ConnInv, ConnTypeOK, ConnState
    <3>2. Queued(i, Remove(c))' => i = Base /\ ioLoop[c] # Base /\ state'[c] = "kDisconnected"
      BY <1>2, <2>1 DEF SortedAt
    <3>3. Queued(i, Establish(c))' =>
            i = ioLoop[c] /\ i # Base /\ state'[c] = "kConnecting"
      BY <1>2, <2>1 DEF SortedAt
    <3>4. Queued(i, Destroy(c))' =>
            /\ i = ioLoop[c] /\ c \notin connections'
            /\ added[c] \/ state'[c] = "kConnecting"
            /\ i = Base => state'[c] = "kDisconnected"
      BY <2>1, <3>1
    <3>5. owner = "running" => ~Queued(i, Remove(c))'
      BY <3>2
    <3> QED
      BY <3>2, <3>3, <3>4, <3>5 DEF SortedAt
  <2> QED
    BY <2>2, <2>3, <2>4
<1> QED
  <2>1. {c} \in SUBSET Conn
    BY <1>1
  <2> QED
    BY <2>1, <1>7, <1>8, <1>9, <1>10, ByConnection

\* A connection of the base loop is closed: erase() finds it.
LEMMA BaseCloseKeepsInv ==
  ASSUME PoolInv, ConnInv, BaseClose
  PROVE  ConnInv'
<1>1. PICK c \in Conn : handleClose(Base, c)
  BY DEF BaseClose
<1>2. owner = "running" /\ UNCHANGED <<numThreads, next, owner, tpc, batch>>
  BY DEF BaseClose, poolVars, threadVars
<1>3. /\ ioLoop[c] = Base /\ state[c] \in {"kConnected", "kDisconnecting"}
      /\ state' = [state EXCEPT ![c] = "kDisconnected"]
      /\ failed' = failed \cup Unless(c \in connections, "erase", c)
      /\ connections' = connections \ {c}
      /\ AppendedTo(pending', pending, Base, Destroy(c))
      /\ Late(c) /\ UNCHANGED <<ioLoop, added>>
  BY <1>1 DEF handleClose, removeConnectionInLoop, AppendedTo, Destroy
<1>4. PhaseAt(c) /\ \A i \in Loop : SortedAt(i, c)
  BY DEF ConnInv, Phases, Sorted
<1>5. c \in connections /\ UNCHANGED failed
  BY <1>2, <1>3, <1>4 DEF PhaseAt, Unless
<1>6. /\ Base \in Loop /\ Destroy(c) \in Fn /\ Remove(c) \in Fn /\ Destroy(c) # Remove(c)
      /\ Destroy(c).call # "connectEstablished"
  BY LoopFacts, FunctorFacts
<1>7. ~Queued(Base, Destroy(c)) /\ ~Queued(Base, Remove(c))
  BY <1>3, <1>4, <1>5, <1>6 DEF SortedAt
<1>8. /\ pending' \in [Loop -> Seq(Fn)] /\ Queues'
      /\ \A i \in Loop, g \in Fn :
           /\ Has(pending'[i], g) <=> Has(pending[i], g) \/ (i = Base /\ g = Destroy(c))
           /\ Queued(i, g)' <=> Queued(i, g) \/ (i = Base /\ g = Destroy(c))
  BY <1>2, <1>3, <1>6, <1>7, AppendStep
<1>9. ~Queued(Base, Remove(c))'
  BY <1>6, <1>7, <1>8
<1>10. /\ state' \in [Conn -> ConnState] /\ state'[c] = "kDisconnected"
       /\ \A d \in Conn \ {c} : state'[d] = state[d]
  BY <1>3 DEF ConnInv, ConnTypeOK, ConnState
<1>11. \A i \in Loop, g \in Fn :
         Has(pending'[i], g) <=>
           \/ Has(pending[i], g) /\ ~(FALSE /\ i = Base /\ g = Remove(c))
           \/ i = ioLoop[c] /\ g = Destroy(c)
  BY <1>3, <1>8
<1> QED
  BY <1>2, <1>3, <1>5, <1>8, <1>9, <1>10, <1>11, DestroyQueuedKeepsInv

\* connectDestroyed() on the base loop, by a functor or by the destructor.
LEMMA DestroyedOnBaseKeepsInv ==
  ASSUME PoolInv, ConnInv, NEW c \in Conn, ioLoop[c] = Base, connectDestroyed(c),
         added[c], state[c] \in {"kConnected", "kDisconnecting", "kDisconnected"},
         owner \in {"running", "closing", "gone"},
         state[c] = "kDisconnecting" => owner = "closing",
         UNCHANGED <<numThreads, next, owner, tpc, batch, late>>,
         connections' = connections \ {c},
         pending' \in [Loop -> Seq(Fn)], Queues',
         \A i \in Loop, g \in Fn :
           Has(pending'[i], g) <=> Has(pending[i], g) /\ ~(i = Base /\ g = Destroy(c))
  PROVE  ConnInv'
<1>1. Base \in Loop /\ Base \notin Thread
  BY LoopFacts
<1>2. PhaseAt(c) /\ InTimeAt(c) /\ \A i \in Loop : SortedAt(i, c)
  BY DEF ConnInv, Phases, InTime, Sorted
<1>3. /\ \A d \in Conn : Establish(d) \in Fn /\ Destroy(d) \in Fn /\ Remove(d) \in Fn
      /\ Establish(c) # Destroy(c) /\ Establish(c) # Remove(c) /\ Destroy(c) # Remove(c)
  BY FunctorFacts
<1>4. /\ state' \in [Conn -> ConnState] /\ added' \in [Conn -> BOOLEAN]
      /\ UNCHANGED ioLoop /\ ~added'[c]
      /\ failed' \subseteq {Cut(d) : d \in Conn}
      /\ \/ /\ state[c] = "kDisconnecting" /\ state'[c] = "kDisconnecting"
            /\ Cut(c) \in failed'
         \/ /\ state[c] # "kDisconnecting" /\ state'[c] = "kDisconnected"
            /\ UNCHANGED failed /\ Cut(c) \notin failed'
      /\ \A d \in Conn \ {c} :
           /\ state'[d] = state[d] /\ added'[d] = added[d]
           /\ Cut(d) \in failed' <=> Cut(d) \in failed
  BY DestroyedOutcome
<1>5. ConnTypeOK'
  BY <1>4 DEF ConnInv, ConnTypeOK
<1>6. Loops'
  <2>1. \A d \in Conn : state'[d] # "none" => ioLoop'[d] <= numThreads
    BY <1>4 DEF ConnInv, Loops
  <2>2. \A i \in Thread, f \in Fn : Has(pending'[i], f) => Has(pending[i], f) \/ tpc[i] # "exited"
    BY LoopFacts
  <2>3. connections' # {} => owner # "gone"
    BY DEF ConnInv, Loops
  <2>4. failed' # {} => owner # "running"
    BY <1>4 DEF ConnInv, Loops
  <2> QED
    BY <2>1, <2>2, <2>3, <2>4, BaseLoops
<1>7. ASSUME NEW d \in Conn \ {c} PROVE Untouched(d)
  <2>1. Destroy(c) \notin FunctorsOf(d) /\ FunctorsOf(d) \subseteq Fn
    BY FunctorFacts DEF FunctorsOf
  <2> QED
    BY <2>1, <1>4 DEF Untouched
<1>8. PhaseAt(c)' /\ InTimeAt(c)' /\ \A i \in Loop : SortedAt(i, c)'
  <2>1. \A i \in Loop, g \in Fn : Queued(i, g)' <=> Queued(i, g) /\ ~(i = Base /\ g = Destroy(c))
    BY <1>1 DEF Queued
  <2>2. PhaseAt(c)'
    BY <1>4 DEF PhaseAt
  <2>3. InTimeAt(c)'
    BY <1>4 DEF InTimeAt
  <2>4. ASSUME NEW i \in Loop PROVE SortedAt(i, c)'
    BY <1>2, <1>3, <1>4, <2>1 DEF SortedAt
  <2> QED
    BY <2>2, <2>3, <2>4
<1> QED
  <2>1. {c} \in SUBSET Conn
    OBVIOUS
  <2> QED
    BY <2>1, <1>5, <1>6, <1>7, <1>8, ByConnection

\* The base loop removes a connection: erase() finds it.  Or it destroys one.
LEMMA RunBaseKeepsInv ==
  ASSUME PoolInv, ConnInv, RunBase
  PROVE  ConnInv'
<1>0. Base \in Loop /\ Base \notin Thread
  BY LoopFacts
<1>1. PICK rest : TakenOff(rest, pending, Base)
  BY DEF RunBase, TakenOff
<1>2. UNCHANGED <<numThreads, next, owner, tpc, batch>>
  BY DEF RunBase, poolVars, threadVars
<1>3. PICK f \in Fn, c \in Conn :
        /\ c = f.conn /\ QueuesOK(rest, Loop) /\ Has(pending[Base], f)
        /\ \A i \in Loop, g \in Fn :
             Has(rest[i], g) <=> Has(pending[i], g) /\ ~(i = Base /\ g = f)
        /\ f.call = "removeConnection" =>
             /\ owner = "running" /\ removeConnectionInLoop(c, rest) /\ UNCHANGED connVars
        /\ f.call # "removeConnection" =>
             /\ owner \in {"running", "gone"} /\ connectDestroyed(c)
             /\ pending' = rest /\ UNCHANGED <<connections, late>>
  <2>1. QueuesOK(pending, Loop)
    BY InvQueuesOK
  <2>2. /\ QueuesOK(rest, Loop) /\ Head(pending[Base]) \in Fn
        /\ Has(pending[Base], Head(pending[Base]))
        /\ \A i \in Loop, g \in Fn :
             Has(rest[i], g) <=> Has(pending[i], g) /\ ~(i = Base /\ g = Head(pending[Base]))
    BY <1>0, <1>1, <2>1, TailQueues
  <2>3. /\ Head(pending[Base]).call = "removeConnection" =>
             /\ owner = "running" /\ removeConnectionInLoop(Head(pending[Base]).conn, rest)
             /\ UNCHANGED connVars
        /\ Head(pending[Base]).call # "removeConnection" =>
             /\ owner \in {"running", "gone"} /\ connectDestroyed(Head(pending[Base]).conn)
             /\ pending' = rest /\ UNCHANGED <<connections, late>>
    BY <1>1 DEF RunBase, TakenOff
  <2>4. Head(pending[Base]).conn \in Conn
    BY <2>2, FunctorFacts
  <2> QED
    BY <2>2, <2>3, <2>4
<1>4. /\ Establish(c) \in Fn /\ Destroy(c) \in Fn /\ Remove(c) \in Fn
      /\ \A d \in Conn : Establish(d) \in Fn /\ Destroy(d) \in Fn
      /\ Destroy(c) # Remove(c) /\ Destroy(c).call # "connectEstablished"
      /\ f = Establish(c) \/ f = Destroy(c) \/ f = Remove(c)
      /\ f = Remove(c) <=> f.call = "removeConnection"
  BY <1>3, FunctorFacts DEF Call
<1>5. PhaseAt(c) /\ \A i \in Loop : SortedAt(i, c)
  BY DEF ConnInv, Phases, Sorted
<1>6. Queued(Base, f)
  BY <1>3 DEF Queued
<1>7. /\ \A i \in Thread : Distinct(batch[i]) /\ Ordered(batch[i])
      /\ \A i \in Thread, g \in Fn : ~(Has(rest[i], g) /\ Has(batch[i], g))
      /\ \A i \in Thread, d \in Conn : ~(Has(rest[i], Establish(d)) /\ Has(batch[i], Destroy(d)))
  BY <1>3, <1>4, LoopFacts DEF ConnInv, Queues
<1>8. CASE f = Remove(c)
  <2>1. /\ ioLoop[c] # Base /\ state[c] = "kDisconnected" /\ owner = "running"
        /\ c \in connections
    BY <1>0, <1>3, <1>4, <1>5, <1>6, <1>8 DEF SortedAt
  <2>2. /\ failed' = failed \cup Unless(c \in connections, "erase", c)
        /\ connections' = connections \ {c}
        /\ AppendedTo(pending', rest, ioLoop[c], Destroy(c))
        /\ Late(c) /\ UNCHANGED <<state, ioLoop, added>>
    BY <1>3, <1>4, <1>8 DEF removeConnectionInLoop, connVars, AppendedTo, Destroy
  <2>3. PICK k \in Loop : k = ioLoop[c] /\ k \in Thread
    BY <2>1, LoopFacts DEF ConnInv, ConnTypeOK
  <2>4. \A i \in Loop : ~Queued(i, Destroy(c))
    BY <1>5, <2>1 DEF SortedAt
  <2>5. ~Has(rest[k], Destroy(c)) /\ ~Has(batch[k], Destroy(c))
    BY <1>3, <1>4, <2>3, <2>4 DEF Queued
  <2>6. /\ QueuesOK(pending', Loop)
        /\ \A i \in Loop, g \in Fn :
             Has(pending'[i], g) <=> Has(rest[i], g) \/ (i = k /\ g = Destroy(c))
    BY <1>3, <1>4, <2>2, <2>3, <2>5, AppendQueues
  <2>7. Queues'
    <3>1. \A i \in Thread, g \in Fn : ~(Has(pending'[i], g) /\ Has(batch'[i], g))
      BY <1>2, <1>7, <2>5, <2>6, LoopFacts
    <3>2. \A i \in Thread, d \in Conn :
            ~(Has(pending'[i], Establish(d)) /\ Has(batch'[i], Destroy(d)))
      <4>1. \A d \in Conn : Establish(d) # Destroy(c)
        BY FunctorFacts
      <4> QED
        BY <1>2, <1>4, <1>7, <2>6, <4>1, LoopFacts
    <3> QED
      BY <1>2, <1>7, <2>6, <3>1, <3>2 DEF Queues, QueuesOK
  <2>8. \A i \in Loop, g \in Fn :
          Has(pending'[i], g) <=>
            \/ Has(pending[i], g) /\ ~(TRUE /\ i = Base /\ g = Remove(c))
            \/ i = ioLoop[c] /\ g = Destroy(c)
    BY <1>3, <1>8, <2>3, <2>6
  <2>9. ~Queued(Base, Remove(c))'
    BY <1>0, <1>4, <2>1, <2>8 DEF Queued
  <2>10. UNCHANGED failed /\ pending' \in [Loop -> Seq(Fn)] /\ state' \in [Conn -> ConnState]
    BY <2>1, <2>2, <2>6 DEF Unless, QueuesOK, ConnInv, ConnTypeOK
  <2> QED
    BY <1>2, <2>1, <2>2, <2>7, <2>8, <2>9, <2>10, DestroyQueuedKeepsInv
<1>9. CASE f # Remove(c)
  <2>1. f = Destroy(c)
    BY <1>0, <1>4, <1>5, <1>6, <1>9 DEF SortedAt
  <2>2. /\ owner \in {"running", "gone"} /\ connectDestroyed(c)
        /\ pending' = rest /\ UNCHANGED <<connections, late>>
    BY <1>3, <1>4, <1>9
  <2>3. /\ ioLoop[c] = Base /\ state[c] = "kDisconnected" /\ added[c]
        /\ connections' = connections \ {c}
    BY <1>0, <1>5, <1>6, <2>1, <2>2 DEF SortedAt
  <2>4. pending' \in [Loop -> Seq(Fn)] /\ Queues'
    BY <1>2, <1>3, <1>7, <2>2 DEF Queues, QueuesOK
  <2>5. \A i \in Loop, g \in Fn :
          Has(pending'[i], g) <=> Has(pending[i], g) /\ ~(i = Base /\ g = Destroy(c))
    BY <1>3, <2>1, <2>2
  <2> QED
    BY <1>2, <2>2, <2>3, <2>4, <2>5, DestroyedOnBaseKeepsInv
<1> QED
  BY <1>8, <1>9

\* ~TcpServer() ends a connection.
LEMMA CloseConnectionKeepsInv ==
  ASSUME PoolInv, ConnInv, CloseConnection
  PROVE  ConnInv'
<1>0. Base \in Loop /\ Base \notin Thread
  BY LoopFacts
<1>1. PICK c \in connections :
        /\ connections' = connections \ {c}
        /\ \/ ioLoop[c] = Base /\ connectDestroyed(c) /\ UNCHANGED <<pending, late>>
           \/ /\ ioLoop[c] # Base /\ AppendedTo(pending', pending, ioLoop[c], Destroy(c))
              /\ Late(c) /\ UNCHANGED <<state, ioLoop, added, failed>>
  BY DEF CloseConnection, QueueInLoop, AppendedTo, Destroy, connVars
<1>2. owner = "closing" /\ UNCHANGED <<numThreads, next, owner, tpc, batch>>
  BY DEF CloseConnection, poolVars, threadVars
<1>3. c \in Conn /\ ioLoop[c] \in Loop
  BY DEF ConnInv, ConnTypeOK
<1>4. PhaseAt(c) /\ \A i \in Loop : SortedAt(i, c)
  BY <1>3 DEF ConnInv, Phases, Sorted
<1>5. Destroy(c) \in Fn /\ Destroy(c).call # "connectEstablished"
  BY <1>3, FunctorFacts
<1>6. \A i \in Loop : ~Queued(i, Destroy(c))
  BY <1>4 DEF SortedAt
<1>7. CASE ioLoop[c] = Base
  <2>1. ~Queued(Base, Remove(c))
    BY <1>0, <1>4, <1>7 DEF SortedAt
  <2>2. added[c] /\ state[c] \in {"kConnected", "kDisconnecting", "kDisconnected"}
    BY <1>3, <1>4, <1>7, <2>1 DEF PhaseAt, ConnInv, ConnTypeOK, ConnState
  <2>3. /\ pending' \in [Loop -> Seq(Fn)] /\ Queues'
        /\ \A i \in Loop, g \in Fn :
             Has(pending'[i], g) <=> Has(pending[i], g) /\ ~(i = Base /\ g = Destroy(c))
    BY <1>0, <1>1, <1>2, <1>6, <1>7 DEF ConnInv, ConnTypeOK, Queues, Queued
  <2> QED
    BY <1>1, <1>2, <1>3, <1>7, <2>2, <2>3, DestroyedOnBaseKeepsInv
<1>8. CASE ioLoop[c] # Base
  <2>1. /\ pending' \in [Loop -> Seq(Fn)] /\ Queues'
        /\ \A i \in Loop, g \in Fn :
             Has(pending'[i], g) <=> Has(pending[i], g) \/ (i = ioLoop[c] /\ g = Destroy(c))
    BY <1>1, <1>2, <1>3, <1>5, <1>6, <1>8, AppendStep
  <2>2. \A i \in Loop, g \in Fn :
          Has(pending'[i], g) <=>
            \/ Has(pending[i], g) /\ ~(FALSE /\ i = Base /\ g = Remove(c))
            \/ i = ioLoop[c] /\ g = Destroy(c)
    BY <2>1
  <2>3. state' \in [Conn -> ConnState]
    BY <1>1, <1>8 DEF ConnInv, ConnTypeOK
  <2> QED
    BY <1>1, <1>2, <1>8, <2>1, <2>2, <2>3, DestroyQueuedKeepsInv
<1> QED
  BY <1>7, <1>8

\* shutdown() of a connection that is open: its channel stays as it is.
LEMMA ShutdownKeepsInv ==
  ASSUME PoolInv, ConnInv, NEW c \in Conn, Shutdown(c)
  PROVE  ConnInv'
<1>1. /\ state[c] = "kConnected" /\ state' = [state EXCEPT ![c] = "kDisconnecting"]
      /\ UNCHANGED <<numThreads, next, owner, tpc, pending, batch, ioLoop, added,
                     connections, late, failed>>
      /\ ioLoop[c] = Base => owner = "running"
  BY DEF Shutdown, vars, poolVars, threadVars, loopVars
<1>2. PhaseAt(c) /\ InTimeAt(c) /\ \A i \in Loop : SortedAt(i, c)
  BY DEF ConnInv, Phases, InTime, Sorted
<1>3. /\ state'[c] = "kDisconnecting" /\ \A d \in Conn \ {c} : state'[d] = state[d]
      /\ state' \in [Conn -> ConnState]
  BY <1>1 DEF ConnInv, ConnTypeOK, ConnState
<1>4. ConnTypeOK'
  BY <1>1, <1>3 DEF ConnInv, ConnTypeOK
<1>5. Loops'
  <2>1. \A d \in Conn : state'[d] = "none" <=> state[d] = "none"
    BY <1>1, <1>3
  <2> QED
    BY <2>1, <1>1 DEF ConnInv, Loops
<1>6. Queues'
  BY <1>1 DEF ConnInv, Queues
<1>7. ASSUME NEW d \in Conn \ {c} PROVE Untouched(d)
  BY <1>1, <1>3 DEF Untouched
<1>8. PhaseAt(c)' /\ InTimeAt(c)' /\ \A i \in Loop : SortedAt(i, c)'
  <2>1. \A i \in Loop, f \in Fn : Queued(i, f)' <=> Queued(i, f)
    BY <1>1 DEF Queued
  <2>2. /\ Queued(ioLoop[c], Establish(c))' <=> Queued(ioLoop[c], Establish(c))
        /\ Queued(ioLoop[c], Destroy(c))' <=> Queued(ioLoop[c], Destroy(c))
    BY <1>1 DEF Queued
  <2>3. PhaseAt(c)'
    BY <1>1, <1>2, <1>3, <2>2 DEF PhaseAt
  <2>4. InTimeAt(c)'
    BY <1>1, <1>2 DEF InTimeAt
  <2>5. ASSUME NEW i \in Loop PROVE SortedAt(i, c)'
    <3>1. Establish(c) \in Fn /\ Destroy(c) \in Fn /\ Remove(c) \in Fn
      BY FunctorFacts
    <3> QED
      BY <1>1, <1>2, <1>3, <2>1, <3>1 DEF SortedAt, PhaseAt
  <2> QED
    BY <2>3, <2>4, <2>5
<1> QED
  <2>1. {c} \in SUBSET Conn
    OBVIOUS
  <2> QED
    BY <2>1, <1>4, <1>5, <1>6, <1>7, <1>8, ByConnection

-----------------------------------------------------------------------------
(* Every step                                                              *)

\* The steps of threadFunc() and loop() but for the swap and the unwinding.
LEMMA ThreadStepKeepsConn ==
  ASSUME PoolInv, ConnInv, NEW t \in Thread, ThreadStep(t), UNCHANGED serverVars
  PROVE  ConnInv'
<1>1. CASE Swap(t)
  BY <1>1, SwapKeepsInv
<1>2. CASE Unwind(t)
  BY <1>2, UnwindKeepsInv
<1>3. CASE ~Swap(t) /\ ~Unwind(t)
  <2>1. /\ UNCHANGED <<pending, batch, numThreads, next, owner>>
        /\ tpc \in [Thread -> ThreadPC]
        /\ \A j \in Thread \ {t} : tpc'[j] = tpc[j]
        /\ tpc'[t] # "exited" /\ tpc[t] # "exited"
        /\ tpc[t] = "run" => batch[t] = <<>>
        /\ tpc[t] \in {"poll", "swap"} => tpc'[t] = "swap"
    BY <1>3 DEF ThreadStep, Construct, Publish, Enter, TestQuit, PollReturn, EndOfBatch,
                Unpublish, Goto, poolVars, loopVars, PoolInv, PoolTypeOK
  <2>2. Quiet
    BY <2>1 DEF Quiet
  <2> QED
    BY <2>2, QuietKeepsInv
<1> QED
  BY <1>1, <1>2, <1>3

LEMMA OwnerKeepsConn ==
  ASSUME PoolInv, ConnInv, UNCHANGED serverVars,
         StartServer \/ Listen \/ DestroyServer \/ DestroyMembers \/ OwnerStep
  PROVE  ConnInv'
<1> USE DEF threadVars, loopVars
<1>1. CASE StartLoop
  <2>1. /\ UNCHANGED <<pending, batch, numThreads, next>>
        /\ owner = "start" /\ owner' = "wait"
        /\ tpc' = [tpc EXCEPT ![at] = "construct"] /\ tpc \in [Thread -> ThreadPC]
        /\ \A j \in Thread : j = at => tpc[j] = "none"
    BY <1>1 DEF StartLoop, Goto, PoolInv, PoolTypeOK, Progress, Fresh
  <2>2. \A j \in Thread : tpc'[j] = tpc[j] \/ (tpc[j] = "none" /\ tpc'[j] = "construct")
    BY <2>1
  <2>3. connections = {}
    BY <2>1 DEF ConnInv, Loops
  <2>4. Quiet
    BY <2>1, <2>2, <2>3 DEF Quiet
  <2> QED
    BY <2>4, QuietKeepsInv
<1>2. CASE ~StartLoop
  <2>1. /\ UNCHANGED <<pending, batch, numThreads, next, tpc>>
        /\ owner' \in {"new", "start", "wait", "listen"} =>
             owner \in {"new", "start", "wait", "listen"}
        /\ connections # {} /\ owner \in {"running", "closing"} =>
             owner' \in {"running", "closing"}
        /\ owner' = "running" => owner \in {"running", "listen"}
    BY <1>2 DEF StartServer, Listen, DestroyServer, DestroyMembers, OwnerStep,
                StartLoopReturn, DtorTest, DtorQuit, DtorJoin
  <2>2. Quiet
    BY <2>1 DEF Quiet
  <2> QED
    BY <2>2, QuietKeepsInv
<1> QED
  BY <1>1, <1>2

LEMMA InitConn == ServerInit => ConnInv
<1> SUFFICES ASSUME ServerInit PROVE ConnInv
  OBVIOUS
<1>1. /\ next = 0 /\ numThreads \in 0..MaxThreads /\ owner = "new"
      /\ pending = [i \in Loop |-> <<>>] /\ batch = [i \in Thread |-> <<>>]
      /\ state = [c \in Conn |-> "none"] /\ ioLoop = [c \in Conn |-> Base]
      /\ added = [c \in Conn |-> FALSE]
      /\ connections = {} /\ late = {} /\ failed = {}
  BY DEF ServerInit, Init, Loop
<1>2. /\ \A i \in Loop : pending[i] = <<>>
      /\ \A i \in Thread : batch[i] = <<>>
  BY <1>1
<1>3. /\ \A i \in Loop, f \in Fn : ~Has(pending[i], f) /\ ~Queued(i, f)
      /\ \A i \in Thread, f \in Fn : ~Has(batch[i], f)
  BY <1>2, EmptyQueue DEF Queued
<1>4. \A c \in Conn : Establish(c) \in Fn /\ Destroy(c) \in Fn /\ Remove(c) \in Fn
  BY FunctorFacts
<1>5. ConnTypeOK
  <2>1. Base \in Loop /\ "none" \in ConnState /\ <<>> \in Seq(Fn)
    BY LoopFacts, EmptyQueue DEF ConnState
  <2>2. numThreads # 0 => next < numThreads
    BY <1>1, PoolAssumption
  <2> QED
    BY <1>1, <2>1, <2>2 DEF ConnTypeOK
<1>6. Loops
  BY <1>1, <1>3, LoopFacts DEF Loops
<1>7. Queues
  BY <1>2, <1>3, EmptyQueue, LoopFacts, FunctorFacts DEF Queues
<1>8. ASSUME NEW c \in Conn
      PROVE  PhaseAt(c) /\ InTimeAt(c) /\ \A i \in Loop : SortedAt(i, c)
  <2>1. ioLoop[c] = Base /\ state[c] = "none" /\ ~added[c]
    BY <1>1
  <2> QED
    BY <1>1, <1>3, <1>4, <2>1 DEF PhaseAt, InTimeAt, SortedAt
<1> QED
  BY <1>5, <1>6, <1>7, <1>8 DEF ConnInv, Phases, InTime, Sorted

LEMMA NextKeepsConn == PoolInv /\ ConnInv /\ [ServerNext]_allVars => ConnInv'
<1> SUFFICES ASSUME PoolInv, ConnInv, [ServerNext]_allVars PROVE ConnInv'
  OBVIOUS
<1>0. ASSUME UNCHANGED <<vars, serverVars>> PROVE ConnInv'
  <2>1. Quiet
    BY <1>0 DEF Quiet, vars, poolVars, threadVars, loopVars
  <2> QED
    BY <2>1, QuietKeepsInv
<1>1. CASE StartServer \/ DestroyServer
  BY <1>1, OwnerKeepsConn DEF StartServer, DestroyServer
<1>2. CASE BaseClose \/ \E c \in Conn : Shutdown(c)
  BY <1>2, BaseCloseKeepsInv, ShutdownKeepsInv
<1>3. CASE BaseStep
  <2>1. CASE NewConnection
    BY <2>1, NewConnectionKeepsInv
  <2>2. CASE AcceptorStep
    BY <2>2, <1>0 DEF AcceptorStep
  <2>3. CASE RunBase
    BY <2>3, RunBaseKeepsInv
  <2>4. CASE CloseConnection
    BY <2>4, CloseConnectionKeepsInv
  <2>5. CASE DestroyMembers \/ PoolStep \/ Listen
    BY <2>5, OwnerKeepsConn DEF PoolStep, DestroyMembers, Listen
  <2> QED
    BY <1>3, <2>1, <2>2, <2>3, <2>4, <2>5 DEF BaseStep
<1>4. ASSUME NEW t \in Thread, IoStep(t) \/ IoClose(t) \/ IoOther(t)
      PROVE  ConnInv'
  <2>1. CASE RunFunctor(t)
    BY <2>1, RunFunctorKeepsInv
  <2>2. CASE ThreadStep(t) /\ UNCHANGED <<acceptorVars, serverVars>>
    BY <2>2, ThreadStepKeepsConn
  <2>3. CASE IoClose(t)
    BY <2>3, IoCloseKeepsInv
  <2>4. CASE IoOther(t)
    <3>1. Quiet
      BY <2>4 DEF Quiet, IoOther, Goto, poolVars, loopVars, PoolInv, PoolTypeOK
    <3> QED
      BY <3>1, QuietKeepsInv
  <2> QED
    BY <1>4, <2>1, <2>2, <2>3, <2>4 DEF IoStep
<1>5. CASE UNCHANGED allVars
  BY <1>5, <1>0 DEF allVars
<1> QED
  BY <1>0, <1>1, <1>2, <1>3, <1>4, <1>5 DEF ServerNext

-----------------------------------------------------------------------------
\* Both invariants hold for ever.
THEOREM ServerInvariant == ServerSpec => [](PoolInv /\ ConnInv)
<1>1. ServerSpec => ServerInit /\ [][ServerNext]_allVars
  BY PTL DEF ServerSpec
<1>2. ServerInit => PoolInv /\ ConnInv
  BY InitInv, InitConn
<1>3. PoolInv /\ ConnInv /\ [ServerNext]_allVars => (PoolInv /\ ConnInv)'
  BY NextKeepsInv, NextKeepsConn
<1> QED
  BY <1>1, <1>2, <1>3, PTL

LEMMA InvEndClosed == ConnInv => ConnectionsEndClosed
<1>0. ASSUME ConnInv, NEW f \in failed
      PROVE  /\ f.assert = "isNoneEvent" /\ state[f.conn] = "kDisconnecting"
             /\ owner \notin {"new", "start", "wait", "listen", "running"}
  <2>1. PICK d \in Conn : f = Cut(d)
    BY <1>0 DEF ConnInv, ConnTypeOK
  <2>2. f.assert = "isNoneEvent" /\ f.conn = d
    BY <2>1 DEF Cut, Failure
  <2> QED
    BY <1>0, <2>1, <2>2 DEF ConnInv, Loops, Phases, PhaseAt
<1> SUFFICES ASSUME ConnInv, NEW c \in Conn, state[c] # "none", ~Referenced(c)
             PROVE  \/ state[c] = "kDisconnected" /\ ~added[c]
                    \/ Failure("isNoneEvent", c) \in failed /\ ~added[c]
                    \/ c \in late /\ tpc[ioLoop[c]] = "exited"
  BY <1>0 DEF ConnectionsEndClosed
<1>1. PhaseAt(c) /\ c \notin connections /\ ioLoop[c] \in Loop
  BY DEF ConnInv, Phases, Referenced, ConnTypeOK
<1>2. pending \in [Loop -> Seq(Fn)] /\ batch \in [Thread -> Seq(Fn)] /\ Destroy(c).conn = c
  BY FunctorFacts DEF ConnInv, ConnTypeOK
<1>3. \A i \in Loop : ~Has(pending[i], Destroy(c))
  BY <1>2 DEF Has, Holds, Referenced
<1>4. \A i \in Thread : ~Has(batch[i], Destroy(c))
  BY <1>2 DEF Has, Holds, Referenced
<1>5. ~Queued(ioLoop[c], Destroy(c))
  BY <1>1, <1>3, <1>4 DEF Queued
<1> QED
  BY <1>1, <1>5 DEF PhaseAt, Cut

\* For any number of threads and clients, every assert in the life of a
\* connection holds, and when the last shared_ptr is gone the connection is
\* closed and its channel removed.  The exceptions are those of ~TcpServer(): it
\* ends a connection after shutdown(), whose channel is not disabled, and it
\* stops a loop that was on its way to the test of quit_ when connectDestroyed()
\* was queued.
THEOREM EndsClosed == ServerSpec => []ConnectionsEndClosed
<1>1. ServerSpec => [](PoolInv /\ ConnInv)
  BY ServerInvariant
<1>2. ConnInv => ConnectionsEndClosed
  BY InvEndClosed
<1> QED
  BY <1>1, <1>2, PTL

LEMMA InvLeftBehind == ConnInv => LeftBehind
<1> SUFFICES ASSUME ConnInv, owner = "gone" PROVE LeftBehind
  BY DEF LeftBehind
<1>1. connections = {}
  BY DEF ConnInv, Loops
<1>2. ASSUME NEW k \in DOMAIN pending[Base]
      PROVE  /\ state[pending[Base][k].conn] = "kDisconnected"
             /\ pending[Base][k].call = "connectDestroyed" <=>
                  ioLoop[pending[Base][k].conn] = Base
  <2>1. PICK f \in Fn : f = pending[Base][k] /\ Has(pending[Base], f)
    BY LoopFacts DEF Has, ConnInv, ConnTypeOK
  <2>2. PICK c \in Conn : c = f.conn
    BY FunctorFacts
  <2>3. Queued(Base, f) /\ SortedAt(Base, c)
    BY <2>1, LoopFacts DEF Queued, ConnInv, Sorted
  <2>4. \/ f.call = "connectEstablished" /\ f = Establish(c)
        \/ f.call = "connectDestroyed" /\ f = Destroy(c)
        \/ f.call = "removeConnection" /\ f = Remove(c)
    BY <2>2, FunctorFacts DEF Call
  <2>5. /\ state[c] = "kDisconnected"
        /\ f.call = "connectDestroyed" <=> ioLoop[c] = Base
    BY <2>3, <2>4 DEF SortedAt
  <2> QED
    BY <2>1, <2>2, <2>5
<1> QED
  BY <1>1, <1>2 DEF LeftBehind

\* What ~TcpServer() leaves on the base loop, for any number of threads and
\* clients: removals of connections that were closed on an I/O thread, and the
\* last functors of connections of the base loop.
THEOREM OnlyClosedLeftBehind == ServerSpec => []LeftBehind
<1>1. ServerSpec => [](PoolInv /\ ConnInv)
  BY ServerInvariant
<1>2. ConnInv => LeftBehind
  BY InvLeftBehind
<1> QED
  BY <1>1, <1>2, PTL
=============================================================================
