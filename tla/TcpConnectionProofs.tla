------------------------ MODULE TcpConnectionProofs ------------------------
(***************************************************************************)
(* TLAPS proofs of the safety of one connection, for any workers, messages *)
(* and sizes: the asserts and their causes, the pairing of the callbacks,  *)
(* output and shutdown, and the byte stream.                               *)
(*                                                                         *)
(* None of the properties is inductive.  The invariant follows the         *)
(* connection from connectEstablished() to connectDestroyed(): what the    *)
(* queues, the channel and connections_ hold in each state, who may still  *)
(* store kDisconnecting, and in which states the socket is shut down.      *)
(***************************************************************************)
EXTENDS TcpConnection, SequenceTheorems, TLAPS

HasOp(q, op) == \E k \in 1..Len(q) : q[k].op = op
OneOp(q, op) == \A k, l \in 1..Len(q) : q[k].op = op /\ q[l].op = op => k = l

Before == state \in {"none", "kConnecting"}
Open == state \in {"kConnected", "kDisconnecting"}

\* Until connectEstablished() nothing has happened, and it comes first.
Beginning ==
  /\ Before =>
       /\ reading /\ events = {} /\ index = "kNew" /\ causes = {}
       /\ output = <<>> /\ revents = {} /\ ~upcall /\ mainQueue = <<>>
       /\ ~shut /\ peer = "open" /\ ups = 0 /\ downs = 0 /\ abort = "none"
  /\ state = "none" =>
       /\ ioQueue = <<>> /\ ~inMap
       /\ \A w \in Worker : wpc[w].step = "idle"
  /\ state = "kConnecting" =>
       /\ inMap /\ ioQueue # <<>> /\ Head(ioQueue).op = "established"
       /\ OneOp(ioQueue, "established") /\ ~HasOp(ioQueue, "destroyed")
  /\ ~Before => ups = 1 /\ ~HasOp(ioQueue, "established")

\* A shutdown() on its way has left kConnected behind.
Shutting ==
  /\ \A w \in Worker :
       /\ wpc[w].step = "set" => ~Before
       /\ wpc[w].step = "push" => wpc[w].call # "forceCloseWithDelay"
       /\ wpc[w].call = "shutdown" /\ wpc[w].step \in {"push", "return"} =>
            ~Before /\ state # "kConnected"
  /\ HasOp(ioQueue, "shutdown") => ~Before /\ state # "kConnected"
  /\ state = "kConnected" => ~shut

\* Output is watched as long as the connection was not closed.
Watched == downs = 0 => (Writing <=> output # <<>>)

\* A message is given up only when the peer has reset the connection, after
\* which nothing is written any more.
Stream ==
  \/ wire \o output = accepted
  \/ peer \in {"rst", "dead"} /\ dropped # {} /\ IsPrefix(wire, accepted)

\* Closed: the removal is queued on the server's loop, or connectDestroyed() on
\* the connection's, or both are done.
Ending ==
  \/ /\ ~singleLoop /\ mainQueue = <<"remove">> /\ inMap
     /\ index = "kDeleted" /\ ~HasOp(ioQueue, "destroyed")
  \/ /\ mainQueue = <<>> /\ ~inMap /\ index = "kDeleted"
     /\ HasOp(ioQueue, "destroyed") /\ OneOp(ioQueue, "destroyed")
  \/ /\ mainQueue = <<>> /\ ~inMap /\ index = "kNew"
     /\ ~HasOp(ioQueue, "destroyed")

\* As long as nothing has put state_ or the channel out of step.
Life ==
  causes = {} =>
    /\ abort = "none"
    /\ ~Closed => downs = 0 /\ mainQueue = <<>> /\ ~HasOp(ioQueue, "destroyed")
    /\ Open =>
         /\ index = (IF events = {} THEN "kDeleted" ELSE "kAdded")
         /\ reading <=> "read" \in events
         /\ inMap
    /\ Closed => downs = 1 /\ events = {} /\ revents \subseteq {"out"} /\ Ending

IInv ==
  /\ TypeOK /\ Beginning /\ Shutting /\ Watched /\ ShutdownAfterOutput
  /\ Stream /\ Life

USE TcpConnectionAssumption

-----------------------------------------------------------------------------
(* Queues of functors                                                      *)

LEMMA SimpleFacts ==
  /\ \A op \in Shared \cup Raw, m \in Message \cup {Garbage}, w \in Worker \cup {Library} :
       Functor(op, m, w) \in FunctorSet /\ Functor(op, m, w).op = op
  /\ \A op \in Shared \cup Raw : Simple(op) \in FunctorSet /\ Simple(op).op = op
BY DEF Functor, Simple, FunctorSet

LEMMA EmptyQueue == \A op : ~HasOp(<<>>, op) /\ OneOp(<<>>, op)
BY DEF HasOp, OneOp

LEMMA AppendOp ==
  ASSUME NEW S, NEW q \in Seq(S), NEW f \in S
  PROVE  /\ Append(q, f) \in Seq(S) /\ Append(q, f) # <<>>
         /\ q # <<>> => Head(Append(q, f)) = Head(q)
         /\ \A op : HasOp(Append(q, f), op) <=> HasOp(q, op) \/ f.op = op
         /\ \A op : OneOp(q, op) /\ (~HasOp(q, op) \/ f.op # op) => OneOp(Append(q, f), op)
<1> DEFINE r == Append(q, f)
           n == Len(q)
<1>1. /\ r \in Seq(S) /\ n \in Nat /\ Len(r) = n + 1 /\ r[n + 1] = f
      /\ \A k \in 1..n : r[k] = q[k]
  OBVIOUS
<1>2. /\ \A k \in 1..(n + 1) : k \in 1..n \/ k = n + 1
      /\ 1..n \subseteq 1..(n + 1) /\ n + 1 \in 1..(n + 1)
  BY <1>1
<1>3. r # <<>> /\ (q # <<>> => Head(r) = Head(q))
  BY HeadTailAppend, AppendProperties
<1> HIDE DEF r, n
<1>4. ASSUME NEW op PROVE HasOp(r, op) <=> HasOp(q, op) \/ f.op = op
  BY <1>1, <1>2 DEF HasOp, n
<1>5. ASSUME NEW op, OneOp(q, op), ~HasOp(q, op) \/ f.op # op PROVE OneOp(r, op)
  BY <1>1, <1>2, <1>5 DEF HasOp, OneOp, n
<1> QED
  BY <1>1, <1>3, <1>4, <1>5 DEF r

LEMMA TailOp ==
  ASSUME NEW S, NEW q \in Seq(S), q # <<>>
  PROVE  /\ Tail(q) \in Seq(S) /\ Head(q) \in S /\ HasOp(q, Head(q).op)
         /\ \A op : HasOp(Tail(q), op) => HasOp(q, op)
         /\ \A op : HasOp(q, op) => HasOp(Tail(q), op) \/ Head(q).op = op
         /\ \A op : OneOp(q, op) => OneOp(Tail(q), op)
         /\ \A op : OneOp(q, op) /\ Head(q).op = op => ~HasOp(Tail(q), op)
<1> DEFINE r == Tail(q)
           n == Len(r)
<1>1. /\ r \in Seq(S) /\ n \in Nat /\ Len(q) = n + 1 /\ Head(q) = q[1] /\ Head(q) \in S
      /\ \A k \in 1..n : r[k] = q[k + 1]
  OBVIOUS
<1>2. /\ \A k \in 1..(n + 1) : k = 1 \/ (k - 1 \in 1..n /\ k = (k - 1) + 1)
      /\ \A k \in 1..n : k + 1 \in 1..(n + 1) /\ k + 1 # 1
      /\ \A k, l \in 1..n : k + 1 = l + 1 => k = l
      /\ 1 \in 1..(n + 1)
  BY <1>1
<1> HIDE DEF r, n
<1>3. HasOp(q, Head(q).op)
  BY <1>1, <1>2 DEF HasOp
<1>4. ASSUME NEW op, HasOp(r, op) PROVE HasOp(q, op)
  <2>1. PICK k \in 1..n : r[k].op = op
    BY <1>4 DEF HasOp, n
  <2> QED
    BY <2>1, <1>1, <1>2 DEF HasOp
<1>5. ASSUME NEW op, HasOp(q, op) PROVE HasOp(r, op) \/ Head(q).op = op
  <2>1. PICK k \in 1..(n + 1) : q[k].op = op
    BY <1>1, <1>5 DEF HasOp
  <2>2. CASE k = 1
    BY <2>1, <2>2, <1>1
  <2>3. CASE k # 1
    <3>1. k - 1 \in 1..n /\ r[k - 1] = q[k]
      BY <2>3, <1>1, <1>2
    <3> QED
      BY <2>1, <3>1 DEF HasOp, n
  <2> QED
    BY <2>2, <2>3
<1>6. ASSUME NEW op, OneOp(q, op) PROVE OneOp(r, op)
  <2> SUFFICES ASSUME NEW k \in 1..n, NEW l \in 1..n, r[k].op = op, r[l].op = op
               PROVE  k = l
    BY DEF OneOp, n
  <2>1. /\ k + 1 \in 1..Len(q) /\ l + 1 \in 1..Len(q)
        /\ r[k] = q[k + 1] /\ r[l] = q[l + 1]
    BY <1>1, <1>2
  <2>2. k + 1 = l + 1
    BY <2>1, <1>6 DEF OneOp
  <2> QED
    BY <2>2, <1>2
<1>7. ASSUME NEW op, OneOp(q, op), Head(q).op = op PROVE ~HasOp(r, op)
  <2> SUFFICES ASSUME NEW k \in 1..n, r[k].op = op PROVE FALSE
    BY DEF HasOp, n
  <2>1. k + 1 \in 1..Len(q) /\ r[k] = q[k + 1] /\ 1 \in 1..Len(q) /\ k + 1 # 1
    BY <1>1, <1>2
  <2> QED
    BY <2>1, <1>1, <1>7 DEF OneOp
<1> QED
  BY <1>1, <1>3, <1>4, <1>5, <1>6, <1>7 DEF r

-----------------------------------------------------------------------------
(* Sequences of bytes                                                      *)

LEMMA SplitSeq ==
  ASSUME NEW S, NEW b \in Seq(S), NEW n \in 0..Len(b)
  PROVE  /\ SubSeq(b, 1, n) \in Seq(S) /\ SubSeq(b, n + 1, Len(b)) \in Seq(S)
         /\ SubSeq(b, 1, n) \o SubSeq(b, n + 1, Len(b)) = b
         /\ n = 0 => SubSeq(b, 1, n) = <<>> /\ SubSeq(b, n + 1, Len(b)) = b
         /\ SubSeq(b, n + 1, Len(b)) = <<>> <=> n = Len(b)
<1>1. Len(b) \in Nat /\ n \in Int
  BY LenProperties
<1>2. /\ \A i \in 1..n : b[i] \in S
      /\ \A i \in (n + 1)..Len(b) : b[i] \in S
  BY <1>1, ElementOfSeq
<1>3. SubSeq(b, 1, n) \in Seq(S)
  BY <1>1, <1>2, SubSeqProperties
<1>4. /\ SubSeq(b, n + 1, Len(b)) \in Seq(S)
      /\ Len(SubSeq(b, n + 1, Len(b))) = IF n + 1 <= Len(b) THEN Len(b) - (n + 1) + 1 ELSE 0
  BY <1>1, <1>2, SubSeqProperties
<1>5. SubSeq(b, 1, n) \o SubSeq(b, n + 1, Len(b)) = SubSeq(b, 1, Len(b))
  <2>1. 1 \in 1..(Len(b) + 1) /\ n \in (1 - 1)..Len(b) /\ Len(b) \in n..Len(b)
    BY <1>1
  <2> QED
    BY <2>1, ConcatAdjacentSubSeq
<1>6. SubSeq(b, 1, Len(b)) = b
  BY SubSeqFull
<1>7. n = 0 => SubSeq(b, 1, n) = <<>> /\ SubSeq(b, n + 1, Len(b)) = b
  BY <1>1, <1>6, SubSeqEmpty
<1>8. SubSeq(b, n + 1, Len(b)) = <<>> <=> n = Len(b)
  <2>1. CASE n = Len(b)
    BY <2>1, <1>1, SubSeqEmpty
  <2>2. CASE n # Len(b)
    <3>1. Len(SubSeq(b, n + 1, Len(b))) # 0
      BY <2>2, <1>1, <1>4
    <3> QED
      BY <3>1, <2>2, EmptySeq
  <2> QED
    BY <2>1, <2>2
<1> QED
  BY <1>3, <1>4, <1>5, <1>6, <1>7, <1>8

LEMMA PrefixOfConcat ==
  ASSUME NEW S, NEW s \in Seq(S), NEW t \in Seq(S)
  PROVE  IsPrefix(s, s \o t)
<1>1. /\ Len(s) \in Nat /\ Len(t) \in Nat /\ s \o t \in Seq(S)
      /\ Len(s \o t) = Len(s) + Len(t)
  BY LenProperties, ConcatProperties
<1>2. SubSeq(s \o t, 1, Len(s)) = SubSeq(s, 1, Len(s))
  <2>1. CASE Len(s) = 0
    BY <2>1, SubSeqEmpty
  <2>2. CASE Len(s) # 0
    <3>1. 1 \in 1..Len(s) /\ Len(s) \in 1..Len(s)
      BY <2>2, <1>1
    <3> QED
      BY <3>1, SubSeqOfConcat1
  <2> QED
    BY <2>1, <2>2
<1> QED
  BY <1>1, <1>2 DEF IsPrefix

LEMMA PrefixGrows ==
  ASSUME NEW S, NEW s \in Seq(S), NEW t \in Seq(S), NEW u \in Seq(S), IsPrefix(s, t)
  PROVE  IsPrefix(s, t \o u)
<1>1. /\ Len(s) \in Nat /\ Len(t) \in Nat /\ Len(u) \in Nat
      /\ Len(t \o u) = Len(t) + Len(u) /\ Len(s) <= Len(t)
  BY LenProperties, ConcatProperties DEF IsPrefix
<1>2. SubSeq(t \o u, 1, Len(s)) = SubSeq(t, 1, Len(s))
  <2>1. CASE Len(s) = 0
    BY <2>1, SubSeqEmpty
  <2>2. CASE Len(s) # 0
    <3>1. 1 \in 1..Len(t) /\ Len(s) \in 1..Len(t)
      BY <2>2, <1>1
    <3> QED
      BY <3>1, SubSeqOfConcat1
  <2> QED
    BY <2>1, <2>2
<1> QED
  BY <1>1, <1>2 DEF IsPrefix

Byte == (Message \cup {Garbage}) \X (1..MsgLen)

LEMMA ByteConcat ==
  /\ \A s, t \in Seq(Byte) : s \o t \in Seq(Byte)
  /\ \A s, t, u \in Seq(Byte) : (s \o t) \o u = s \o (t \o u)
BY ConcatProperties, ConcatAssociative

\* What is taken off the front of a buffer goes to the end of what is out.
LEMMA SplitConcat ==
  ASSUME NEW w \in Seq(Byte), NEW x \in Seq(Byte), NEW y \in Seq(Byte)
  PROVE  (w \o x) \o y = w \o (x \o y)
BY ConcatAssociative

LEMMA BytesOfMessage ==
  ASSUME NEW m \in Message \cup {Garbage}
  PROVE  Bytes(m) \in Seq(Byte) /\ Len(Bytes(m)) = MsgLen
<1>1. \A i \in 1..MsgLen : <<m, i>> \in Byte
  BY DEF Byte
<1>2. Bytes(m) \in [1..MsgLen -> Byte]
  BY <1>1 DEF Bytes
<1> QED
  BY <1>2

-----------------------------------------------------------------------------
(* What the steps of an established connection leave alone                 *)

USE DEF connVars, chanVars, dataVars, serverVars, callbackVars, workerVars

LaterStep ==
  /\ ~Before /\ state' \notin {"none", "kConnecting"} /\ UNCHANGED <<ups, wpc>>
  /\ state' = "kConnected" => state = "kConnected" /\ shut' = shut
  /\ \A op \in {"established", "shutdown"} : HasOp(ioQueue', op) => HasOp(ioQueue, op)

LEMMA LaterStepKeeps ==
  ASSUME Beginning, Shutting, LaterStep
  PROVE  Beginning' /\ Shutting'
<1>1. Beginning'
  BY DEF Beginning, LaterStep, Before
<1>2. Shutting'
  BY DEF Shutting, LaterStep, Before
<1> QED
  BY <1>1, <1>2

StreamKept ==
  /\ UNCHANGED <<wire, output, accepted>> /\ dropped \subseteq dropped'
  /\ peer \in {"rst", "dead"} => peer' \in {"rst", "dead"}

LEMMA StreamKeptKeeps ==
  ASSUME Stream, StreamKept
  PROVE  Stream'
BY DEF Stream, StreamKept

OutputKept ==
  /\ output' = output
  /\ \/ downs' \in Nat \ {0}
     \/ downs' = downs /\ shut' = shut /\ (Writing' <=> Writing)

LEMMA OutputKeptKeeps ==
  ASSUME Watched, ShutdownAfterOutput, OutputKept
  PROVE  Watched' /\ ShutdownAfterOutput'
BY DEF Watched, ShutdownAfterOutput, OutputKept

LifeKept ==
  /\ UNCHANGED <<singleLoop, causes, abort, downs, mainQueue, inMap, index, events,
                 reading>>
  /\ revents' \subseteq revents
  /\ state' = state \/ (Open /\ Open')
  /\ HasOp(ioQueue', "destroyed") <=> HasOp(ioQueue, "destroyed")
  /\ OneOp(ioQueue, "destroyed") => OneOp(ioQueue', "destroyed")

LEMMA LifeKeptKeeps ==
  ASSUME Life, LifeKept
  PROVE  Life'
<1>1. Ending => Ending'
  BY DEF Ending, LifeKept
<1> QED
  BY <1>1 DEF Life, LifeKept, Open, Closed

LEMMA NoneIsOne == \A q, op : ~HasOp(q, op) => OneOp(q, op)
BY DEF HasOp, OneOp

\* q is the queue, or what is left of it while its first functor runs.
RestOf(q) == q \in Seq(FunctorSet) /\ \A op : HasOp(q, op) => HasOp(ioQueue, op)

LEMMA RestOfQueue ==
  ASSUME TypeOK
  PROVE  RestOf(ioQueue) /\ (ioQueue # <<>> => RestOf(Tail(ioQueue)))
<1>1. ioQueue \in Seq(FunctorSet)
  BY DEF TypeOK
<1>2. ioQueue # <<>> => RestOf(Tail(ioQueue))
  BY <1>1, TailOp DEF RestOf
<1> QED
  BY <1>1, <1>2 DEF RestOf

-----------------------------------------------------------------------------
(* The handlers                                                            *)

LEMMA SetEventsFacts ==
  ASSUME TypeOK, NEW ev \in SUBSET {"read", "write"}, SetEvents(ev)
  PROVE  /\ events' = ev /\ index' \in {"kAdded", "kDeleted"}
         /\ ev # {} => index' = "kAdded"
         /\ ev = {} /\ index = "kAdded" => index' = "kDeleted"
         /\ causes' \subseteq {"torn", "late", "readded", "closing", "active"}
         /\ causes \subseteq causes'
         /\ ev = {} /\ index = "kDeleted" /\ ~Closed => causes' # {}
BY DEF SetEvents, Updated, TypeOK

LEMMA HandleCloseKeeps ==
  ASSUME IInv, ~Before, NEW q, RestOf(q), handleClose(q),
         revents' \in SUBSET {"hup", "in", "out"},
         causes = {} => Open /\ revents' \subseteq {"out"},
         peer \in {"rst", "dead"} => peer' \in {"rst", "dead"}, peer' \in PeerState,
         UNCHANGED <<singleLoop, dataVars, upcall, shut, ups, workerVars>>
  PROVE  IInv'
<1> DEFINE d == Simple("destroyed")
<1>1. /\ TypeOK /\ q \in Seq(FunctorSet) /\ d \in FunctorSet /\ d.op = "destroyed"
      /\ \A op : HasOp(q, op) => HasOp(ioQueue, op)
  BY SimpleFacts DEF IInv, RestOf, Shared
<1>2. /\ state' = "kDisconnected" /\ downs' = downs + 1 /\ reading' = reading
      /\ \/ singleLoop /\ inMap' = FALSE /\ mainQueue' = mainQueue /\ ioQueue' = Append(q, d)
         \/ ~singleLoop /\ inMap' = inMap /\ ioQueue' = q
            /\ mainQueue' = Append(mainQueue, "remove")
      /\ abort' = IF state \notin {"kConnected", "kDisconnecting"} THEN "handleClose"
                  ELSE IF singleLoop => inMap THEN abort ELSE "erase"
  BY <1>1 DEF handleClose, Check, TypeOK
<1>3. /\ events' = {} /\ index' \in {"kAdded", "kDeleted"}
      /\ index = "kAdded" => index' = "kDeleted"
      /\ causes' \subseteq {"torn", "late", "readded", "closing", "active"}
      /\ causes \subseteq causes'
      /\ index = "kDeleted" /\ ~Closed => causes' # {}
  BY <1>1, SetEventsFacts DEF handleClose
<1> HIDE DEF d
<1>4. /\ Append(q, d) \in Seq(FunctorSet)
      /\ \A op : HasOp(Append(q, d), op) <=> HasOp(q, op) \/ op = "destroyed"
      /\ ~HasOp(q, "destroyed") => OneOp(Append(q, d), "destroyed")
  <2>1. OneOp(q, "destroyed") /\ ~HasOp(q, "destroyed") => OneOp(Append(q, d), "destroyed")
    BY <1>1, AppendOp
  <2>2. /\ Append(q, d) \in Seq(FunctorSet)
        /\ \A op : HasOp(Append(q, d), op) <=> HasOp(q, op) \/ d.op = op
    BY <1>1, AppendOp
  <2> QED
    BY <2>1, <2>2, <1>1, NoneIsOne
<1>5. downs \in Nat /\ mainQueue \in Seq({"remove"}) /\ downs' \in Nat \ {0}
  BY <1>1, <1>2 DEF TypeOK
<1>6. TypeOK'
  <2>1. mainQueue' \in Seq({"remove"})
    BY <1>2, <1>5
  <2>2. ioQueue' \in Seq(FunctorSet)
    BY <1>1, <1>2, <1>4
  <2>3. abort' \in Asserts
    BY <1>1, <1>2 DEF TypeOK, Asserts
  <2> QED
    BY <1>1, <1>2, <1>3, <1>5, <2>1, <2>2, <2>3 DEF TypeOK
<1>7. Beginning' /\ Shutting'
  <2>1. \A op \in {"established", "shutdown"} : HasOp(ioQueue', op) => HasOp(ioQueue, op)
    BY <1>1, <1>2, <1>4
  <2>2. LaterStep
    BY <1>2, <2>1 DEF LaterStep
  <2> QED
    BY <2>2, LaterStepKeeps DEF IInv
<1>8. Watched' /\ ShutdownAfterOutput'
  BY <1>5, OutputKeptKeeps DEF IInv, OutputKept
<1>9. Stream'
  BY StreamKeptKeeps DEF IInv, StreamKept
<1>10. Life'
  <2> SUFFICES ASSUME causes' = {} PROVE Life'
    BY DEF Life
  <2>1. causes = {}
    BY <1>3
  <2>2. /\ Open /\ ~Closed /\ inMap /\ abort = "none" /\ downs = 0 /\ mainQueue = <<>>
        /\ ~HasOp(ioQueue, "destroyed") /\ index \in {"kDeleted", "kAdded"}
    BY <2>1 DEF IInv, Life, Open, Closed
  <2>3. index' = "kDeleted" /\ abort' = "none" /\ downs' = 1
    BY <2>2, <1>2, <1>3 DEF Open
  <2>4. Ending'
    <3>1. CASE singleLoop
      <4>1. inMap' = FALSE /\ mainQueue' = <<>> /\ ioQueue' = Append(q, d)
        BY <3>1, <1>2, <2>2
      <4>2. HasOp(ioQueue', "destroyed") /\ OneOp(ioQueue', "destroyed")
        BY <4>1, <1>1, <1>4, <2>2
      <4> QED
        BY <4>1, <4>2, <2>3 DEF Ending
    <3>2. CASE ~singleLoop
      <4>1. inMap' /\ mainQueue' = <<"remove">> /\ ioQueue' = q /\ ~singleLoop'
        <5>1. /\ inMap' = inMap /\ ioQueue' = q
              /\ mainQueue' = Append(mainQueue, "remove")
          BY <3>2, <1>2
        <5>2. Append(<<>>, "remove") = <<"remove">>
          OBVIOUS
        <5> QED
          BY <5>1, <5>2, <3>2, <2>2
      <4>2. ~HasOp(ioQueue', "destroyed")
        BY <4>1, <1>1, <2>2
      <4> QED
        BY <4>1, <4>2, <2>3 DEF Ending
    <3> QED
      BY <3>1, <3>2
  <2> QED
    BY <1>2, <1>3, <2>1, <2>3, <2>4 DEF Life, Closed, Open
<1> QED
  BY <1>6, <1>7, <1>8, <1>9, <1>10 DEF IInv

\* connectDestroyed(), but for what it means to the life of the connection.
LEMMA DestroyedFacts ==
  ASSUME IInv, ~Before, NEW q, RestOf(q), connectDestroyed(q),
         inMap' \in BOOLEAN,
         UNCHANGED <<singleLoop, dataVars, revents, upcall, mainQueue, shut, peer, ups,
                     workerVars>>
  PROVE  /\ TypeOK' /\ Beginning' /\ Shutting' /\ Watched' /\ ShutdownAfterOutput'
         /\ Stream'
<1>1. /\ TypeOK /\ q \in Seq(FunctorSet) /\ \A op : HasOp(q, op) => HasOp(ioQueue, op)
  BY DEF IInv, RestOf
<1>2. /\ \/ state = "kConnected" /\ state' = "kDisconnected" /\ events' = {}
            /\ downs' = downs + 1
         \/ state # "kConnected" /\ UNCHANGED <<state, events, downs>>
      /\ index' = "kNew" /\ ioQueue' = q /\ reading' = reading
      /\ abort' \in {abort, "remove"}
      /\ causes' \in {causes, causes \cup {"closing"}}
  BY DEF connectDestroyed, Check
<1>3. TypeOK'
  <2>1. downs' \in Nat /\ events' \in SUBSET {"read", "write"}
    <3>1. downs \in Nat /\ events \in SUBSET {"read", "write"}
      BY <1>1 DEF TypeOK
    <3>2. downs + 1 \in Nat
      BY <3>1
    <3> QED
      BY <3>1, <3>2, <1>2
  <2>2. causes' \subseteq {"torn", "late", "readded", "closing", "active"}
    BY <1>1, <1>2 DEF TypeOK
  <2>3. abort' \in Asserts /\ state' \in {"none", "kConnecting", "kConnected",
                                          "kDisconnecting", "kDisconnected"}
    BY <1>1, <1>2 DEF TypeOK, Asserts
  <2>4. ioQueue' \in Seq(FunctorSet) /\ index' \in {"kNew", "kAdded", "kDeleted"}
    BY <1>1, <1>2
  <2> QED
    BY <2>1, <2>2, <2>3, <2>4, <1>1, <1>2 DEF TypeOK
<1>4. Beginning' /\ Shutting'
  <2>1. LaterStep
    BY <1>1, <1>2 DEF LaterStep, Before
  <2> QED
    BY <2>1, LaterStepKeeps DEF IInv
<1>5. Watched' /\ ShutdownAfterOutput'
  <2>1. downs \in Nat
    BY <1>1 DEF TypeOK
  <2>2. OutputKept
    BY <2>1, <1>2 DEF OutputKept, Writing
  <2> QED
    BY <2>2, OutputKeptKeeps DEF IInv
<1>6. Stream'
  BY StreamKeptKeeps DEF IInv, StreamKept
<1> QED
  BY <1>3, <1>4, <1>5, <1>6

LEMMA RunDestroyedKeeps ==
  ASSUME IInv, RunDestroyed
  PROVE  IInv'
<1>1. /\ TypeOK /\ ioQueue # <<>> /\ Head(ioQueue).op = "destroyed"
      /\ connectDestroyed(Tail(ioQueue)) /\ inMap \in BOOLEAN /\ abort = "none"
      /\ revents = {}
      /\ UNCHANGED <<singleLoop, dataVars, revents, upcall, serverVars, shut, peer, ups,
                     workerVars>>
  BY DEF RunDestroyed, AtHead, IoIdle, IInv, TypeOK
<1>2. /\ HasOp(ioQueue, "destroyed")
      /\ OneOp(ioQueue, "destroyed") => ~HasOp(Tail(ioQueue), "destroyed")
      /\ RestOf(Tail(ioQueue)) /\ ioQueue \in Seq(FunctorSet)
  BY <1>1, TailOp, RestOfQueue DEF TypeOK
<1>3. ~Before
  <2>1. CASE state = "none"
    BY <2>1, <1>1 DEF IInv, Beginning
  <2>2. CASE state = "kConnecting"
    BY <2>2, <1>2 DEF IInv, Beginning
  <2> QED
    BY <2>1, <2>2 DEF Before
<1>4. /\ TypeOK' /\ Beginning' /\ Shutting' /\ Watched' /\ ShutdownAfterOutput' /\ Stream'
  BY <1>1, <1>2, <1>3, DestroyedFacts
<1>5. Life'
  <2> SUFFICES ASSUME causes' = {} PROVE Life'
    BY DEF Life
  <2>1. causes = {}
    BY <1>1 DEF connectDestroyed
  <2>2. Closed /\ downs = 1 /\ events = {} /\ Ending
    BY <2>1, <1>2 DEF IInv, Life
  <2>3. /\ mainQueue = <<>> /\ ~inMap /\ index = "kDeleted"
        /\ ~HasOp(Tail(ioQueue), "destroyed")
    BY <2>2, <1>2 DEF Ending
  <2>4. /\ state' = state /\ events' = {} /\ downs' = 1 /\ index' = "kNew"
        /\ ioQueue' = Tail(ioQueue) /\ abort' = "none"
    BY <1>1, <2>2, <2>3 DEF connectDestroyed, Check, Closed
  <2>5. Ending'
    BY <2>3, <2>4, <1>1 DEF Ending
  <2> QED
    BY <2>2, <2>4, <2>5, <1>1 DEF Life, Closed, Open
<1> QED
  BY <1>4, <1>5 DEF IInv

LEMMA DestroyServerKeeps ==
  ASSUME IInv, DestroyServer
  PROVE  IInv'
<1>1. /\ TypeOK /\ singleLoop /\ inMap /\ state # "kConnecting" /\ inMap' = FALSE
      /\ connectDestroyed(ioQueue) /\ abort = "none" /\ revents = {}
      /\ UNCHANGED <<singleLoop, dataVars, revents, upcall, mainQueue, shut, peer, ups,
                     workerVars>>
  BY DEF DestroyServer, IoIdle, IInv
<1>2. ~Before
  BY <1>1 DEF IInv, Beginning, Before
<1>3. /\ TypeOK' /\ Beginning' /\ Shutting' /\ Watched' /\ ShutdownAfterOutput' /\ Stream'
  BY <1>1, <1>2, RestOfQueue, DestroyedFacts
<1>4. Life'
  <2> SUFFICES ASSUME causes' = {} PROVE Life'
    BY DEF Life
  <2>1. causes = {} /\ state # "kDisconnecting"
    BY <1>1 DEF connectDestroyed
  <2>2. ~Closed
    BY <2>1, <1>1 DEF IInv, Life, Ending
  <2>3. state = "kConnected"
    BY <2>1, <2>2, <1>1, <1>2 DEF Closed, Before, TypeOK
  <2>4. /\ mainQueue = <<>> /\ downs = 0 /\ ~HasOp(ioQueue, "destroyed")
        /\ index \in {"kAdded", "kDeleted"}
    BY <2>1, <2>2, <2>3 DEF IInv, Life, Open
  <2>5. /\ state' = "kDisconnected" /\ events' = {} /\ downs' = 1 /\ index' = "kNew"
        /\ ioQueue' = ioQueue /\ abort' = "none"
    BY <1>1, <2>3, <2>4 DEF connectDestroyed, Check
  <2>6. Ending'
    BY <2>4, <2>5, <1>1 DEF Ending
  <2> QED
    BY <2>5, <2>6, <1>1 DEF Life, Closed, Open
<1> QED
  BY <1>3, <1>4 DEF IInv

LEMMA DestroyServerInEventKeeps ==
  ASSUME IInv, DestroyServerInEvent
  PROVE  IInv'
<1>1. /\ state = "kConnected" /\ state' = "kDisconnected" /\ inMap' = FALSE
      /\ events' = {} /\ index' = "kDeleted" /\ downs' = downs + 1
      /\ abort' = "active" /\ causes' = causes \cup {"active"}
      /\ UNCHANGED <<singleLoop, reading, dataVars, revents, upcall, ioQueue,
                     mainQueue, shut, peer, ups, workerVars>>
  BY DEF DestroyServerInEvent
<1>2. downs \in Nat /\ downs' \in Nat \ {0}
  BY <1>1 DEF IInv, TypeOK
<1>3. TypeOK'
  BY <1>1, <1>2 DEF IInv, TypeOK, Asserts
<1>4. Beginning' /\ Shutting'
  BY <1>1, LaterStepKeeps DEF IInv, LaterStep, Before
<1>5. Watched' /\ ShutdownAfterOutput'
  BY <1>1, <1>2, OutputKeptKeeps DEF IInv, OutputKept
<1>6. Stream'
  BY <1>1, StreamKeptKeeps DEF IInv, StreamKept
<1>7. Life'
  BY <1>1 DEF Life
<1> QED
  BY <1>3, <1>4, <1>5, <1>6, <1>7 DEF IInv

\* sendInLoop() is called in state kConnected only: the write half is not
\* shut down, so a write fails only if the peer has reset the connection.
LEMMA SendInLoopKeeps ==
  ASSUME IInv, state = "kConnected", NEW m \in Message \cup {Garbage},
         NEW q, RestOf(q), sendInLoop(m, q), unused' \in SUBSET Message,
         UNCHANGED <<singleLoop, connVars, revents, upcall, serverVars, shut, peer,
                     callbackVars, wpc, holds, abort>>
  PROVE  IInv'
<1> DEFINE b == Bytes(m)
           direct == ~Writing /\ output = <<>>
           reset == peer \in {"rst", "dead"}
           ev == events \cup {"write"}
<1>1. /\ TypeOK /\ q \in Seq(FunctorSet) /\ ~shut /\ ~Closed /\ Open /\ ~Before
      /\ \A op : HasOp(q, op) => HasOp(ioQueue, op)
  BY DEF IInv, RestOf, Shutting, Closed, Open, Before
<1>2. PICK n \in 0..MsgLen, fault \in BOOLEAN :
        /\ n = 0 \/ (direct /\ ~reset)
        /\ fault => direct /\ reset
        /\ wire' = wire \o SubSeq(b, 1, n)
        /\ output' = IF n < MsgLen /\ ~fault THEN output \o SubSeq(b, n + 1, MsgLen)
                                             ELSE output
        /\ accepted' = accepted \o b
        /\ dropped' = IF fault THEN dropped \cup {m} ELSE dropped
        /\ \/ ioQueue' = q \o <<Simple("complete")>>
           \/ ioQueue' = q \o <<Simple("highWater")>>
           \/ ioQueue' = q \o <<>>
        /\ IF (n < MsgLen /\ ~fault) /\ ~Writing THEN SetEvents(ev) ELSE UNCHANGED chanVars
  <2>1. PICK n \in (IF direct /\ ~reset THEN 0..MsgLen ELSE {0}),
             fault \in (IF direct /\ reset THEN BOOLEAN ELSE {FALSE}) :
        /\ wire' = wire \o SubSeq(b, 1, n)
        /\ output' = IF n < MsgLen /\ ~fault THEN output \o SubSeq(b, n + 1, MsgLen)
                                             ELSE output
        /\ accepted' = accepted \o b
        /\ dropped' = IF fault THEN dropped \cup {m} ELSE dropped
        /\ \/ ioQueue' = q \o <<Simple("complete")>>
           \/ ioQueue' = q \o <<Simple("highWater")>>
           \/ ioQueue' = q \o <<>>
        /\ IF (n < MsgLen /\ ~fault) /\ ~Writing THEN SetEvents(ev) ELSE UNCHANGED chanVars
    BY <1>1, Zenon DEF sendInLoop
  <2>2. n \in 0..MsgLen /\ fault \in BOOLEAN
    <3>1. 0 \in 0..MsgLen
      OBVIOUS
    <3> QED
      BY <3>1
  <2>3. (n = 0 \/ (direct /\ ~reset)) /\ (fault => direct /\ reset)
    OBVIOUS
  <2> QED
    BY <2>1, <2>2, <2>3
<1> DEFINE x == SubSeq(b, 1, n)
           y == SubSeq(b, n + 1, MsgLen)
<1> HIDE DEF b
<1>3. /\ b \in Seq(Byte) /\ x \in Seq(Byte) /\ y \in Seq(Byte) /\ x \o y = b
      /\ n = 0 => x = <<>> /\ y = b /\ n < MsgLen
      /\ y = <<>> <=> n = MsgLen
      /\ n < MsgLen => n # MsgLen
  <2>1. b \in Seq(Byte) /\ Len(b) = MsgLen
    BY BytesOfMessage DEF b
  <2>2. n = 0 => n < MsgLen
    OBVIOUS
  <2>3. n < MsgLen => n # MsgLen
    OBVIOUS
  <2> QED
    BY <2>1, <2>2, <2>3, SplitSeq
<1> HIDE DEF x, y
<1>4. /\ wire' = wire \o x /\ accepted' = accepted \o b
       /\ output' = IF n < MsgLen /\ ~fault THEN output \o y ELSE output
  BY <1>2 DEF x, y
<1>5. /\ wire \in Seq(Byte) /\ output \in Seq(Byte) /\ accepted \in Seq(Byte)
      /\ dropped \in SUBSET (Message \cup {Garbage})
  BY <1>1 DEF TypeOK, Byte
<1>6. /\ wire' \in Seq(Byte) /\ output' \in Seq(Byte) /\ accepted' \in Seq(Byte)
      /\ dropped' \in SUBSET (Message \cup {Garbage})
  <2>1. wire \o x \in Seq(Byte) /\ output \o y \in Seq(Byte) /\ accepted \o b \in Seq(Byte)
    <3>1. /\ wire \in Seq(Byte) /\ output \in Seq(Byte) /\ accepted \in Seq(Byte)
          /\ x \in Seq(Byte) /\ y \in Seq(Byte) /\ b \in Seq(Byte)
      BY <1>3, <1>5
    <3> QED
      BY ONLY <3>1, ByteConcat
  <2> QED
    BY <2>1, <1>2, <1>5, <1>4
<1>7. /\ ioQueue' \in Seq(FunctorSet)
      /\ \A op \in {"established", "shutdown", "destroyed"} :
           HasOp(ioQueue', op) => HasOp(ioQueue, op)
  <2>1. \A op \in {"complete", "highWater"} :
          Simple(op) \in FunctorSet /\ Simple(op).op = op
    BY SimpleFacts DEF Shared
  <2>2. CASE ioQueue' = q \o <<>>
    BY <2>2, <1>1, ConcatEmptySeq
  <2>3. ASSUME NEW op \in {"complete", "highWater"}, ioQueue' = q \o <<Simple(op)>>
        PROVE  <1>7!:
    <3>1. ioQueue' = Append(q, Simple(op))
      BY <2>1, <2>3, <1>1, AppendIsConcat
    <3>2. /\ Append(q, Simple(op)) \in Seq(FunctorSet)
          /\ \A o : HasOp(Append(q, Simple(op)), o) <=> HasOp(q, o) \/ Simple(op).op = o
      BY <2>1, <1>1, AppendOp
    <3>3. Simple(op).op \notin {"established", "shutdown", "destroyed"}
      BY <2>1
    <3> QED
      BY <3>1, <3>2, <3>3, <1>1
  <2> QED
    BY <2>2, <2>3, <1>2
<1>8. /\ events' \in SUBSET {"read", "write"} /\ index' \in {"kNew", "kAdded", "kDeleted"}
      /\ causes' \subseteq {"torn", "late", "readded", "closing", "active"}
      /\ causes \subseteq causes'
      /\ \/ UNCHANGED <<events, index>>
         \/ events' = ev /\ index' = "kAdded"
      /\ Writing' <=> Writing \/ (n < MsgLen /\ ~fault)
  <2>1. events \in SUBSET {"read", "write"} /\ ev \in SUBSET {"read", "write"} /\ ev # {}
    BY <1>1 DEF TypeOK
  <2>2. CASE (n < MsgLen /\ ~fault) /\ ~Writing
    <3>1. SetEvents(ev)
      BY <2>2, <1>2
    <3> QED
      BY <3>1, <2>1, <2>2, <1>1, SetEventsFacts DEF Writing
  <2>3. CASE ~((n < MsgLen /\ ~fault) /\ ~Writing)
    <3>1. UNCHANGED chanVars
      BY <2>3, <1>2
    <3> QED
      BY <3>1, <2>1, <2>3, <1>1 DEF TypeOK, Writing
  <2> QED
    BY <2>2, <2>3
<1>9. TypeOK'
  BY <1>1, <1>6, <1>7, <1>8 DEF TypeOK, Byte
<1>10. Beginning' /\ Shutting'
  <2>1. LaterStep
    BY <1>1, <1>7 DEF LaterStep
  <2> QED
    BY <2>1, LaterStepKeeps DEF IInv
<1>11. ShutdownAfterOutput'
  BY <1>1 DEF ShutdownAfterOutput
<1>12. Watched'
  <2>1. CASE n < MsgLen /\ ~fault
    <3>1. output' = output \o y /\ y # <<>>
      BY <2>1, <1>2, <1>4, <1>3
    <3>2. output' # <<>>
      BY <3>1, <1>3, <1>5, ConcatEqualIffEmpty
    <3> QED
      BY <3>2, <2>1, <1>8 DEF Watched
  <2>2. CASE ~(n < MsgLen /\ ~fault)
    <3>1. output' = output /\ (Writing' <=> Writing)
      BY <2>2, <1>2, <1>4, <1>8
    <3> QED
      BY <3>1 DEF IInv, Watched
  <2> QED
    BY <2>1, <2>2
<1>13. Stream'
  <2>1. CASE reset
    <3>1. n = 0 /\ wire' = wire /\ accepted' = accepted \o b
      BY <2>1, <1>2, <1>4, <1>3, <1>5, ConcatEmptySeq
    <3>2. CASE wire \o output = accepted /\ ~fault
      <4>1. output' = output \o b
        BY <3>1, <3>2, <1>2, <1>4, <1>3
      <4>2. wire \o (output \o b) = (wire \o output) \o b
        <5>1. wire \in Seq(Byte) /\ output \in Seq(Byte) /\ b \in Seq(Byte)
          BY <1>3, <1>5
        <5> QED
          BY ONLY <5>1, SplitConcat
      <4> QED
        BY <4>1, <4>2, <3>1, <3>2 DEF Stream
    <3>3. CASE wire \o output = accepted /\ fault
      <4>1. IsPrefix(wire, accepted)
        BY <3>3, <1>5, PrefixOfConcat
      <4>2. IsPrefix(wire', accepted')
        BY <4>1, <3>1, <1>3, <1>5, PrefixGrows
      <4> QED
        BY <4>2, <3>3, <2>1, <1>2 DEF Stream
    <3>4. CASE dropped # {} /\ IsPrefix(wire, accepted)
      <4>1. IsPrefix(wire', accepted')
        BY <3>4, <3>1, <1>3, <1>5, PrefixGrows
      <4>2. dropped' # {}
        BY <3>4, <1>2
      <4> QED
        BY <4>1, <4>2, <2>1 DEF Stream
    <3> QED
      BY <3>2, <3>3, <3>4 DEF IInv, Stream
  <2>2. CASE ~reset
    <3>1. wire \o output = accepted /\ ~fault
      BY <2>2, <1>2 DEF IInv, Stream
    <3>2. CASE n = 0
      <4>1. wire' = wire /\ output' = output \o b /\ accepted' = accepted \o b
        BY <3>1, <3>2, <1>2, <1>4, <1>3, <1>5, ConcatEmptySeq
      <4>2. wire \o (output \o b) = (wire \o output) \o b
        <5>1. wire \in Seq(Byte) /\ output \in Seq(Byte) /\ b \in Seq(Byte)
          BY <1>3, <1>5
        <5> QED
          BY ONLY <5>1, SplitConcat
      <4> QED
        BY <4>1, <4>2, <3>1 DEF Stream
    <3>3. CASE n # 0
      <4>1. output = <<>> /\ wire = accepted
        BY <3>1, <3>3, <1>2, <1>4, <1>5, ConcatEmptySeq
      <4>2. output' = y
        <5>1. CASE n < MsgLen
          BY <5>1, <4>1, <3>1, <1>4, <1>3, ConcatEmptySeq
        <5>2. CASE ~(n < MsgLen)
          <6>1. n = MsgLen
            BY <5>2
          <6> QED
            BY <6>1, <4>1, <3>1, <1>2, <1>4, <1>3
        <5> QED
          BY <5>1, <5>2
      <4>3. wire' \o output' = wire \o (x \o y)
        <5>1. wire \in Seq(Byte) /\ x \in Seq(Byte) /\ y \in Seq(Byte)
          BY <1>3, <1>5
        <5>2. (wire \o x) \o y = wire \o (x \o y)
          BY ONLY <5>1, SplitConcat
        <5> QED
          BY <5>2, <4>2, <1>4
      <4> QED
        BY <4>1, <4>3, <1>2, <1>4, <1>3 DEF Stream
    <3> QED
      BY <3>2, <3>3
  <2> QED
    BY <2>1, <2>2
<1>14. Life'
  <2> SUFFICES ASSUME causes' = {} PROVE Life'
    BY DEF Life
  <2>1. causes = {}
    BY <1>8
  <2>2. /\ abort = "none" /\ downs = 0 /\ mainQueue = <<>> /\ ~HasOp(ioQueue, "destroyed")
        /\ index = (IF events = {} THEN "kDeleted" ELSE "kAdded")
        /\ reading <=> "read" \in events
        /\ inMap
    BY <2>1, <1>1 DEF IInv, Life
  <2>3. /\ index' = (IF events' = {} THEN "kDeleted" ELSE "kAdded")
        /\ reading' <=> "read" \in events'
    BY <2>2, <1>8
  <2> QED
    BY <2>2, <2>3, <1>1, <1>7 DEF Life, Closed, Open
<1> QED
  BY <1>9, <1>10, <1>11, <1>12, <1>13, <1>14 DEF IInv

-----------------------------------------------------------------------------
(* Steps that neither open nor close                                       *)

LEMMA PlainStepKeeps ==
  ASSUME IInv, TypeOK', LaterStep, StreamKept, OutputKept, LifeKept
  PROVE  IInv'
BY LaterStepKeeps, StreamKeptKeeps, OutputKeptKeeps, LifeKeptKeeps DEF IInv

\* A functor runs only after connectEstablished().
LEMMA LaterFunctor ==
  ASSUME IInv, NEW ops, AtHead(ops), "established" \notin ops, "destroyed" \notin ops
  PROVE  /\ TypeOK /\ IoIdle /\ ioQueue # <<>> /\ Head(ioQueue).op \in ops /\ ~Before
         /\ HasOp(ioQueue, Head(ioQueue).op)
         /\ RestOf(Tail(ioQueue))
         /\ HasOp(Tail(ioQueue), "destroyed") <=> HasOp(ioQueue, "destroyed")
         /\ OneOp(ioQueue, "destroyed") => OneOp(Tail(ioQueue), "destroyed")
<1>1. TypeOK /\ IoIdle /\ ioQueue # <<>> /\ Head(ioQueue).op \in ops
  BY DEF IInv, AtHead
<1>2. ~Before
  BY <1>1 DEF IInv, Beginning, Before
<1>3. ioQueue \in Seq(FunctorSet)
  BY <1>1 DEF TypeOK
<1>4. /\ HasOp(ioQueue, Head(ioQueue).op)
      /\ HasOp(Tail(ioQueue), "destroyed") => HasOp(ioQueue, "destroyed")
      /\ HasOp(ioQueue, "destroyed") =>
           HasOp(Tail(ioQueue), "destroyed") \/ Head(ioQueue).op = "destroyed"
      /\ OneOp(ioQueue, "destroyed") => OneOp(Tail(ioQueue), "destroyed")
  BY <1>1, <1>3, TailOp
<1>5. RestOf(Tail(ioQueue))
  BY <1>1, RestOfQueue
<1> QED
  BY <1>1, <1>2, <1>4, <1>5

LEMMA ReadControlKeeps ==
  ASSUME IInv, ~Before, startReadInLoop \/ stopReadInLoop, RestOf(ioQueue'),
         HasOp(ioQueue', "destroyed") <=> HasOp(ioQueue, "destroyed"),
         OneOp(ioQueue, "destroyed") => OneOp(ioQueue', "destroyed"),
         UNCHANGED <<singleLoop, state, dataVars, revents, upcall, serverVars, shut, peer,
                     callbackVars, workerVars, abort>>
  PROVE  IInv'
<1>1. /\ TypeOK /\ ioQueue' \in Seq(FunctorSet) /\ events \in SUBSET {"read", "write"}
      /\ \A op \in {"established", "shutdown"} : HasOp(ioQueue', op) => HasOp(ioQueue, op)
  BY DEF IInv, RestOf, TypeOK
<1>2. LaterStep
  BY <1>1 DEF LaterStep, Before
<1>3. StreamKept
  BY DEF StreamKept
<1>4. CASE UNCHANGED <<chanVars, reading>>
  <2>1. TypeOK'
    BY <1>1, <1>4 DEF TypeOK
  <2>2. OutputKept /\ LifeKept
    BY <1>4 DEF OutputKept, LifeKept, Writing
  <2> QED
    BY <2>1, <2>2, <1>2, <1>3, PlainStepKeeps
<1>5. ASSUME NEW on \in BOOLEAN, SetReading(on), ~on => reading \/ "read" \in events
      PROVE  IInv'
  <2> DEFINE ev == IF on THEN events \cup {"read"} ELSE events \ {"read"}
  <2>1. /\ events' = ev /\ reading' = on
        /\ index' = IF index = "kAdded" /\ ev = {} THEN "kDeleted" ELSE "kAdded"
        /\ causes' = IF Closed THEN causes \cup {"late"} ELSE causes
    BY <1>5 DEF SetReading, Updated
  <2>2. /\ ev \in SUBSET {"read", "write"} /\ ("write" \in ev <=> "write" \in events)
        /\ "read" \in ev <=> on
    BY <1>1
  <2>3. TypeOK'
    BY <2>1, <2>2, <1>1 DEF TypeOK
  <2>4. Beginning' /\ Shutting' /\ Stream'
    BY <1>2, <1>3, LaterStepKeeps, StreamKeptKeeps DEF IInv
  <2>5. Watched' /\ ShutdownAfterOutput'
    <3>1. OutputKept
      BY <2>1, <2>2 DEF OutputKept, Writing
    <3> QED
      BY <3>1, OutputKeptKeeps DEF IInv
  <2>6. Life'
    <3> SUFFICES ASSUME causes' = {} PROVE Life'
      BY DEF Life
    <3>1. causes = {} /\ ~Closed /\ Open
      BY <2>1, <1>1 DEF Closed, Open, Before, TypeOK
    <3>2. /\ abort = "none" /\ downs = 0 /\ mainQueue = <<>>
          /\ ~HasOp(ioQueue, "destroyed") /\ inMap
          /\ index = (IF events = {} THEN "kDeleted" ELSE "kAdded")
          /\ reading <=> "read" \in events
      BY <3>1 DEF IInv, Life
    <3>3. index' = (IF ev = {} THEN "kDeleted" ELSE "kAdded")
      <4>1. CASE on
        BY <4>1, <2>1, <2>2
      <4>2. CASE ~on
        <5>1. "read" \in events
          BY <4>2, <3>2, <1>5
        <5> QED
          BY <5>1, <3>2, <2>1
      <4> QED
        BY <4>1, <4>2
    <3> HIDE DEF ev
    <3> QED
      BY <2>1, <2>2, <3>1, <3>2, <3>3 DEF Life, Open, Closed
  <2> QED
    BY <2>3, <2>4, <2>5, <2>6 DEF IInv
<1> QED
  BY <1>4, <1>5 DEF startReadInLoop, stopReadInLoop

-----------------------------------------------------------------------------
(* Events                                                                  *)

LEMMA PollKeeps ==
  ASSUME IInv, Poll
  PROVE  IInv'
<1>1. /\ index = "kAdded" /\ revents' \in Ready
      /\ UNCHANGED <<singleLoop, connVars, chanVars, dataVars, upcall, ioQueue,
                     serverVars, shut, peer, callbackVars, workerVars, abort>>
  BY DEF Poll
<1>2. TypeOK'
  <2>1. revents' \in SUBSET {"hup", "in", "out"}
    BY <1>1 DEF Ready
  <2> QED
    BY <2>1, <1>1 DEF IInv, TypeOK
<1>3. ~Before
  BY <1>1 DEF IInv, Beginning
<1>4. LaterStep /\ StreamKept /\ OutputKept
  BY <1>1, <1>3 DEF LaterStep, StreamKept, OutputKept, Before, Writing
<1>5. Life'
  BY <1>1 DEF IInv, Life, Ending, Open, Closed
<1> QED
  BY <1>2, <1>4, <1>5, LaterStepKeeps, StreamKeptKeeps, OutputKeptKeeps DEF IInv

\* An event other than POLLOUT is handled on an open connection only.
LEMMA EventOnOpen ==
  ASSUME IInv, revents # {}
  PROVE  /\ TypeOK /\ revents \in SUBSET {"hup", "in", "out"} /\ ~Before
         /\ causes = {} /\ ("hup" \in revents \/ "in" \in revents) => Open
<1>1. TypeOK /\ revents \in SUBSET {"hup", "in", "out"} /\ ~Before
  BY DEF IInv, TypeOK, Beginning
<1> QED
  BY <1>1 DEF IInv, Life, Open, Closed, Before, TypeOK

LEMMA HandleHupKeeps ==
  ASSUME IInv, HandleHup
  PROVE  IInv'
<1>1. /\ "hup" \in revents /\ revents' = revents \ {"hup"}
      /\ IF "in" \in revents
         THEN UNCHANGED <<connVars, chanVars, ioQueue, serverVars, downs, abort>>
         ELSE handleClose(ioQueue)
      /\ UNCHANGED <<singleLoop, dataVars, upcall, shut, peer, ups, workerVars>>
  BY DEF HandleHup
<1>2. /\ TypeOK /\ revents \in SUBSET {"hup", "in", "out"} /\ ~Before
      /\ causes = {} => Open
  BY <1>1, EventOnOpen
<1>3. revents' \in SUBSET {"hup", "in", "out"} /\ revents' \subseteq revents
  BY <1>1, <1>2
<1>4. CASE "in" \in revents
  <2>1. UNCHANGED <<connVars, chanVars, ioQueue, serverVars, downs, abort>>
    BY <1>1, <1>4
  <2>2. TypeOK'
    BY <2>1, <1>1, <1>2, <1>3 DEF TypeOK
  <2>3. LaterStep /\ StreamKept /\ OutputKept /\ LifeKept
    BY <2>1, <1>1, <1>2, <1>3 DEF LaterStep, StreamKept, OutputKept, LifeKept, Before, Writing
  <2> QED
    BY <2>2, <2>3, PlainStepKeeps
<1>5. CASE "in" \notin revents
  <2>1. handleClose(ioQueue) /\ revents' \subseteq {"out"} /\ peer' \in PeerState
    BY <1>1, <1>2, <1>5 DEF TypeOK
  <2> QED
    BY <2>1, <1>1, <1>2, <1>3, RestOfQueue, HandleCloseKeeps
<1> QED
  BY <1>4, <1>5

LEMMA HandleReadKeeps ==
  ASSUME IInv, HandleRead
  PROVE  IInv'
<1>1. /\ "in" \in revents /\ "hup" \notin revents /\ revents' = revents \ {"in"}
      /\ UNCHANGED <<singleLoop, dataVars, shut, ups, workerVars>>
  BY DEF HandleRead
<1>2. /\ TypeOK /\ revents \in SUBSET {"hup", "in", "out"} /\ ~Before
      /\ causes = {} => Open
  BY <1>1, EventOnOpen
<1>3. /\ revents' \in SUBSET {"hup", "in", "out"} /\ revents' \subseteq revents
      /\ revents' \subseteq {"out"}
  BY <1>1, <1>2
<1>4. ASSUME UNCHANGED <<connVars, chanVars, ioQueue, serverVars, downs, abort>>,
             upcall' \in BOOLEAN, peer' \in PeerState,
             peer \in {"rst", "dead"} => peer' \in {"rst", "dead"}
      PROVE  IInv'
  <2>1. TypeOK'
    BY <1>1, <1>2, <1>3, <1>4 DEF TypeOK
  <2>2. LaterStep /\ StreamKept /\ OutputKept /\ LifeKept
    BY <1>1, <1>2, <1>3, <1>4
    DEF LaterStep, StreamKept, OutputKept, LifeKept, Before, Writing
  <2> QED
    BY <2>1, <2>2, PlainStepKeeps
<1>5. ASSUME handleClose(ioQueue), UNCHANGED <<upcall, peer>> PROVE IInv'
  <2>1. peer' \in PeerState
    BY <1>2, <1>5 DEF TypeOK
  <2> QED
    BY <2>1, <1>1, <1>2, <1>3, <1>5, RestOfQueue, HandleCloseKeeps
<1>6. upcall \in BOOLEAN /\ peer \in PeerState
  BY <1>2 DEF TypeOK
<1> QED
  BY <1>4, <1>5, <1>6 DEF HandleRead, PeerState

LEMMA HandleWriteKeeps ==
  ASSUME IInv, HandleWrite
  PROVE  IInv'
<1>1. /\ revents = {"out"} /\ revents' = {}
      /\ UNCHANGED <<singleLoop, connVars, accepted, dropped, upcall, serverVars,
                     peer, callbackVars, workerVars, abort>>
  BY DEF HandleWrite
<1>2. /\ TypeOK /\ ~Before /\ wire \in Seq(Byte) /\ output \in Seq(Byte)
      /\ accepted \in Seq(Byte) /\ Len(output) \in Nat /\ events \in SUBSET {"read", "write"}
      /\ ioQueue \in Seq(FunctorSet) /\ shut \in BOOLEAN
  BY <1>1, EventOnOpen, LenProperties DEF TypeOK, Byte
<1>3. PICK n \in 0..Len(output) :
        /\ n = 0 \/ (Writing /\ peer \in {"open", "fin"})
        /\ wire' = wire \o SubSeq(output, 1, n)
        /\ output' = SubSeq(output, n + 1, Len(output))
        /\ IF n > 0 /\ n = Len(output)
           THEN /\ SetEvents(events \ {"write"})
                /\ ioQueue' = Append(ioQueue, Simple("complete"))
                /\ shut' = (shut \/ state = "kDisconnecting")
           ELSE UNCHANGED <<chanVars, ioQueue, shut>>
  <2>1. PICK n \in 0..(IF Writing /\ peer \in {"open", "fin"} THEN Len(output) ELSE 0) :
        /\ wire' = wire \o SubSeq(output, 1, n)
        /\ output' = SubSeq(output, n + 1, Len(output))
        /\ IF n > 0 /\ n = Len(output)
           THEN /\ SetEvents(events \ {"write"})
                /\ ioQueue' = Append(ioQueue, Simple("complete"))
                /\ shut' = (shut \/ state = "kDisconnecting")
           ELSE UNCHANGED <<chanVars, ioQueue, shut>>
    BY DEF HandleWrite
  <2>2. n \in 0..Len(output) /\ (n = 0 \/ (Writing /\ peer \in {"open", "fin"}))
    BY <1>2
  <2> QED
    BY <2>1, <2>2
<1>4. PICK x, y :
        /\ x \in Seq(Byte) /\ y \in Seq(Byte) /\ x \o y = output
        /\ n = 0 => x = <<>> /\ y = output
        /\ y = <<>> <=> n = Len(output)
        /\ wire' = wire \o x /\ output' = y
  <2> DEFINE x == SubSeq(output, 1, n)
             y == SubSeq(output, n + 1, Len(output))
  <2>1. /\ x \in Seq(Byte) /\ y \in Seq(Byte) /\ x \o y = output
        /\ n = 0 => x = <<>> /\ y = output
        /\ y = <<>> <=> n = Len(output)
    BY <1>2, SplitSeq
  <2>2. wire' = wire \o x /\ output' = y
    BY <1>3
  <2> HIDE DEF x, y
  <2> QED
    BY <2>1, <2>2
<1>5. wire' \o output' = wire \o output /\ wire' \in Seq(Byte) /\ output' \in Seq(Byte)
  <2>1. wire \in Seq(Byte) /\ x \in Seq(Byte) /\ y \in Seq(Byte)
    BY <1>2, <1>4
  <2>2. (wire \o x) \o y = wire \o (x \o y)
    BY ONLY <2>1, SplitConcat
  <2>3. wire \o x \in Seq(Byte)
    BY ONLY <2>1, ByteConcat
  <2> QED
    BY <2>1, <2>2, <2>3, <1>4
<1>6. Stream'
  <2>1. CASE wire \o output = accepted
    BY <2>1, <1>1, <1>5 DEF Stream
  <2>2. CASE peer \in {"rst", "dead"} /\ dropped # {} /\ IsPrefix(wire, accepted)
    <3>1. wire' = wire
      BY <2>2, <1>2, <1>3, <1>4, ConcatEmptySeq
    <3> QED
      BY <3>1, <2>2, <1>1 DEF Stream
  <2> QED
    BY <2>1, <2>2 DEF IInv, Stream
<1>7. CASE n > 0 /\ n = Len(output)
  <2> DEFINE ev == events \ {"write"}
             c == Simple("complete")
  <2>1. /\ SetEvents(ev) /\ ioQueue' = Append(ioQueue, c) /\ Writing /\ output' = <<>>
        /\ shut' = (shut \/ state = "kDisconnecting")
    BY <1>3, <1>4, <1>7
  <2>2. /\ events' = ev /\ index' \in {"kAdded", "kDeleted"}
        /\ ev # {} => index' = "kAdded"
        /\ ev = {} /\ index = "kAdded" => index' = "kDeleted"
        /\ causes' \subseteq {"torn", "late", "readded", "closing", "active"}
        /\ causes \subseteq causes'
    BY <2>1, <1>2, SetEventsFacts
  <2>3. /\ ioQueue' \in Seq(FunctorSet)
        /\ \A op \in {"established", "shutdown", "destroyed"} :
             HasOp(ioQueue', op) => HasOp(ioQueue, op)
    <3>1. c \in FunctorSet /\ c.op = "complete"
      BY SimpleFacts DEF Shared
    <3> HIDE DEF c
    <3>2. /\ Append(ioQueue, c) \in Seq(FunctorSet)
          /\ \A op : HasOp(Append(ioQueue, c), op) <=> HasOp(ioQueue, op) \/ c.op = op
      BY <3>1, <1>2, AppendOp
    <3> QED
      BY <3>1, <3>2, <2>1
  <2>4. TypeOK'
    <3>1. /\ events' \in SUBSET {"read", "write"} /\ shut' \in BOOLEAN
          /\ index' \in {"kNew", "kAdded", "kDeleted"} /\ revents' \in SUBSET {"hup", "in", "out"}
      BY <2>1, <2>2, <1>1, <1>2
    <3> QED
      BY <3>1, <2>2, <2>3, <1>1, <1>2, <1>5 DEF TypeOK, Byte
  <2>5. Beginning' /\ Shutting'
    <3>1. LaterStep
      BY <2>1, <2>3, <1>1, <1>2 DEF LaterStep, Before
    <3> QED
      BY <3>1, LaterStepKeeps DEF IInv
  <2>6. Watched' /\ ShutdownAfterOutput'
    BY <2>1, <2>2 DEF Watched, ShutdownAfterOutput, Writing
  <2>7. Life'
    <3> SUFFICES ASSUME causes' = {} PROVE Life'
      BY DEF Life
    <3>1. causes = {} /\ ~Closed
      BY <2>1, <2>2 DEF IInv, Life, Writing
    <3>2. Open
      BY <3>1, <1>2 DEF Closed, Open, Before, TypeOK
    <3>3. /\ abort = "none" /\ downs = 0 /\ mainQueue = <<>>
          /\ ~HasOp(ioQueue, "destroyed") /\ inMap
          /\ index = "kAdded"
          /\ reading <=> "read" \in events
      BY <3>1, <3>2, <2>1 DEF IInv, Life, Writing
    <3>4. /\ index' = (IF ev = {} THEN "kDeleted" ELSE "kAdded")
          /\ reading' <=> "read" \in ev
      BY <3>3, <2>2, <1>1
    <3> HIDE DEF ev
    <3> QED
      BY <3>1, <3>2, <3>3, <3>4, <2>2, <2>3, <1>1 DEF Life, Open, Closed
  <2> QED
    BY <2>4, <2>5, <2>6, <2>7, <1>6 DEF IInv
<1>8. CASE ~(n > 0 /\ n = Len(output))
  <2>1. UNCHANGED <<chanVars, ioQueue, shut>>
    BY <1>3, <1>8
  <2>2. TypeOK'
    BY <2>1, <1>1, <1>2, <1>5 DEF TypeOK, Byte
  <2>3. LaterStep /\ LifeKept
    BY <2>1, <1>1, <1>2 DEF LaterStep, LifeKept, Before
  <2>4. output' = <<>> <=> output = <<>>
    <3>1. CASE n = 0
      BY <3>1, <1>4
    <3>2. CASE n # 0
      <4>1. n > 0 /\ n # Len(output) /\ Len(output) # 0
        BY <3>2, <1>2, <1>8
      <4>2. output # <<>>
        BY <4>1, EmptySeq
      <4> QED
        BY <4>1, <4>2, <1>4
    <3> QED
      BY <3>1, <3>2
  <2>5. Watched' /\ ShutdownAfterOutput'
    BY <2>1, <2>4, <1>1 DEF IInv, Watched, ShutdownAfterOutput, Writing
  <2> QED
    BY <2>2, <2>3, <2>5, <1>6, LaterStepKeeps, LifeKeptKeeps DEF IInv
<1> QED
  BY <1>7, <1>8

-----------------------------------------------------------------------------
(* Functors                                                                *)

LEMMA RunSendKeeps ==
  ASSUME IInv, RunSend
  PROVE  IInv'
<1> DEFINE m == IF wpc[Head(ioQueue).by].msg = Head(ioQueue).msg
                THEN Head(ioQueue).msg ELSE Garbage
           q == Tail(ioQueue)
<1>1. /\ AtHead({"send"})
      /\ IF state = "kConnected"
         THEN sendInLoop(m, q)
         ELSE /\ dropped' = dropped \cup {m} /\ ioQueue' = q
              /\ UNCHANGED <<output, wire, accepted, chanVars>>
      /\ UNCHANGED <<singleLoop, connVars, revents, upcall, serverVars, shut,
                     peer, callbackVars, workerVars, abort>>
  BY DEF RunSend
<1>2. /\ TypeOK /\ ~Before /\ RestOf(q) /\ ioQueue # <<>>
      /\ HasOp(q, "destroyed") <=> HasOp(ioQueue, "destroyed")
      /\ OneOp(ioQueue, "destroyed") => OneOp(q, "destroyed")
  BY <1>1, LaterFunctor
<1>3. m \in Message \cup {Garbage}
  <2>1. ioQueue \in Seq(FunctorSet)
    BY <1>2 DEF TypeOK
  <2>2. Head(ioQueue) \in FunctorSet
    BY <2>1, <1>2, TailOp
  <2> QED
    BY <2>2 DEF FunctorSet
<1>4. PICK mm, qq : mm \in Message \cup {Garbage} /\ mm = m /\ qq = q
  BY <1>3
<1> HIDE DEF m, q
<1>5. CASE state = "kConnected"
  <2>1. sendInLoop(mm, qq)
    BY <1>1, <1>4, <1>5
  <2>2. unused' \in SUBSET Message
    BY <1>1, <1>2 DEF TypeOK
  <2> QED
    BY <2>1, <2>2, <1>1, <1>2, <1>4, <1>5, SendInLoopKeeps
<1>6. CASE state # "kConnected"
  <2>1. /\ dropped' = dropped \cup {mm} /\ ioQueue' = q
        /\ UNCHANGED <<output, wire, accepted, chanVars>>
    BY <1>1, <1>4, <1>6
  <2>2. ioQueue' \in Seq(FunctorSet) /\ \A op : HasOp(ioQueue', op) => HasOp(ioQueue, op)
    BY <2>1, <1>2 DEF RestOf
  <2>3. TypeOK'
    BY <2>1, <2>2, <1>1, <1>2, <1>4 DEF TypeOK
  <2>4. LaterStep /\ StreamKept /\ OutputKept /\ LifeKept
    BY <2>1, <2>2, <1>1, <1>2
    DEF LaterStep, StreamKept, OutputKept, LifeKept, Before, Writing
  <2> QED
    BY <2>3, <2>4, PlainStepKeeps
<1> QED
  BY <1>5, <1>6

\* shutdownInLoop() finds the output out, or leaves it to handleWrite().
LEMMA ShutdownInLoop ==
  ASSUME IInv, shutdownInLoop, UNCHANGED <<output, events, downs>>
  PROVE  Watched' /\ ShutdownAfterOutput' /\ shut' \in BOOLEAN
<1>1. shut \in BOOLEAN /\ downs \in Nat
  BY DEF IInv, TypeOK
<1>2. (shut' <=> shut \/ ~Writing) /\ shut' \in BOOLEAN
  BY <1>1 DEF shutdownInLoop
<1>3. Watched'
  BY DEF IInv, Watched, Writing
<1>4. ShutdownAfterOutput'
  BY <1>1, <1>2 DEF IInv, Watched, ShutdownAfterOutput
<1> QED
  BY <1>2, <1>3, <1>4

LEMMA RunShutdownKeeps ==
  ASSUME IInv, RunShutdown
  PROVE  IInv'
<1>1. /\ AtHead({"shutdown"}) /\ shutdownInLoop /\ ioQueue' = Tail(ioQueue)
      /\ UNCHANGED <<singleLoop, connVars, chanVars, dataVars, revents, upcall,
                     serverVars, peer, callbackVars, workerVars, abort>>
  BY DEF RunShutdown
<1>2. /\ TypeOK /\ ~Before /\ RestOf(Tail(ioQueue)) /\ HasOp(ioQueue, "shutdown")
      /\ HasOp(Tail(ioQueue), "destroyed") <=> HasOp(ioQueue, "destroyed")
      /\ OneOp(ioQueue, "destroyed") => OneOp(Tail(ioQueue), "destroyed")
  <2>1. /\ TypeOK /\ ~Before /\ RestOf(Tail(ioQueue)) /\ HasOp(ioQueue, Head(ioQueue).op)
        /\ Head(ioQueue).op \in {"shutdown"}
        /\ HasOp(Tail(ioQueue), "destroyed") <=> HasOp(ioQueue, "destroyed")
        /\ OneOp(ioQueue, "destroyed") => OneOp(Tail(ioQueue), "destroyed")
    BY <1>1, LaterFunctor
  <2>2. Head(ioQueue).op = "shutdown"
    BY <2>1
  <2> QED
    BY <2>1, <2>2
<1>3. ioQueue' \in Seq(FunctorSet) /\ \A op : HasOp(ioQueue', op) => HasOp(ioQueue, op)
  BY <1>1, <1>2 DEF RestOf
<1>4. Watched' /\ ShutdownAfterOutput' /\ shut' \in BOOLEAN
  BY <1>1, ShutdownInLoop
<1>5. TypeOK'
  BY <1>1, <1>2, <1>3, <1>4 DEF TypeOK
<1>6. state # "kConnected"
  BY <1>2 DEF IInv, Shutting
<1>7. LaterStep /\ StreamKept /\ LifeKept
  BY <1>1, <1>2, <1>3, <1>6 DEF LaterStep, StreamKept, LifeKept, Before
<1> QED
  BY <1>4, <1>5, <1>7, LaterStepKeeps, StreamKeptKeeps, LifeKeptKeeps DEF IInv

LEMMA RunForceCloseKeeps ==
  ASSUME IInv, RunForceClose
  PROVE  IInv'
<1>1. /\ AtHead({"forceClose"})
      /\ IF state \in {"kConnected", "kDisconnecting"}
         THEN handleClose(Tail(ioQueue))
         ELSE /\ ioQueue' = Tail(ioQueue)
              /\ UNCHANGED <<connVars, chanVars, serverVars, downs, abort>>
      /\ UNCHANGED <<singleLoop, dataVars, revents, upcall, shut, peer, ups, workerVars>>
  BY DEF RunForceClose
<1>2. /\ TypeOK /\ ~Before /\ RestOf(Tail(ioQueue)) /\ IoIdle
      /\ HasOp(Tail(ioQueue), "destroyed") <=> HasOp(ioQueue, "destroyed")
      /\ OneOp(ioQueue, "destroyed") => OneOp(Tail(ioQueue), "destroyed")
  BY <1>1, LaterFunctor
<1>3. CASE state \in {"kConnected", "kDisconnecting"}
  <2>1. /\ handleClose(Tail(ioQueue)) /\ Open /\ revents' = {} /\ peer' \in PeerState
        /\ peer' = peer
    BY <1>1, <1>2, <1>3 DEF Open, IoIdle, TypeOK
  <2> QED
    BY <2>1, <1>1, <1>2, HandleCloseKeeps
<1>4. CASE state \notin {"kConnected", "kDisconnecting"}
  <2>1. /\ ioQueue' = Tail(ioQueue)
        /\ UNCHANGED <<connVars, chanVars, serverVars, downs, abort>>
    BY <1>1, <1>4
  <2>2. ioQueue' \in Seq(FunctorSet) /\ \A op : HasOp(ioQueue', op) => HasOp(ioQueue, op)
    BY <2>1, <1>2 DEF RestOf
  <2>3. TypeOK'
    BY <2>1, <2>2, <1>1, <1>2 DEF TypeOK
  <2>4. LaterStep /\ StreamKept /\ OutputKept /\ LifeKept
    BY <2>1, <2>2, <1>1, <1>2
    DEF LaterStep, StreamKept, OutputKept, LifeKept, Before, Writing
  <2> QED
    BY <2>3, <2>4, PlainStepKeeps
<1> QED
  BY <1>3, <1>4

LEMMA RunReadControlKeeps ==
  ASSUME IInv, RunReadControl
  PROVE  IInv'
<1>1. /\ AtHead({"startRead", "stopRead"}) /\ (startReadInLoop \/ stopReadInLoop)
      /\ ioQueue' = Tail(ioQueue)
      /\ UNCHANGED <<singleLoop, state, dataVars, revents, upcall, serverVars,
                     shut, peer, callbackVars, workerVars, abort>>
  BY DEF RunReadControl
<1>2. /\ ~Before /\ RestOf(Tail(ioQueue))
      /\ HasOp(Tail(ioQueue), "destroyed") <=> HasOp(ioQueue, "destroyed")
      /\ OneOp(ioQueue, "destroyed") => OneOp(Tail(ioQueue), "destroyed")
  BY <1>1, LaterFunctor
<1> QED
  BY <1>1, <1>2, ReadControlKeeps

LEMMA RunCallbackKeeps ==
  ASSUME IInv, RunCallback
  PROVE  IInv'
<1>1. /\ AtHead({"complete", "highWater"}) /\ upcall' = TRUE /\ ioQueue' = Tail(ioQueue)
      /\ UNCHANGED <<singleLoop, connVars, chanVars, dataVars, revents,
                     serverVars, shut, peer, callbackVars, workerVars, abort>>
  BY DEF RunCallback
<1>2. /\ TypeOK /\ ~Before /\ RestOf(Tail(ioQueue))
      /\ HasOp(Tail(ioQueue), "destroyed") <=> HasOp(ioQueue, "destroyed")
      /\ OneOp(ioQueue, "destroyed") => OneOp(Tail(ioQueue), "destroyed")
  BY <1>1, LaterFunctor
<1>3. ioQueue' \in Seq(FunctorSet) /\ \A op : HasOp(ioQueue', op) => HasOp(ioQueue, op)
  BY <1>1, <1>2 DEF RestOf
<1>4. TypeOK'
  BY <1>1, <1>2, <1>3 DEF TypeOK
<1>5. LaterStep /\ StreamKept /\ OutputKept /\ LifeKept
  BY <1>1, <1>2, <1>3 DEF LaterStep, StreamKept, OutputKept, LifeKept, Before, Writing
<1> QED
  BY <1>4, <1>5, PlainStepKeeps

-----------------------------------------------------------------------------
(* User code on the I/O thread                                             *)

\* A callback runs only after connectEstablished().
LEMMA InCallbackOpen ==
  ASSUME IInv, upcall
  PROVE  TypeOK /\ ~Before /\ (~Closed => Open)
<1>1. TypeOK /\ ~Before
  BY DEF IInv, Beginning
<1> QED
  BY <1>1 DEF TypeOK, Before, Closed, Open

LEMMA LoopSendKeeps ==
  ASSUME IInv, NEW m \in Message, LoopSend(m)
  PROVE  IInv'
<1>1. /\ upcall /\ unused' = unused \ {m}
      /\ IF state = "kConnected" THEN sendInLoop(m, ioQueue)
                                 ELSE UNCHANGED <<dataVars, chanVars, ioQueue>>
      /\ UNCHANGED <<singleLoop, connVars, revents, upcall, serverVars, shut,
                     peer, callbackVars, wpc, holds, abort>>
  BY DEF LoopSend, InCallback
<1>2. TypeOK /\ ~Before
  BY <1>1, InCallbackOpen
<1>3. unused' \in SUBSET Message
  BY <1>1, <1>2 DEF TypeOK
<1>4. CASE state = "kConnected"
  <2>1. sendInLoop(m, ioQueue) /\ m \in Message \cup {Garbage}
    BY <1>1, <1>4
  <2> QED
    BY <2>1, <1>1, <1>2, <1>3, <1>4, RestOfQueue, SendInLoopKeeps
<1>5. CASE state # "kConnected"
  <2>1. UNCHANGED <<dataVars, chanVars, ioQueue>>
    BY <1>1, <1>5
  <2>2. TypeOK'
    BY <2>1, <1>1, <1>2, <1>3 DEF TypeOK
  <2>3. LaterStep /\ StreamKept /\ OutputKept /\ LifeKept
    BY <2>1, <1>1, <1>2 DEF LaterStep, StreamKept, OutputKept, LifeKept, Before, Writing
  <2> QED
    BY <2>2, <2>3, PlainStepKeeps
<1> QED
  BY <1>4, <1>5

LEMMA LoopShutdownKeeps ==
  ASSUME IInv, LoopShutdown
  PROVE  IInv'
<1>1. /\ upcall /\ state = "kConnected" /\ state' = "kDisconnecting" /\ shutdownInLoop
      /\ UNCHANGED <<singleLoop, reading, chanVars, dataVars, revents, upcall,
                     ioQueue, serverVars, peer, callbackVars, workerVars, abort>>
  BY DEF LoopShutdown, InCallback
<1>2. TypeOK /\ ~Before
  BY <1>1, InCallbackOpen
<1>3. Watched' /\ ShutdownAfterOutput' /\ shut' \in BOOLEAN
  BY <1>1, ShutdownInLoop
<1>4. TypeOK'
  BY <1>1, <1>2, <1>3 DEF TypeOK
<1>5. LaterStep /\ StreamKept /\ LifeKept
  BY <1>1, <1>2 DEF LaterStep, StreamKept, LifeKept, Open
<1> QED
  BY <1>3, <1>4, <1>5, LaterStepKeeps, StreamKeptKeeps, LifeKeptKeeps DEF IInv

LEMMA LoopForceCloseKeeps ==
  ASSUME IInv, LoopForceClose \/ LoopForceCloseWithDelay
  PROVE  IInv'
<1> DEFINE f == Simple("forceClose")
<1>1. /\ upcall /\ ~Closed /\ state' = "kDisconnecting"
      /\ ioQueue' = ioQueue \/ ioQueue' = Append(ioQueue, f)
      /\ UNCHANGED <<singleLoop, reading, chanVars, dataVars, revents, upcall,
                     serverVars, shut, peer, callbackVars, workerVars, abort>>
  BY DEF LoopForceClose, LoopForceCloseWithDelay, InCallback
<1>2. TypeOK /\ ~Before /\ Open /\ ioQueue \in Seq(FunctorSet)
  BY <1>1, InCallbackOpen DEF TypeOK
<1>3. f \in FunctorSet /\ f.op = "forceClose"
  BY SimpleFacts DEF Shared
<1> HIDE DEF f
<1>4. /\ ioQueue' \in Seq(FunctorSet)
      /\ \A op \in {"established", "shutdown", "destroyed"} :
           HasOp(ioQueue', op) <=> HasOp(ioQueue, op)
      /\ OneOp(ioQueue, "destroyed") => OneOp(ioQueue', "destroyed")
  <2>1. /\ Append(ioQueue, f) \in Seq(FunctorSet)
        /\ \A op : HasOp(Append(ioQueue, f), op) <=> HasOp(ioQueue, op) \/ f.op = op
        /\ OneOp(ioQueue, "destroyed") /\ f.op # "destroyed" =>
             OneOp(Append(ioQueue, f), "destroyed")
    BY <1>2, <1>3, AppendOp
  <2> QED
    BY <2>1, <1>1, <1>2, <1>3
<1>5. TypeOK'
  BY <1>1, <1>2, <1>4 DEF TypeOK
<1>6. LaterStep /\ StreamKept /\ OutputKept /\ LifeKept
  BY <1>1, <1>2, <1>4 DEF LaterStep, StreamKept, OutputKept, LifeKept, Open, Writing
<1> QED
  BY <1>5, <1>6, PlainStepKeeps

LEMMA LoopReadControlKeeps ==
  ASSUME IInv, LoopReadControl
  PROVE  IInv'
<1>1. /\ upcall /\ (startReadInLoop \/ stopReadInLoop)
      /\ UNCHANGED <<singleLoop, state, dataVars, revents, upcall, ioQueue,
                     serverVars, shut, peer, callbackVars, workerVars, abort>>
  BY DEF LoopReadControl, InCallback
<1>2. TypeOK /\ ~Before
  BY <1>1, InCallbackOpen
<1>3. RestOf(ioQueue')
  BY <1>1, <1>2, RestOfQueue DEF RestOf
<1> QED
  BY <1>1, <1>2, <1>3, ReadControlKeeps

LEMMA ReturnAndPeerKeep ==
  ASSUME IInv, CallbackReturn \/ PeerClose
  PROVE  IInv'
<1>1. /\ upcall \/ state \notin {"none", "kConnecting"}
      /\ upcall' = upcall \/ upcall' = FALSE
      /\ peer' = peer \/ peer' \in {"fin", "rst"}
      /\ peer \in {"rst", "dead"} => peer' \in {"rst", "dead"}
      /\ UNCHANGED <<singleLoop, connVars, chanVars, dataVars, revents, ioQueue,
                     serverVars, shut, callbackVars, workerVars, abort>>
  BY DEF CallbackReturn, PeerClose
<1>2. TypeOK /\ ~Before
  BY <1>1, InCallbackOpen DEF IInv, Before
<1>3. TypeOK'
  <2>1. upcall' \in BOOLEAN /\ peer' \in PeerState
    BY <1>1, <1>2 DEF TypeOK, PeerState
  <2> QED
    BY <2>1, <1>1, <1>2 DEF TypeOK
<1>4. LaterStep /\ StreamKept /\ OutputKept /\ LifeKept
  BY <1>1, <1>2 DEF LaterStep, StreamKept, OutputKept, LifeKept, Before, Writing
<1> QED
  BY <1>3, <1>4, PlainStepKeeps

-----------------------------------------------------------------------------
(* Workers                                                                 *)

WorkerStepPC == {"idle", "set", "push", "return"}

LEMMA WorkerCallKeeps ==
  ASSUME IInv, NEW w \in Worker, NEW call \in Call, NEW m \in Message \cup {Garbage},
         WorkerCall(w, call, m)
  PROVE  IInv'
<1> DEFINE next == [call |-> call, msg |-> m,
                    step |-> IF call \in {"send", "startRead", "stopRead"}
                             THEN "push" ELSE "set"]
<1>1. /\ Goes(call) /\ unused' \subseteq unused /\ wpc' = [wpc EXCEPT ![w] = next]
      /\ UNCHANGED <<singleLoop, connVars, chanVars, dataVars, revents, upcall, ioQueue,
                     serverVars, shut, peer, callbackVars, holds, abort>>
  BY DEF WorkerCall
<1>2. /\ next \in [call : Call, msg : Message \cup {Garbage}, step : WorkerStepPC]
      /\ next.step = "set" => call \in {"shutdown", "forceClose", "forceCloseWithDelay"}
      /\ next.step = "push" => call \in {"send", "startRead", "stopRead"}
      /\ next.step \in {"set", "push"} /\ next.call = call
  BY DEF WorkerStepPC, Call
<1>3. /\ state # "none"
      /\ call \in {"shutdown", "forceClose", "forceCloseWithDelay"} => ~Before
  BY DEF Goes, WorkerCall, Before
<1>4. /\ TypeOK
      /\ wpc \in [Worker -> [call : Call, msg : Message \cup {Garbage}, step : WorkerStepPC]]
  BY DEF IInv, TypeOK, WorkerStepPC
<1> HIDE DEF next
<1>5. wpc'[w] = next /\ \A v \in Worker \ {w} : wpc'[v] = wpc[v]
  BY <1>1, <1>4
<1>6. TypeOK'
  <2>1. wpc' \in [Worker -> [call : Call, msg : Message \cup {Garbage}, step : WorkerStepPC]]
    BY <1>1, <1>2, <1>4
  <2>2. unused' \in SUBSET Message
    BY <1>1, <1>4 DEF TypeOK
  <2> QED
    BY <2>1, <2>2, <1>1, <1>4 DEF TypeOK, WorkerStepPC
<1>7. Beginning'
  BY <1>1, <1>3 DEF IInv, Beginning, Before
<1>8. Shutting'
  <2>1. ASSUME NEW v \in Worker
        PROVE  (/\ wpc[v].step = "set" => ~Before
                /\ wpc[v].step = "push" => wpc[v].call # "forceCloseWithDelay"
                /\ wpc[v].call = "shutdown" /\ wpc[v].step \in {"push", "return"} =>
                     ~Before /\ state # "kConnected")'
    <3>1. CASE v = w
      BY <3>1, <1>1, <1>2, <1>3, <1>5 DEF Before
    <3>2. CASE v # w
      BY <3>2, <1>1, <1>5 DEF IInv, Shutting, Before
    <3> QED
      BY <3>1, <3>2
  <2> QED
    BY <2>1, <1>1 DEF IInv, Shutting, Before
<1>9. StreamKept /\ OutputKept /\ LifeKept
  BY <1>1 DEF StreamKept, OutputKept, LifeKept, Writing
<1> QED
  BY <1>6, <1>7, <1>8, <1>9, StreamKeptKeeps, OutputKeptKeeps, LifeKeptKeeps DEF IInv

LEMMA WorkerSetStateKeeps ==
  ASSUME IInv, NEW w \in Worker, WorkerSetState(w)
  PROVE  IInv'
<1>1. /\ wpc[w].step = "set" /\ state' = "kDisconnecting"
      /\ wpc' = [wpc EXCEPT ![w].step =
                   IF wpc[w].call = "forceCloseWithDelay" THEN "return" ELSE "push"]
      /\ causes' = IF Closed THEN causes \cup {"torn"} ELSE causes
      /\ UNCHANGED <<singleLoop, reading, events, index, dataVars, revents, upcall, ioQueue,
                     serverVars, shut, peer, callbackVars, holds, unused, abort>>
  BY DEF WorkerSetState
<1>2. /\ TypeOK /\ ~Before
      /\ wpc \in [Worker -> [call : Call, msg : Message \cup {Garbage}, step : WorkerStepPC]]
  BY <1>1 DEF IInv, TypeOK, Shutting, WorkerStepPC
<1>3. /\ wpc'[w].call = wpc[w].call /\ wpc'[w].step \in {"push", "return"}
      /\ wpc'[w].step = "push" => wpc[w].call # "forceCloseWithDelay"
      /\ \A v \in Worker \ {w} : wpc'[v] = wpc[v]
      /\ wpc' \in [Worker -> [call : Call, msg : Message \cup {Garbage}, step : WorkerStepPC]]
  BY <1>1, <1>2 DEF WorkerStepPC
<1>4. TypeOK'
  <2>1. causes' \subseteq {"torn", "late", "readded", "closing", "active"}
    BY <1>1, <1>2 DEF TypeOK
  <2> QED
    BY <2>1, <1>1, <1>2, <1>3 DEF TypeOK, WorkerStepPC
<1>5. Beginning'
  BY <1>1, <1>2 DEF IInv, Beginning, Before
<1>6. Shutting'
  <2>1. ASSUME NEW v \in Worker
        PROVE  (wpc[v].step = "push" => wpc[v].call # "forceCloseWithDelay")'
    BY <1>3 DEF IInv, Shutting
  <2> QED
    BY <2>1, <1>1 DEF Shutting, Before
<1>7. StreamKept /\ OutputKept
  BY <1>1 DEF StreamKept, OutputKept, Writing
<1>8. Life'
  <2>1. CASE Closed
    BY <2>1, <1>1 DEF Life
  <2>2. CASE ~Closed
    <3>1. Open
      BY <2>2, <1>2 DEF Open, Closed, Before, TypeOK
    <3>2. LifeKept
      BY <3>1, <2>2, <1>1 DEF LifeKept, Open
    <3> QED
      BY <3>2, LifeKeptKeeps DEF IInv
  <2> QED
    BY <2>1, <2>2
<1> QED
  BY <1>4, <1>5, <1>6, <1>7, <1>8, StreamKeptKeeps, OutputKeptKeeps DEF IInv

LEMMA WorkerPushKeeps ==
  ASSUME IInv, NEW w \in Worker, WorkerPush(w)
  PROVE  IInv'
<1> DEFINE f == Functor(wpc[w].call, wpc[w].msg, w)
<1>1. /\ wpc[w].step = "push" /\ ioQueue' = Append(ioQueue, f)
      /\ wpc' = [wpc EXCEPT ![w].step = "return"]
      /\ UNCHANGED <<singleLoop, connVars, chanVars, dataVars, revents, upcall,
                     serverVars, shut, peer, callbackVars, holds, unused, abort>>
  BY DEF WorkerPush
<1>2. /\ TypeOK /\ ioQueue \in Seq(FunctorSet)
      /\ wpc \in [Worker -> [call : Call, msg : Message \cup {Garbage}, step : WorkerStepPC]]
  BY DEF IInv, TypeOK, WorkerStepPC
<1>3. /\ wpc[w].call \in Shared \cup Raw /\ wpc[w].call \notin {"established", "destroyed"}
      /\ wpc[w].msg \in Message \cup {Garbage}
  <2>1. /\ wpc[w].call \in Call /\ wpc[w].msg \in Message \cup {Garbage}
        /\ wpc[w].call # "forceCloseWithDelay"
    BY <1>1, <1>2 DEF IInv, Shutting
  <2> QED
    BY <2>1 DEF Call, Shared, Raw
<1>4. f \in FunctorSet /\ f.op = wpc[w].call
  BY <1>3, SimpleFacts
<1> HIDE DEF f
<1>5. PICK g : g = f
  OBVIOUS
<1>6. /\ ioQueue' \in Seq(FunctorSet) /\ ioQueue' # <<>>
      /\ ioQueue # <<>> => Head(ioQueue') = Head(ioQueue)
      /\ \A op : HasOp(ioQueue', op) <=> HasOp(ioQueue, op) \/ wpc[w].call = op
      /\ OneOp(ioQueue, "established") => OneOp(ioQueue', "established")
      /\ OneOp(ioQueue, "destroyed") => OneOp(ioQueue', "destroyed")
  <2>1. ioQueue' = Append(ioQueue, g) /\ g \in FunctorSet /\ g.op = wpc[w].call
    BY <1>1, <1>4, <1>5
  <2>2. /\ Append(ioQueue, g) \in Seq(FunctorSet) /\ Append(ioQueue, g) # <<>>
        /\ ioQueue # <<>> => Head(Append(ioQueue, g)) = Head(ioQueue)
        /\ \A op : HasOp(Append(ioQueue, g), op) <=> HasOp(ioQueue, op) \/ g.op = op
        /\ \A op : OneOp(ioQueue, op) /\ (~HasOp(ioQueue, op) \/ g.op # op) =>
                     OneOp(Append(ioQueue, g), op)
    BY <2>1, <1>2, AppendOp
  <2> QED
    BY <2>1, <2>2, <1>3
<1>7. /\ wpc'[w].call = wpc[w].call /\ wpc'[w].step = "return"
      /\ \A v \in Worker \ {w} : wpc'[v] = wpc[v]
      /\ wpc' \in [Worker -> [call : Call, msg : Message \cup {Garbage}, step : WorkerStepPC]]
  BY <1>1, <1>2 DEF WorkerStepPC
<1>8. TypeOK'
  BY <1>1, <1>2, <1>6, <1>7 DEF TypeOK, WorkerStepPC
<1>9. state # "none"
  BY <1>1 DEF IInv, Beginning
<1>10. Beginning'
  BY <1>1, <1>3, <1>6, <1>9 DEF IInv, Beginning, Before
<1>11. Shutting'
  <2>1. ASSUME NEW v \in Worker
        PROVE  (/\ wpc[v].step = "set" => ~Before
                /\ wpc[v].step = "push" => wpc[v].call # "forceCloseWithDelay"
                /\ wpc[v].call = "shutdown" /\ wpc[v].step \in {"push", "return"} =>
                     ~Before /\ state # "kConnected")'
    <3>1. CASE v = w
      BY <3>1, <1>1, <1>7 DEF IInv, Shutting, Before
    <3>2. CASE v # w
      BY <3>2, <1>1, <1>7 DEF IInv, Shutting, Before
    <3> QED
      BY <3>1, <3>2
  <2>2. (HasOp(ioQueue, "shutdown") => ~Before /\ state # "kConnected")'
    BY <1>1, <1>6 DEF IInv, Shutting, Before
  <2> QED
    BY <2>1, <2>2, <1>1 DEF IInv, Shutting
<1>12. StreamKept /\ OutputKept /\ LifeKept
  BY <1>1, <1>3, <1>6 DEF StreamKept, OutputKept, LifeKept, Writing
<1> QED
  BY <1>8, <1>10, <1>11, <1>12, StreamKeptKeeps, OutputKeptKeeps, LifeKeptKeeps DEF IInv

LEMMA WorkerReturnKeeps ==
  ASSUME IInv, NEW w \in Worker, WorkerReturn(w) \/ WorkerRelease(w)
  PROVE  IInv'
<1>1. /\ wpc' = wpc \/ wpc' = [wpc EXCEPT ![w] = Idle]
      /\ holds' = holds \/ holds' = [holds EXCEPT ![w] = FALSE]
      /\ UNCHANGED <<singleLoop, connVars, chanVars, dataVars, revents, upcall, ioQueue,
                     serverVars, shut, peer, callbackVars, unused, abort>>
  BY DEF WorkerReturn, WorkerRelease
<1>2. /\ TypeOK /\ holds \in [Worker -> BOOLEAN]
      /\ wpc \in [Worker -> [call : Call, msg : Message \cup {Garbage}, step : WorkerStepPC]]
  BY DEF IInv, TypeOK, WorkerStepPC
<1>3. /\ Idle \in [call : Call, msg : Message \cup {Garbage}, step : WorkerStepPC]
      /\ Idle.step = "idle"
  BY DEF Idle, Call, WorkerStepPC
<1>4. /\ \A v \in Worker : wpc'[v] = wpc[v] \/ wpc'[v] = Idle
      /\ wpc' \in [Worker -> [call : Call, msg : Message \cup {Garbage}, step : WorkerStepPC]]
      /\ holds' \in [Worker -> BOOLEAN]
  <2>1. holds' \in [Worker -> BOOLEAN]
    BY <1>1, <1>2
  <2>2. CASE wpc' = wpc
    BY <2>1, <2>2, <1>2
  <2>3. CASE wpc' = [wpc EXCEPT ![w] = Idle]
    BY <2>1, <2>3, <1>2, <1>3
  <2> QED
    BY <1>1, <2>2, <2>3
<1>5. TypeOK'
  BY <1>1, <1>2, <1>4 DEF TypeOK, WorkerStepPC
<1>6. Beginning'
  BY <1>1, <1>3, <1>4 DEF IInv, Beginning, Before
<1>7. Shutting'
  <2>1. ASSUME NEW v \in Worker
        PROVE  (/\ wpc[v].step = "set" => ~Before
                /\ wpc[v].step = "push" => wpc[v].call # "forceCloseWithDelay"
                /\ wpc[v].call = "shutdown" /\ wpc[v].step \in {"push", "return"} =>
                     ~Before /\ state # "kConnected")'
    BY <1>1, <1>3, <1>4 DEF IInv, Shutting, Before
  <2> QED
    BY <2>1, <1>1 DEF IInv, Shutting, Before
<1>8. StreamKept /\ OutputKept /\ LifeKept
  BY <1>1 DEF StreamKept, OutputKept, LifeKept, Writing
<1> QED
  BY <1>5, <1>6, <1>7, <1>8, StreamKeptKeeps, OutputKeptKeeps, LifeKeptKeeps DEF IInv

-----------------------------------------------------------------------------
(* The beginning and the end                                               *)

LEMMA InitHolds == Init => IInv
<1> SUFFICES ASSUME Init PROVE IInv
  OBVIOUS
<1>1. TypeOK
  <2>1. Idle \in [call : Call, msg : Message \cup {Garbage},
                  step : {"idle", "set", "push", "return"}]
    BY DEF Idle, Call
  <2>2. /\ ioQueue \in Seq(FunctorSet) /\ mainQueue \in Seq({"remove"})
        /\ output \in Seq(Byte) /\ wire \in Seq(Byte) /\ accepted \in Seq(Byte)
    BY DEF Init
  <2> QED
    BY <2>1, <2>2 DEF Init, TypeOK, PeerState, Asserts, Byte
<1>2. Beginning
  BY EmptyQueue DEF Init, Beginning, Before, Idle
<1>3. Shutting
  BY EmptyQueue DEF Init, Shutting, Before, Idle
<1>4. Watched /\ ShutdownAfterOutput
  BY DEF Init, Watched, ShutdownAfterOutput, Writing
<1>5. Stream
  BY ConcatEmptySeq DEF Init, Stream
<1>6. Life
  BY EmptyQueue DEF Init, Life, Open, Closed
<1> QED
  BY <1>1, <1>2, <1>3, <1>4, <1>5, <1>6 DEF IInv

LEMMA NewConnectionKeeps ==
  ASSUME IInv, NewConnection
  PROVE  IInv'
<1> DEFINE e == Simple("established")
<1>1. /\ state = "none" /\ state' = "kConnecting" /\ inMap' = TRUE /\ ioQueue' = <<e>>
      /\ holds' = [w \in Worker |-> TRUE]
      /\ UNCHANGED <<singleLoop, reading, chanVars, dataVars, revents, upcall,
                     mainQueue, shut, peer, callbackVars, wpc, unused, abort>>
  BY DEF NewConnection
<1>2. e \in FunctorSet /\ e.op = "established"
  BY SimpleFacts DEF Shared
<1> HIDE DEF e
<1>3. /\ ioQueue' \in Seq(FunctorSet) /\ ioQueue' # <<>>
      /\ Head(ioQueue').op = "established"
      /\ OneOp(ioQueue', "established")
      /\ ~HasOp(ioQueue', "destroyed") /\ ~HasOp(ioQueue', "shutdown")
  <2>1. <<e>> \in Seq(FunctorSet) /\ <<e>> # <<>> /\ Head(<<e>>) = e
    BY <1>2
  <2>2. \A k \in 1..Len(<<e>>) : k = 1 /\ <<e>>[k] = e
    OBVIOUS
  <2>3. OneOp(<<e>>, "established") /\ ~HasOp(<<e>>, "destroyed") /\ ~HasOp(<<e>>, "shutdown")
    BY <2>2, <1>2 DEF OneOp, HasOp
  <2> QED
    BY <2>1, <2>3, <1>1, <1>2
<1>4. TypeOK'
  BY <1>1, <1>3 DEF IInv, TypeOK
<1>5. Beginning'
  BY <1>1, <1>3 DEF IInv, Beginning, Before
<1>6. Shutting'
  BY <1>1, <1>3 DEF IInv, Beginning, Shutting, Before
<1>7. StreamKept /\ OutputKept
  BY <1>1 DEF StreamKept, OutputKept, Writing
<1>8. Life'
  BY <1>1, <1>3 DEF IInv, Beginning, Before, Life, Open, Closed
<1> QED
  BY <1>4, <1>5, <1>6, <1>7, <1>8, StreamKeptKeeps, OutputKeptKeeps DEF IInv

LEMMA RunEstablishedKeeps ==
  ASSUME IInv, RunEstablished
  PROVE  IInv'
<1>1. /\ AtHead({"established"}) /\ connectEstablished(Tail(ioQueue))
      /\ UNCHANGED <<singleLoop, reading, dataVars, revents, serverVars, shut,
                     peer, downs, workerVars>>
  BY DEF RunEstablished
<1>2. /\ TypeOK /\ ioQueue \in Seq(FunctorSet) /\ ioQueue # <<>>
      /\ Head(ioQueue).op = "established" /\ HasOp(ioQueue, "established")
  <2>1. /\ TypeOK /\ ioQueue \in Seq(FunctorSet) /\ ioQueue # <<>>
        /\ Head(ioQueue).op = "established"
    BY <1>1 DEF IInv, TypeOK, AtHead
  <2> QED
    BY <2>1, TailOp
<1>3. state = "kConnecting" /\ Before
  BY <1>2 DEF IInv, TypeOK, Beginning, Before
<1>4. /\ reading /\ events = {} /\ index = "kNew" /\ causes = {} /\ output = <<>>
      /\ mainQueue = <<>> /\ ~shut /\ ups = 0 /\ downs = 0 /\ abort = "none"
      /\ inMap /\ OneOp(ioQueue, "established") /\ ~HasOp(ioQueue, "destroyed")
  BY <1>3 DEF IInv, Beginning
<1>5. /\ state' = "kConnected" /\ events' = {"read"} /\ index' = "kAdded" /\ causes' = {}
      /\ ups' = 1 /\ upcall' = TRUE /\ ioQueue' = Tail(ioQueue) /\ abort' = "none"
  BY <1>1, <1>3, <1>4 DEF connectEstablished, SetEvents, Updated, Check
<1>6. /\ ioQueue' \in Seq(FunctorSet) /\ ~HasOp(ioQueue', "established")
      /\ ~HasOp(ioQueue', "destroyed")
      /\ HasOp(ioQueue', "shutdown") => HasOp(ioQueue, "shutdown")
  BY <1>2, <1>4, <1>5, TailOp
<1>7. TypeOK'
  BY <1>1, <1>2, <1>5, <1>6 DEF TypeOK, Asserts
<1>8. Beginning'
  BY <1>5, <1>6 DEF Beginning, Before
<1>9. Shutting'
  BY <1>1, <1>3, <1>4, <1>5, <1>6 DEF IInv, Shutting, Before
<1>10. Watched' /\ ShutdownAfterOutput'
  BY <1>1, <1>4, <1>5 DEF Watched, ShutdownAfterOutput, Writing
<1>11. Stream'
  BY <1>1, StreamKeptKeeps DEF IInv, StreamKept
<1>12. Life'
  BY <1>1, <1>4, <1>5, <1>6 DEF Life, Open, Closed
<1> QED
  BY <1>7, <1>8, <1>9, <1>10, <1>11, <1>12 DEF IInv

LEMMA RemoveConnectionKeeps ==
  ASSUME IInv, RemoveConnectionInLoop
  PROVE  IInv'
<1> DEFINE d == Simple("destroyed")
<1>1. /\ abort = "none" /\ mainQueue # <<>> /\ mainQueue' = Tail(mainQueue)
      /\ inMap' = FALSE /\ abort' = (IF inMap THEN abort ELSE "erase")
      /\ ioQueue' = Append(ioQueue, d)
      /\ UNCHANGED <<singleLoop, connVars, chanVars, dataVars, revents, upcall,
                     shut, peer, callbackVars, workerVars>>
  BY DEF RemoveConnectionInLoop, Check
<1>2. /\ TypeOK /\ ~Before /\ ioQueue \in Seq(FunctorSet) /\ mainQueue \in Seq({"remove"})
  BY <1>1 DEF IInv, TypeOK, Beginning
<1>3. d \in FunctorSet /\ d.op = "destroyed"
  BY SimpleFacts DEF Shared
<1> HIDE DEF d
<1>4. /\ ioQueue' \in Seq(FunctorSet)
      /\ \A op : HasOp(ioQueue', op) <=> HasOp(ioQueue, op) \/ op = "destroyed"
      /\ ~HasOp(ioQueue, "destroyed") => OneOp(ioQueue', "destroyed")
  <2>1. /\ Append(ioQueue, d) \in Seq(FunctorSet)
        /\ \A op : HasOp(Append(ioQueue, d), op) <=> HasOp(ioQueue, op) \/ d.op = op
        /\ \A op : OneOp(ioQueue, op) /\ (~HasOp(ioQueue, op) \/ d.op # op) =>
                     OneOp(Append(ioQueue, d), op)
    BY <1>2, <1>3, AppendOp
  <2> QED
    BY <2>1, <1>1, <1>3, NoneIsOne
<1>5. TypeOK'
  <2>1. mainQueue' \in Seq({"remove"})
    BY <1>1, <1>2, TailOp
  <2>2. abort' \in Asserts
    BY <1>1 DEF Asserts
  <2> QED
    BY <2>1, <2>2, <1>1, <1>2, <1>4 DEF TypeOK
<1>6. LaterStep /\ StreamKept /\ OutputKept
  BY <1>1, <1>2, <1>4 DEF LaterStep, StreamKept, OutputKept, Before, Writing
<1>7. Life'
  <2> SUFFICES ASSUME causes' = {} PROVE Life'
    BY DEF Life
  <2>1. causes = {} /\ Closed /\ downs = 1 /\ events = {} /\ revents \subseteq {"out"} /\ Ending
    BY <1>1 DEF IInv, Life
  <2>2. /\ mainQueue = <<"remove">> /\ inMap /\ index = "kDeleted"
        /\ ~HasOp(ioQueue, "destroyed")
    BY <2>1, <1>1 DEF Ending
  <2>3. mainQueue' = <<>>
    BY <2>2, <1>1
  <2>4. Ending'
    BY <2>2, <2>3, <1>1, <1>4 DEF Ending
  <2> QED
    BY <2>1, <2>2, <2>4, <1>1 DEF Life, Closed, Open
<1> QED
  BY <1>5, <1>6, <1>7, LaterStepKeeps, StreamKeptKeeps, OutputKeptKeeps DEF IInv

-----------------------------------------------------------------------------
(* Theorems                                                                *)

LEMMA StepKeeps == IInv /\ [Next]_vars => IInv'
<1> SUFFICES ASSUME IInv, [Next]_vars PROVE IInv'
  OBVIOUS
<1>1. CASE UNCHANGED vars
  <2>1. TypeOK'
    BY <1>1 DEF IInv, TypeOK, vars
  <2>2. Beginning' /\ Shutting'
    BY <1>1 DEF IInv, Beginning, Shutting, Before, vars
  <2>3. StreamKept /\ OutputKept /\ LifeKept
    BY <1>1 DEF StreamKept, OutputKept, LifeKept, Writing, vars
  <2> QED
    BY <2>1, <2>2, <2>3, StreamKeptKeeps, OutputKeptKeeps, LifeKeptKeeps DEF IInv
<1>2. CASE NewConnection
  BY <1>2, NewConnectionKeeps
<1>3. CASE RemoveConnectionInLoop
  BY <1>3, RemoveConnectionKeeps
<1>4. CASE DestroyServer
  BY <1>4, DestroyServerKeeps
<1>5. CASE DestroyServerInEvent
  BY <1>5, DestroyServerInEventKeeps
<1>6. CASE Poll
  BY <1>6, PollKeeps
<1>7. CASE EventStep
  BY <1>7, HandleHupKeeps, HandleReadKeeps, HandleWriteKeeps DEF EventStep
<1>8. CASE FunctorStep
  BY <1>8, RunEstablishedKeeps, RunDestroyedKeeps, RunSendKeeps, RunShutdownKeeps,
     RunForceCloseKeeps, RunReadControlKeeps, RunCallbackKeeps DEF FunctorStep
<1>9. CASE CallbackReturn \/ PeerClose
  BY <1>9, ReturnAndPeerKeep
<1>10. CASE UserStep
  BY <1>10, LoopSendKeeps, LoopShutdownKeeps, LoopForceCloseKeeps, LoopReadControlKeeps
  DEF UserStep
<1>11. ASSUME NEW w \in Worker, WorkerStep(w) PROVE IInv'
  BY <1>11, WorkerCallKeeps, WorkerSetStateKeeps, WorkerPushKeeps, WorkerReturnKeeps
  DEF WorkerStep
<1> QED
  BY <1>1, <1>2, <1>3, <1>4, <1>5, <1>6, <1>7, <1>8, <1>9, <1>10, <1>11 DEF Next

\* The state of the connection, its channel, its place in connections_ and the
\* functors queued for it keep in step, for any number of workers and messages.
THEOREM ConnectionInvariant == Spec => []IInv
<1>1. Init => IInv
  BY InitHolds
<1>2. IInv /\ [Next]_vars => IInv'
  BY StepKeeps
<1> QED
  BY <1>1, <1>2, PTL DEF Spec

\* No assert() of the connection, of its channel or of TcpServer fails but for
\* one of the five causes: handleClose() finds the connection open,
\* connections_.erase() finds it in the map, connectDestroyed() finds the channel
\* registered and without events.
THEOREM AssertsFailForCause == Spec => []AssertsHold
<1>1. IInv => AssertsHold
  BY DEF IInv, Life, AssertsHold
<1> QED
  BY <1>1, ConnectionInvariant, PTL

\* ~TcpConnection() and ~Channel() find the connection closed and the channel
\* out of the epoll set, whoever held the last shared_ptr.
THEOREM LastReferenceLast == Spec => []DestroyedClosed
<1>1. IInv => DestroyedClosed
  <2> SUFFICES ASSUME IInv, Destroyed, causes = {} PROVE Closed /\ ChannelUnused
    BY DEF DestroyedClosed
  <2>1. /\ TypeOK /\ state # "none" /\ ~inMap
        /\ \A i \in DOMAIN ioQueue : ioQueue[i].op \notin Shared
    BY DEF IInv, Destroyed, Referenced
  <2>2. DOMAIN ioQueue = 1..Len(ioQueue)
    BY <2>1, LenProperties DEF TypeOK
  <2>3. ~HasOp(ioQueue, "destroyed")
    BY <2>1, <2>2 DEF HasOp, Shared
  <2>4. Closed
    BY <2>1 DEF IInv, TypeOK, Beginning, Life, Closed, Open
  <2>5. index = "kNew"
    BY <2>1, <2>3, <2>4 DEF IInv, Life, Ending
  <2> QED
    BY <2>4, <2>5 DEF ChannelUnused
<1> QED
  BY <1>1, ConnectionInvariant, PTL

\* connection_callback_ is called once when the connection is established and
\* once when it is closed, on whichever of the paths it is closed.
THEOREM UpThenDown == Spec => []CallbacksPaired
<1>1. IInv => CallbacksPaired
  <2> SUFFICES ASSUME IInv, causes = {}
               PROVE  ups <= 1 /\ downs <= ups /\ (Closed <=> downs = 1)
    BY DEF CallbacksPaired
  <2>1. CASE Before
    <3>1. ups = 0 /\ downs = 0 /\ ~Closed
      BY <2>1 DEF IInv, Beginning, Before, Closed
    <3> QED
      BY <3>1
  <2>2. CASE ~Before
    <3>1. ups = 1 /\ (Closed => downs = 1) /\ (~Closed => downs = 0)
      BY <2>2 DEF IInv, Beginning, Life
    <3> QED
      BY <3>1
  <2> QED
    BY <2>1, <2>2
<1> QED
  BY <1>1, ConnectionInvariant, PTL

\* Until it is closed, a connection waits for POLLOUT exactly when there is
\* output: sendInLoop() and handleWrite() never lose each other's work.
THEOREM NoOutputForgotten == Spec => []OutputIsWatched
<1>1. IInv => OutputIsWatched
  BY DEF IInv, Watched, OutputIsWatched
<1> QED
  BY <1>1, ConnectionInvariant, PTL

\* shutdown() waits for the output, whether shutdownInLoop() or handleWrite()
\* does it, and nothing is sent after it.
THEOREM ShutdownWaits == Spec => []ShutdownAfterOutput
<1>1. IInv => ShutdownAfterOutput
  BY DEF IInv
<1> QED
  BY <1>1, ConnectionInvariant, PTL

\* The bytes the kernel took are those that sendInLoop() took, in that order,
\* however the writes were cut, and but for the rest none is missing unless a
\* message was given up.
THEOREM BytesInOrder == Spec => []StreamInOrder
<1>1. IInv => StreamInOrder
  <2> SUFFICES ASSUME IInv PROVE StreamInOrder
    OBVIOUS
  <2>1. wire \in Seq(Byte) /\ output \in Seq(Byte)
    BY DEF IInv, TypeOK, Byte
  <2>2. IsPrefix(wire, wire \o output)
    BY <2>1, PrefixOfConcat
  <2>3. IsPrefix(wire, accepted)
    BY <2>2 DEF IInv, Stream
  <2> QED
    BY <2>3 DEF IInv, Stream, StreamInOrder
<1> QED
  BY <1>1, ConnectionInvariant, PTL
=============================================================================
