--------------------------- MODULE TimerQueueProofs ---------------------------
(***************************************************************************)
(* TLAPS proofs about TimerQueue, for any addresses, delays, intervals and *)
(* bounds: the two indices agree, no Timer dangles or leaks, the timerfd   *)
(* is set in time, and a cancellation sticks and hits its own timer only.  *)
(***************************************************************************)
EXTENDS TimerQueue, SequenceTheorems, WellFoundedInduction, TLAPS

\* The functors that add a timer, and the TimerIds they carry.
AddAt(i) == functors[i][1] = "add"
Queued == {functors[i][2] : i \in {j \in 1..Len(functors) : AddAt(j)}}

InTree(p) == \E e \in tree : e[2] = p
InBatch(p) == \E e \in batch : e[2] = p
InQueue(p) == \E id \in Queued : id[1] = p

\* The clock is set by one unit.
ClockInv == now <= mono + 1

\* The entries of the tree and of the batch are those of live Timers, and so are
\* the TimerIds on their way, each in one functor.
Indexed ==
  /\ active = {IdOf(e[2]) : e \in tree}
  /\ \A e \in tree \cup batch : heap[e[2]].seq # 0 /\ heap[e[2]].exp = e[1]
  /\ \A id \in Queued : IdOf(id[1]) = id
  /\ \A i, j \in 1..Len(functors) :
       AddAt(i) /\ AddAt(j) /\ functors[i][2] = functors[j][2] => i = j

\* NoDangling, by places.
Placed ==
  \A p \in Ptr :
    /\ ~(InTree(p) /\ InBatch(p)) /\ ~(InTree(p) /\ InQueue(p))
    /\ ~(InBatch(p) /\ InQueue(p))
    /\ heap[p] # Free <=> InTree(p) \/ InBatch(p) \/ InQueue(p)

\* Sequence numbers are used once.
Numbered ==
  /\ \A p \in Ptr : heap[p].seq <= created
  /\ \A p, q \in Ptr : heap[p].seq = heap[q].seq /\ heap[p].seq # 0 => p = q
  /\ \A id \in cancelled : id[2] <= created

\* The batch is that of a handleRead() that is running.
BatchInv == (~calling => batch = {}) /\ todo \subseteq batch

\* A timer that was cancelled inside a callback is remembered until resetTimer().
CancelInv ==
  /\ CancelSticks
  /\ \A e \in batch : IdOf(e[2]) \in cancelled => IdOf(e[2]) \in deleted
  /\ Queued \cap cancelled = {}

\* ArmedForFirst, for every timer of the tree.
ArmedInv ==
  ~calling /\ tree # {} =>
    armed /\ \A e \in tree : fdTime <= Deadline(e[1]) \/ now > mono

IInv ==
  /\ TypeOK /\ ClockInv /\ Indexed /\ Placed /\ Numbered /\ BatchInv
  /\ CancelInv /\ ArmedInv

-----------------------------------------------------------------------------
(* The operators of the model                                              *)

\* A set of naturals that is not empty has a least element.
LEMMA Least ==
  ASSUME NEW T, T \subseteq Nat, T # {}
  PROVE  \E x \in T : \A y \in T : x <= y
<1>1. PICK x \in T : \A y \in T : ~(<<y, x>> \in OpToRel(<, Nat))
  BY WFMin, NatLessThanWellFounded, Zenon
<1>2. \A y \in T : ~(y < x)
  BY <1>1 DEF OpToRel
<1> QED
  BY <1>2

\* timer_tree_.begin() is a timer that no other one of the tree precedes.
LEMMA FirstIsFirst ==
  ASSUME NEW t, t \subseteq TimerEntry, t # {}
  PROVE  First(t) \in t /\ \A e \in t : First(t)[1] <= e[1]
<1> DEFINE T == {e[1] : e \in t}
<1>1. T \subseteq Nat /\ T # {}
  BY DEF TimerEntry
<1>2. PICK x \in T : \A y \in T : x <= y
  BY <1>1, Least
<1>3. PICK e \in t : e[1] = x
  OBVIOUS
<1>4. \A f \in t : Earlier(e, f)
  BY <1>2, <1>3 DEF Earlier
<1> HIDE DEF T
<1>5. First(t) \in t /\ \A f \in t : Earlier(First(t), f)
  BY <1>4 DEF First
<1> QED
  BY <1>5 DEF Earlier

\* Queueing a functor, and running the first one.
LEMMA QueuedAppend ==
  ASSUME TypeOK, Indexed, NEW op \in {"add", "del"}, NEW id \in TimerId,
         functors' = Append(functors, <<op, id>>)
  PROVE  /\ functors' \in Seq({"add", "del"} \X TimerId)
         /\ Queued' = IF op = "add" THEN Queued \cup {id} ELSE Queued
         /\ id \notin Queued \/ op = "del" =>
              \A i, j \in 1..Len(functors') :
                AddAt(i)' /\ AddAt(j)' /\ functors'[i][2] = functors'[j][2] => i = j
<1> DEFINE F == {"add", "del"} \X TimerId
<1>1. functors \in Seq(F) /\ <<op, id>> \in F
  BY DEF TypeOK
<1>2. /\ functors' \in Seq(F) /\ Len(functors') = Len(functors) + 1
      /\ \A i \in 1..Len(functors) : functors'[i] = functors[i]
      /\ functors'[Len(functors) + 1] = <<op, id>>
      /\ Len(functors) \in Nat
  BY <1>1, AppendProperties
<1>3. 1..Len(functors') = (1..Len(functors)) \cup {Len(functors) + 1}
  BY <1>2
<1> DEFINE n == Len(functors) + 1
<1>4. /\ \A i \in 1..Len(functors) : functors'[i][1] = functors[i][1] /\ i # n
      /\ functors'[n][1] = op /\ functors'[n][2] = id
  BY <1>2
<1> HIDE DEF n
<1>5. ASSUME NEW x
      PROVE  x \in Queued' <=> x \in Queued \/ (op = "add" /\ x = id)
  BY <1>2, <1>3, <1>4 DEF Queued, AddAt, n
<1>6. Queued' = IF op = "add" THEN Queued \cup {id} ELSE Queued
  <2>1. CASE op = "add"
    BY <1>5, <2>1
  <2>2. CASE op = "del"
    BY <1>5, <2>2
  <2> QED
    BY <2>1, <2>2
<1>7. ASSUME id \notin Queued \/ op = "del",
             NEW i \in 1..Len(functors'), NEW j \in 1..Len(functors'),
             AddAt(i)', AddAt(j)', functors'[i][2] = functors'[j][2]
      PROVE  i = j
  <2>1. (i \in 1..Len(functors) \/ i = n) /\ (j \in 1..Len(functors) \/ j = n)
    BY <1>3 DEF n
  <2>2. \A k \in 1..Len(functors) : functors[k][1] = "add" => functors[k][2] \in Queued
    BY DEF Queued, AddAt
  <2>3. CASE i = n \/ j = n
    BY <1>2, <1>4, <1>7, <2>1, <2>2, <2>3 DEF AddAt
  <2>4. CASE i # n /\ j # n
    BY <1>2, <1>4, <1>7, <2>1, <2>4 DEF AddAt, Indexed
  <2> QED
    BY <2>3, <2>4
<1> QED
  BY <1>2, <1>6, <1>7

LEMMA QueuedTail ==
  ASSUME TypeOK, Indexed, functors # <<>>, functors' = Tail(functors)
  PROVE  /\ functors' \in Seq({"add", "del"} \X TimerId)
         /\ Head(functors) \in {"add", "del"} \X TimerId
         /\ IF Head(functors)[1] = "add"
            THEN Head(functors)[2] \in Queued /\ Queued' = Queued \ {Head(functors)[2]}
            ELSE Queued' = Queued
         /\ \A i, j \in 1..Len(functors') :
              AddAt(i)' /\ AddAt(j)' /\ functors'[i][2] = functors'[j][2] => i = j
<1> DEFINE F == {"add", "del"} \X TimerId
<1>1. functors \in Seq(F)
  BY DEF TypeOK
<1>2. /\ functors' \in Seq(F) /\ Len(functors') = Len(functors) - 1
      /\ \A i \in 1..Len(functors') : functors'[i] = functors[i + 1]
      /\ Len(functors) \in Nat \ {0}
      /\ Head(functors) = functors[1] /\ functors[1] \in F
  BY <1>1, HeadTailProperties, EmptySeq, LenProperties
<1>3. \A i \in 1..Len(functors') : i + 1 \in 1..Len(functors) /\ (AddAt(i)' <=> AddAt(i + 1))
  BY <1>2 DEF AddAt
<1>4. \A i \in 1..Len(functors) : i = 1 \/ i - 1 \in 1..Len(functors')
  BY <1>2
<1>5. ASSUME NEW id PROVE id \in Queued' <=> \E i \in 2..Len(functors) : AddAt(i) /\ functors[i][2] = id
  <2>1. ASSUME NEW i \in 2..Len(functors), AddAt(i), functors[i][2] = id
        PROVE  id \in Queued'
    <3>1. i - 1 \in 1..Len(functors') /\ (i - 1) + 1 = i
      BY <1>2
    <3> QED
      BY <2>1, <3>1, <1>2, <1>3 DEF Queued
  <2> QED
    BY <2>1, <1>2, <1>3 DEF Queued
<1>6. ASSUME NEW id
      PROVE id \in Queued <=> \/ AddAt(1) /\ functors[1][2] = id
                              \/ \E i \in 2..Len(functors) : AddAt(i) /\ functors[i][2] = id
  BY <1>2 DEF Queued
<1>7. IF Head(functors)[1] = "add"
      THEN Head(functors)[2] \in Queued /\ Queued' = Queued \ {Head(functors)[2]}
      ELSE Queued' = Queued
  <2>1. CASE AddAt(1)
    <3>1. \A i \in 2..Len(functors) : AddAt(i) => functors[i][2] # functors[1][2]
      BY <1>2, <2>1 DEF Indexed
    <3>2. \A id : id \in Queued' <=> id \in Queued \ {functors[1][2]}
      BY <1>5, <1>6, <2>1, <3>1
    <3> QED
      BY <1>2, <1>6, <2>1, <3>2 DEF AddAt
  <2>2. CASE ~AddAt(1)
    <3>1. \A id : id \in Queued' <=> id \in Queued
      BY <1>5, <1>6, <2>2
    <3>2. Queued' = Queued
      BY <3>1
    <3>3. Head(functors)[1] # "add"
      BY <1>2, <2>2 DEF AddAt
    <3> QED
      BY <3>2, <3>3
  <2> QED
    BY <2>1, <2>2
<1>8. \A i, j \in 1..Len(functors') :
        AddAt(i)' /\ AddAt(j)' /\ functors'[i][2] = functors'[j][2] => i = j
  <2> SUFFICES ASSUME NEW i \in 1..Len(functors'), NEW j \in 1..Len(functors'),
                      AddAt(i)', AddAt(j)', functors'[i][2] = functors'[j][2]
               PROVE  i = j
    OBVIOUS
  <2>1. i + 1 = j + 1
    BY <1>2, <1>3 DEF Indexed
  <2> QED
    BY <2>1
<1> QED
  BY <1>2, <1>7, <1>8

LEMMA QueuedSame ==
  ASSUME Indexed, functors' = functors
  PROVE  /\ Queued' = Queued
         /\ \A i, j \in 1..Len(functors') :
              AddAt(i)' /\ AddAt(j)' /\ functors'[i][2] = functors'[j][2] => i = j
BY DEF Queued, AddAt, Indexed

\* timespecFromNow() keeps the order of the expirations.
LEMMA DeadlineOrder ==
  ASSUME TypeOK, NEW x \in Nat, NEW y \in Nat
  PROVE  Deadline(x) \in Nat /\ (x <= y => Deadline(x) <= Deadline(y))
BY DEF TypeOK, Deadline

\* What is in the tree, in the batch or on its way is a Timer on the heap.
LEMMA Live ==
  ASSUME TypeOK, Indexed, Placed
  PROVE  /\ \A e \in tree \cup batch :
              e[1] \in Nat /\ e[2] \in Ptr /\ e = <<e[1], e[2]>> /\ heap[e[2]] # Free
         /\ \A id \in Queued :
              /\ id \in TimerId /\ id[1] \in Ptr /\ id[2] \in 1..MaxTimers
              /\ id = <<id[1], id[2]>> /\ heap[id[1]].seq = id[2] /\ heap[id[1]] # Free
         /\ \A p \in Ptr : heap[p] = Free <=> heap[p].seq = 0
         /\ \A p \in Ptr : heap[p].seq \in Nat /\ heap[p].exp \in Nat
<1>1. \A e \in tree \cup batch : e \in Nat \X Ptr /\ heap[e[2]].seq # 0
  BY DEF TypeOK, Indexed, TimerEntry
<1>2. \A id \in Queued : id \in TimerId
  BY LenProperties, ElementOfSeq DEF TypeOK, Queued
<1>3. \A id \in Queued : /\ id \in Ptr \X (1..MaxTimers)
                         /\ id[2] # 0 /\ heap[id[1]].seq = id[2]
  BY <1>2 DEF Indexed, IdOf, TimerId
<1>4. \A p \in Ptr : heap[p].seq # 0 => heap[p] # Free
  BY DEF Free
<1>5. \A p \in Ptr : heap[p] # Free => heap[p].seq # 0
  BY <1>1, <1>3 DEF Placed, InTree, InBatch, InQueue
<1>6. \A p \in Ptr : heap[p] \in Timer
  BY DEF TypeOK
<1> QED
  BY <1>1, <1>2, <1>3, <1>4, <1>5, <1>6 DEF Timer

-----------------------------------------------------------------------------
(* The invariant is inductive                                              *)

LEMMA InitInv == Init => IInv
<1> SUFFICES ASSUME Init PROVE IInv
  OBVIOUS
<1> USE TimerQueueAssumption DEF Init
<1>1. functors \in Seq({"add", "del"} \X TimerId) /\ Len(functors) = 0
  OBVIOUS
<1>2. Queued = {}
  BY <1>1 DEF Queued
<1>3. TypeOK
  <2>1. Free \in Timer
    BY DEF Free, Timer
  <2>2. heap \in [Ptr -> Timer]
    BY <2>1
  <2>3. now \in 0..MaxTime + 1 /\ mono \in 0..MaxTime /\ created \in 0..MaxTimers
        /\ batchTime \in 0..MaxTime + 1 /\ fdTime \in Nat
    OBVIOUS
  <2> QED
    BY <1>1, <2>2, <2>3 DEF TypeOK
<1>4. Indexed
  BY <1>1, <1>2 DEF Indexed
<1>5. Placed
  BY <1>2 DEF Placed, InTree, InBatch, InQueue
<1>6. Numbered
  BY DEF Numbered, Free
<1>7. ClockInv /\ BatchInv /\ CancelInv /\ ArmedInv
  BY <1>2 DEF ClockInv, BatchInv, CancelInv, CancelSticks, ArmedInv
<1> QED
  BY <1>3, <1>4, <1>5, <1>6, <1>7 DEF IInv

\* A new Timer is at an address that nothing holds, under a new number.
LEMMA NewTimerFresh ==
  ASSUME IInv, NEW p \in Ptr, NEW t \in NewTimers, NewTimer(p, t)
  PROVE  /\ t \in Timer /\ t.seq = created + 1 /\ t.seq # 0 /\ t # Free
         /\ <<p, t.seq>> \in TimerId
         /\ heap' \in [Ptr -> Timer] /\ heap'[p] = t
         /\ \A q \in Ptr : q # p => heap'[q] = heap[q]
         /\ \A e \in tree \cup batch : e[2] # p /\ heap'[e[2]] = heap[e[2]]
         /\ \A id \in Queued : id[1] # p /\ heap'[id[1]] = heap[id[1]]
         /\ created' \in 0..MaxTimers /\ ids' \in SUBSET TimerId
         /\ Numbered /\ (cancelled' = cancelled => Numbered')
         /\ \A id \in cancelled : id # <<p, t.seq>>
<1> USE TimerQueueAssumption
<1>1. TypeOK /\ Indexed /\ Placed /\ Numbered
  BY DEF IInv
<1>2. /\ created \in 0..MaxTimers /\ created < MaxTimers
      /\ heap \in [Ptr -> Timer] /\ heap[p] = Free
      /\ heap' = [heap EXCEPT ![p] = t] /\ created' = created + 1
      /\ ids' = ids \cup {<<p, t.seq>>}
  BY <1>1 DEF TypeOK, NewTimer
<1>3. PICK d \in Delay, k \in Interval :
        t = [seq |-> created + 1, exp |-> now + d, interval |-> k]
  BY DEF NewTimer
<1>4. t \in Timer /\ t.seq = created + 1 /\ t.seq # 0 /\ t # Free
  BY <1>1, <1>2, <1>3 DEF TypeOK, Timer, Free
<1>5. /\ heap' \in [Ptr -> Timer] /\ heap'[p] = t
      /\ \A q \in Ptr : q # p => heap'[q] = heap[q]
  BY <1>2, <1>4
<1>6. /\ \A e \in tree \cup batch : e[2] # p /\ heap'[e[2]] = heap[e[2]]
      /\ \A id \in Queued : id[1] # p /\ heap'[id[1]] = heap[id[1]]
  BY <1>1, <1>2, <1>5, Live
<1>7. <<p, t.seq>> \in TimerId
  BY <1>2, <1>4 DEF TimerId
<1>8. created' \in 0..MaxTimers /\ ids' \in SUBSET TimerId
  BY <1>1, <1>2, <1>7 DEF TypeOK
<1>9. \A id \in cancelled : id # <<p, t.seq>>
  <2> SUFFICES ASSUME <<p, t.seq>> \in cancelled PROVE FALSE
    OBVIOUS
  <2>1. t.seq <= created
    BY <1>1 DEF Numbered
  <2> QED
    BY <1>2, <1>4, <2>1
<1>10. ASSUME cancelled' = cancelled PROVE Numbered'
  <2>1. \A q \in Ptr : heap[q].seq \in Nat /\ heap[q].seq <= created
    BY <1>1, Live DEF Numbered
  <2>2. \A q \in Ptr : heap'[q].seq <= created'
    BY <1>2, <1>4, <1>5, <2>1
  <2>3. \A q \in Ptr : q # p => heap'[q].seq # heap'[p].seq
    BY <1>2, <1>4, <1>5, <2>1
  <2>4. ASSUME NEW q \in Ptr, NEW r \in Ptr, heap'[q].seq = heap'[r].seq, heap'[q].seq # 0
        PROVE  q = r
    <3>1. CASE q = p \/ r = p
      BY <2>3, <2>4, <3>1
    <3>2. CASE q # p /\ r # p
      BY <1>1, <1>5, <2>4, <3>2 DEF Numbered
    <3> QED
      BY <3>1, <3>2
  <2>5. \A id \in cancelled : id[2] <= created'
    <3> SUFFICES ASSUME NEW id \in cancelled PROVE id[2] <= created'
      OBVIOUS
    <3>1. id \in Ptr \X (1..MaxTimers)
      BY <1>1 DEF TypeOK, TimerId
    <3> QED
      BY <1>1, <1>2, <3>1 DEF Numbered
  <2> QED
    BY <1>10, <2>2, <2>4, <2>5 DEF Numbered
<1> QED
  BY <1>1, <1>4, <1>5, <1>6, <1>7, <1>8, <1>9, <1>10

\* addTimer() on another thread: the Timer is on its way to the loop.
LEMMA AddTimerInv ==
  ASSUME IInv, NEW p \in Ptr, NEW t \in NewTimers, AddTimer(p, t)
  PROVE  IInv'
<1> DEFINE id == <<p, t.seq>>
<1> USE TimerQueueAssumption
<1>1. TypeOK /\ Indexed /\ Placed /\ CancelInv /\ BatchInv /\ ArmedInv /\ ClockInv
  BY DEF IInv
<1>2. /\ t.seq # 0 /\ t # Free
      /\ id \in TimerId
      /\ heap' \in [Ptr -> Timer] /\ heap'[p] = t
      /\ \A q \in Ptr : q # p => heap'[q] = heap[q]
      /\ \A e \in tree \cup batch : e[2] # p /\ heap'[e[2]] = heap[e[2]]
      /\ \A x \in Queued : x[1] # p /\ heap'[x[1]] = heap[x[1]]
      /\ created' \in 0..MaxTimers /\ ids' \in SUBSET TimerId
      /\ (cancelled' = cancelled => Numbered')
      /\ \A x \in cancelled : x # id
  BY NewTimerFresh DEF AddTimer
<1>3. /\ UNCHANGED <<now, mono, alive, tree, active, deleted, calling, batch, todo,
                     batchTime, armed, fdTime, cancelled>>
      /\ functors' = Append(functors, <<"add", id>>)
  BY DEF AddTimer, clockVars, batchVars, fdVars
<1>4. id \notin Queued
  BY <1>2
<1>5. /\ functors' \in Seq({"add", "del"} \X TimerId)
      /\ Queued' = Queued \cup {id}
      /\ \A i, j \in 1..Len(functors') :
           AddAt(i)' /\ AddAt(j)' /\ functors'[i][2] = functors'[j][2] => i = j
  BY <1>1, <1>2, <1>3, <1>4, QueuedAppend
<1> HIDE DEF id
<1>6. TypeOK'
  BY <1>1, <1>2, <1>3, <1>5 DEF TypeOK
<1>7. Indexed'
  <2>1. \A e \in tree : IdOf(e[2])' = IdOf(e[2])
    BY <1>2 DEF IdOf
  <2>2. active' = {IdOf(e[2])' : e \in tree'}
    BY <1>1, <1>3, <2>1 DEF Indexed
  <2>3. \A e \in (tree \cup batch)' : heap'[e[2]].seq # 0 /\ heap'[e[2]].exp = e[1]
    BY <1>1, <1>2, <1>3 DEF Indexed
  <2>4. \A x \in Queued' : IdOf(x[1])' = x
    BY <1>1, <1>2, <1>5 DEF Indexed, IdOf, id
  <2> QED
    BY <1>5, <2>2, <2>3, <2>4 DEF Indexed
<1>8. Placed'
  <2>1. \A q \in Ptr : /\ InTree(q)' <=> InTree(q)
                       /\ InBatch(q)' <=> InBatch(q)
                       /\ InQueue(q)' <=> InQueue(q) \/ q = p
    BY <1>3, <1>5 DEF InTree, InBatch, InQueue, id
  <2>2. ~InTree(p) /\ ~InBatch(p)
    BY <1>2 DEF InTree, InBatch
  <2> QED
    BY <1>1, <1>2, <2>1, <2>2 DEF Placed
<1>9. CancelInv'
  <2>1. \A e \in batch : IdOf(e[2])' = IdOf(e[2])
    BY <1>2 DEF IdOf
  <2> QED
    BY <1>1, <1>2, <1>3, <1>5, <2>1 DEF CancelInv, CancelSticks
<1>10. ArmedInv' /\ BatchInv' /\ ClockInv'
  BY <1>1, <1>3 DEF ArmedInv, BatchInv, ClockInv, Deadline
<1> QED
  BY <1>2, <1>3, <1>6, <1>7, <1>8, <1>9, <1>10 DEF IInv

\* delTimer() on another thread.
LEMMA DelTimerInv ==
  ASSUME IInv, NEW id \in ids, DelTimer(id)
  PROVE  IInv'
<1>1. TypeOK /\ Indexed /\ Placed /\ CancelInv /\ BatchInv /\ ArmedInv /\ ClockInv
      /\ Numbered
  BY DEF IInv
<1>2. /\ UNCHANGED <<now, mono, alive, heap, created, tree, active, deleted, calling,
                     batch, todo, batchTime, armed, fdTime, ids, cancelled>>
      /\ functors' = Append(functors, <<"del", id>>)
  BY DEF DelTimer, clockVars, timerVars, batchVars, fdVars
<1>3. id \in TimerId
  BY <1>1 DEF TypeOK
<1>4. /\ functors' \in Seq({"add", "del"} \X TimerId)
      /\ Queued' = Queued
      /\ \A i, j \in 1..Len(functors') :
           AddAt(i)' /\ AddAt(j)' /\ functors'[i][2] = functors'[j][2] => i = j
  BY <1>1, <1>2, <1>3, QueuedAppend
<1>5. TypeOK'
  BY <1>1, <1>2, <1>4 DEF TypeOK
<1>6. Indexed'
  BY <1>1, <1>2, <1>4 DEF Indexed, IdOf
<1>7. Placed'
  BY <1>1, <1>2, <1>4 DEF Placed, InTree, InBatch, InQueue
<1>8. CancelInv' /\ Numbered'
  BY <1>1, <1>2, <1>4 DEF CancelInv, CancelSticks, Numbered, IdOf
<1>9. ArmedInv' /\ BatchInv' /\ ClockInv'
  BY <1>1, <1>2 DEF ArmedInv, BatchInv, ClockInv, Deadline
<1> QED
  BY <1>5, <1>6, <1>7, <1>8, <1>9 DEF IInv

\* addTimerInLoop() sets the timerfd when the new timer is the first one.
LEMMA AddArmed ==
  ASSUME IInv, NEW p \in Ptr, NEW t \in Timer, addTimerInLoop(p, t),
         UNCHANGED <<now, mono, calling>>
  PROVE  ArmedInv' /\ armed' \in BOOLEAN /\ fdTime' \in Nat
<1>1. TypeOK /\ ArmedInv /\ t.exp \in Nat /\ tree \subseteq TimerEntry
  BY DEF IInv, TypeOK, Timer
<1>2. /\ tree' = tree \cup {<<t.exp, p>>}
      /\ IF insertTimer(t.exp) THEN armed' = TRUE /\ fdTime' = Deadline(t.exp)
         ELSE armed' = armed /\ fdTime' = fdTime
  BY DEF addTimerInLoop, updateTimerfd, fdVars
<1>3. \A e \in tree : e[1] \in Nat
  BY <1>1 DEF TimerEntry
<1>4. \A x : Deadline(x)' = Deadline(x)
  BY DEF Deadline
<1>5. tree # {} => First(tree) \in tree /\ \A e \in tree : First(tree)[1] <= e[1]
  BY <1>1, FirstIsFirst
<1>6. CASE insertTimer(t.exp)
  <2>1. \A e \in tree : t.exp <= e[1]
    BY <1>1, <1>3, <1>5, <1>6 DEF insertTimer
  <2>2. \A e \in tree' : Deadline(t.exp) <= Deadline(e[1])
    BY <1>1, <1>2, <1>3, <2>1, DeadlineOrder
  <2>3. armed' = TRUE /\ fdTime' = Deadline(t.exp)
    BY <1>2, <1>6
  <2> QED
    BY <1>1, <1>4, <2>2, <2>3, DeadlineOrder DEF ArmedInv
<1>7. CASE ~insertTimer(t.exp)
  <2>1. tree # {} /\ First(tree)[1] <= t.exp /\ First(tree) \in tree
    BY <1>1, <1>3, <1>5, <1>7 DEF insertTimer
  <2>2. Deadline(First(tree)[1]) <= Deadline(t.exp)
    BY <1>1, <1>3, <2>1, DeadlineOrder
  <2>3. armed' = armed /\ fdTime' = fdTime
    BY <1>2, <1>7
  <2>4. ASSUME ~calling, NEW e \in tree'
        PROVE  fdTime <= Deadline(e[1]) \/ now > mono
    <3>1. CASE e \in tree
      BY <1>1, <2>4, <3>1 DEF ArmedInv
    <3>2. CASE e = <<t.exp, p>>
      <4>1. fdTime <= Deadline(First(tree)[1]) \/ now > mono
        BY <1>1, <2>1, <2>4 DEF ArmedInv
      <4>2. fdTime \in Nat
        BY <1>1 DEF TypeOK
      <4>3. Deadline(First(tree)[1]) \in Nat /\ Deadline(t.exp) \in Nat /\ e[1] = t.exp
        BY <1>1, <1>3, <2>1, <3>2, DeadlineOrder
      <4> QED
        BY <2>2, <4>1, <4>2, <4>3
    <3> QED
      BY <1>2, <3>1, <3>2
  <2>5. ~calling => armed
    BY <1>1, <2>1 DEF ArmedInv
  <2> QED
    BY <1>1, <1>4, <2>3, <2>4, <2>5 DEF ArmedInv, TypeOK
<1> QED
  BY <1>6, <1>7

\* addTimer() on the loop's thread.
LEMMA CallbackAddInv ==
  ASSUME IInv, NEW p \in Ptr, NEW t \in NewTimers, CallbackAdd(p, t)
  PROVE  IInv'
<1> DEFINE id == <<p, t.seq>>
           ent == <<t.exp, p>>
<1> USE TimerQueueAssumption
<1>1. TypeOK /\ Indexed /\ Placed /\ CancelInv /\ BatchInv /\ ClockInv
  BY DEF IInv
<1>2. /\ t \in Timer /\ t.seq # 0 /\ t # Free
      /\ id \in TimerId
      /\ heap' \in [Ptr -> Timer] /\ heap'[p] = t
      /\ \A q \in Ptr : q # p => heap'[q] = heap[q]
      /\ \A e \in tree \cup batch : e[2] # p /\ heap'[e[2]] = heap[e[2]]
      /\ \A x \in Queued : x[1] # p /\ heap'[x[1]] = heap[x[1]]
      /\ created' \in 0..MaxTimers /\ ids' \in SUBSET TimerId
      /\ (cancelled' = cancelled => Numbered')
      /\ \A x \in cancelled : x # id
  BY NewTimerFresh DEF CallbackAdd
<1>3. /\ UNCHANGED <<now, mono, alive, deleted, calling, batch, todo, batchTime,
                     functors, cancelled>>
      /\ addTimerInLoop(p, t)
      /\ tree' = tree \cup {ent} /\ active' = active \cup {id}
  BY DEF CallbackAdd, clockVars, batchVars, addTimerInLoop
<1>4. ArmedInv' /\ armed' \in BOOLEAN /\ fdTime' \in Nat
  BY <1>2, <1>3, AddArmed
<1>5. /\ Queued' = Queued
      /\ \A i, j \in 1..Len(functors') :
           AddAt(i)' /\ AddAt(j)' /\ functors'[i][2] = functors'[j][2] => i = j
  BY <1>1, <1>3, QueuedSame
<1>6. ent \in TimerEntry /\ ent[1] = t.exp /\ ent[2] = p
  BY <1>2 DEF TimerEntry, Timer
<1>7. id = IdOf(ent[2])'
  BY <1>2 DEF IdOf
<1> HIDE DEF id, ent
<1>8. TypeOK'
  BY <1>1, <1>2, <1>3, <1>4, <1>6 DEF TypeOK
<1>9. Indexed'
  <2>1. \A e \in tree : IdOf(e[2])' = IdOf(e[2])
    BY <1>2 DEF IdOf
  <2>2. active' = {IdOf(e[2])' : e \in tree'}
    BY <1>1, <1>3, <1>7, <2>1 DEF Indexed
  <2>3. \A e \in (tree \cup batch)' : heap'[e[2]].seq # 0 /\ heap'[e[2]].exp = e[1]
    BY <1>1, <1>2, <1>3, <1>6 DEF Indexed
  <2>4. \A x \in Queued' : IdOf(x[1])' = x
    BY <1>1, <1>2, <1>5 DEF Indexed, IdOf
  <2> QED
    BY <1>5, <2>2, <2>3, <2>4 DEF Indexed
<1>10. Placed'
  <2>1. \A q \in Ptr : /\ InTree(q)' <=> InTree(q) \/ q = p
                       /\ InBatch(q)' <=> InBatch(q)
                       /\ InQueue(q)' <=> InQueue(q)
    BY <1>3, <1>5, <1>6 DEF InTree, InBatch, InQueue
  <2>2. ~InQueue(p) /\ ~InBatch(p)
    BY <1>2 DEF InQueue, InBatch
  <2> QED
    BY <1>1, <1>2, <2>1, <2>2 DEF Placed
<1>11. CancelInv'
  <2>1. \A e \in batch : IdOf(e[2])' = IdOf(e[2])
    BY <1>2 DEF IdOf
  <2> QED
    BY <1>1, <1>2, <1>3, <1>5, <2>1 DEF CancelInv, CancelSticks
<1>12. BatchInv' /\ ClockInv'
  BY <1>1, <1>3 DEF BatchInv, ClockInv
<1> QED
  BY <1>2, <1>3, <1>4, <1>8, <1>9, <1>10, <1>11, <1>12 DEF IInv

\* addTimerInLoop() as a functor: the Timer goes from the queue to the tree.
LEMMA RunAddInv ==
  ASSUME IInv, RunAdd
  PROVE  IInv'
<1> DEFINE id == Head(functors)[2]
           p == id[1]
           ent == <<heap[p].exp, p>>
<1> USE TimerQueueAssumption
<1>1. TypeOK /\ Indexed /\ Placed /\ CancelInv /\ BatchInv /\ ClockInv /\ Numbered
  BY DEF IInv
<1>2. /\ UNCHANGED <<now, mono, alive, heap, created, deleted, calling, batch, todo,
                     batchTime, ids, cancelled>>
      /\ ~calling /\ functors # <<>> /\ functors' = Tail(functors)
      /\ Head(functors)[1] = "add" /\ addTimerInLoop(p, heap[p])
      /\ tree' = tree \cup {ent} /\ active' = active \cup {<<p, heap[p].seq>>}
  BY DEF RunAdd, clockVars, batchVars, addTimerInLoop
<1>3. /\ functors' \in Seq({"add", "del"} \X TimerId)
      /\ id \in Queued /\ Queued' = Queued \ {id}
      /\ \A i, j \in 1..Len(functors') :
           AddAt(i)' /\ AddAt(j)' /\ functors'[i][2] = functors'[j][2] => i = j
  BY <1>1, <1>2, QueuedTail
<1> HIDE DEF id
<1>4. p \in Ptr /\ IdOf(p) = id /\ heap[p] \in Timer /\ heap[p].seq # 0
      /\ id \in TimerId
  <2>1. id \in TimerId /\ p \in Ptr /\ heap[p].seq = id[2] /\ id[2] \in 1..MaxTimers
    BY <1>1, <1>3, Live
  <2> QED
    BY <1>1, <1>3, <2>1 DEF Indexed, TypeOK
<1>5. ArmedInv' /\ armed' \in BOOLEAN /\ fdTime' \in Nat
  BY <1>2, <1>4, AddArmed
<1>6. ent \in TimerEntry /\ ent[1] = heap[p].exp /\ ent[2] = p
  BY <1>4 DEF TimerEntry, Timer
<1>7. active' = active \cup {id} /\ id = IdOf(ent[2])
  BY <1>2, <1>4 DEF IdOf
<1> HIDE DEF p, ent
<1>8. TypeOK'
  BY <1>1, <1>2, <1>3, <1>4, <1>5, <1>6, <1>7 DEF TypeOK
<1>9. Indexed'
  <2>1. \A q : IdOf(q)' = IdOf(q)
    BY <1>2 DEF IdOf
  <2>2. active' = {IdOf(e[2])' : e \in tree'}
    BY <1>1, <1>2, <1>7, <2>1 DEF Indexed
  <2>3. \A e \in (tree \cup batch)' : heap'[e[2]].seq # 0 /\ heap'[e[2]].exp = e[1]
    BY <1>1, <1>2, <1>4, <1>6 DEF Indexed
  <2>4. \A x \in Queued' : IdOf(x[1])' = x
    BY <1>1, <1>2, <1>3, <2>1 DEF Indexed
  <2> QED
    BY <1>3, <2>2, <2>3, <2>4 DEF Indexed
<1>10. Placed'
  <2>1. \A x \in Queued : x[1] = p => x = id
    BY <1>1, <1>4 DEF Indexed
  <2>2. \A q \in Ptr : /\ InTree(q)' <=> InTree(q) \/ q = p
                       /\ InBatch(q)' <=> InBatch(q)
                       /\ InQueue(q)' <=> InQueue(q) /\ q # p
    BY <1>2, <1>3, <1>6, <2>1 DEF InTree, InBatch, InQueue, p
  <2>3. InQueue(p)
    BY <1>3 DEF InQueue, p
  <2> QED
    BY <1>1, <1>2, <1>4, <2>2, <2>3 DEF Placed
<1>11. CancelInv'
  <2>1. id \notin cancelled
    BY <1>1, <1>3 DEF CancelInv
  <2> QED
    BY <1>1, <1>2, <1>3, <1>7, <2>1 DEF CancelInv, CancelSticks, IdOf
<1>12. BatchInv' /\ ClockInv' /\ Numbered'
  BY <1>1, <1>2 DEF BatchInv, ClockInv, Numbered
<1> QED
  BY <1>5, <1>8, <1>9, <1>10, <1>11, <1>12 DEF IInv

\* delTimerInLoop(), in a callback or as a functor.
LEMMA DelInLoopInv ==
  ASSUME IInv, NEW id \in TimerId, delTimerInLoop(id),
         UNCHANGED <<now, mono, alive, calling, batch, todo, batchTime, ids>>,
         functors' \in Seq({"add", "del"} \X TimerId), Queued' = Queued,
         \A i, j \in 1..Len(functors') :
           AddAt(i)' /\ AddAt(j)' /\ functors'[i][2] = functors'[j][2] => i = j
  PROVE  IInv'
<1> DEFINE p == id[1]
           ent == <<heap[p].exp, p>>
<1> USE TimerQueueAssumption
<1>1. TypeOK /\ Indexed /\ Placed /\ CancelInv /\ BatchInv /\ ClockInv /\ Numbered
      /\ ArmedInv
  BY DEF IInv
<1>2. p \in Ptr /\ id[2] \in 1..MaxTimers /\ id = <<p, id[2]>>
  BY DEF TimerId
<1>3. /\ \A e \in tree \cup batch :
           e[1] \in Nat /\ e[2] \in Ptr /\ e = <<e[1], e[2]>> /\ heap[e[2]] # Free
      /\ \A x \in Queued : /\ x[1] \in Ptr
                           /\ x = <<x[1], x[2]>> /\ heap[x[1]].seq = x[2]
  BY <1>1, Live
<1>4. created' = created /\ armed' = armed /\ fdTime' = fdTime
  BY DEF delTimerInLoop, fdVars
<1>5. \A x : Deadline(x)' = Deadline(x)
  BY DEF Deadline
<1>6. BatchInv' /\ ClockInv'
  BY <1>1 DEF BatchInv, ClockInv
<1>7. CASE id \in active
  <2>1. /\ tree' = tree \ {ent} /\ active' = active \ {id}
        /\ heap' = [heap EXCEPT ![p] = Free] /\ deleted' = deleted
        /\ cancelled' = cancelled \cup {id}
    BY <1>7 DEF delTimerInLoop
  <2>2. PICK e0 \in tree : IdOf(e0[2]) = id
    BY <1>1, <1>7 DEF Indexed
  <2>3. e0[2] = p /\ heap[p].seq = id[2] /\ e0 = ent
    BY <1>1, <1>2, <1>3, <2>2 DEF IdOf, Indexed
  <2>4. \A e \in tree : e[2] = p => e = ent
    BY <1>1, <1>3 DEF Indexed
  <2>5. InTree(p) /\ ~InBatch(p) /\ ~InQueue(p)
    BY <1>1, <1>2, <2>3 DEF Placed, InTree
  <2>6. /\ \A e \in tree' \cup batch : e[2] # p
        /\ \A x \in Queued : x[1] # p
    BY <2>1, <2>4, <2>5 DEF InBatch, InQueue
  <2>7. Free \in Timer
    BY DEF Free, Timer
  <2>8. /\ heap' \in [Ptr -> Timer] /\ heap'[p] = Free
        /\ \A q \in Ptr : q # p => heap'[q] = heap[q]
    BY <1>1, <1>2, <2>1, <2>7 DEF TypeOK
  <2> HIDE DEF p, ent
  <2>9. \A q \in Ptr : q # p => IdOf(q)' = IdOf(q)
    BY <2>8 DEF IdOf
  <2>10. TypeOK'
    BY <1>1, <1>4, <2>1, <2>8 DEF TypeOK
  <2>11. Indexed'
    <3>1. \A e \in tree' : e \in tree /\ e[2] \in Ptr /\ IdOf(e[2]) # id
                           /\ IdOf(e[2])' = IdOf(e[2])
      BY <1>2, <1>3, <2>1, <2>6, <2>9 DEF IdOf
    <3>2. \A e \in tree : e \in tree' \/ IdOf(e[2]) = id
      BY <2>1, <2>2, <2>3
    <3>3. \A x : x \in active' <=> \E e \in tree' : x = IdOf(e[2])'
      BY <1>1, <2>1, <3>1, <3>2 DEF Indexed
    <3>4. active' = {IdOf(e[2])' : e \in tree'}
      BY <3>3
    <3>5. \A e \in (tree \cup batch)' : heap'[e[2]].seq # 0 /\ heap'[e[2]].exp = e[1]
      BY <1>1, <1>3, <2>1, <2>6, <2>8 DEF Indexed
    <3>6. \A x \in Queued' : IdOf(x[1])' = x
      BY <1>1, <1>3, <2>6, <2>9 DEF Indexed
    <3> QED
      BY <3>4, <3>5, <3>6 DEF Indexed
  <2>12. Placed'
    <3>1. \A q \in Ptr : /\ InTree(q)' <=> InTree(q) /\ q # p
                         /\ InBatch(q)' <=> InBatch(q)
                         /\ InQueue(q)' <=> InQueue(q)
      BY <2>1, <2>4, <2>6 DEF InTree, InBatch, InQueue, ent
    <3> QED
      BY <1>1, <2>5, <2>8, <3>1 DEF Placed
  <2>13. CancelInv'
    <3>1. \A e \in batch : IdOf(e[2])' = IdOf(e[2]) /\ IdOf(e[2]) # id
      BY <1>2, <1>3, <2>6, <2>9 DEF IdOf
    <3>2. id \notin Queued
      BY <2>6 DEF p
    <3> QED
      BY <1>1, <2>1, <3>1, <3>2 DEF CancelInv, CancelSticks
  <2>14. Numbered'
    <3>1. id[2] <= created
      BY <1>1, <1>2, <2>3 DEF Numbered
    <3>2. \A q \in Ptr : heap'[q].seq <= created
      BY <1>1, <2>8 DEF Numbered, Free, TypeOK
    <3>3. \A q, r \in Ptr : heap'[q].seq = heap'[r].seq /\ heap'[q].seq # 0 => q = r
      BY <1>1, <2>8 DEF Numbered, Free
    <3> QED
      BY <1>1, <1>4, <2>1, <3>1, <3>2, <3>3 DEF Numbered
  <2>15. ArmedInv'
    BY <1>1, <1>4, <1>5, <2>1 DEF ArmedInv
  <2> QED
    BY <1>6, <2>10, <2>11, <2>12, <2>13, <2>14, <2>15 DEF IInv
<1>8. CASE id \notin active
  <2>1. /\ UNCHANGED <<tree, active, heap>>
        /\ deleted' = IF calling THEN deleted \cup {id} ELSE deleted
        /\ cancelled' = IF \E e \in batch : IdOf(e[2]) = id
                        THEN cancelled \cup {id} ELSE cancelled
    BY <1>8 DEF delTimerInLoop
  <2>2. \A q : IdOf(q)' = IdOf(q)
    BY <2>1 DEF IdOf
  <2>3. TypeOK'
    BY <1>1, <1>4, <2>1 DEF TypeOK
  <2>4. Indexed'
    BY <1>1, <2>1, <2>2 DEF Indexed
  <2>5. Placed'
    BY <1>1, <2>1 DEF Placed, InTree, InBatch, InQueue
  <2>6. ArmedInv'
    BY <1>1, <1>4, <1>5, <2>1 DEF ArmedInv
  <2>7. CASE ~(\E e \in batch : IdOf(e[2]) = id)
    <3>1. cancelled' = cancelled /\ deleted \subseteq deleted'
      BY <2>1, <2>7
    <3> QED
      BY <1>1, <1>4, <1>6, <2>1, <2>2, <2>3, <2>4, <2>5, <2>6, <3>1
      DEF IInv, CancelInv, CancelSticks, Numbered
  <2>8. CASE \E e \in batch : IdOf(e[2]) = id
    <3>1. PICK e0 \in batch : IdOf(e0[2]) = id
      BY <2>8
    <3>2. calling /\ cancelled' = cancelled \cup {id} /\ deleted' = deleted \cup {id}
      BY <1>1, <2>1, <2>8 DEF BatchInv
    <3>3. e0[2] = p /\ heap[p].seq = id[2] /\ InBatch(p)
      BY <1>2, <3>1 DEF IdOf, InBatch
    <3>4. id[2] <= created
      BY <1>1, <1>2, <3>3 DEF Numbered
    <3>5. id \notin Queued
      BY <1>1, <1>2, <3>3 DEF Placed, InQueue
    <3>6. CancelInv'
      BY <1>1, <1>8, <2>1, <2>2, <3>2, <3>5 DEF CancelInv, CancelSticks
    <3>7. Numbered'
      BY <1>1, <1>4, <2>1, <3>2, <3>4 DEF Numbered
    <3> QED
      BY <1>6, <2>3, <2>4, <2>5, <2>6, <3>6, <3>7 DEF IInv
  <2> QED
    BY <2>7, <2>8
<1> QED
  BY <1>7, <1>8

LEMMA CallbackDelInv ==
  ASSUME IInv, NEW id \in ids, CallbackDel(id)
  PROVE  IInv'
<1>1. TypeOK /\ Indexed /\ id \in TimerId
  BY DEF IInv, TypeOK
<1>2. /\ UNCHANGED <<now, mono, alive, calling, batch, todo, batchTime, ids, functors>>
      /\ delTimerInLoop(id)
  BY DEF CallbackDel, clockVars, batchVars
<1>3. functors' \in Seq({"add", "del"} \X TimerId)
  BY <1>1, <1>2 DEF TypeOK
<1> QED
  BY <1>1, <1>2, <1>3, QueuedSame, DelInLoopInv

LEMMA RunDelInv ==
  ASSUME IInv, RunDel
  PROVE  IInv'
<1> DEFINE id == Head(functors)[2]
<1>1. TypeOK /\ Indexed
  BY DEF IInv
<1>2. /\ UNCHANGED <<now, mono, alive, calling, batch, todo, batchTime, ids>>
      /\ functors # <<>> /\ functors' = Tail(functors)
      /\ Head(functors)[1] = "del" /\ delTimerInLoop(id)
  BY DEF RunDel, clockVars, batchVars
<1>3. /\ functors' \in Seq({"add", "del"} \X TimerId)
      /\ id \in TimerId /\ Queued' = Queued
      /\ \A i, j \in 1..Len(functors') :
           AddAt(i)' /\ AddAt(j)' /\ functors'[i][2] = functors'[j][2] => i = j
  BY <1>1, <1>2, QueuedTail
<1> QED
  BY <1>2, <1>3, DelInLoopInv

\* handleRead(): what is due goes from the tree to the batch.
LEMMA HandleReadInv ==
  ASSUME IInv, HandleRead
  PROVE  IInv'
<1> USE TimerQueueAssumption
<1>1. TypeOK /\ Indexed /\ Placed /\ CancelInv /\ BatchInv /\ ClockInv /\ Numbered
  BY DEF IInv
<1>2. /\ UNCHANGED <<now, mono, alive, heap, created, functors, ids, cancelled>>
      /\ ~calling /\ calling' = TRUE /\ armed' = FALSE /\ fdTime' = 0
      /\ batchTime' = now /\ batch' = {e \in tree : e[1] <= now} /\ todo' = batch'
      /\ tree' = tree \ batch' /\ deleted' = {}
      /\ active' = {id \in active : \A e \in batch' : IdOf(e[2]) # id}
  BY DEF HandleRead, clockVars
<1>3. /\ Queued' = Queued
      /\ \A i, j \in 1..Len(functors') :
           AddAt(i)' /\ AddAt(j)' /\ functors'[i][2] = functors'[j][2] => i = j
  BY <1>1, <1>2, QueuedSame
<1>4. batch = {} /\ \A e \in tree : e[2] \in Ptr /\ e = <<e[1], e[2]>>
  BY <1>1, <1>2, Live DEF BatchInv
<1>5. \A q : IdOf(q)' = IdOf(q)
  BY <1>2 DEF IdOf
\* An address has one entry in the tree.
<1>6. \A e, f \in tree : e[2] = f[2] => e = f
  BY <1>1, <1>4 DEF Indexed
<1>7. batch' \subseteq tree /\ tree' \cup batch' = tree
  BY <1>2
<1>8. TypeOK'
  BY <1>1, <1>2, <1>7 DEF TypeOK
<1>9. Indexed'
  <2>1. \A x : x \in active' <=> \E e \in tree' : x = IdOf(e[2])
    <3>1. ASSUME NEW e \in tree' PROVE IdOf(e[2]) \in active'
      <4>1. \A f \in batch' : e[2] # f[2]
        BY <1>2, <1>6
      <4> QED
        BY <1>1, <1>2, <4>1 DEF Indexed, IdOf
    <3>2. ASSUME NEW x \in active' PROVE \E e \in tree' : x = IdOf(e[2])
      BY <1>1, <1>2, <3>2 DEF Indexed
    <3> QED
      BY <3>1, <3>2
  <2>2. active' = {IdOf(e[2])' : e \in tree'}
    BY <1>5, <2>1
  <2> QED
    BY <1>1, <1>2, <1>3, <1>5, <1>7, <2>2 DEF Indexed
<1>10. Placed'
  <2>1. \A q \in Ptr : /\ InTree(q) <=> InTree(q)' \/ InBatch(q)'
                       /\ ~(InTree(q)' /\ InBatch(q)')
                       /\ InQueue(q)' <=> InQueue(q)
                       /\ ~InBatch(q)
    BY <1>2, <1>3, <1>4, <1>6, <1>7 DEF InTree, InBatch, InQueue
  <2> QED
    BY <1>1, <1>2, <2>1 DEF Placed
<1>11. CancelInv'
  <2>1. \A e \in batch' : IdOf(e[2]) \in active
    BY <1>1, <1>7 DEF Indexed
  <2> QED
    BY <1>1, <1>2, <1>3, <1>5, <2>1 DEF CancelInv, CancelSticks
<1>12. Numbered' /\ BatchInv' /\ ClockInv' /\ ArmedInv'
  BY <1>1, <1>2 DEF Numbered, BatchInv, ClockInv, ArmedInv
<1> QED
  BY <1>8, <1>9, <1>10, <1>11, <1>12 DEF IInv

\* A callback of the batch begins.
LEMMA RunTimerInv ==
  ASSUME IInv, RunTimer
  PROVE  IInv'
<1>1. TypeOK /\ Indexed /\ Placed /\ CancelInv /\ BatchInv /\ ClockInv /\ Numbered
      /\ ArmedInv
  BY DEF IInv
<1>2. /\ UNCHANGED <<now, mono, alive, heap, created, tree, active, deleted, calling,
                     batch, batchTime, armed, fdTime, functors, ids, cancelled>>
      /\ todo' \subseteq todo
  BY DEF RunTimer, clockVars, timerVars, fdVars
<1>3. Queued' = Queued
  BY <1>1, <1>2, QueuedSame
<1>4. TypeOK'
  BY <1>1, <1>2 DEF TypeOK
<1>5. Indexed'
  BY <1>1, <1>2, <1>3 DEF Indexed, AddAt, IdOf
<1>6. Placed'
  BY <1>1, <1>2, <1>3 DEF Placed, InTree, InBatch, InQueue
<1>7. CancelInv' /\ Numbered'
  BY <1>1, <1>2, <1>3 DEF CancelInv, CancelSticks, Numbered, IdOf
<1>8. ArmedInv' /\ BatchInv' /\ ClockInv'
  BY <1>1, <1>2 DEF ArmedInv, BatchInv, ClockInv, Deadline
<1> QED
  BY <1>4, <1>5, <1>6, <1>7, <1>8 DEF IInv

\* resetTimer(): what repeats goes back to the tree, the rest is freed.
LEMMA ResetTimerInv ==
  ASSUME IInv, ResetTimer
  PROVE  IInv'
<1> DEFINE Again(p) == \E e \in Restarted : e[2] = p
           ent(e) == <<heap'[e[2]].exp, e[2]>>
<1> USE TimerQueueAssumption
<1>1. TypeOK /\ Indexed /\ Placed /\ CancelInv /\ BatchInv /\ ClockInv /\ Numbered
  BY DEF IInv
<1>2. /\ UNCHANGED <<now, mono, alive, created, deleted, todo, functors, ids, cancelled>>
      /\ calling' = FALSE /\ todo = {} /\ batch' = {} /\ batchTime' = 0
      /\ heap' = [p \in Ptr |->
           IF Again(p) THEN [heap[p] EXCEPT !.exp = batchTime + heap[p].interval]
           ELSE IF InBatch(p) THEN Free ELSE heap[p]]
      /\ tree' = tree \cup {ent(e) : e \in Restarted}
      /\ active' = active \cup {IdOf(e[2]) : e \in Restarted}
      /\ tree' # {} => armed' = TRUE /\ fdTime' = Deadline(First(tree')[1])
      /\ tree' = {} => armed' = armed /\ fdTime' = fdTime
  BY DEF ResetTimer, clockVars, InBatch, updateTimerfd, fdVars
<1>3. /\ Queued' = Queued
      /\ \A i, j \in 1..Len(functors') :
           AddAt(i)' /\ AddAt(j)' /\ functors'[i][2] = functors'[j][2] => i = j
  BY <1>1, <1>2, QueuedSame
<1>4. /\ \A e \in tree \cup batch : e[2] \in Ptr
      /\ \A id \in Queued : id[1] \in Ptr
  BY <1>1, Live
<1>5. Restarted \subseteq batch /\ \A e \in Restarted : IdOf(e[2]) \notin deleted
  BY DEF Restarted
<1>6. \A p \in Ptr : Again(p) => InBatch(p) /\ ~InTree(p) /\ ~InQueue(p) /\ heap[p] # Free
  BY <1>1, <1>5 DEF InBatch, Placed
<1> HIDE DEF Again
<1>7. ASSUME NEW p \in Ptr
      PROVE  /\ heap[p] \in Timer
             /\ Again(p) => /\ heap'[p] \in Timer /\ heap'[p].seq = heap[p].seq
                            /\ heap'[p] # Free
             /\ ~Again(p) /\ InBatch(p) => heap'[p] = Free
             /\ ~InBatch(p) => heap'[p] = heap[p]
  <2>1. heap[p] \in Timer
    BY <1>1 DEF TypeOK
  <2>2. CASE Again(p)
    <3>1. heap'[p] = [heap[p] EXCEPT !.exp = batchTime + heap[p].interval]
      BY <1>2, <2>2
    <3>2. batchTime + heap[p].interval \in Nat
      <4>1. heap[p].interval \in {0} \cup Interval
        BY <2>1 DEF Timer
      <4>2. \A x \in {0} \cup Interval : batchTime + x \in Nat
        <5>1. batchTime \in Nat
          BY <1>1 DEF TypeOK
        <5>2. \A x \in {0} \cup Interval : x \in Nat
          OBVIOUS
        <5> QED
          BY <5>1, <5>2
      <4> QED
        BY <4>1, <4>2
    <3>3. heap'[p] \in Timer /\ heap'[p].seq = heap[p].seq
      BY <2>1, <3>1, <3>2 DEF Timer
    <3>4. heap[p].seq # 0
      BY <1>1, <1>6, <2>2, Live
    <3> QED
      BY <1>6, <2>1, <2>2, <3>3, <3>4 DEF Free
  <2>3. CASE ~Again(p)
    BY <1>2, <2>1, <2>3
  <2> QED
    BY <2>2, <2>3
<1>8. heap' \in [Ptr -> Timer]
  <2>1. Free \in Timer
    BY DEF Free, Timer
  <2>2. \A p \in Ptr : heap'[p] \in Timer
    BY <1>6, <1>7, <2>1
  <2> QED
    BY <1>2, <2>2
\* The timers that stay in the tree, and those that return to it.
<1>9. /\ \A e \in tree : ~InBatch(e[2]) /\ heap'[e[2]] = heap[e[2]] /\ IdOf(e[2])' = IdOf(e[2])
      /\ \A id \in Queued : ~InBatch(id[1]) /\ IdOf(id[1])' = IdOf(id[1])
  BY <1>1, <1>4, <1>7 DEF Placed, InTree, InQueue, IdOf
<1>10. \A e \in Restarted :
         /\ ent(e) \in TimerEntry /\ ent(e)[1] = heap'[e[2]].exp /\ ent(e)[2] = e[2]
         /\ e[2] \in Ptr /\ Again(e[2]) /\ IdOf(e[2])' = IdOf(e[2])
         /\ heap'[e[2]].seq # 0
  <2> SUFFICES ASSUME NEW e \in Restarted
               PROVE  /\ ent(e) \in TimerEntry /\ ent(e)[1] = heap'[e[2]].exp
                      /\ ent(e)[2] = e[2]
                      /\ e[2] \in Ptr /\ Again(e[2]) /\ IdOf(e[2])' = IdOf(e[2])
                      /\ heap'[e[2]].seq # 0
    OBVIOUS
  <2>1. e[2] \in Ptr /\ Again(e[2])
    BY <1>4, <1>5 DEF Again
  <2>2. heap'[e[2]] \in Timer /\ heap'[e[2]].seq = heap[e[2]].seq
    BY <1>7, <2>1
  <2>3. heap[e[2]].seq # 0
    BY <1>1, <1>5 DEF Indexed
  <2> QED
    BY <2>1, <2>2, <2>3 DEF TimerEntry, Timer, IdOf
<1>11. tree' \subseteq TimerEntry /\ \A e \in tree' : e \in tree \/ \E f \in Restarted : e = ent(f)
  BY <1>1, <1>2, <1>10 DEF TypeOK
<1>12. /\ \A e \in tree : e \in tree'
       /\ \A f \in Restarted : ent(f) \in tree'
  BY <1>2
<1> HIDE DEF ent
<1>13. tree' # {} => /\ First(tree') \in tree'
                     /\ \A e \in tree' : First(tree')[1] <= e[1]
  BY <1>11, FirstIsFirst
<1>14. fdTime' \in Nat /\ armed' \in BOOLEAN
  <2>1. tree' # {} => First(tree')[1] \in Nat
    BY <1>11, <1>13 DEF TimerEntry
  <2>2. tree' # {} => Deadline(First(tree')[1]) \in Nat
    BY <1>1, <2>1, DeadlineOrder
  <2> QED
    BY <1>1, <1>2, <2>2 DEF TypeOK
<1>15. TypeOK'
  <2>1. active' \in SUBSET TimerId
    <3>1. ASSUME NEW e \in Restarted PROVE IdOf(e[2]) \in TimerId
      <4>1. e[2] \in Ptr /\ heap[e[2]].seq \in 0..MaxTimers /\ heap[e[2]].seq # 0
        BY <1>1, <1>5, <1>10 DEF TypeOK, Timer, Indexed
      <4> QED
        BY <4>1 DEF IdOf, TimerId
    <3> QED
      BY <1>1, <1>2, <3>1 DEF TypeOK
  <2>2. batchTime' \in 0..MaxTime + 1
    BY <1>2
  <2> QED
    BY <1>1, <1>2, <1>8, <1>11, <1>14, <2>1, <2>2 DEF TypeOK
<1>16. Indexed'
  <2>1. \A x : x \in active' <=> \E e \in tree' : x = IdOf(e[2])'
    <3>1. ASSUME NEW x \in active' PROVE \E e \in tree' : x = IdOf(e[2])'
      <4>1. CASE x \in active
        BY <1>1, <1>9, <1>12, <4>1 DEF Indexed
      <4>2. CASE x \in {IdOf(e[2]) : e \in Restarted}
        BY <1>10, <1>12, <4>2
      <4> QED
        BY <1>2, <4>1, <4>2
    <3>2. ASSUME NEW e \in tree' PROVE IdOf(e[2])' \in active'
      <4>1. CASE e \in tree
        BY <1>1, <1>2, <1>9, <4>1 DEF Indexed
      <4>2. CASE \E f \in Restarted : e = ent(f)
        BY <1>2, <1>10, <4>2
      <4> QED
        BY <1>11, <4>1, <4>2
    <3> QED
      BY <3>1, <3>2
  <2>2. active' = {IdOf(e[2])' : e \in tree'}
    BY <2>1
  <2>3. \A e \in tree' : heap'[e[2]].seq # 0 /\ heap'[e[2]].exp = e[1]
    BY <1>1, <1>9, <1>10, <1>11 DEF Indexed
  <2>4. \A id \in Queued' : IdOf(id[1])' = id
    BY <1>1, <1>3, <1>9 DEF Indexed
  <2> QED
    BY <1>2, <1>3, <2>2, <2>3, <2>4 DEF Indexed
<1>17. Placed'
  <2>1. \A p \in Ptr : /\ InTree(p)' <=> InTree(p) \/ Again(p)
                       /\ ~InBatch(p)'
                       /\ InQueue(p)' <=> InQueue(p)
    <3>1. \A p \in Ptr : InTree(p)' => InTree(p) \/ Again(p)
      BY <1>10, <1>11 DEF InTree
    <3>2. \A p \in Ptr : Again(p) => InTree(p)'
      BY <1>10, <1>12 DEF InTree, Again
    <3> QED
      BY <1>2, <1>3, <1>12, <3>1, <3>2 DEF InTree, InBatch, InQueue
  <2>2. \A p \in Ptr : heap'[p] # Free <=> Again(p) \/ (~InBatch(p) /\ heap[p] # Free)
    BY <1>6, <1>7
  <2> QED
    BY <1>1, <1>6, <2>1, <2>2 DEF Placed
<1>18. CancelInv'
  <2>1. \A e \in Restarted : IdOf(e[2]) \notin cancelled
    BY <1>1, <1>5 DEF CancelInv
  <2> QED
    BY <1>1, <1>2, <1>3, <2>1 DEF CancelInv, CancelSticks
<1>19. Numbered'
  <2>1. \A p \in Ptr : heap'[p].seq = heap[p].seq \/ heap'[p].seq = 0
    BY <1>6, <1>7 DEF Free
  <2> QED
    BY <1>1, <1>2, <2>1 DEF Numbered, TypeOK
<1>20. BatchInv' /\ ClockInv'
  BY <1>1, <1>2 DEF BatchInv, ClockInv
<1>21. ArmedInv'
  <2> SUFFICES ASSUME tree' # {}, NEW e \in tree'
               PROVE  armed' /\ fdTime' <= Deadline(e[1])'
    BY <1>2 DEF ArmedInv
  <2>1. First(tree')[1] \in Nat /\ e[1] \in Nat /\ First(tree')[1] <= e[1]
    BY <1>11, <1>13 DEF TimerEntry
  <2>2. Deadline(First(tree')[1]) <= Deadline(e[1])
    BY <1>1, <2>1, DeadlineOrder
  <2>3. Deadline(e[1])' = Deadline(e[1])
    BY <1>2 DEF Deadline
  <2> QED
    BY <1>2, <2>2, <2>3
<1> QED
  BY <1>15, <1>16, <1>17, <1>18, <1>19, <1>20, <1>21 DEF IInv

\* ~TimerQueue(): the timers of the tree are freed.
LEMMA DestroyQueueInv ==
  ASSUME IInv, DestroyQueue
  PROVE  IInv'
<1> USE TimerQueueAssumption
<1>1. TypeOK /\ Indexed /\ Placed /\ CancelInv /\ BatchInv /\ ClockInv /\ Numbered
  BY DEF IInv
<1>2. /\ UNCHANGED <<now, mono, created, calling, batch, todo, batchTime, functors>>
      /\ ~calling /\ alive' = FALSE /\ armed' = FALSE /\ fdTime' = 0
      /\ heap' = [p \in Ptr |-> IF InTree(p) THEN Free ELSE heap[p]]
      /\ tree' = {} /\ active' = {} /\ deleted' = {} /\ ids' = {} /\ cancelled' = {}
  BY DEF DestroyQueue, batchVars, InTree
<1>3. /\ Queued' = Queued
      /\ \A i, j \in 1..Len(functors') :
           AddAt(i)' /\ AddAt(j)' /\ functors'[i][2] = functors'[j][2] => i = j
  BY <1>1, <1>2, QueuedSame
<1>4. batch = {} /\ \A id \in Queued : id[1] \in Ptr
  BY <1>1, <1>2, Live DEF BatchInv
<1>5. Free \in Timer
  BY DEF Free, Timer
<1>6. TypeOK'
  BY <1>1, <1>2, <1>5 DEF TypeOK
<1>7. Indexed'
  <2>1. \A id \in Queued : IdOf(id[1])' = IdOf(id[1])
    BY <1>1, <1>2, <1>4 DEF IdOf, Placed, InQueue
  <2> QED
    BY <1>1, <1>2, <1>3, <1>4, <2>1 DEF Indexed
<1>8. Placed'
  <2>1. \A p \in Ptr : /\ ~InTree(p)' /\ ~InBatch(p)' /\ ~InBatch(p)
                       /\ InQueue(p)' <=> InQueue(p)
    BY <1>2, <1>3, <1>4 DEF InTree, InBatch, InQueue
  <2> QED
    BY <1>1, <1>2, <2>1 DEF Placed
<1>9. Numbered'
  <2>1. \A p \in Ptr : heap'[p].seq = heap[p].seq \/ heap'[p].seq = 0
    BY <1>2 DEF Free
  <2> QED
    BY <1>1, <1>2, <2>1 DEF Numbered, TypeOK
<1>10. CancelInv' /\ BatchInv' /\ ClockInv' /\ ArmedInv'
  BY <1>1, <1>2, <1>4 DEF CancelInv, CancelSticks, BatchInv, ClockInv, ArmedInv
<1> QED
  BY <1>6, <1>7, <1>8, <1>9, <1>10 DEF IInv

\* The clocks: a deadline on the timerfd's clock does not come nearer, unless
\* the system's clock is set ahead.
LEMMA ClockStepInv ==
  ASSUME IInv, Tick \/ SetClock
  PROVE  IInv'
<1>1. TypeOK /\ Indexed /\ Placed /\ CancelInv /\ BatchInv /\ ClockInv /\ Numbered
      /\ ArmedInv
  BY DEF IInv
<1>2. UNCHANGED <<alive, heap, created, tree, active, deleted, calling, batch, todo,
                  batchTime, armed, fdTime, functors, ids, cancelled>>
  BY DEF Tick, SetClock, timerVars, batchVars, fdVars
<1>3. now \in Nat /\ mono \in Nat /\ now <= mono + 1 /\ mono <= MaxTime
  BY <1>1, TimerQueueAssumption DEF TypeOK, ClockInv
<1>4. \/ mono < MaxTime /\ mono' = mono + 1 /\ now' = now + 1
      \/ now = mono /\ mono > 0 /\ mono < MaxTime /\ mono' = mono /\ now' \in {now - 1, now + 1}
  BY <1>3, TimerQueueAssumption DEF Tick, SetClock
<1>5. now' \in 0..MaxTime + 1 /\ mono' \in 0..MaxTime /\ ClockInv'
  BY <1>3, <1>4, TimerQueueAssumption DEF ClockInv
<1>6. \A x \in Nat : Deadline(x) <= Deadline(x)' \/ now' > mono'
  BY <1>3, <1>4 DEF Deadline
<1>7. \A x \in Nat : Deadline(x) \in Nat /\ Deadline(x)' \in Nat
  <2>1. now' \in Nat /\ mono' \in Nat
    BY <1>3, <1>4
  <2>2. \A m, n, x \in Nat : (IF x <= n THEN m ELSE m + (x - n)) \in Nat
    OBVIOUS
  <2> QED
    BY <1>3, <2>1, <2>2, Zenon DEF Deadline
<1>8. now > mono => now' > mono'
  BY <1>3, <1>4
<1>9. ArmedInv'
  <2> SUFFICES ASSUME ~calling, NEW e \in tree
               PROVE  armed /\ (fdTime <= Deadline(e[1])' \/ now' > mono')
    BY <1>2 DEF ArmedInv
  <2>1. armed /\ (fdTime <= Deadline(e[1]) \/ now > mono)
    BY <1>1 DEF ArmedInv
  <2>2. e[1] \in Nat /\ fdTime \in Nat
    BY <1>1 DEF TypeOK, TimerEntry
  <2> QED
    BY <1>6, <1>7, <1>8, <2>1, <2>2
<1>10. Queued' = Queued
  BY <1>1, <1>2, QueuedSame
<1>11. TypeOK'
  BY <1>1, <1>2, <1>5, TimerQueueAssumption DEF TypeOK
<1>12. Indexed'
  BY <1>1, <1>2, <1>10 DEF Indexed, AddAt, IdOf
<1>13. Placed'
  BY <1>1, <1>2, <1>10 DEF Placed, InTree, InBatch, InQueue
<1>14. CancelInv' /\ Numbered' /\ BatchInv'
  BY <1>1, <1>2, <1>10 DEF CancelInv, CancelSticks, Numbered, BatchInv, IdOf
<1> QED
  BY <1>5, <1>9, <1>11, <1>12, <1>13, <1>14 DEF IInv

LEMMA StutterInv ==
  ASSUME IInv, UNCHANGED vars
  PROVE  IInv'
<1>1. UNCHANGED <<now, mono, alive, heap, created, tree, active, deleted, calling, batch,
                  todo, batchTime, armed, fdTime, functors, ids, cancelled>>
  BY DEF vars, clockVars, timerVars, batchVars, fdVars
<1>2. Queued' = Queued
  BY <1>1, QueuedSame DEF IInv
<1>3. TypeOK' /\ ClockInv' /\ Numbered' /\ BatchInv'
  BY <1>1 DEF IInv, TypeOK, ClockInv, Numbered, BatchInv
<1>4. Indexed' /\ Placed'
  BY <1>1, <1>2 DEF IInv, Indexed, AddAt, IdOf, Placed, InTree, InBatch, InQueue
<1>5. CancelInv' /\ ArmedInv'
  BY <1>1, <1>2 DEF IInv, CancelInv, CancelSticks, ArmedInv, Deadline, IdOf
<1> QED
  BY <1>3, <1>4, <1>5 DEF IInv

LEMMA NextInv == IInv /\ [Next]_vars => IInv'
<1> SUFFICES ASSUME IInv, [Next]_vars PROVE IInv'
  OBVIOUS
<1>1. CASE RunAdd
  BY <1>1, RunAddInv
<1>2. CASE RunDel
  BY <1>2, RunDelInv
<1>3. CASE HandleRead
  BY <1>3, HandleReadInv
<1>4. CASE RunTimer
  BY <1>4, RunTimerInv
<1>5. CASE ResetTimer
  BY <1>5, ResetTimerInv
<1>6. CASE DestroyQueue
  BY <1>6, DestroyQueueInv
<1>7. CASE Tick \/ SetClock
  BY <1>7, ClockStepInv
<1>8. ASSUME NEW p \in Ptr, NEW t \in NewTimers, AddTimer(p, t) \/ CallbackAdd(p, t)
      PROVE  IInv'
  BY <1>8, AddTimerInv, CallbackAddInv
<1>9. ASSUME NEW id \in ids, DelTimer(id) \/ CallbackDel(id)
      PROVE  IInv'
  BY <1>9, DelTimerInv, CallbackDelInv
<1>10. CASE UNCHANGED vars
  BY <1>10, StutterInv
<1> QED
  BY <1>1, <1>2, <1>3, <1>4, <1>5, <1>6, <1>7, <1>8, <1>9, <1>10 DEF Next, LoopStep

-----------------------------------------------------------------------------
(* The theorems                                                            *)

\* The inductive invariant of the timer queue.
THEOREM Invariant == Spec => []IInv
<1> QED
  BY InitInv, NextInv, PTL DEF Spec

\* timer_tree_ and active_timers_ always hold the same timers (the asserts on
\* their sizes and on every erase() in TimerQueue.cpp).
THEOREM TreeAndActiveAgree == Spec => []SameTimers
<1>1. IInv => SameTimers
  BY DEF IInv, Indexed, SameTimers
<1> QED
  BY <1>1, Invariant, PTL

\* A Timer is on the heap exactly while the tree, the batch of handleRead() or
\* a functor on its way holds it, and one of the three only: no use after
\* delete, no double delete, no leak.
THEOREM TimersOwnedOnce == Spec => []NoDangling
<1>1. IInv => NoDangling
  <2> SUFFICES ASSUME IInv, NEW p \in Ptr
               PROVE  /\ \A a, b \in PlacesOf(p) : a = b
                      /\ heap[p] # Free <=> PlacesOf(p) # {}
    BY DEF NoDangling
  <2>1. functors \in Seq({"add", "del"} \X TimerId)
    BY DEF IInv, TypeOK
  <2>2. DOMAIN functors = 1..Len(functors)
    BY <2>1, LenProperties
  <2>3. (\E i \in DOMAIN functors : functors[i][1] = "add" /\ functors[i][2][1] = p)
          <=> InQueue(p)
    BY <2>2 DEF InQueue, Queued, AddAt
  <2>4. /\ "tree" \in PlacesOf(p) <=> InTree(p)
        /\ "batch" \in PlacesOf(p) <=> InBatch(p)
        /\ "functor" \in PlacesOf(p) <=> InQueue(p)
        /\ PlacesOf(p) \subseteq {"tree", "batch", "functor"}
    BY <2>3 DEF PlacesOf, InTree, InBatch
  <2>5. /\ ~(InTree(p) /\ InBatch(p)) /\ ~(InTree(p) /\ InQueue(p))
        /\ ~(InBatch(p) /\ InQueue(p))
        /\ heap[p] # Free <=> InTree(p) \/ InBatch(p) \/ InQueue(p)
    BY DEF IInv, Placed
  <2> QED
    BY <2>4, <2>5
<1> QED
  BY <1>1, Invariant, PTL

\* Outside handleRead() the timerfd is set, in time for the first timer of the
\* tree unless the system's clock was set ahead.
THEOREM TimerfdArmed == Spec => []ArmedForFirst
<1>1. IInv => ArmedForFirst
  <2> SUFFICES ASSUME IInv, ~calling, tree # {}
               PROVE  armed /\ (fdTime <= Deadline(First(tree)[1]) \/ now > mono)
    BY DEF ArmedForFirst
  <2>1. First(tree) \in tree
    BY FirstIsFirst DEF IInv, TypeOK
  <2> QED
    BY <2>1 DEF IInv, ArmedInv
<1> QED
  BY <1>1, Invariant, PTL

\* A timer that was cancelled while it waited, or inside a callback of its own
\* batch, is not started again.
THEOREM CancelledStays == Spec => []CancelSticks
<1>1. IInv => CancelSticks
  BY DEF IInv, CancelInv
<1> QED
  BY <1>1, Invariant, PTL

\* A cancellation by TimerId never removes another timer, be it at the same
\* address.
THEOREM CancelHitsItsOwn == Spec => OnlyOwnCancel
<1> DEFINE Kept == \A id \in active \ active' :
             ~alive' \/ id \in cancelled' \/ \E e \in batch' : heap[e[2]].seq = id[2]
<1>1. IInv /\ [Next]_vars => [Kept]_vars
  <2> SUFFICES ASSUME IInv, Next, NEW id \in active \ active'
               PROVE  ~alive' \/ id \in cancelled' \/ \E e \in batch' : heap[e[2]].seq = id[2]
    OBVIOUS
  <2>1. CASE HandleRead
    <3>1. PICK e \in batch' : IdOf(e[2]) = id
      BY <2>1 DEF HandleRead
    <3>2. heap[e[2]].seq = id[2]
      BY <3>1 DEF IdOf
    <3> QED
      BY <3>2
  <2>2. CASE RunDel \/ \E x \in ids : CallbackDel(x)
    BY <2>2 DEF RunDel, CallbackDel, delTimerInLoop
  <2>3. CASE DestroyQueue
    BY <2>3 DEF DestroyQueue
  <2>4. CASE RunAdd \/ \E p \in Ptr, t \in NewTimers : CallbackAdd(p, t)
    BY <2>4 DEF RunAdd, CallbackAdd, addTimerInLoop
  <2>5. CASE ResetTimer
    BY <2>5 DEF ResetTimer
  <2>6. CASE UNCHANGED active
    BY <2>6
  <2> QED
    BY <2>1, <2>2, <2>3, <2>4, <2>5, <2>6
    DEF Next, LoopStep, RunTimer, Tick, SetClock, AddTimer, DelTimer, timerVars
<1> QED
  BY <1>1, Invariant, PTL DEF Spec, OnlyOwnCancel
=============================================================================
