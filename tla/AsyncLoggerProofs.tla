-------------------------- MODULE AsyncLoggerProofs --------------------------
(***************************************************************************)
(* TLAPS proofs about LogBufferQueue and AsyncLogger.                      *)
(*                                                                         *)
(* The queue, for any threads, lines, size of a LogBuffer, size of the     *)
(* ring and number of LogBuffers: writers own their slots, and until a     *)
(* LogBuffer is recycled the reader gets every line once, whole and in     *)
(* order.  The logger: that holds in it, whatever its threads and its      *)
(* owner do, the destructor leaves no line in the queue, the files hold    *)
(* the lines that were taken from it, and a line is decoded into what was  *)
(* logged.                                                                 *)
(***************************************************************************)
EXTENDS AsyncLogger, FiniteSetTheorems, SequenceTheorems, WellFoundedInduction, TLAPS

-----------------------------------------------------------------------------
(* LogBufferQueue: the inductive invariant                                 *)

\* The writers between their reservation and their count, and the one that
\* has completed a LogBuffer and sets up the next.
Busy == {w \in Writer : Writing(w)}
Completing(w) == pc[w] \in {"reset", "next", "publish"}
NobodyCompletes == \A w \in Writer : ~Completing(w)
AtPublish == \E w \in Writer : pc[w] = "publish"

\* The slots of the current LogBuffer that are taken.
Reserved == IF writeIndex < kSize THEN writeIndex ELSE kSize
InBuf == IF AtPublish THEN 0 ELSE Reserved

\* The types, with what is not visible in them.
Locals ==
  /\ TypeOK
  /\ \A w \in Writer :
       pc[w] \in {"reserve", "spin", "load", "item"} => line[w] \in Line
  /\ readIndex < kSize
  /\ rpc # "idle" => curR # NULL
  /\ curR = NULL \/ rpc \in {"unqueue", "recycle"} => readIndex = 0
  /\ curR # NULL /\ rpc # "recycle" => queue # <<>> /\ curR = Head(queue)

\* The counter of a LogBuffer and its writers together account for the slots
\* that are taken, so that one writer alone counts to kSize, after all others.
Counting ==
  /\ IsFiniteSet(Busy)
  /\ \A v, w \in Writer : Completing(v) /\ Completing(w) => v = w
  /\ ~NobodyCompletes => Busy = {} /\ kSize <= writeIndex
  /\ NobodyCompletes => /\ count[curW] + Cardinality(Busy) = Reserved
                        /\ count[curW] < kSize
  /\ \A w \in Writer : /\ pc[w] = "reset" => buf[w] = curW
                       /\ pc[w] \in {"next", "publish"} => count[curW] = 0
  /\ \A b \in Buf : b # curW => count[b] = 0

\* Each of them has a slot of its own, in the current LogBuffer.
Owning ==
  /\ \A w \in Busy : slot[w] < Reserved /\ (pc[w] # "load" => buf[w] = curW)
  /\ \A v, w \in Busy : slot[v] = slot[w] => v = w

\* A slot's flag is set when its line is there; the flags are never cleared.
Flagged ==
  /\ curW = allocated
  /\ \A b \in Buf, i \in Slot :
       flags[b][i] => b < curW \/ (b = curW /\ i < InBuf)
  /\ \A w \in Writer :
       pc[w] \in {"load", "item", "flag"} => ~flags[curW][slot[w]]

\* What the reader has read has its flags set.
ReadFlagged ==
  /\ curR # NULL => \A i \in Slot : i < readIndex => flags[curR][i]
  /\ rpc \in {"unqueue", "recycle"} => \A i \in Slot : flags[curR][i]
  /\ \A b \in freed, i \in Slot : flags[b][i]

\* The lines before those of the LogBuffer b; the last LogBuffer of the queue;
\* the LogBuffer that is read next.
Base(b) == (b - 1) * kSize
LastQueued == IF AtPublish THEN curW - 1 ELSE curW
ReadBuf == LastQueued - Len(queue) + (IF rpc = "unqueue" THEN 2 ELSE 1)

\* The queue holds consecutive LogBuffers, and the histories are as long as
\* the indices say.
Positions ==
  /\ \A i \in 1..Len(queue) : queue[i] = LastQueued - Len(queue) + i
  /\ Len(reserved) = Base(curW) + InBuf
  /\ Len(popped) = Base(ReadBuf) + readIndex
  /\ Len(popped) <= Len(reserved)

\* Every line that was reserved and not popped yet is in its slot, or still
\* with its writer.
Contents ==
  /\ \A b \in Buf, i \in Slot :
       flags[b][i] /\ Len(popped) <= Base(b) + i
         => items[b][i] = reserved[Base(b) + i + 1]
  /\ \A w \in Writer :
       /\ pc[w] \in {"load", "item"} => line[w] = reserved[Base(curW) + slot[w] + 1]
       /\ pc[w] = "flag" => items[curW][slot[w]] = reserved[Base(curW) + slot[w] + 1]
  /\ \A k \in 1..Len(popped) : popped[k] = reserved[k]

IInv ==
  /\ Locals /\ Counting /\ Owning /\ ReadFlagged
  /\ ~reused => Flagged /\ Positions /\ Contents

-----------------------------------------------------------------------------
(* The operators of the model                                              *)

\* The LogBuffers follow one another without a gap or an overlap.
LEMMA BaseNext ==
  ASSUME NEW b \in Int
  PROVE  Base(b) \in Int /\ Base(b + 1) = Base(b) + kSize /\ Base(1) = 0
BY LogBufferQueueAssumption DEF Base

LEMMA BaseOrder ==
  ASSUME NEW b \in Nat \ {0}, NEW c \in Nat \ {0}, b < c
  PROVE  Base(b) + kSize <= Base(c) /\ Base(b) \in Nat /\ Base(c) \in Nat
<1>1. \A m, d, k \in Nat : m * k \in Nat /\ (m + d) * k = m * k + d * k /\ d * k \in Nat
  OBVIOUS
<1>2. PICK d \in Nat : c - 1 = b + d
  <2>1. c - 1 - b \in Nat /\ c - 1 = b + (c - 1 - b)
    OBVIOUS
  <2> QED
    BY <2>1
<1>3. (c - 1) * kSize = b * kSize + d * kSize /\ d * kSize \in Nat
      /\ b * kSize \in Nat
  BY <1>1, <1>2, LogBufferQueueAssumption
<1>4. b * kSize = (b - 1) * kSize + kSize /\ (b - 1) * kSize \in Nat
  <2>1. b - 1 \in Nat /\ b = (b - 1) + 1
    OBVIOUS
  <2> QED
    BY <1>1, <2>1, LogBufferQueueAssumption
<1> QED
  BY <1>3, <1>4, LogBufferQueueAssumption DEF Base

\* What a step of one writer does to the sets of writers.
LEMMA Moves ==
  ASSUME TypeOK, NEW w \in Writer, NEW label \in WriterPC, Goto(w, label)
  PROVE  /\ pc' \in [Writer -> WriterPC] /\ pc'[w] = label
         /\ \A v \in Writer : v # w => pc'[v] = pc[v]
         /\ Writing(w)' <=> label \in {"load", "item", "flag", "count"}
         /\ Busy' = IF label \in {"load", "item", "flag", "count"}
                    THEN Busy \cup {w} ELSE Busy \ {w}
<1>1. /\ pc' \in [Writer -> WriterPC] /\ pc'[w] = label
      /\ \A v \in Writer : v # w => pc'[v] = pc[v]
  BY DEF TypeOK, Goto
<1>2. \A v \in Writer : Writing(v)' <=> IF v = w THEN label \in {"load", "item", "flag", "count"}
                                       ELSE Writing(v)
  BY <1>1 DEF Writing
<1>3. \A v : v \in Busy' <=> v \in IF label \in {"load", "item", "flag", "count"}
                                  THEN Busy \cup {w} ELSE Busy \ {w}
  BY <1>2 DEF Busy
<1> QED
  BY <1>1, <1>2, <1>3

\* A step that changes nothing but the lines that are left.
Quiet ==
  /\ UNCHANGED <<bufVars, queueVars, writerVars, readerVars, reserved, reused>>
  /\ unused' \in SUBSET Line

-----------------------------------------------------------------------------
(* The counters and the slots                                              *)

LEMMA InitInv == Init => IInv
<1> SUFFICES ASSUME Init PROVE IInv
  OBVIOUS
<1> USE LogBufferQueueAssumption DEF Init
<1>1. TypeOK
  <2>1. queue \in Seq(Buf) /\ backup \in Seq(Buf) /\ Len(backup) = 0
        /\ reserved \in Seq(Line) /\ popped \in Seq(Line \cup {Moved, Raw})
    BY DEF Buf
  <2>2. 1 \in Buf /\ 0 \in Slot /\ curR \in Buf \cup {NULL}
    BY DEF Buf, Slot, NULL
  <2>3. flags \in [Buf -> [Slot -> BOOLEAN]] /\ count \in [Buf -> 0..kSize]
        /\ items \in [Buf -> [Slot -> Line \cup {Moved, Raw}]]
    OBVIOUS
  <2>4. pc \in [Writer -> WriterPC]
    BY DEF WriterPC
  <2> QED
    BY <2>1, <2>2, <2>3, <2>4 DEF TypeOK
<1>2. Locals
  BY <1>1 DEF Locals
<1>3. Busy = {} /\ NobodyCompletes /\ ~AtPublish
  BY DEF Busy, Writing, NobodyCompletes, Completing, AtPublish
<1>4. 1 \in Buf /\ count[1] = 0
  BY DEF Buf
<1>5. Counting /\ Owning
  BY <1>3, <1>4, FS_EmptySet DEF Counting, Owning, Reserved, NobodyCompletes, Completing
<1>6. ReadFlagged /\ Flagged
  BY <1>4 DEF ReadFlagged, Flagged
<1>7. Len(queue) = 1 /\ Len(reserved) = 0 /\ Len(popped) = 0 /\ queue[1] = 1
  OBVIOUS
<1>8. LastQueued = 1 /\ ReadBuf = 1 /\ InBuf = 0 /\ Base(1) = 0
  BY <1>3, <1>7, BaseNext DEF LastQueued, ReadBuf, InBuf, Reserved
<1>9. Positions
  BY <1>7, <1>8 DEF Positions
<1>10. Contents
  BY <1>4, <1>7 DEF Contents
<1> QED
  BY <1>2, <1>5, <1>6, <1>9, <1>10 DEF IInv

\* The steps of the writers keep the account of the slots.
LEMMA WriterCounting ==
  ASSUME IInv, NEW w \in Writer, WriterStep(w) \/ \E l \in Line : Push(w, l)
  PROVE  Counting' /\ Owning'
<1> USE LogBufferQueueAssumption
<1>1. TypeOK /\ Counting /\ Owning
  BY DEF IInv, Locals
<1>2. /\ pc \in [Writer -> WriterPC] /\ slot \in [Writer -> Slot]
      /\ buf \in [Writer -> Buf] /\ curW \in Buf /\ writeIndex \in Nat
      /\ count \in [Buf -> 0..kSize]
      /\ IsFiniteSet(Busy) /\ Cardinality(Busy) \in Nat
  BY <1>1, FS_CardinalityType DEF TypeOK, Counting
<1>3. Reserved \in Nat /\ Reserved <= kSize
  BY <1>2 DEF Reserved
\* Entering push(), or leaving the spin: nothing that counts changes.
<1>4. ASSUME Goto(w, "reserve") \/ (Goto(w, "spin") /\ pc[w] = "reserve"),
             pc[w] \in {"idle", "spin", "reserve"},
             UNCHANGED <<count, curW, slot, buf>>, Reserved' = Reserved,
             kSize <= writeIndex => kSize <= writeIndex'
      PROVE  Counting' /\ Owning'
  <2>1. /\ pc'[w] \in {"reserve", "spin"} /\ \A v \in Writer : v # w => pc'[v] = pc[v]
        /\ Busy' = Busy \ {w}
    BY <1>1, <1>4, Moves DEF WriterPC
  <2>2. w \notin Busy /\ Busy' = Busy
    BY <1>4, <2>1 DEF Busy, Writing
  <2>3. \A v \in Writer : /\ Completing(v)' <=> Completing(v)
                          /\ pc'[v] \in {"reset", "next", "publish"} => pc'[v] = pc[v]
    BY <1>4, <2>1 DEF Completing
  <2>4. NobodyCompletes' <=> NobodyCompletes
    BY <2>3 DEF NobodyCompletes
  <2>5. \A v \in Busy : pc'[v] = pc[v]
    BY <2>1, <2>2 DEF Busy
  <2> QED
    BY <1>1, <1>4, <2>2, <2>3, <2>4, <2>5 DEF Counting, Owning
<1>5. CASE Spin(w)
  BY <1>4, <1>5 DEF Spin, queueVars, bufVars, Reserved
<1>6. CASE \E l \in Line : Push(w, l)
  BY <1>4, <1>6 DEF Push, queueVars, bufVars, Reserved
<1>7. CASE Reserve(w) /\ writeIndex >= kSize
  <2>1. Reserved' = Reserved /\ kSize <= writeIndex'
    BY <1>2, <1>7 DEF Reserve, Reserved
  <2> QED
    BY <1>2, <1>4, <1>7, <2>1 DEF Reserve, bufVars
\* The fetch_add that takes a slot.
<1>8. CASE Reserve(w) /\ writeIndex < kSize
  <2>1. /\ slot' = [slot EXCEPT ![w] = writeIndex] /\ Goto(w, "load")
        /\ writeIndex' = writeIndex + 1
        /\ UNCHANGED <<count, curW, buf>> /\ pc[w] = "reserve"
    BY <1>8 DEF Reserve, bufVars
  <2>2. /\ pc'[w] = "load" /\ \A v \in Writer : v # w => pc'[v] = pc[v]
        /\ Busy' = Busy \cup {w}
    BY <1>1, <2>1, Moves DEF WriterPC
  <2>3. w \notin Busy
    BY <2>1 DEF Busy, Writing
  <2>4. NobodyCompletes
    BY <1>1, <1>2, <1>8 DEF Counting
  <2>5. \A v \in Writer : ~Completing(v) /\ ~Completing(v)' /\ pc'[v] \notin {"reset", "next", "publish"}
    BY <2>2, <2>4 DEF Completing, NobodyCompletes
  <2>6. NobodyCompletes'
    BY <2>5 DEF NobodyCompletes
  <2>7. IsFiniteSet(Busy') /\ Cardinality(Busy') = Cardinality(Busy) + 1
    BY <1>2, <2>2, <2>3, FS_AddElement
  <2>8. Reserved = writeIndex /\ Reserved' = Reserved + 1
    BY <1>2, <1>8, <2>1 DEF Reserved
  <2>9. Counting'
    <3>1. count[curW] + Cardinality(Busy) = Reserved /\ count[curW] < kSize /\ count[curW] \in Nat
      BY <1>1, <1>2, <2>4 DEF Counting
    <3>2. count'[curW'] + Cardinality(Busy') = Reserved'
      <4>1. count'[curW'] = count[curW]
        BY <2>1
      <4>2. \A a, b, c \in Nat : a + b = c => a + (b + 1) = c + 1
        OBVIOUS
      <4> QED
        BY <1>2, <1>3, <2>7, <2>8, <3>1, <4>1, <4>2
    <3> QED
      BY <1>1, <2>1, <2>5, <2>6, <2>7, <3>1, <3>2 DEF Counting
  <2>10. \A v \in Busy : v \in Writer /\ v # w /\ slot'[v] = slot[v] /\ slot[v] < Reserved /\ pc'[v] = pc[v]
                         /\ slot[v] \in Nat
    BY <1>1, <1>2, <2>1, <2>2, <2>3 DEF Busy, Owning, Slot
  <2>11. slot'[w] = Reserved
    BY <1>2, <2>1, <2>8
  <2>12. \A v \in Busy' : slot'[v] < Reserved' /\ (pc'[v] # "load" => buf'[v] = curW')
    BY <1>1, <1>3, <2>1, <2>2, <2>8, <2>10, <2>11 DEF Owning
  <2>13. \A u, v \in Busy' : slot'[u] = slot'[v] => u = v
    BY <1>1, <1>3, <2>2, <2>10, <2>11 DEF Owning
  <2> QED
    BY <2>9, <2>12, <2>13 DEF Owning
\* The steps of a write.
<1>9. ASSUME NEW label \in {"item", "flag", "count"}, Goto(w, label),
             Writing(w), UNCHANGED <<count, curW, writeIndex, slot>>,
             buf' = buf \/ buf' = [buf EXCEPT ![w] = curW],
             pc[w] = "load" => buf' = [buf EXCEPT ![w] = curW]
      PROVE  Counting' /\ Owning'
  <2>1. /\ pc'[w] = label /\ \A v \in Writer : v # w => pc'[v] = pc[v]
        /\ Busy' = Busy
    BY <1>1, <1>9, Moves DEF WriterPC, Busy
  <2>2. \A v \in Writer : /\ Completing(v)' <=> Completing(v)
                          /\ pc'[v] \in {"reset", "next", "publish"} => v # w /\ pc'[v] = pc[v]
    BY <1>9, <2>1 DEF Completing, Writing
  <2>3. NobodyCompletes' <=> NobodyCompletes
    BY <2>2 DEF NobodyCompletes
  <2>4. Reserved' = Reserved /\ \A v \in Writer : v # w => buf'[v] = buf[v]
    BY <1>2, <1>9 DEF Reserved
  <2>5. w \in Busy
    BY <1>9 DEF Busy
  <2>6. buf'[w] = curW
    BY <1>1, <1>2, <1>9, <2>5 DEF Owning
  <2>7. Counting'
    BY <1>1, <1>9, <2>1, <2>2, <2>3, <2>4 DEF Counting
  <2>8. \A v \in Busy : v \in Writer
    BY DEF Busy
  <2> QED
    BY <1>1, <1>9, <2>1, <2>4, <2>6, <2>7, <2>8 DEF Owning
<1>10. CASE LoadBuffer(w)
  BY <1>9, <1>10 DEF LoadBuffer, Writing, bufVars, queueVars
<1>11. CASE WriteItem(w)
  BY <1>9, <1>11 DEF WriteItem, Writing, bufVars, queueVars
<1>12. CASE SetFlag(w)
  BY <1>9, <1>12 DEF SetFlag, Writing, bufVars, queueVars
\* The count of a line, perhaps the last one of the LogBuffer.
<1>13. CASE CountLine(w)
  <2>1. /\ pc[w] = "count" /\ w \in Busy
        /\ count' = [count EXCEPT ![buf[w]] = @ + 1]
        /\ Goto(w, IF count[buf[w]] + 1 = kSize THEN "reset" ELSE "idle")
        /\ UNCHANGED <<curW, writeIndex, slot, buf>>
    BY <1>13 DEF CountLine, queueVars, Busy, Writing
  <2>2. buf[w] = curW
    BY <1>1, <2>1 DEF Owning
  <2>3. NobodyCompletes
    BY <1>1, <2>1 DEF Counting
  <2>4. /\ count[curW] + Cardinality(Busy) = Reserved /\ count[curW] < kSize
        /\ count[curW] \in Nat /\ Cardinality(Busy) \in Nat
        /\ \A b \in Buf : b # curW => count[b] = 0
    BY <1>1, <1>2, <2>3 DEF Counting
  <2>5. IsFiniteSet(Busy \ {w}) /\ Cardinality(Busy \ {w}) = Cardinality(Busy) - 1
        /\ Cardinality(Busy \ {w}) \in Nat
    BY <1>2, <2>1, FS_RemoveElement, FS_CardinalityType
  <2>6. count'[curW] = count[curW] + 1 /\ \A b \in Buf : b # curW => count'[b] = 0
    BY <1>2, <2>1, <2>2, <2>4
  <2>7. Reserved' = Reserved /\ NobodyCompletes
    BY <2>1, <2>3 DEF Reserved
  <2>8. CASE count[curW] + 1 = kSize
    <3>1. /\ pc'[w] = "reset" /\ \A v \in Writer : v # w => pc'[v] = pc[v]
          /\ Busy' = Busy \ {w}
      BY <1>1, <2>1, <2>2, <2>8, Moves DEF WriterPC
    <3>2. Cardinality(Busy \ {w}) = 0 /\ Reserved = kSize
      BY <1>3, <2>4, <2>5, <2>8
    <3>3. Busy' = {} /\ kSize <= writeIndex
      <4>1. Busy \ {w} = {}
        BY <2>5, <3>2, FS_EmptySet
      <4>2. kSize <= writeIndex
        BY <1>2, <3>2 DEF Reserved
      <4> QED
        BY <3>1, <4>1, <4>2
    <3>4. \A v \in Writer : Completing(v)' <=> v = w
      BY <2>3, <3>1 DEF Completing, NobodyCompletes
    <3>5. \A v \in Writer : pc'[v] \in {"reset", "next", "publish"} => v = w
      BY <3>4 DEF Completing
    <3>6. ~NobodyCompletes'
      BY <3>4 DEF NobodyCompletes
    <3> QED
      BY <2>1, <2>2, <2>5, <2>6, <3>1, <3>3, <3>4, <3>5, <3>6 DEF Counting, Owning
  <2>9. CASE count[curW] + 1 # kSize
    <3>1. /\ pc'[w] = "idle" /\ \A v \in Writer : v # w => pc'[v] = pc[v]
          /\ Busy' = Busy \ {w}
      BY <1>1, <2>1, <2>2, <2>9, Moves DEF WriterPC
    <3>2. \A v \in Writer : ~Completing(v)' /\ pc'[v] \notin {"reset", "next", "publish"}
      BY <2>3, <3>1 DEF Completing, NobodyCompletes
    <3>3. NobodyCompletes'
      BY <3>2 DEF NobodyCompletes
    <3>4. count'[curW] + Cardinality(Busy') = Reserved /\ count'[curW] < kSize
      BY <2>4, <2>5, <2>6, <2>9, <3>1
    <3>5. Counting'
      BY <2>1, <2>5, <2>6, <2>7, <3>1, <3>2, <3>3, <3>4 DEF Counting
    <3>6. \A v \in Busy' : v \in Busy /\ pc'[v] = pc[v]
      BY <3>1 DEF Busy
    <3> QED
      BY <1>1, <2>1, <2>7, <3>5, <3>6 DEF Owning
  <2> QED
    BY <2>8, <2>9
\* The one writer that sets up the next LogBuffer.
<1>14. ASSUME NEW label \in {"next", "publish"}, Goto(w, label), Completing(w),
              curW' \in Buf, \A b \in Buf : count'[b] = 0, UNCHANGED <<writeIndex, slot, buf>>
       PROVE  Counting' /\ Owning'
  <2>1. /\ pc'[w] = label /\ \A v \in Writer : v # w => pc'[v] = pc[v]
        /\ Busy' = Busy \ {w}
    BY <1>1, <1>14, Moves DEF WriterPC
  <2>2. Busy = {} /\ kSize <= writeIndex /\ \A v \in Writer : Completing(v) => v = w
    BY <1>1, <1>14 DEF Counting, NobodyCompletes
  <2>3. \A v \in Writer : Completing(v)' <=> v = w
    BY <1>14, <2>1, <2>2 DEF Completing
  <2>4. ~NobodyCompletes' /\ pc'[w] # "reset" /\ IsFiniteSet({})
    BY <2>1, <2>3, FS_EmptySet DEF NobodyCompletes
  <2>5. \A v \in Writer : pc'[v] = "reset" => FALSE
    BY <2>3, <2>4 DEF Completing
  <2> QED
    BY <1>14, <2>1, <2>2, <2>3, <2>4, <2>5 DEF Counting, Owning
<1>15. CASE ResetCount(w)
  <2>1. buf[w] = curW /\ \A b \in Buf : b # curW => count[b] = 0
    BY <1>1, <1>15 DEF Counting, ResetCount
  <2>2. \A b \in Buf : count'[b] = 0
    BY <1>2, <1>15, <2>1 DEF ResetCount
  <2> QED
    BY <1>2, <1>14, <1>15, <2>2 DEF ResetCount, Completing, queueVars
<1>16. CASE NextBuffer(w)
  <2>1. curW' \in Buf
    <3>1. backup # <<>> => Head(backup) \in Buf
      BY <1>1, HeadTailProperties DEF TypeOK
    <3>2. allocated \in Buf /\ (allocated < MaxBuf => allocated + 1 \in Buf)
      BY <1>1 DEF TypeOK, Buf
    <3> QED
      BY <1>16, <3>1, <3>2 DEF NextBuffer
  <2>2. \A b \in Buf : count'[b] = 0
    BY <1>1, <1>16 DEF NextBuffer, Counting, bufVars
  <2> QED
    BY <1>14, <1>16, <2>1, <2>2 DEF NextBuffer, Completing
<1>17. CASE Publish(w)
  <2>1. /\ pc[w] = "publish" /\ Goto(w, "idle") /\ writeIndex' = 0
        /\ UNCHANGED <<count, curW, slot, buf>>
    BY <1>17 DEF Publish, bufVars
  <2>2. /\ pc'[w] = "idle" /\ \A v \in Writer : v # w => pc'[v] = pc[v]
        /\ Busy' = Busy \ {w}
    BY <1>1, <2>1, Moves DEF WriterPC
  <2>3. /\ Busy = {} /\ \A v \in Writer : Completing(v) => v = w
        /\ \A b \in Buf : count[b] = 0
    BY <1>1, <2>1 DEF Counting, NobodyCompletes, Completing
  <2>4. \A v \in Writer : ~Completing(v)' /\ pc'[v] \notin {"reset", "next", "publish"}
    BY <2>2, <2>3 DEF Completing
  <2>5. NobodyCompletes' /\ Reserved' = 0 /\ Busy' = {}
    BY <2>1, <2>2, <2>3, <2>4 DEF NobodyCompletes, Reserved
  <2> QED
    BY <1>2, <2>1, <2>3, <2>4, <2>5, FS_EmptySet DEF Counting, Owning
<1> QED
  BY <1>2, <1>5, <1>6, <1>7, <1>8, <1>10, <1>11, <1>12, <1>13, <1>15, <1>16, <1>17
  DEF WriterStep

-----------------------------------------------------------------------------
(* The types                                                               *)

\* A LogBuffer that is current, next or loaded is one of those allocated.
LEMMA WriterLocals ==
  ASSUME IInv, NEW w \in Writer, WriterStep(w) \/ \E l \in Line : Push(w, l)
  PROVE  Locals'
<1> USE LogBufferQueueAssumption
<1>1. TypeOK /\ Locals /\ Counting /\ Owning
  BY DEF IInv, Locals
<1>2. UNCHANGED readerVars
  BY DEF WriterStep, Push, Reserve, Spin, LoadBuffer, WriteItem, SetFlag, CountLine,
         ResetCount, NextBuffer, Publish
<1>3. UNCHANGED <<curR, readIndex, rpc, popped>>
  BY <1>2 DEF readerVars
\* The reader's part.
<1>4. ASSUME queue' = queue \/ queue' = Append(queue, curW) PROVE
        /\ queue' \in Seq(Buf)
        /\ curR' # NULL /\ rpc' # "recycle" => queue' # <<>> /\ curR' = Head(queue')
  <2>1. queue \in Seq(Buf) /\ curW \in Buf
    BY <1>1 DEF TypeOK
  <2>2. CASE queue' = queue
    BY <1>1, <1>3, <2>1, <2>2 DEF Locals
  <2>3. CASE queue' = Append(queue, curW)
    <3>1. queue' \in Seq(Buf) /\ queue' # <<>>
      BY <2>1, <2>3, AppendProperties
    <3>2. queue # <<>> => Head(queue') = Head(queue)
      BY <2>1, <2>3, HeadTailProperties, AppendProperties
    <3> QED
      BY <1>1, <1>3, <3>1, <3>2 DEF Locals
  <2> QED
    BY <1>4, <2>2, <2>3
\* The line of each writer.
<1>5. ASSUME NEW label \in WriterPC, Goto(w, label), line' \in [Writer -> Line \cup {Moved}],
             \A v \in Writer : v # w => line'[v] = line[v],
             label \in {"reserve", "spin", "load", "item"} => line'[w] \in Line
      PROVE  /\ pc' \in [Writer -> WriterPC]
             /\ \A v \in Writer :
                  pc'[v] \in {"reserve", "spin", "load", "item"} => line'[v] \in Line
  BY <1>1, <1>5, Moves DEF Locals
<1>6. ASSUME pc' \in [Writer -> WriterPC], line' \in [Writer -> Line \cup {Moved}],
             \A v \in Writer : pc'[v] \in {"reserve", "spin", "load", "item"} => line'[v] \in Line,
             flags' \in [Buf -> [Slot -> BOOLEAN]], count' \in [Buf -> 0..kSize],
             items' \in [Buf -> [Slot -> Line \cup {Moved, Raw}]],
             queue' = queue \/ queue' = Append(queue, curW), curW' \in Buf,
             writeIndex' \in Nat, backup' \in Seq(Buf), Len(backup') <= RingSize,
             allocated' \in Buf, freed' = freed, slot' \in [Writer -> Slot],
             buf' \in [Writer -> Buf], unused' \in SUBSET Line, reserved' \in Seq(Line),
             reused' \in BOOLEAN
      PROVE  Locals'
  <2>1. TypeOK'
    BY <1>1, <1>3, <1>4, <1>6 DEF TypeOK
  <2> QED
    BY <1>1, <1>3, <1>4, <1>6, <2>1 DEF Locals
<1>7. /\ line \in [Writer -> Line \cup {Moved}] /\ slot \in [Writer -> Slot]
      /\ buf \in [Writer -> Buf] /\ curW \in Buf /\ allocated \in Buf /\ writeIndex \in Nat
      /\ count \in [Buf -> 0..kSize] /\ flags \in [Buf -> [Slot -> BOOLEAN]]
      /\ items \in [Buf -> [Slot -> Line \cup {Moved, Raw}]]
      /\ backup \in Seq(Buf) /\ Len(backup) <= RingSize /\ queue \in Seq(Buf)
      /\ unused \in SUBSET Line /\ reserved \in Seq(Line) /\ reused \in BOOLEAN
  BY <1>1 DEF TypeOK
<1>8. \A v \in Writer : pc[v] \in {"reserve", "spin", "load", "item"} => line[v] \in Line
  BY <1>1 DEF Locals
<1>9. CASE \E l \in Line : Push(w, l)
  <2>1. PICK l \in Line : Push(w, l)
    BY <1>9
  <2>2. line' = [line EXCEPT ![w] = l] /\ Goto(w, "reserve")
        /\ UNCHANGED <<flags, count, items, queue, curW, writeIndex, backup, allocated, freed,
                       slot, buf, reserved, reused>>
        /\ unused' \in SUBSET Line
    BY <1>7, <2>1 DEF Push, bufVars, queueVars
  <2>3. /\ line' \in [Writer -> Line \cup {Moved}] /\ line'[w] \in Line
        /\ \A v \in Writer : v # w => line'[v] = line[v]
    BY <1>7, <2>2
  <2> QED
    BY <1>5, <1>6, <1>7, <2>2, <2>3 DEF WriterPC
<1>10. CASE Reserve(w)
  <2>1. /\ pc[w] = "reserve" /\ UNCHANGED <<flags, count, items, queue, curW, backup, allocated,
                                            freed, line, buf, unused, reused>>
        /\ writeIndex' \in Nat
        /\ Goto(w, "load") \/ Goto(w, "spin")
    BY <1>7, <1>10 DEF Reserve, bufVars
  <2>2. slot' \in [Writer -> Slot] /\ reserved' \in Seq(Line)
    <3>1. CASE writeIndex < kSize
      <4>1. writeIndex \in Slot
        BY <1>7, <3>1 DEF Slot
      <4>2. Append(reserved, line[w]) \in Seq(Line)
        BY <1>7, <1>8, <2>1, AppendProperties
      <4> QED
        BY <1>7, <1>10, <3>1, <4>1, <4>2 DEF Reserve
    <3>2. CASE ~(writeIndex < kSize)
      BY <1>7, <1>10, <3>2 DEF Reserve
    <3> QED
      BY <3>1, <3>2
  <2> QED
    BY <1>5, <1>6, <1>7, <1>8, <2>1, <2>2 DEF WriterPC
<1>11. CASE Spin(w)
  BY <1>5, <1>6, <1>7, <1>8, <1>11 DEF Spin, bufVars, queueVars, history, WriterPC
<1>12. CASE LoadBuffer(w)
  <2>1. buf' \in [Writer -> Buf] /\ line[w] \in Line
    BY <1>7, <1>8, <1>12 DEF LoadBuffer
  <2> QED
    BY <1>5, <1>6, <1>7, <1>12, <2>1 DEF LoadBuffer, bufVars, queueVars, history, WriterPC
<1>13. CASE WriteItem(w)
  <2>1. /\ items' = [items EXCEPT ![buf[w]][slot[w]] = line[w]]
        /\ line' = [line EXCEPT ![w] = Moved] /\ Goto(w, "flag")
        /\ UNCHANGED <<flags, count, queue, curW, writeIndex, backup, allocated, freed,
                       slot, buf, unused, reserved, reused>>
    BY <1>13 DEF WriteItem, queueVars, history
  <2>2. buf[w] \in Buf /\ slot[w] \in Slot /\ line[w] \in Line \cup {Moved, Raw}
    BY <1>7
  <2>3. items' \in [Buf -> [Slot -> Line \cup {Moved, Raw}]]
    BY <1>7, <2>1, <2>2
  <2>4. /\ line' \in [Writer -> Line \cup {Moved}]
        /\ \A v \in Writer : v # w => line'[v] = line[v]
    BY <1>7, <2>1
  <2> QED
    BY <1>5, <1>6, <1>7, <2>1, <2>3, <2>4 DEF WriterPC
<1>14. CASE SetFlag(w)
  <2>1. flags' \in [Buf -> [Slot -> BOOLEAN]]
    BY <1>7, <1>14 DEF SetFlag
  <2> QED
    BY <1>5, <1>6, <1>7, <1>14, <2>1 DEF SetFlag, queueVars, history, WriterPC
<1>15. CASE CountLine(w)
  <2>1. w \in Busy /\ Goto(w, IF count[buf[w]] + 1 = kSize THEN "reset" ELSE "idle")
        /\ UNCHANGED <<flags, items, queue, curW, writeIndex, backup, allocated, freed,
                       line, slot, buf, unused, reserved, reused>>
        /\ count' = [count EXCEPT ![buf[w]] = @ + 1]
    BY <1>15 DEF CountLine, Busy, Writing, queueVars, history
  <2>2. buf[w] = curW /\ NobodyCompletes
    BY <1>1, <1>15, <2>1 DEF Owning, Counting, CountLine
  <2>3. count[buf[w]] < kSize /\ count[buf[w]] \in Nat
    BY <1>1, <1>7, <2>2 DEF Counting
  <2>4. count' \in [Buf -> 0..kSize]
    BY <1>7, <2>1, <2>3
  <2> QED
    BY <1>5, <1>6, <1>7, <2>1, <2>4 DEF WriterPC
<1>16. CASE ResetCount(w)
  <2>1. count' \in [Buf -> 0..kSize]
    BY <1>7, <1>16 DEF ResetCount
  <2> QED
    BY <1>5, <1>6, <1>7, <1>16, <2>1 DEF ResetCount, queueVars, history, WriterPC
<1>17. CASE NextBuffer(w)
  <2>1. curW' \in Buf /\ allocated' \in Buf /\ backup' \in Seq(Buf) /\ Len(backup') <= RingSize
        /\ reused' \in BOOLEAN
    <3>1. CASE backup # <<>>
      <4>1. Head(backup) \in Buf /\ Tail(backup) \in Seq(Buf) /\ Len(Tail(backup)) = Len(backup) - 1
            /\ Len(backup) \in Nat
        BY <1>7, <3>1, HeadTailProperties, LenProperties
      <4>2. Len(Tail(backup)) <= RingSize
        BY <1>7, <4>1
      <4>3. /\ curW' = Head(backup) /\ backup' = Tail(backup) /\ reused' = TRUE
            /\ allocated' = allocated
        BY <1>17, <3>1 DEF NextBuffer
      <4> QED
        BY <1>7, <4>1, <4>2, <4>3
    <3>2. CASE backup = <<>>
      <4>1. allocated < MaxBuf => allocated + 1 \in Buf
        BY <1>7 DEF Buf
      <4> QED
        BY <1>7, <1>17, <3>2, <4>1 DEF NextBuffer
    <3> QED
      BY <3>1, <3>2
  <2> QED
    BY <1>5, <1>6, <1>7, <1>17, <2>1 DEF NextBuffer, bufVars, WriterPC
<1>18. CASE Publish(w)
  BY <1>5, <1>6, <1>7, <1>18 DEF Publish, bufVars, history, WriterPC
<1> QED
  BY <1>9, <1>10, <1>11, <1>12, <1>13, <1>14, <1>15, <1>16, <1>17, <1>18 DEF WriterStep

LEMMA ReaderLocals ==
  ASSUME IInv, ReaderStep
  PROVE  Locals'
<1> USE LogBufferQueueAssumption
<1>1. TypeOK /\ Locals
  BY DEF IInv, Locals
<1>2. UNCHANGED <<flags, count, curW, writeIndex, allocated, pc, line, slot, buf,
                  unused, reserved, reused>>
  BY DEF ReaderStep, GetBuffer, TakeLine, NothingToTake, Unqueue, Recycle, bufVars,
         queueVars, writerVars, history
<1>3. ASSUME items' \in [Buf -> [Slot -> Line \cup {Moved, Raw}]],
             queue' \in Seq(Buf), backup' \in Seq(Buf), Len(backup') <= RingSize,
             freed' \in SUBSET Buf, curR' \in Buf \cup {NULL}, readIndex' \in 0..kSize,
             readIndex' < kSize, rpc' \in {"idle", "try", "unqueue", "recycle"},
             popped' \in Seq(Line \cup {Moved, Raw}), rpc' # "idle" => curR' # NULL,
             curR' = NULL \/ rpc' \in {"unqueue", "recycle"} => readIndex' = 0,
             curR' # NULL /\ rpc' # "recycle" => queue' # <<>> /\ curR' = Head(queue')
      PROVE  Locals'
  <2>1. TypeOK'
    BY <1>1, <1>2, <1>3 DEF TypeOK
  <2> QED
    BY <1>1, <1>2, <1>3, <2>1 DEF Locals
<1>4. /\ items \in [Buf -> [Slot -> Line \cup {Moved, Raw}]]
      /\ queue \in Seq(Buf) /\ backup \in Seq(Buf) /\ Len(backup) <= RingSize
      /\ freed \in SUBSET Buf /\ curR \in Buf \cup {NULL} /\ readIndex \in 0..kSize
      /\ readIndex < kSize /\ popped \in Seq(Line \cup {Moved, Raw})
      /\ rpc # "idle" => curR # NULL /\ curR \in Buf
      /\ curR = NULL \/ rpc \in {"unqueue", "recycle"} => readIndex = 0
      /\ curR # NULL /\ rpc # "recycle" => queue # <<>> /\ curR = Head(queue)
  BY <1>1 DEF TypeOK, Locals
<1>5. CASE GetBuffer
  <2>1. queue # <<>> => Head(queue) \in Buf
    BY <1>4, HeadTailProperties
  <2>2. curR' \in Buf \cup {NULL}
    BY <1>4, <1>5, <2>1 DEF GetBuffer
  <2>3. /\ rpc' # "idle" => curR' # NULL /\ rpc' = "try"
        /\ rpc' \in {"idle", "try"} /\ (curR' = NULL => curR = NULL)
        /\ curR' # NULL => queue # <<>> /\ curR' = Head(queue)
    BY <1>4, <1>5 DEF GetBuffer
  <2> QED
    BY <1>3, <1>4, <1>5, <2>2, <2>3 DEF GetBuffer, bufVars, queueVars
<1>6. CASE TakeLine
  <2>1. curR \in Buf /\ readIndex \in Slot
    BY <1>4, <1>6 DEF TakeLine, Slot
  <2>2. /\ items' \in [Buf -> [Slot -> Line \cup {Moved, Raw}]]
        /\ items[curR][readIndex] \in Line \cup {Moved, Raw}
    BY <1>4, <1>6, <2>1 DEF TakeLine
  <2>3. popped' \in Seq(Line \cup {Moved, Raw})
    BY <1>4, <1>6, <2>2, AppendProperties DEF TakeLine
  <2>4. /\ readIndex' \in 0..kSize /\ readIndex' < kSize
        /\ rpc' \in {"idle", "unqueue"} /\ (rpc' = "unqueue" => readIndex' = 0)
    BY <1>4, <1>6 DEF TakeLine
  <2>5. UNCHANGED <<queue, backup, freed, curR>> /\ rpc = "try"
    BY <1>6 DEF TakeLine, queueVars
  <2> QED
    BY <1>3, <1>4, <2>2, <2>3, <2>4, <2>5
<1>7. CASE NothingToTake
  BY <1>3, <1>4, <1>7 DEF NothingToTake, bufVars, queueVars
<1>8. CASE Unqueue
  <2>1. Tail(queue) \in Seq(Buf)
    BY <1>4, <1>8, HeadTailProperties DEF Unqueue
  <2> QED
    BY <1>3, <1>4, <1>8, <2>1 DEF Unqueue, bufVars
<1>9. CASE Recycle
  <2>1. curR \in Buf
    BY <1>4, <1>9 DEF Recycle
  <2>2. backup' \in Seq(Buf) /\ Len(backup') <= RingSize /\ freed' \in SUBSET Buf
    <3>1. Append(backup, curR) \in Seq(Buf) /\ Len(Append(backup, curR)) = Len(backup) + 1
          /\ Len(backup) \in Nat
      BY <1>4, <2>1, AppendProperties, LenProperties
    <3>2. CASE Len(backup) < RingSize
      <4>1. Len(Append(backup, curR)) <= RingSize
        BY <3>1, <3>2
      <4>2. backup' = Append(backup, curR) /\ freed' = freed
        BY <1>9, <3>2 DEF Recycle
      <4> QED
        BY <1>4, <3>1, <4>1, <4>2
    <3>3. CASE ~(Len(backup) < RingSize)
      BY <1>4, <1>9, <2>1, <3>3 DEF Recycle
    <3> QED
      BY <3>2, <3>3
  <2> QED
    BY <1>3, <1>4, <1>9, <2>2 DEF Recycle, bufVars
<1> QED
  BY <1>5, <1>6, <1>7, <1>8, <1>9 DEF ReaderStep

-----------------------------------------------------------------------------
(* The flags                                                               *)

\* No step clears a flag, so what the reader has seen stays.
LEMMA ReadFlaggedInv ==
  ASSUME IInv, ReaderStep \/ \E w \in Writer : WriterStep(w) \/ \E l \in Line : Push(w, l)
  PROVE  ReadFlagged'
<1> USE LogBufferQueueAssumption
<1>1. TypeOK /\ Locals /\ ReadFlagged
  BY DEF IInv, Locals
<1>2. /\ flags \in [Buf -> [Slot -> BOOLEAN]] /\ readIndex \in 0..kSize
      /\ curR \in Buf \cup {NULL} /\ freed \in SUBSET Buf /\ readIndex < kSize
      /\ rpc # "idle" => curR # NULL
  BY <1>1 DEF TypeOK, Locals
<1>3. CASE \E w \in Writer : WriterStep(w) \/ \E l \in Line : Push(w, l)
  <2>1. PICK w \in Writer : WriterStep(w) \/ \E l \in Line : Push(w, l)
    BY <1>3
  <2>2. UNCHANGED <<curR, readIndex, rpc, freed>>
    BY <2>1 DEF WriterStep, Push, Reserve, Spin, LoadBuffer, WriteItem, SetFlag, CountLine,
                ResetCount, NextBuffer, Publish, readerVars, queueVars
  <2>3. flags' = flags \/ SetFlag(w)
    BY <2>1 DEF WriterStep, Push, Reserve, Spin, LoadBuffer, WriteItem, CountLine,
                ResetCount, NextBuffer, Publish, bufVars
  <2>4. \A b \in Buf, i \in Slot : flags[b][i] => flags'[b][i]
    BY <1>2, <2>3 DEF SetFlag
  <2> QED
    BY <1>1, <1>2, <2>2, <2>4 DEF ReadFlagged
<1>4. CASE ReaderStep
  <2>1. flags' = flags
    BY <1>4 DEF ReaderStep, GetBuffer, TakeLine, NothingToTake, Unqueue, Recycle, bufVars
  <2>2. CASE GetBuffer
    <3>1. UNCHANGED <<readIndex, freed>> /\ rpc' \in {"idle", "try"}
          /\ (curR # NULL => curR' = curR)
      BY <2>2 DEF GetBuffer, queueVars
    <3>2. curR = NULL => readIndex = 0 /\ \A i \in Slot : ~(i < 0)
      BY <1>1 DEF Locals, Slot
    <3> QED
      BY <1>1, <2>1, <3>1, <3>2 DEF ReadFlagged
  <2>3. CASE TakeLine
    <3>1. /\ flags[curR][readIndex] /\ UNCHANGED <<curR, freed>> /\ rpc = "try"
          /\ IF readIndex + 1 = kSize THEN readIndex' = 0 /\ rpc' = "unqueue"
             ELSE readIndex' = readIndex + 1 /\ rpc' = "idle"
      BY <2>3 DEF TakeLine, queueVars
    <3>2. \A i \in Slot : i < readIndex + 1 => flags[curR][i]
      <4>1. \A i \in Slot : i < readIndex + 1 => i < readIndex \/ i = readIndex
        BY <1>2 DEF Slot
      <4> QED
        BY <1>1, <1>2, <3>1, <4>1 DEF ReadFlagged
    <3>3. \A i \in Slot : i < kSize /\ ~(i < 0)
      BY DEF Slot
    <3>4. CASE readIndex + 1 = kSize
      BY <1>1, <2>1, <3>1, <3>2, <3>3, <3>4 DEF ReadFlagged
    <3>5. CASE readIndex + 1 # kSize
      BY <1>1, <2>1, <3>1, <3>2, <3>5 DEF ReadFlagged
    <3> QED
      BY <3>4, <3>5
  <2>4. CASE NothingToTake
    BY <1>1, <2>1, <2>4 DEF ReadFlagged, NothingToTake, queueVars
  <2>5. CASE Unqueue
    BY <1>1, <2>1, <2>5 DEF ReadFlagged, Unqueue
  <2>6. CASE Recycle
    <3>1. freed' \subseteq freed \cup {curR} /\ curR' = NULL /\ rpc = "recycle" /\ rpc' = "idle"
      BY <2>6 DEF Recycle
    <3> QED
      BY <1>1, <2>1, <3>1 DEF ReadFlagged
  <2> QED
    BY <1>4, <2>2, <2>3, <2>4, <2>5, <2>6 DEF ReaderStep
<1> QED
  BY <1>3, <1>4

\* InBuf and LastQueued change only when the current LogBuffer does.
LEMMA SamePublish ==
  ASSUME TypeOK, NEW w \in Writer, NEW label \in WriterPC, Goto(w, label),
         pc[w] # "publish", label # "publish"
  PROVE  AtPublish' <=> AtPublish
<1>1. pc'[w] = label /\ \A v \in Writer : v # w => pc'[v] = pc[v]
  BY Moves
<1> QED
  BY <1>1 DEF AtPublish

\* Until a LogBuffer is recycled, a flag is set for a line that is there.
LEMMA WriterFlagged ==
  ASSUME IInv, NEW w \in Writer, WriterStep(w) \/ \E l \in Line : Push(w, l), ~reused'
  PROVE  Flagged'
<1> USE LogBufferQueueAssumption
<1>1. ~reused
  BY DEF WriterStep, Push, Reserve, Spin, LoadBuffer, WriteItem, SetFlag, CountLine,
         ResetCount, NextBuffer, Publish, history
<1>2. TypeOK /\ Counting /\ Owning /\ Flagged
  BY <1>1 DEF IInv, Locals
<1>3. /\ flags \in [Buf -> [Slot -> BOOLEAN]] /\ writeIndex \in Nat /\ curW \in Buf
      /\ slot \in [Writer -> Slot] /\ buf \in [Writer -> Buf] /\ allocated \in Buf
  BY <1>2 DEF TypeOK
<1>4. Reserved \in 0..kSize /\ InBuf \in 0..kSize
  BY <1>3 DEF Reserved, InBuf
\* Steps that touch neither the flags nor the current LogBuffer.
<1>5. ASSUME NEW label \in WriterPC, Goto(w, label), UNCHANGED <<flags, curW, allocated, slot>>,
             InBuf' = InBuf,
             label \in {"load", "item", "flag"} => pc[w] \in {"load", "item", "flag"}
      PROVE  Flagged'
  <2>1. pc'[w] = label /\ \A v \in Writer : v # w => pc'[v] = pc[v]
    BY <1>2, <1>5, Moves
  <2> QED
    BY <1>2, <1>5, <2>1 DEF Flagged
<1>6. CASE \E l \in Line : Push(w, l)
  <2>1. /\ Goto(w, "reserve") /\ pc[w] = "idle"
        /\ UNCHANGED <<flags, curW, allocated, slot, writeIndex>>
    BY <1>6 DEF Push, bufVars, queueVars
  <2>2. InBuf' = InBuf
    BY <1>2, <2>1, SamePublish DEF InBuf, Reserved, WriterPC
  <2> QED
    BY <1>5, <2>1, <2>2 DEF WriterPC
<1>7. CASE Spin(w)
  <2>1. /\ Goto(w, "reserve") /\ pc[w] = "spin"
        /\ UNCHANGED <<flags, curW, allocated, slot, writeIndex>>
    BY <1>7 DEF Spin, bufVars, queueVars
  <2>2. InBuf' = InBuf
    BY <1>2, <2>1, SamePublish DEF InBuf, Reserved, WriterPC
  <2> QED
    BY <1>5, <2>1, <2>2 DEF WriterPC
<1>8. CASE Reserve(w) /\ ~(writeIndex < kSize)
  <2>1. /\ Goto(w, "spin") /\ pc[w] = "reserve" /\ writeIndex' = writeIndex + 1
        /\ UNCHANGED <<flags, curW, allocated, slot>>
    BY <1>8 DEF Reserve, bufVars
  <2>2. Reserved' = Reserved
    BY <1>3, <1>8, <2>1 DEF Reserved
  <2>3. InBuf' = InBuf
    BY <1>2, <2>1, <2>2, SamePublish DEF InBuf, WriterPC
  <2> QED
    BY <1>5, <2>1, <2>3 DEF WriterPC
<1>9. CASE Reserve(w) /\ writeIndex < kSize
  <2>1. /\ Goto(w, "load") /\ pc[w] = "reserve" /\ writeIndex' = writeIndex + 1
        /\ slot' = [slot EXCEPT ![w] = writeIndex] /\ UNCHANGED <<flags, curW, allocated>>
    BY <1>9 DEF Reserve, bufVars
  <2>2. NobodyCompletes
    BY <1>2, <1>3, <1>9 DEF Counting
  <2>3. ~AtPublish /\ (AtPublish' <=> AtPublish)
    BY <1>2, <2>1, <2>2, SamePublish DEF NobodyCompletes, Completing, AtPublish, WriterPC
  <2>4. InBuf = writeIndex /\ InBuf' = writeIndex + 1
    BY <1>3, <1>9, <2>1, <2>3 DEF InBuf, Reserved
  <2>5. pc'[w] = "load" /\ \A v \in Writer : v # w => pc'[v] = pc[v] /\ slot'[v] = slot[v]
    BY <1>2, <1>3, <2>1, Moves DEF WriterPC
  <2>6. slot'[w] = writeIndex /\ writeIndex \in Slot
    BY <1>3, <1>9, <2>1 DEF Slot
  <2>7. ~flags[curW][writeIndex]
    BY <1>2, <1>3, <2>4, <2>6 DEF Flagged, Buf
  <2>8. \A b \in Buf, i \in Slot : flags[b][i] => b < curW \/ (b = curW /\ i < InBuf')
    <3>1. \A i \in Slot : i < InBuf => i < InBuf'
      BY <1>3, <2>4 DEF Slot
    <3> QED
      BY <1>2, <3>1 DEF Flagged
  <2> QED
    BY <1>2, <2>1, <2>5, <2>6, <2>7, <2>8 DEF Flagged
<1>10. CASE LoadBuffer(w)
  <2>1. /\ Goto(w, "item") /\ pc[w] = "load"
        /\ UNCHANGED <<flags, curW, allocated, slot, writeIndex>>
    BY <1>10 DEF LoadBuffer, bufVars, queueVars
  <2>2. InBuf' = InBuf
    BY <1>2, <2>1, SamePublish DEF InBuf, Reserved, WriterPC
  <2> QED
    BY <1>5, <2>1, <2>2 DEF WriterPC
<1>11. CASE WriteItem(w)
  <2>1. /\ Goto(w, "flag") /\ pc[w] = "item"
        /\ UNCHANGED <<flags, curW, allocated, slot, writeIndex>>
    BY <1>11 DEF WriteItem, bufVars, queueVars
  <2>2. InBuf' = InBuf
    BY <1>2, <2>1, SamePublish DEF InBuf, Reserved, WriterPC
  <2> QED
    BY <1>5, <2>1, <2>2 DEF WriterPC
<1>12. CASE SetFlag(w)
  <2>1. /\ Goto(w, "count") /\ pc[w] = "flag" /\ w \in Busy
        /\ flags' = [flags EXCEPT ![buf[w]][slot[w]] = TRUE]
        /\ UNCHANGED <<curW, allocated, slot, writeIndex>>
    BY <1>12 DEF SetFlag, queueVars, Busy, Writing
  <2>2. InBuf' = InBuf
    BY <1>2, <2>1, SamePublish DEF InBuf, Reserved, WriterPC
  <2>3. pc'[w] = "count" /\ \A v \in Writer : v # w => pc'[v] = pc[v]
    BY <1>2, <2>1, Moves DEF WriterPC
  <2>4. buf[w] = curW /\ slot[w] < Reserved /\ NobodyCompletes
    BY <1>2, <2>1 DEF Owning, Counting
  <2>5. slot[w] < InBuf
    BY <2>4 DEF InBuf, AtPublish, NobodyCompletes, Completing
  <2>6. \A b \in Buf, i \in Slot : flags'[b][i] <=> flags[b][i] \/ (b = curW /\ i = slot[w])
    BY <1>3, <2>1, <2>4
  <2>7. \A v \in Writer : v # w /\ pc[v] \in {"load", "item", "flag"} => slot[v] # slot[w]
    BY <1>2, <2>1 DEF Owning, Busy, Writing
  <2>8. \A v \in Writer : pc'[v] \in {"load", "item", "flag"} => ~flags'[curW][slot[v]]
    BY <1>2, <1>3, <2>3, <2>6, <2>7 DEF Flagged
  <2> QED
    BY <1>2, <1>3, <2>1, <2>2, <2>5, <2>6, <2>8 DEF Flagged
<1>13. CASE CountLine(w) \/ ResetCount(w)
  <2>1. /\ UNCHANGED <<flags, curW, allocated, slot, writeIndex>>
        /\ pc[w] # "publish"
        /\ Goto(w, "reset") \/ Goto(w, "idle") \/ Goto(w, "next")
    BY <1>13 DEF CountLine, ResetCount, queueVars
  <2>2. InBuf' = InBuf
    BY <1>2, <2>1, SamePublish DEF InBuf, Reserved, WriterPC
  <2> QED
    BY <1>5, <2>1, <2>2 DEF WriterPC
<1>14. CASE NextBuffer(w)
  <2>1. /\ Goto(w, "publish") /\ pc[w] = "next" /\ UNCHANGED <<flags, slot>>
        /\ curW' = allocated + 1 /\ allocated' = allocated + 1
    BY <1>14 DEF NextBuffer, bufVars
  <2>2. Busy = {}
    BY <1>2, <2>1 DEF Counting, NobodyCompletes, Completing
  <2>3. pc'[w] = "publish" /\ \A v \in Writer : v # w => pc'[v] = pc[v]
    BY <1>2, <2>1, Moves DEF WriterPC
  <2>4. \A v \in Writer : pc'[v] \notin {"load", "item", "flag"}
    BY <2>2, <2>3 DEF Busy, Writing
  <2>5. \A b \in Buf, i \in Slot : flags[b][i] => b < curW'
    BY <1>2, <1>3, <2>1 DEF Flagged, Buf
  <2> QED
    BY <2>1, <2>4, <2>5 DEF Flagged
<1>15. CASE Publish(w)
  <2>1. /\ Goto(w, "idle") /\ pc[w] = "publish" /\ UNCHANGED <<flags, slot, curW, allocated>>
        /\ writeIndex' = 0
    BY <1>15 DEF Publish, bufVars
  <2>2. Reserved' = 0 /\ InBuf = 0
    BY <2>1 DEF Reserved, InBuf, AtPublish
  <2>3. InBuf' = InBuf
    BY <2>2 DEF InBuf
  <2> QED
    BY <1>5, <2>1, <2>3 DEF WriterPC
<1> QED
  BY <1>6, <1>7, <1>8, <1>9, <1>10, <1>11, <1>12, <1>13, <1>14, <1>15 DEF WriterStep

-----------------------------------------------------------------------------
(* The order of the lines                                                  *)

\* The types of the positions.
LEMMA PositionTypes ==
  ASSUME IInv
  PROVE  /\ curW \in Nat \ {0} /\ InBuf \in 0..kSize /\ LastQueued \in Int /\ ReadBuf \in Int
         /\ Len(queue) \in Nat /\ Len(reserved) \in Nat /\ Len(popped) \in Nat
         /\ Base(curW) \in Nat /\ readIndex \in Nat /\ readIndex < kSize
         /\ \A b \in Buf : b \in Nat \ {0} /\ Base(b) \in Nat
         /\ \A i \in Slot : i \in Nat /\ i < kSize
<1> USE LogBufferQueueAssumption
<1>1. TypeOK /\ readIndex < kSize
  BY DEF IInv, Locals
<1>2. curW \in Nat \ {0} /\ writeIndex \in Nat /\ readIndex \in Nat
  BY <1>1 DEF TypeOK, Buf
<1>3. Len(queue) \in Nat /\ Len(reserved) \in Nat /\ Len(popped) \in Nat
  BY <1>1, LenProperties DEF TypeOK
<1>4. InBuf \in 0..kSize
  BY <1>2 DEF InBuf, Reserved
<1>5. LastQueued \in Int
  BY <1>2 DEF LastQueued
<1>6. ReadBuf \in Int
  BY <1>3, <1>5 DEF ReadBuf
<1>7. \A b \in Nat \ {0} : Base(b) \in Nat
  <2> SUFFICES ASSUME NEW b \in Nat \ {0} PROVE Base(b) \in Nat
    OBVIOUS
  <2>1. b + 1 \in Nat \ {0} /\ b < b + 1
    OBVIOUS
  <2> QED
    BY <2>1, BaseOrder
<1>8. \A b \in Buf : b \in Nat \ {0}
  BY DEF Buf
<1>9. \A i \in Slot : i \in Nat /\ i < kSize
  BY DEF Slot
<1> QED
  BY <1>1, <1>2, <1>3, <1>4, <1>5, <1>6, <1>7, <1>8, <1>9

LEMMA WriterPositions ==
  ASSUME IInv, NEW w \in Writer, WriterStep(w) \/ \E l \in Line : Push(w, l), ~reused'
  PROVE  Positions'
<1> USE LogBufferQueueAssumption
<1>1. ~reused /\ UNCHANGED <<rpc, readIndex, popped>>
  BY DEF WriterStep, Push, Reserve, Spin, LoadBuffer, WriteItem, SetFlag, CountLine,
         ResetCount, NextBuffer, Publish, history, readerVars
<1>2. TypeOK /\ Counting /\ Flagged /\ Positions
  BY <1>1 DEF IInv, Locals
<1>3. /\ curW \in Nat \ {0} /\ InBuf \in 0..kSize /\ LastQueued \in Int /\ ReadBuf \in Int
      /\ Len(queue) \in Nat /\ Len(reserved) \in Nat /\ Len(popped) \in Nat
      /\ Base(curW) \in Nat /\ writeIndex \in Nat /\ queue \in Seq(Buf) /\ curW \in Buf
      /\ reserved \in Seq(Line)
  BY <1>2, PositionTypes DEF TypeOK
<1>4. ASSUME UNCHANGED <<queue, reserved, curW>>, InBuf' = InBuf, LastQueued' = LastQueued
      PROVE  Positions'
  <2>1. ReadBuf' = ReadBuf
    BY <1>1, <1>4 DEF ReadBuf
  <2>2. Base(ReadBuf)' = Base(ReadBuf) /\ Base(curW)' = Base(curW)
    BY <1>4, <2>1 DEF Base
  <2> QED
    BY <1>1, <1>2, <1>4, <2>2 DEF Positions
<1>5. CASE ~(Reserve(w) \/ NextBuffer(w) \/ Publish(w))
  <2>1. /\ UNCHANGED <<queue, reserved, curW, writeIndex>> /\ pc[w] # "publish"
        /\ \E label \in WriterPC \ {"publish"} : Goto(w, label)
    BY <1>5 DEF WriterStep, Push, Spin, LoadBuffer, WriteItem, SetFlag, CountLine,
                ResetCount, queueVars, history, WriterPC
  <2>2. AtPublish' <=> AtPublish
    BY <1>2, <2>1, SamePublish
  <2>3. InBuf' = InBuf /\ LastQueued' = LastQueued
    BY <2>1, <2>2 DEF InBuf, Reserved, LastQueued
  <2> QED
    BY <1>4, <2>1, <2>3
<1>6. CASE Reserve(w) /\ ~(writeIndex < kSize)
  <2>1. /\ Goto(w, "spin") /\ pc[w] = "reserve" /\ writeIndex' = writeIndex + 1
        /\ UNCHANGED <<queue, curW, reserved>>
    BY <1>6 DEF Reserve
  <2>2. Reserved' = Reserved
    BY <1>3, <1>6, <2>1 DEF Reserved
  <2>3. AtPublish' <=> AtPublish
    BY <1>2, <2>1, SamePublish DEF WriterPC
  <2>4. InBuf' = InBuf /\ LastQueued' = LastQueued
    BY <2>1, <2>2, <2>3 DEF InBuf, LastQueued
  <2> QED
    BY <1>4, <2>1, <2>4
<1>7. CASE Reserve(w) /\ writeIndex < kSize
  <2>1. /\ Goto(w, "load") /\ pc[w] = "reserve" /\ writeIndex' = writeIndex + 1
        /\ reserved' = Append(reserved, line[w]) /\ UNCHANGED <<queue, curW>>
    BY <1>7 DEF Reserve
  <2>2. ~AtPublish /\ (AtPublish' <=> AtPublish)
    <3>1. NobodyCompletes
      BY <1>2, <1>3, <1>7 DEF Counting
    <3> QED
      BY <1>2, <2>1, <3>1, SamePublish DEF NobodyCompletes, Completing, AtPublish, WriterPC
  <2>3. InBuf = writeIndex /\ InBuf' = writeIndex + 1
    BY <1>3, <1>7, <2>1, <2>2 DEF InBuf, Reserved
  <2>4. LastQueued' = LastQueued
    BY <2>1, <2>2 DEF LastQueued
  <2>5. Len(reserved') = Len(reserved) + 1
    BY <1>2, <2>1 DEF TypeOK
  <2>6. ReadBuf' = ReadBuf
    BY <1>1, <2>1, <2>4 DEF ReadBuf
  <2>7. Base(ReadBuf)' = Base(ReadBuf) /\ Base(curW)' = Base(curW)
    BY <2>1, <2>6 DEF Base
  <2>8. Len(reserved') = Base(curW)' + InBuf' /\ Len(popped') <= Len(reserved')
    BY <1>1, <1>2, <1>3, <2>3, <2>5, <2>7 DEF Positions
  <2> QED
    BY <1>1, <1>2, <2>1, <2>4, <2>7, <2>8 DEF Positions
\* The next LogBuffer is one further, and not in the queue yet.
<1>8. CASE NextBuffer(w)
  <2>1. /\ Goto(w, "publish") /\ pc[w] = "next" /\ UNCHANGED <<queue, writeIndex, reserved>>
        /\ curW' = curW + 1
    BY <1>2, <1>8 DEF NextBuffer, Flagged
  <2>2. /\ \A v \in Writer : Completing(v) => v = w
        /\ kSize <= writeIndex
    BY <1>2, <2>1 DEF Counting, NobodyCompletes, Completing
  <2>3. ~AtPublish
    BY <2>1, <2>2 DEF AtPublish, Completing
  <2>4. pc'[w] = "publish"
    BY <1>2, <2>1, Moves DEF WriterPC
  <2>5. AtPublish'
    BY <2>4 DEF AtPublish
  <2>6. InBuf = kSize /\ InBuf' = 0 /\ LastQueued = curW /\ LastQueued' = curW
    BY <1>3, <2>1, <2>2, <2>3, <2>5 DEF InBuf, Reserved, LastQueued
  <2>7. ReadBuf' = ReadBuf
    BY <1>1, <2>1, <2>6 DEF ReadBuf
  <2>8. Base(ReadBuf)' = Base(ReadBuf) /\ Base(curW)' = Base(curW + 1)
    BY <2>1, <2>7 DEF Base
  <2>9. Base(curW + 1) = Base(curW) + kSize
    BY <1>3, BaseNext
  <2>10. Len(reserved') = Base(curW)' + InBuf'
    BY <1>2, <1>3, <2>1, <2>6, <2>8, <2>9 DEF Positions
  <2> QED
    BY <1>1, <1>2, <2>1, <2>6, <2>8, <2>10 DEF Positions
<1>9. CASE Publish(w)
  <2>1. /\ Goto(w, "idle") /\ pc[w] = "publish" /\ writeIndex' = 0
        /\ queue' = Append(queue, curW) /\ UNCHANGED <<curW, reserved>>
    BY <1>9 DEF Publish, history
  <2>2. \A v \in Writer : Completing(v) => v = w
    BY <1>2, <2>1 DEF Counting, Completing
  <2>3. pc'[w] = "idle" /\ \A v \in Writer : v # w => pc'[v] = pc[v]
    BY <1>2, <2>1, Moves DEF WriterPC
  <2>4. AtPublish /\ ~AtPublish'
    BY <2>1, <2>2, <2>3 DEF AtPublish, Completing
  <2>5. InBuf = 0 /\ InBuf' = 0 /\ LastQueued = curW - 1 /\ LastQueued' = curW
    BY <2>1, <2>4 DEF InBuf, Reserved, LastQueued
  <2>6. /\ Len(queue') = Len(queue) + 1 /\ queue'[Len(queue) + 1] = curW
        /\ \A k \in 1..Len(queue) : queue'[k] = queue[k]
    BY <1>3, <2>1, AppendProperties
  <2>7. ReadBuf' = ReadBuf
    BY <1>1, <1>3, <2>5, <2>6 DEF ReadBuf
  <2>8. Base(ReadBuf)' = Base(ReadBuf) /\ Base(curW)' = Base(curW)
    BY <2>1, <2>7 DEF Base
  <2>9. \A k \in 1..Len(queue') : queue'[k] = LastQueued' - Len(queue') + k
    <3> SUFFICES ASSUME NEW k \in 1..Len(queue') PROVE queue'[k] = LastQueued' - Len(queue') + k
      OBVIOUS
    <3>1. CASE k \in 1..Len(queue)
      <4>1. queue[k] = LastQueued - Len(queue) + k
        BY <1>2, <3>1 DEF Positions
      <4> QED
        BY <1>3, <2>5, <2>6, <3>1, <4>1
    <3>2. CASE k = Len(queue) + 1
      BY <1>3, <2>5, <2>6, <3>2
    <3> QED
      BY <1>3, <2>6, <3>1, <3>2
  <2> QED
    BY <1>1, <1>2, <2>1, <2>5, <2>8, <2>9 DEF Positions
<1> QED
  BY <1>5, <1>6, <1>7, <1>8, <1>9

LEMMA WriterContents ==
  ASSUME IInv, NEW w \in Writer, WriterStep(w) \/ \E l \in Line : Push(w, l), ~reused'
  PROVE  Contents'
<1> USE LogBufferQueueAssumption
<1>1. ~reused /\ popped' = popped
  BY DEF WriterStep, Push, Reserve, Spin, LoadBuffer, WriteItem, SetFlag, CountLine,
         ResetCount, NextBuffer, Publish, history, readerVars
<1>2. TypeOK /\ Counting /\ Owning /\ Flagged /\ Positions /\ Contents
  BY <1>1 DEF IInv, Locals
<1>3. /\ curW \in Nat \ {0} /\ InBuf \in 0..kSize
      /\ Len(reserved) \in Nat /\ Len(popped) \in Nat /\ Base(curW) \in Nat
      /\ writeIndex \in Nat /\ curW \in Buf /\ slot \in [Writer -> Slot]
      /\ flags \in [Buf -> [Slot -> BOOLEAN]] /\ line \in [Writer -> Line \cup {Moved}]
      /\ items \in [Buf -> [Slot -> Line \cup {Moved, Raw}]] /\ buf \in [Writer -> Buf]
      /\ reserved \in Seq(Line)
      /\ \A b \in Buf : b \in Nat \ {0} /\ Base(b) \in Nat
      /\ \A i \in Slot : i \in Nat /\ i < kSize
  BY <1>2, PositionTypes DEF TypeOK
<1>4. \A b : Base(b)' = Base(b)
  BY DEF Base
\* Steps that leave the slots and the histories.
<1>5. ASSUME NEW label \in WriterPC, Goto(w, label), UNCHANGED <<flags, items, reserved, curW, slot>>,
             \A v \in Writer : v # w => line'[v] = line[v],
             \/ label \notin {"load", "item", "flag"}
             \/ label = "item" /\ pc[w] = "load" /\ line'[w] = line[w]
      PROVE  Contents'
  <2>1. pc'[w] = label /\ \A v \in Writer : v # w => pc'[v] = pc[v]
    BY <1>2, <1>5, Moves
  <2>2. Base(curW)' = Base(curW)
    BY <1>5 DEF Base
  <2>3. ASSUME NEW v \in Writer
        PROVE /\ pc'[v] \in {"load", "item"} => line'[v] = reserved'[Base(curW)' + slot'[v] + 1]
              /\ pc'[v] = "flag" => items'[curW'][slot'[v]] = reserved'[Base(curW)' + slot'[v] + 1]
    <3>1. CASE v = w
      BY <1>2, <1>5, <2>1, <2>2, <3>1 DEF Contents
    <3>2. CASE v # w
      BY <1>2, <1>5, <2>1, <2>2, <3>2 DEF Contents
    <3> QED
      BY <3>1, <3>2
  <2>4. \A b \in Buf, i \in Slot :
          flags'[b][i] /\ Len(popped') <= Base(b)' + i => items'[b][i] = reserved'[Base(b)' + i + 1]
    BY <1>1, <1>2, <1>4, <1>5 DEF Contents
  <2>5. \A k \in 1..Len(popped') : popped'[k] = reserved'[k]
    BY <1>1, <1>2, <1>5 DEF Contents
  <2> QED
    BY <2>3, <2>4, <2>5 DEF Contents
<1>6. CASE \E l \in Line : Push(w, l)
  <2>1. PICK l \in Line : Push(w, l)
    BY <1>6
  <2>2. \A v \in Writer : v # w => line'[v] = line[v]
    BY <1>3, <2>1 DEF Push
  <2> QED
    BY <1>5, <2>1, <2>2 DEF Push, bufVars, queueVars, WriterPC
<1>7. CASE Spin(w) \/ LoadBuffer(w)
  BY <1>5, <1>7 DEF Spin, LoadBuffer, bufVars, queueVars, history, WriterPC
<1>8. CASE CountLine(w) \/ ResetCount(w)
  BY <1>5, <1>8 DEF CountLine, ResetCount, queueVars, history, WriterPC
<1>9. CASE Publish(w)
  BY <1>5, <1>9 DEF Publish, bufVars, history, WriterPC
<1>10. CASE Reserve(w) /\ ~(writeIndex < kSize)
  BY <1>5, <1>10 DEF Reserve, bufVars, WriterPC
<1>11. CASE Reserve(w) /\ writeIndex < kSize
  <2>1. /\ Goto(w, "load") /\ pc[w] = "reserve"
        /\ slot' = [slot EXCEPT ![w] = writeIndex]
        /\ reserved' = Append(reserved, line[w]) /\ UNCHANGED <<flags, items, curW, line>>
    BY <1>11 DEF Reserve, bufVars
  <2>2. pc'[w] = "load" /\ \A v \in Writer : v # w => pc'[v] = pc[v] /\ slot'[v] = slot[v]
    BY <1>2, <1>3, <2>1, Moves DEF WriterPC
  <2>3. NobodyCompletes
    BY <1>2, <1>3, <1>11 DEF Counting
  <2>4. ~AtPublish
    BY <2>3 DEF NobodyCompletes, Completing, AtPublish
  <2>5. InBuf = writeIndex /\ Reserved = InBuf
    BY <1>3, <1>11, <2>4 DEF InBuf, Reserved
  <2>6. Len(reserved) = Base(curW) + InBuf /\ Len(popped) <= Len(reserved)
    BY <1>2 DEF Positions
  <2>7. /\ \A k \in 1..Len(reserved) : reserved'[k] = reserved[k]
        /\ reserved'[Len(reserved) + 1] = line[w]
    <3>1. line[w] \in Line
      BY <2>1 DEF IInv, Locals
    <3> QED
      BY <1>3, <2>1, <3>1, AppendProperties
  <2>8. slot'[w] = writeIndex
    BY <1>3, <2>1
  <2>9. Base(curW)' = Base(curW)
    BY <2>1 DEF Base
  <2>10. ASSUME NEW v \in Writer, v # w, pc[v] \in {"load", "item", "flag"}
         PROVE  Base(curW) + slot[v] + 1 \in 1..Len(reserved)
    <3>1. v \in Busy
      BY <2>10 DEF Busy, Writing
    <3>2. slot[v] < InBuf /\ slot[v] \in Nat
      BY <1>2, <1>3, <2>5, <3>1 DEF Owning
    <3> QED
      BY <1>3, <2>6, <3>2
  <2>11. ASSUME NEW v \in Writer
         PROVE /\ pc'[v] \in {"load", "item"} => line'[v] = reserved'[Base(curW)' + slot'[v] + 1]
               /\ pc'[v] = "flag" => items'[curW'][slot'[v]] = reserved'[Base(curW)' + slot'[v] + 1]
    <3>1. CASE v = w
      <4>1. Base(curW)' + slot'[w] + 1 = Len(reserved) + 1
        BY <1>3, <2>5, <2>6, <2>8, <2>9
      <4> QED
        BY <2>1, <2>2, <2>7, <3>1, <4>1
    <3>2. CASE v # w
      BY <1>2, <2>1, <2>2, <2>7, <2>9, <2>10, <3>2 DEF Contents
    <3> QED
      BY <3>1, <3>2
  <2>12. ASSUME NEW b \in Buf, NEW i \in Slot, flags[b][i]
         PROVE  Base(b) + i + 1 \in 1..Len(reserved)
    <3>1. CASE b = curW /\ i < InBuf
      BY <1>3, <2>6, <3>1
    <3>2. CASE b < curW
      <4>1. Base(b) + kSize <= Base(curW)
        BY <1>3, <3>2, BaseOrder
      <4> QED
        BY <1>3, <2>6, <4>1
    <3> QED
      BY <1>2, <2>12, <3>1, <3>2 DEF Flagged
  <2>13. \A b \in Buf, i \in Slot :
           flags'[b][i] /\ Len(popped') <= Base(b)' + i => items'[b][i] = reserved'[Base(b)' + i + 1]
    BY <1>1, <1>2, <1>4, <2>1, <2>7, <2>12 DEF Contents
  <2>14. \A k \in 1..Len(popped') : popped'[k] = reserved'[k]
    <3>1. \A k \in 1..Len(popped) : k \in 1..Len(reserved)
      BY <1>3, <2>6
    <3> QED
      BY <1>1, <1>2, <2>7, <3>1 DEF Contents
  <2> QED
    BY <2>11, <2>13, <2>14 DEF Contents
<1>12. CASE WriteItem(w)
  <2>1. /\ Goto(w, "flag") /\ pc[w] = "item" /\ w \in Busy
        /\ items' = [items EXCEPT ![buf[w]][slot[w]] = line[w]]
        /\ line' = [line EXCEPT ![w] = Moved]
        /\ UNCHANGED <<flags, curW, slot, reserved>>
    BY <1>12 DEF WriteItem, queueVars, history, Busy, Writing
  <2>2. pc'[w] = "flag" /\ \A v \in Writer : v # w => pc'[v] = pc[v] /\ line'[v] = line[v]
    BY <1>2, <1>3, <2>1, Moves DEF WriterPC
  <2>3. buf[w] = curW /\ ~flags[curW][slot[w]]
    BY <1>2, <2>1 DEF Owning, Flagged
  <2>4. /\ items'[curW][slot[w]] = line[w]
        /\ \A b \in Buf, i \in Slot : ~(b = curW /\ i = slot[w]) => items'[b][i] = items[b][i]
    BY <1>3, <2>1, <2>3
  <2>5. Base(curW)' = Base(curW)
    BY <2>1 DEF Base
  <2>6. \A v \in Writer : v # w /\ pc[v] = "flag" => slot[v] # slot[w]
    BY <1>2, <2>1 DEF Owning, Busy, Writing
  <2>7. ASSUME NEW v \in Writer
        PROVE /\ pc'[v] \in {"load", "item"} => line'[v] = reserved'[Base(curW)' + slot'[v] + 1]
              /\ pc'[v] = "flag" => items'[curW'][slot'[v]] = reserved'[Base(curW)' + slot'[v] + 1]
    <3>1. CASE v = w
      BY <1>2, <2>1, <2>2, <2>4, <2>5, <3>1 DEF Contents
    <3>2. CASE v # w
      <4>1. pc[v] = "flag" => items'[curW][slot[v]] = items[curW][slot[v]]
        <5>1. slot[v] \in Slot /\ curW \in Buf
          BY <1>3
        <5> QED
          BY <2>4, <2>6, <3>2, <5>1
      <4>2. /\ pc[v] \in {"load", "item"} => line[v] = reserved[Base(curW) + slot[v] + 1]
            /\ pc[v] = "flag" => items[curW][slot[v]] = reserved[Base(curW) + slot[v] + 1]
        BY <1>2 DEF Contents
      <4>3. pc'[v] = pc[v] /\ line'[v] = line[v]
        BY <2>2, <3>2
      <4> QED
        BY <2>1, <2>5, <4>1, <4>2, <4>3
    <3> QED
      BY <3>1, <3>2
  <2>8. \A b \in Buf, i \in Slot :
          flags'[b][i] /\ Len(popped') <= Base(b)' + i => items'[b][i] = reserved'[Base(b)' + i + 1]
    BY <1>1, <1>2, <1>4, <2>1, <2>3, <2>4 DEF Contents
  <2>9. \A k \in 1..Len(popped') : popped'[k] = reserved'[k]
    BY <1>1, <1>2, <2>1 DEF Contents
  <2> QED
    BY <2>7, <2>8, <2>9 DEF Contents
<1>13. CASE SetFlag(w)
  <2>1. /\ Goto(w, "count") /\ pc[w] = "flag" /\ w \in Busy
        /\ flags' = [flags EXCEPT ![buf[w]][slot[w]] = TRUE]
        /\ UNCHANGED <<items, curW, slot, line, reserved>>
    BY <1>13 DEF SetFlag, queueVars, history, Busy, Writing
  <2>2. pc'[w] = "count" /\ \A v \in Writer : v # w => pc'[v] = pc[v]
    BY <1>2, <2>1, Moves DEF WriterPC
  <2>3. buf[w] = curW
    BY <1>2, <2>1 DEF Owning
  <2>4. \A b \in Buf, i \in Slot : flags'[b][i] => flags[b][i] \/ (b = curW /\ i = slot[w])
    BY <1>3, <2>1, <2>3
  <2>5. Base(curW)' = Base(curW)
    BY <2>1 DEF Base
  <2>6. \A v \in Writer :
          /\ pc'[v] \in {"load", "item"} => line'[v] = reserved'[Base(curW)' + slot'[v] + 1]
          /\ pc'[v] = "flag" => items'[curW'][slot'[v]] = reserved'[Base(curW)' + slot'[v] + 1]
    BY <1>2, <2>1, <2>2, <2>5 DEF Contents
  <2>7. items[curW][slot[w]] = reserved[Base(curW) + slot[w] + 1]
    BY <1>2, <2>1 DEF Contents
  <2>8. \A b \in Buf, i \in Slot :
          flags'[b][i] /\ Len(popped') <= Base(b)' + i => items'[b][i] = reserved'[Base(b)' + i + 1]
    BY <1>1, <1>2, <1>4, <2>1, <2>4, <2>7 DEF Contents
  <2>9. \A k \in 1..Len(popped') : popped'[k] = reserved'[k]
    BY <1>1, <1>2, <2>1 DEF Contents
  <2> QED
    BY <2>6, <2>8, <2>9 DEF Contents
<1>14. CASE NextBuffer(w)
  <2>1. /\ Goto(w, "publish") /\ pc[w] = "next" /\ UNCHANGED <<flags, items, reserved>>
    BY <1>14 DEF NextBuffer, bufVars
  <2>2. Busy = {}
    BY <1>2, <2>1 DEF Counting, NobodyCompletes, Completing
  <2>3. pc'[w] = "publish" /\ \A v \in Writer : v # w => pc'[v] = pc[v]
    BY <1>2, <2>1, Moves DEF WriterPC
  <2>4. \A v \in Writer : pc'[v] \notin {"load", "item", "flag"}
    BY <2>2, <2>3 DEF Busy, Writing
  <2>5. \A b \in Buf, i \in Slot :
          flags'[b][i] /\ Len(popped') <= Base(b)' + i => items'[b][i] = reserved'[Base(b)' + i + 1]
    BY <1>1, <1>2, <1>4, <2>1 DEF Contents
  <2>6. \A k \in 1..Len(popped') : popped'[k] = reserved'[k]
    BY <1>1, <1>2, <2>1 DEF Contents
  <2> QED
    BY <2>4, <2>5, <2>6 DEF Contents
<1> QED
  BY <1>6, <1>7, <1>8, <1>9, <1>10, <1>11, <1>12, <1>13, <1>14 DEF WriterStep

\* The reader takes the lines of the first LogBuffer of the queue in turn.
LEMMA ReaderOrder ==
  ASSUME IInv, ReaderStep, ~reused'
  PROVE  Positions' /\ Contents'
<1> USE LogBufferQueueAssumption
<1>1. UNCHANGED <<flags, curW, writeIndex, pc, line, slot, reserved, reused>>
  BY DEF ReaderStep, GetBuffer, TakeLine, NothingToTake, Unqueue, Recycle, bufVars,
         queueVars, writerVars, history
<1>2. TypeOK /\ Locals /\ Counting /\ Owning /\ Flagged /\ Positions /\ Contents
  BY <1>1 DEF IInv, Locals
<1>3. /\ curW \in Nat \ {0} /\ InBuf \in 0..kSize /\ LastQueued \in Int /\ ReadBuf \in Int
      /\ Len(queue) \in Nat /\ Len(reserved) \in Nat /\ Len(popped) \in Nat
      /\ Base(curW) \in Nat /\ readIndex \in Nat /\ readIndex < kSize
      /\ queue \in Seq(Buf) /\ curW \in Buf /\ slot \in [Writer -> Slot]
      /\ flags \in [Buf -> [Slot -> BOOLEAN]] /\ popped \in Seq(Line \cup {Moved, Raw})
      /\ items \in [Buf -> [Slot -> Line \cup {Moved, Raw}]]
      /\ \A b \in Buf : b \in Nat \ {0} /\ Base(b) \in Nat
      /\ \A i \in Slot : i \in Nat /\ i < kSize
  BY <1>2, PositionTypes DEF TypeOK
<1>4. InBuf' = InBuf /\ LastQueued' = LastQueued /\ \A b : Base(b)' = Base(b)
  BY <1>1 DEF InBuf, LastQueued, Reserved, AtPublish, Base
<1>5. Base(curW)' = Base(curW)
  BY <1>1 DEF Base
<1>6. ASSUME items' = items, popped' = popped
      PROVE  Contents'
  BY <1>1, <1>2, <1>4, <1>5, <1>6 DEF Contents
<1>7. ASSUME popped' = popped, queue' = queue, readIndex' = readIndex,
             (rpc' = "unqueue") <=> (rpc = "unqueue")
      PROVE  Positions'
  <2>1. ReadBuf' = ReadBuf
    BY <1>4, <1>7 DEF ReadBuf
  <2>2. Base(ReadBuf)' = Base(ReadBuf)
    BY <2>1 DEF Base
  <2> QED
    BY <1>1, <1>2, <1>4, <1>5, <1>7, <2>2 DEF Positions
<1>8. CASE GetBuffer
  BY <1>6, <1>7, <1>8 DEF GetBuffer, bufVars, queueVars
<1>9. CASE NothingToTake
  BY <1>6, <1>7, <1>9 DEF NothingToTake, bufVars, queueVars
<1>10. CASE Recycle
  BY <1>6, <1>7, <1>10 DEF Recycle, bufVars
<1>11. CASE Unqueue
  <2>1. /\ rpc = "unqueue" /\ rpc' = "recycle" /\ queue' = Tail(queue) /\ queue # <<>>
        /\ UNCHANGED <<items, readIndex, popped>>
    BY <1>2, <1>11 DEF Unqueue, bufVars, Locals
  <2>2. /\ Len(queue') = Len(queue) - 1
        /\ \A k \in 1..Len(queue') : queue'[k] = queue[k + 1] /\ k + 1 \in 1..Len(queue)
    BY <1>3, <2>1, HeadTailProperties
  <2>3. \A k \in 1..Len(queue') : queue'[k] = LastQueued' - Len(queue') + k
    <3> SUFFICES ASSUME NEW k \in 1..Len(queue') PROVE queue'[k] = LastQueued' - Len(queue') + k
      OBVIOUS
    <3>1. queue[k + 1] = LastQueued - Len(queue) + (k + 1)
      BY <1>2, <2>2 DEF Positions
    <3> QED
      BY <1>3, <1>4, <2>2, <3>1
  <2>4. ReadBuf' = ReadBuf
    BY <1>3, <1>4, <2>1, <2>2 DEF ReadBuf
  <2>5. Base(ReadBuf)' = Base(ReadBuf)
    BY <2>4 DEF Base
  <2> QED
    BY <1>1, <1>2, <1>4, <1>5, <1>6, <2>1, <2>3, <2>5 DEF Positions
<1>12. CASE TakeLine
  <2>1. /\ rpc = "try" /\ flags[curR][readIndex] /\ queue' = queue
        /\ popped' = Append(popped, items[curR][readIndex])
        /\ items' = [items EXCEPT ![curR][readIndex] = Moved]
        /\ IF readIndex + 1 = kSize THEN readIndex' = 0 /\ rpc' = "unqueue"
           ELSE readIndex' = readIndex + 1 /\ rpc' = "idle"
    BY <1>12 DEF TakeLine, queueVars
  <2>2. curR \in Buf /\ queue # <<>> /\ curR = queue[1] /\ readIndex \in Slot
    <3>1. curR # NULL /\ curR \in Buf \cup {NULL}
      BY <1>2, <2>1 DEF Locals, TypeOK
    <3>2. queue # <<>> /\ curR = Head(queue)
      BY <1>2, <2>1, <3>1 DEF Locals
    <3> QED
      BY <1>3, <3>1, <3>2, HeadTailProperties DEF Slot
  <2>3. Len(queue) >= 1
    BY <1>3, <2>2, EmptySeq
  <2>4. curR = ReadBuf
    <3>1. queue[1] = LastQueued - Len(queue) + 1
      BY <1>2, <1>3, <2>3 DEF Positions
    <3> QED
      BY <2>1, <2>2, <3>1 DEF ReadBuf
  <2>5. Len(popped) = Base(curR) + readIndex /\ Len(reserved) = Base(curW) + InBuf
    BY <1>2, <2>4 DEF Positions
  <2>6. items[curR][readIndex] = reserved[Len(popped) + 1]
    <3>1. Len(popped) <= Base(curR) + readIndex
      BY <1>3, <2>5
    <3>2. items[curR][readIndex] = reserved[Base(curR) + readIndex + 1]
      BY <1>2, <2>1, <2>2, <3>1 DEF Contents
    <3> QED
      BY <2>5, <3>2
  <2>7. Len(popped) + 1 <= Len(reserved)
    <3>1. CASE curR = curW /\ readIndex < InBuf
      BY <1>3, <2>5, <3>1
    <3>2. CASE curR < curW
      <4>1. Base(curR) + kSize <= Base(curW)
        BY <1>3, <2>2, <3>2, BaseOrder
      <4> QED
        BY <1>3, <2>2, <2>5, <4>1
    <3> QED
      BY <1>2, <2>1, <2>2, <3>1, <3>2 DEF Flagged
  <2>8. /\ Len(popped') = Len(popped) + 1
        /\ popped'[Len(popped) + 1] = items[curR][readIndex]
        /\ \A k \in 1..Len(popped) : popped'[k] = popped[k]
    BY <1>3, <2>1, <2>2, AppendProperties
  <2>9. Len(popped') = Base(ReadBuf)' + readIndex'
    <3>1. CASE readIndex + 1 = kSize
      <4>1. ReadBuf' = ReadBuf + 1 /\ readIndex' = 0
        BY <1>3, <1>4, <2>1, <3>1 DEF ReadBuf
      <4>2. Base(ReadBuf)' = Base(ReadBuf + 1)
        BY <4>1 DEF Base
      <4>3. Base(ReadBuf + 1) = Base(ReadBuf) + kSize /\ Base(ReadBuf) \in Int
        BY <1>3, BaseNext
      <4> QED
        BY <1>3, <2>4, <2>5, <2>8, <3>1, <4>1, <4>2, <4>3
    <3>2. CASE readIndex + 1 # kSize
      <4>1. ReadBuf' = ReadBuf /\ readIndex' = readIndex + 1
        BY <1>4, <2>1, <3>2 DEF ReadBuf
      <4>2. Base(ReadBuf)' = Base(ReadBuf)
        BY <4>1 DEF Base
      <4>3. Base(curR) \in Nat
        BY <1>3, <2>2
      <4> QED
        BY <1>3, <2>4, <2>5, <2>8, <4>1, <4>2, <4>3
    <3> QED
      BY <3>1, <3>2
  <2>10. Positions'
    <3>1. Len(popped') <= Len(reserved')
      BY <1>1, <2>7, <2>8
    <3> QED
      BY <1>1, <1>2, <1>4, <1>5, <2>1, <2>9, <3>1 DEF Positions
  <2>11. \A b \in Buf, i \in Slot : ~(b = curR /\ i = readIndex) => items'[b][i] = items[b][i]
    BY <1>3, <2>1, <2>2
  <2>12. ASSUME NEW b \in Buf, NEW i \in Slot, flags'[b][i], Len(popped') <= Base(b)' + i
         PROVE  items'[b][i] = reserved'[Base(b)' + i + 1]
    <3>1. Len(popped) + 1 <= Base(b) + i
      BY <1>4, <2>8, <2>12
    <3>2. ~(b = curR /\ i = readIndex)
      BY <1>3, <2>2, <2>5, <3>1
    <3>3. Len(popped) <= Base(b) + i
      BY <1>3, <3>1
    <3>4. items[b][i] = reserved[Base(b) + i + 1]
      BY <1>1, <1>2, <2>12, <3>3 DEF Contents
    <3> QED
      BY <1>1, <1>4, <2>11, <3>2, <3>4
  <2>13. ASSUME NEW v \in Writer
         PROVE /\ pc'[v] \in {"load", "item"} => line'[v] = reserved'[Base(curW)' + slot'[v] + 1]
               /\ pc'[v] = "flag" => items'[curW'][slot'[v]] = reserved'[Base(curW)' + slot'[v] + 1]
    <3>1. pc[v] = "flag" => ~flags[curW][slot[v]]
      BY <1>2 DEF Flagged
    <3>2. slot[v] \in Slot /\ curW \in Buf
      BY <1>3
    <3>3. pc[v] = "flag" => items'[curW][slot[v]] = items[curW][slot[v]]
      BY <2>1, <2>11, <3>1, <3>2
    <3>4. /\ pc[v] \in {"load", "item"} => line[v] = reserved[Base(curW) + slot[v] + 1]
          /\ pc[v] = "flag" => items[curW][slot[v]] = reserved[Base(curW) + slot[v] + 1]
      BY <1>2 DEF Contents
    <3> QED
      BY <1>1, <1>5, <3>3, <3>4
  <2>14. \A k \in 1..Len(popped') : popped'[k] = reserved'[k]
    <3>1. \A k \in 1..Len(popped') : k \in 1..Len(popped) \/ k = Len(popped) + 1
      BY <1>3, <2>8
    <3> QED
      BY <1>1, <1>2, <2>6, <2>8, <3>1 DEF Contents
  <2> QED
    BY <2>10, <2>12, <2>13, <2>14 DEF Contents
<1> QED
  BY <1>8, <1>9, <1>10, <1>11, <1>12 DEF ReaderStep

-----------------------------------------------------------------------------
(* The invariant is inductive                                              *)

\* A line that is not logged, and a step of something else.
LEMMA QuietInv ==
  ASSUME IInv, Quiet
  PROVE  IInv'
<1>1. UNCHANGED <<flags, count, items, queue, curW, writeIndex, backup, allocated, freed,
                  pc, line, slot, buf, curR, readIndex, rpc, popped, reserved, reused>>
      /\ unused' \in SUBSET Line
  BY DEF Quiet, bufVars, queueVars, writerVars, readerVars
<1>2. Locals'
  BY <1>1 DEF IInv, Locals, TypeOK
<1>3. Busy' = Busy /\ (NobodyCompletes' <=> NobodyCompletes) /\ (AtPublish' <=> AtPublish)
      /\ Reserved' = Reserved
  BY <1>1 DEF Busy, Writing, NobodyCompletes, Completing, AtPublish, Reserved
<1>4. Counting' /\ Owning' /\ ReadFlagged'
  BY <1>1, <1>3 DEF IInv, Counting, Completing, Owning, ReadFlagged
<1>5. InBuf' = InBuf /\ LastQueued' = LastQueued
  BY <1>1, <1>3 DEF InBuf, LastQueued
<1>6. ReadBuf' = ReadBuf
  BY <1>1, <1>5 DEF ReadBuf
<1>7. ASSUME ~reused PROVE Flagged' /\ Positions' /\ Contents'
  BY <1>1, <1>5, <1>6, <1>7 DEF IInv, Flagged, Positions, Contents, Base
<1> QED
  BY <1>1, <1>2, <1>4, <1>7 DEF IInv

LEMMA WriterInv ==
  ASSUME IInv, NEW w \in Writer, WriterStep(w) \/ \E l \in Line : Push(w, l)
  PROVE  IInv'
BY WriterLocals, WriterCounting, ReadFlaggedInv, WriterFlagged, WriterPositions,
   WriterContents DEF IInv

LEMMA ReaderInv ==
  ASSUME IInv, ReaderStep
  PROVE  IInv'
<1>1. UNCHANGED <<flags, count, curW, writeIndex, allocated, pc, slot, buf, reused>>
  BY DEF ReaderStep, GetBuffer, TakeLine, NothingToTake, Unqueue, Recycle, bufVars,
         queueVars, writerVars, history
<1>2. Busy' = Busy /\ (NobodyCompletes' <=> NobodyCompletes) /\ InBuf' = InBuf
      /\ Reserved' = Reserved
  BY <1>1 DEF Busy, Writing, NobodyCompletes, Completing, AtPublish, Reserved, InBuf
<1>3. Counting' /\ Owning'
  BY <1>1, <1>2 DEF IInv, Counting, Completing, Owning
<1>4. ~reused' => Flagged'
  BY <1>1, <1>2 DEF IInv, Flagged
<1> QED
  BY <1>3, <1>4, ReaderLocals, ReadFlaggedInv, ReaderOrder DEF IInv

LEMMA NextInv == IInv /\ [Next]_vars => IInv'
<1> SUFFICES ASSUME IInv, [Next]_vars PROVE IInv'
  OBVIOUS
<1>1. CASE ReaderStep
  BY <1>1, ReaderInv
<1>2. ASSUME NEW w \in Writer, WriterStep(w) \/ \E l \in Line : Push(w, l)
      PROVE  IInv'
  BY <1>2, WriterInv
<1>3. CASE UNCHANGED vars
  <2>1. Quiet
    BY <1>3 DEF Quiet, vars, history, IInv, Locals, TypeOK
  <2> QED
    BY <2>1, QuietInv
<1> QED
  BY <1>1, <1>2, <1>3 DEF Next

-----------------------------------------------------------------------------
(* No slot is skipped                                                      *)

\* Every slot that was reserved has its flag, or a writer that will set it.
Complete ==
  ~reused =>
    \A b \in Buf, i \in Slot :
      b < curW \/ (b = curW /\ i < InBuf)
        => \/ flags[b][i]
           \/ b = curW /\ \E w \in Writer : pc[w] \in {"load", "item", "flag"} /\ slot[w] = i

LEMMA InitComplete == Init => Complete
<1> SUFFICES ASSUME Init, NEW b \in Buf, NEW i \in Slot PROVE ~(b < 1) /\ ~(i < InBuf)
  BY DEF Complete, Init
<1>1. InBuf = 0
  BY LogBufferQueueAssumption DEF Init, InBuf, Reserved
<1> QED
  BY <1>1 DEF Buf, Slot

LEMMA QuietComplete ==
  ASSUME Complete, Quiet \/ ReaderStep
  PROVE  Complete'
<1>1. UNCHANGED <<flags, curW, writeIndex, pc, slot, reused>>
  BY DEF ReaderStep, GetBuffer, TakeLine, NothingToTake, Unqueue, Recycle, bufVars,
         queueVars, writerVars, history, Quiet
<1>2. InBuf' = InBuf
  BY <1>1 DEF InBuf, Reserved, AtPublish
<1> QED
  BY <1>1, <1>2 DEF Complete

LEMMA WriterComplete ==
  ASSUME IInv, Complete, NEW w \in Writer, WriterStep(w) \/ \E l \in Line : Push(w, l)
  PROVE  Complete'
<1> USE LogBufferQueueAssumption
<1> SUFFICES ASSUME ~reused', NEW b \in Buf, NEW i \in Slot,
                    b < curW' \/ (b = curW' /\ i < InBuf')
             PROVE  \/ flags'[b][i]
                    \/ b = curW' /\ \E v \in Writer : pc'[v] \in {"load", "item", "flag"} /\ slot'[v] = i
  BY DEF Complete
<1>1. ~reused
  BY DEF WriterStep, Push, Reserve, Spin, LoadBuffer, WriteItem, SetFlag, CountLine,
         ResetCount, NextBuffer, Publish, history
<1>2. TypeOK /\ Counting /\ Owning /\ Flagged
  BY <1>1 DEF IInv, Locals
<1>3. /\ flags \in [Buf -> [Slot -> BOOLEAN]] /\ writeIndex \in Nat /\ curW \in Buf
      /\ slot \in [Writer -> Slot] /\ buf \in [Writer -> Buf] /\ b \in Nat /\ curW \in Nat
      /\ i \in Nat /\ i < kSize
  BY <1>2 DEF TypeOK, Buf, Slot
<1> DEFINE Has == \/ flags[b][i]
                  \/ b = curW /\ \E v \in Writer : pc[v] \in {"load", "item", "flag"} /\ slot[v] = i
<1>4. b < curW \/ (b = curW /\ i < InBuf) => Has
  BY <1>1 DEF Complete
<1>5. CASE ~(Reserve(w) \/ SetFlag(w) \/ NextBuffer(w) \/ Publish(w))
  <2>1. /\ UNCHANGED <<flags, curW, writeIndex, slot>> /\ pc[w] # "publish"
        /\ \E label \in WriterPC \ {"publish"} :
             /\ Goto(w, label)
             /\ pc[w] \in {"load", "item", "flag"} => label \in {"load", "item", "flag"}
    BY <1>5 DEF WriterStep, Push, Spin, LoadBuffer, WriteItem, CountLine,
                ResetCount, queueVars, bufVars, WriterPC
  <2>2. PICK label \in WriterPC \ {"publish"} :
             /\ Goto(w, label)
             /\ pc[w] \in {"load", "item", "flag"} => label \in {"load", "item", "flag"}
    BY <2>1
  <2>3. AtPublish' <=> AtPublish
    BY <1>2, <2>1, <2>2, SamePublish
  <2>4. InBuf' = InBuf
    BY <2>1, <2>3 DEF InBuf, Reserved
  <2>5. \A v \in Writer : pc[v] \in {"load", "item", "flag"} => pc'[v] \in {"load", "item", "flag"}
    BY <1>2, <2>2, Moves
  <2> QED
    BY <1>4, <2>1, <2>4, <2>5
<1>6. CASE Reserve(w) /\ ~(writeIndex < kSize)
  <2>1. /\ Goto(w, "spin") /\ pc[w] = "reserve" /\ writeIndex' = writeIndex + 1
        /\ UNCHANGED <<flags, curW, slot>>
    BY <1>6 DEF Reserve, bufVars
  <2>2. Reserved' = Reserved
    BY <1>3, <1>6, <2>1 DEF Reserved
  <2>3. InBuf' = InBuf
    BY <1>2, <2>1, <2>2, SamePublish DEF InBuf, WriterPC
  <2>4. \A v \in Writer : pc[v] \in {"load", "item", "flag"} => pc'[v] = pc[v]
    BY <1>2, <2>1, Moves DEF WriterPC
  <2> QED
    BY <1>4, <2>1, <2>3, <2>4
<1>7. CASE Reserve(w) /\ writeIndex < kSize
  <2>1. /\ Goto(w, "load") /\ pc[w] = "reserve" /\ writeIndex' = writeIndex + 1
        /\ slot' = [slot EXCEPT ![w] = writeIndex] /\ UNCHANGED <<flags, curW>>
    BY <1>7 DEF Reserve, bufVars
  <2>2. NobodyCompletes
    BY <1>2, <1>3, <1>7 DEF Counting
  <2>3. ~AtPublish /\ (AtPublish' <=> AtPublish)
    BY <1>2, <2>1, <2>2, SamePublish DEF NobodyCompletes, Completing, AtPublish, WriterPC
  <2>4. InBuf = writeIndex /\ InBuf' = writeIndex + 1
    BY <1>3, <1>7, <2>1, <2>3 DEF InBuf, Reserved
  <2>5. pc'[w] = "load" /\ slot'[w] = writeIndex
        /\ \A v \in Writer : v # w => pc'[v] = pc[v] /\ slot'[v] = slot[v]
    BY <1>2, <1>3, <2>1, Moves DEF WriterPC
  <2>6. b < curW \/ (b = curW /\ i < InBuf) \/ (b = curW /\ i = writeIndex)
    BY <1>3, <2>1, <2>4
  <2>7. CASE b = curW /\ i = writeIndex
    BY <2>1, <2>5, <2>7
  <2>8. CASE Has
    BY <2>1, <2>5, <2>8
  <2> QED
    BY <1>4, <2>6, <2>7, <2>8
<1>8. CASE SetFlag(w)
  <2>1. /\ Goto(w, "count") /\ pc[w] = "flag" /\ w \in Busy
        /\ flags' = [flags EXCEPT ![buf[w]][slot[w]] = TRUE]
        /\ UNCHANGED <<curW, slot, writeIndex>>
    BY <1>8 DEF SetFlag, queueVars, Busy, Writing
  <2>2. InBuf' = InBuf
    BY <1>2, <2>1, SamePublish DEF InBuf, Reserved, WriterPC
  <2>3. pc'[w] = "count" /\ \A v \in Writer : v # w => pc'[v] = pc[v]
    BY <1>2, <2>1, Moves DEF WriterPC
  <2>4. buf[w] = curW
    BY <1>2, <2>1 DEF Owning
  <2>5. flags'[b][i] <=> flags[b][i] \/ (b = curW /\ i = slot[w])
    BY <1>3, <2>1, <2>4
  <2>6. Has
    BY <1>4, <2>1, <2>2
  <2> QED
    BY <2>1, <2>3, <2>5, <2>6
<1>9. CASE NextBuffer(w)
  <2>1. /\ Goto(w, "publish") /\ pc[w] = "next" /\ UNCHANGED <<flags, writeIndex>>
        /\ curW' = curW + 1
    BY <1>2, <1>9 DEF NextBuffer, bufVars, Flagged
  <2>2. /\ Busy = {} /\ kSize <= writeIndex
        /\ \A v \in Writer : Completing(v) => v = w
    BY <1>2, <2>1 DEF Counting, NobodyCompletes, Completing
  <2>3. ~AtPublish
    BY <2>1, <2>2 DEF AtPublish, Completing
  <2>4. InBuf = kSize
    BY <1>3, <2>2, <2>3 DEF InBuf, Reserved
  <2>5. pc'[w] = "publish"
    BY <1>2, <2>1, Moves DEF WriterPC
  <2>6. InBuf' = 0
    BY <2>5 DEF InBuf, AtPublish
  <2>7. b < curW \/ (b = curW /\ i < InBuf)
    BY <1>3, <2>1, <2>4, <2>6
  <2>8. \A v \in Writer : pc[v] \notin {"load", "item", "flag"}
    BY <2>2 DEF Busy, Writing
  <2> QED
    BY <1>4, <2>1, <2>7, <2>8
<1>10. CASE Publish(w)
  <2>1. /\ Goto(w, "idle") /\ pc[w] = "publish" /\ UNCHANGED <<flags, slot, curW>>
        /\ writeIndex' = 0
    BY <1>10 DEF Publish, bufVars
  <2>2. Reserved' = 0 /\ InBuf = 0
    BY <2>1 DEF Reserved, InBuf, AtPublish
  <2>3. InBuf' = InBuf
    BY <2>2 DEF InBuf
  <2>4. \A v \in Writer : pc[v] \in {"load", "item", "flag"} => pc'[v] = pc[v]
    BY <1>2, <2>1, Moves DEF WriterPC
  <2> QED
    BY <1>4, <2>1, <2>3, <2>4
<1> QED
  BY <1>5, <1>6, <1>7, <1>8, <1>9, <1>10

\* When no writer is inside push(), a pop() that finds nothing has left nothing.
LEMMA EmptyMeansAll ==
  ASSUME IInv, Complete, ~reused, \A w \in Writer : pc[w] = "idle",
         \/ rpc = "idle" /\ curR = NULL /\ queue = <<>>
         \/ rpc = "try" /\ ~flags[curR][readIndex]
  PROVE  popped = reserved
<1> USE LogBufferQueueAssumption
<1>1. TypeOK /\ Locals /\ Positions /\ Contents
  BY DEF IInv, Locals
<1>2. /\ curW \in Nat \ {0} /\ InBuf \in 0..kSize /\ LastQueued \in Int /\ ReadBuf \in Int
      /\ Len(queue) \in Nat /\ Len(reserved) \in Nat /\ Len(popped) \in Nat
      /\ Base(curW) \in Nat /\ readIndex \in Nat /\ readIndex < kSize
      /\ \A b \in Buf : b \in Nat \ {0} /\ Base(b) \in Nat
      /\ popped \in Seq(Line \cup {Moved, Raw}) /\ reserved \in Seq(Line) /\ queue \in Seq(Buf)
  BY <1>1, PositionTypes DEF TypeOK
<1>3. LastQueued = curW /\ Len(reserved) = Base(curW) + InBuf
      /\ Len(popped) = Base(ReadBuf) + readIndex /\ Len(popped) <= Len(reserved)
  BY <1>1 DEF LastQueued, AtPublish, Positions
<1>4. Len(reserved) <= Len(popped)
  <2>1. CASE rpc = "idle" /\ curR = NULL /\ queue = <<>>
    <3>1. Len(queue) = 0
      BY <2>1
    <3>2. ReadBuf = curW + 1 /\ readIndex = 0
      BY <1>1, <1>2, <1>3, <2>1, <3>1 DEF ReadBuf, Locals
    <3>3. Base(curW + 1) = Base(curW) + kSize
      BY <1>2, BaseNext
    <3> QED
      BY <1>2, <1>3, <3>2, <3>3
  <2>2. CASE rpc = "try" /\ ~flags[curR][readIndex]
    <3>1. curR \in Buf /\ queue # <<>> /\ curR = Head(queue) /\ readIndex \in Slot
      BY <1>1, <1>2, <2>2 DEF Locals, TypeOK, Slot
    <3>2. curR = queue[1] /\ Len(queue) >= 1
      BY <1>2, <3>1, HeadTailProperties, EmptySeq
    <3>3. queue[1] = LastQueued - Len(queue) + 1
      BY <1>1, <1>2, <3>2 DEF Positions
    <3>4. curR = ReadBuf /\ curR <= curW
      BY <1>2, <1>3, <2>2, <3>2, <3>3 DEF ReadBuf
    <3>5. ~(curR < curW) /\ ~(curR = curW /\ readIndex < InBuf)
      BY <2>2, <3>1 DEF Complete
    <3>6. curR = curW /\ InBuf <= readIndex
      BY <1>2, <3>1, <3>4, <3>5
    <3> QED
      BY <1>2, <1>3, <3>4, <3>6
  <2> QED
    BY <2>1, <2>2
<1>5. Len(popped) = Len(reserved)
  BY <1>2, <1>3, <1>4
<1>6. \A k \in 1..Len(popped) : popped[k] = reserved[k]
  BY <1>1 DEF Contents
<1>7. reserved \in Seq(Line \cup {Moved, Raw})
  BY <1>2
<1> QED
  BY <1>2, <1>5, <1>6, <1>7, SeqEqual

-----------------------------------------------------------------------------
(* The theorems                                                            *)

\* The inductive invariant of the queue, with its types.
THEOREM Invariant == Spec => []IInv
<1> QED
  BY InitInv, NextInv, PTL DEF Spec

\* What the invariant says of the writers.
LEMMA OwnershipFollows == IInv => SlotOwnership
<1> SUFFICES ASSUME IInv PROVE SlotOwnership
  OBVIOUS
<1>1. ASSUME NEW v \in Writer, NEW w \in Writer, Writing(v), Writing(w), v # w
      PROVE  slot[v] # slot[w] /\ (pc[v] # "load" /\ pc[w] # "load" => buf[v] = buf[w])
  BY <1>1 DEF IInv, Owning, Busy
<1>2. ASSUME ~reused, NEW w \in Writer, pc[w] \in {"item", "flag"}, buf[w] \in freed
      PROVE  FALSE
  <2>1. buf[w] = curW
    BY <1>2 DEF IInv, Owning, Busy, Writing
  <2>2. ~flags[curW][slot[w]]
    BY <1>2 DEF IInv, Flagged
  <2>3. slot[w] \in Slot
    BY DEF IInv, Locals, TypeOK
  <2> QED
    BY <1>2, <2>1, <2>2, <2>3 DEF IInv, ReadFlagged
<1> QED
  BY <1>1, <1>2 DEF SlotOwnership

\* What it says of the reader.
LEMMA FifoFollows == IInv => FifoUntilReuse
<1> SUFFICES ASSUME IInv, ~reused PROVE IsPrefix(popped, reserved)
  BY DEF FifoUntilReuse
<1>1. Len(popped) \in Nat /\ Len(reserved) \in Nat /\ Len(popped) <= Len(reserved)
  BY PositionTypes DEF IInv, Positions
<1>2. \A k \in 1..Len(popped) : popped[k] = reserved[k]
  BY DEF IInv, Contents
<1>3. popped \in Seq(Line \cup {Moved, Raw}) /\ reserved \in Seq(Line)
  BY DEF IInv, Locals, TypeOK
<1>4. SubSeq(popped, 1, Len(popped)) = SubSeq(reserved, 1, Len(popped))
  <2> DEFINE S == Line \cup {Moved, Raw}
             n == Len(popped)
  <2>1. \A k \in 1..n : popped[k] \in S /\ reserved[k] \in S
    BY <1>1, <1>2, <1>3, ElementOfSeq
  <2> HIDE DEF S, n
  <2>2. n \in Int /\ (IF 1 <= n THEN n - 1 + 1 ELSE 0) = n /\ n - 1 + 1 = n
    BY <1>1 DEF n
  <2>3. /\ SubSeq(popped, 1, n) \in Seq(S) /\ Len(SubSeq(popped, 1, n)) = n
        /\ \A k \in 1..n : SubSeq(popped, 1, n)[k] = popped[1 + k - 1]
    BY <2>1, <2>2, SubSeqProperties
  <2>4. /\ SubSeq(reserved, 1, n) \in Seq(S) /\ Len(SubSeq(reserved, 1, n)) = n
        /\ \A k \in 1..n : SubSeq(reserved, 1, n)[k] = reserved[1 + k - 1]
    BY <2>1, <2>2, SubSeqProperties
  <2>5. \A k \in 1..n : SubSeq(popped, 1, n)[k] = SubSeq(reserved, 1, n)[k]
    BY <1>2, <2>3, <2>4 DEF n
  <2>6. SubSeq(popped, 1, n) = SubSeq(reserved, 1, n)
    BY <2>3, <2>4, <2>5, SeqEqual
  <2> QED
    BY <2>6 DEF n
<1> QED
  BY <1>1, <1>4 DEF IsPrefix

\* Writers never share a slot, and the LogBuffer they write to is not switched
\* between the reservation and the write; none is deleted under a writer until
\* one is recycled.
THEOREM SlotsOwned == Spec => []SlotOwnership
<1> QED
  BY Invariant, OwnershipFollows, PTL

\* Until a LogBuffer is recycled, pop() returns the lines in the order of their
\* slots, each once and whole.
THEOREM PopsInOrder == Spec => []FifoUntilReuse
<1> QED
  BY Invariant, FifoFollows, PTL

-----------------------------------------------------------------------------
(* AsyncLogger: the inductive invariant                                    *)

\* The destructor has taken every line (the last part of FilesHoldLines).
TakesAll == owner = "joined" /\ ~reused => popped = reserved

\* What the owner has done, popThread() knows.
Stages ==
  /\ logState = "kINIT" => owner = "new"
  /\ owner = "new" => logState = "kINIT" /\ tpc = "wait"
  /\ owner = "running" => logState = "kREADY"
  /\ owner \in {"joining", "joined"} => \A w \in Writer : pc[w] = "idle"
  /\ owner \in {"new", "running", "joining", "joined"}
  /\ tpc \in {"drain", "exited"} => owner \in {"joining", "joined"}
  /\ owner = "joined" => tpc = "exited"
  /\ tpc = "exited" /\ ~reused => popped = reserved

LoggerInv == IInv /\ Complete /\ Stages

-----------------------------------------------------------------------------
(* Concatenation of sequences                                              *)

\* Induction over the natural numbers, with the set of those that have the
\* property.
LEMMA Induction ==
  ASSUME NEW S, 0 \in S, \A n \in Nat : n \in S => n + 1 \in S
  PROVE  Nat \subseteq S
<1> SUFFICES ASSUME Nat \ S # {} PROVE FALSE
  OBVIOUS
<1>1. PICK x \in Nat \ S : \A y \in Nat \ S : ~(<<y, x>> \in OpToRel(<, Nat))
  <2>1. Nat \ S \subseteq Nat
    OBVIOUS
  <2> QED
    BY <2>1, WFMin, NatLessThanWellFounded, Zenon
<1>2. \A y \in Nat \ S : ~(y < x)
  BY <1>1 DEF OpToRel
<1>3. x # 0 /\ x - 1 \in Nat /\ x - 1 < x
  OBVIOUS
<1>4. x - 1 \in S
  BY <1>2, <1>3
<1> QED
  BY <1>3, <1>4

\* The i-th element of f is the concatenation of the first i sequences of s.
Concatenates(f, s) ==
  /\ f[1] = s[1]
  /\ \A i \in 1..Len(s) - 1 : f[i + 1] = f[i] \o s[i + 1]

\* FlattenSeq() defines a function by recursion; there is such a function.
LEMMA Flattened ==
  ASSUME NEW E, NEW s \in Seq(Seq(E)), s # <<>>
  PROVE  \E f \in [1..Len(s) -> Seq(E)] :
           Concatenates(f, s) /\ FlattenSeq(s) = f[Len(s)]
<1>1. Len(s) \in Nat /\ Len(s) # 0
  BY EmptySeq
<1> DEFINE Upto(n, f) == [i \in 1..n |-> IF i = 1 THEN s[i] ELSE f[i - 1] \o s[i]]
           g == CHOOSE f : f = Upto(Len(s), f)
<1>2. \A n \in Nat : \E f : f = Upto(n, f)
  <2> DEFINE S == {n \in Nat : \E f : f = Upto(n, f)}
  <2>1. 0 \in S
    <3>1. Upto(0, <<>>) = Upto(0, Upto(0, <<>>))
      OBVIOUS
    <3> QED
      BY <3>1
  <2>2. ASSUME NEW n \in Nat, n \in S PROVE n + 1 \in S
    <3>1. PICK f : f = Upto(n, f)
      BY <2>2
    <3> DEFINE h == [i \in 1..n + 1 |-> IF i = n + 1 THEN IF i = 1 THEN s[i] ELSE f[i - 1] \o s[i]
                                       ELSE f[i]]
    <3>2. ASSUME NEW i \in 1..n + 1
          PROVE  h[i] = IF i = 1 THEN s[i] ELSE h[i - 1] \o s[i]
      <4>1. CASE i = n + 1
        <5>1. i # 1 => i - 1 \in 1..n + 1 /\ i - 1 # n + 1
          BY <4>1
        <5> QED
          BY <4>1, <5>1
      <4>2. CASE i # n + 1
        <5>1. i \in 1..n /\ (i # 1 => i - 1 \in 1..n + 1 /\ i - 1 # n + 1)
          BY <4>2
        <5>2. f[i] = IF i = 1 THEN s[i] ELSE f[i - 1] \o s[i]
          BY <3>1, <5>1
        <5> QED
          BY <4>2, <5>1, <5>2
      <4> QED
        BY <4>1, <4>2
    <3>3. h = Upto(n + 1, h)
      BY <3>2
    <3> HIDE DEF h
    <3>4. n + 1 \in Nat /\ \E x : x = Upto(n + 1, x)
      <4> HIDE DEF Upto
      <4> QED
        BY <3>3
    <3> QED
      BY <3>4
  <2>3. Nat \subseteq S
    <3> HIDE DEF S
    <3> QED
      BY <2>1, <2>2, Induction
  <2> QED
    BY <2>3
<1>3. g = Upto(Len(s), g)
  <2>1. \E f : f = Upto(Len(s), f)
    BY <1>1, <1>2
  <2> HIDE DEF Upto
  <2> QED
    BY <2>1
<1>4. FlattenSeq(s) = g[Len(s)]
  BY <1>1 DEF FlattenSeq
<1> HIDE DEF g
<1>5. Concatenates(g, s)
  <2>1. g[1] = s[1]
    BY <1>1, <1>3
  <2>2. ASSUME NEW j \in 1..Len(s), j # 1 PROVE g[j] = g[j - 1] \o s[j]
    <3>1. Upto(Len(s), g)[j] = g[j - 1] \o s[j]
      BY <2>2
    <3> QED
      BY <1>3, <3>1
  <2>3. ASSUME NEW i \in 1..Len(s) - 1 PROVE g[i + 1] = g[i] \o s[i + 1]
    <3>1. PICK k \in 1..Len(s) : k # 1 /\ k - 1 = i /\ k = i + 1
      BY <1>1
    <3>2. g[k] = g[k - 1] \o s[k]
      BY <2>2, <3>1
    <3> QED
      BY <3>1, <3>2
  <2> QED
    BY <2>1, <2>3 DEF Concatenates
<1>6. \A n \in Nat : n \in 1..Len(s) => g[n] \in Seq(E)
  <2> DEFINE S == {n \in Nat : n \in 1..Len(s) => g[n] \in Seq(E)}
  <2>1. 0 \in S
    OBVIOUS
  <2>2. ASSUME NEW n \in Nat, n \in S PROVE n + 1 \in S
    <3> SUFFICES ASSUME n + 1 \in 1..Len(s) PROVE g[n + 1] \in Seq(E)
      OBVIOUS
    <3>1. s[n + 1] \in Seq(E)
      BY ElementOfSeq
    <3>2. CASE n = 0
      BY <3>1, <3>2, <1>5 DEF Concatenates
    <3>3. CASE n # 0
      <4>1. n \in 1..Len(s) - 1 /\ n \in 1..Len(s)
        BY <3>3, <1>1
      <4>2. g[n + 1] = g[n] \o s[n + 1] /\ g[n] \in Seq(E)
        BY <4>1, <2>2, <1>5 DEF Concatenates
      <4> QED
        BY <3>1, <4>2, ConcatProperties
    <3> QED
      BY <3>2, <3>3
  <2> HIDE DEF S
  <2>3. Nat \subseteq S
    BY <2>1, <2>2, Induction
  <2> QED
    BY <2>3 DEF S
<1>7. g \in [1..Len(s) -> Seq(E)]
  BY <1>3, <1>6
<1> QED
  BY <1>4, <1>5, <1>7

Joins(s, a, b) == s = a \o b

LEMMA Associative ==
  ASSUME NEW E, NEW a \in Seq(E), NEW b \in Seq(E), NEW c \in Seq(E),
         NEW d, Joins(d, a, b), NEW e, Joins(e, b, c), NEW s, Joins(s, a, e)
  PROVE  Joins(s, d, c)
<1>1. (a \o b) \o c = a \o (b \o c)
  BY ConcatAssociative
<1> QED
  BY <1>1 DEF Joins

\* What is added to the last sequence that is not empty comes last.
LEMMA FlattenedAppend ==
  ASSUME NEW E, NEW s \in Seq(Seq(E)), NEW t \in Seq(Seq(E)), Len(s) = Len(t),
         NEW m \in 1..Len(s), NEW out \in Seq(E),
         t[m] = s[m] \o out,
         \A i \in 1..Len(s) : i < m => t[i] = s[i],
         \A i \in 1..Len(s) : m < i => s[i] = <<>> /\ t[i] = <<>>
  PROVE  FlattenSeq(s) \in Seq(E) /\ FlattenSeq(t) = FlattenSeq(s) \o out
<1>1. Len(s) \in Nat /\ s # <<>> /\ t # <<>>
  OBVIOUS
<1>2. PICK f \in [1..Len(s) -> Seq(E)] : Concatenates(f, s) /\ FlattenSeq(s) = f[Len(s)]
  BY <1>1, Flattened
<1>3. PICK g \in [1..Len(s) -> Seq(E)] : Concatenates(g, t) /\ FlattenSeq(t) = g[Len(s)]
  BY <1>1, Flattened
<1> DEFINE Agree(i) == /\ i < m => g[i] = f[i]
                       /\ m <= i => g[i] = f[i] \o out
           S == {i \in Nat : i \in 1..Len(s) => Agree(i)}
<1> HIDE DEF Agree
<1>4. 0 \in S
  OBVIOUS
<1>5. ASSUME NEW n \in Nat, n \in S PROVE n + 1 \in S
  <2> SUFFICES ASSUME n + 1 \in 1..Len(s) PROVE Agree(n + 1)
    OBVIOUS
  <2>1. CASE n = 0
    <3>1. f[1] = s[1] /\ g[1] = t[1] /\ 1 \in 1..Len(s) /\ m \in Nat
      BY <1>1, <1>2, <1>3 DEF Concatenates
    <3>2. 1 < m => g[1] = f[1]
      BY <3>1
    <3>3. m <= 1 => g[1] = f[1] \o out
      <4>1. m <= 1 => m = 1
        BY <3>1
      <4> QED
        BY <3>1, <4>1, Zenon
    <3>4. Agree(1)
      BY <3>2, <3>3 DEF Agree
    <3> QED
      BY <2>1, <3>4
  <2>2. CASE n # 0
    <3>1. n \in 1..Len(s) - 1 /\ n \in 1..Len(s) /\ m \in Nat
      BY <2>2, <1>1
    <3>2. (n < m => g[n] = f[n]) /\ (m <= n => g[n] = f[n] \o out)
      BY <3>1, <1>5 DEF Agree
    <3>3. /\ f[n + 1] = f[n] \o s[n + 1] /\ g[n + 1] = g[n] \o t[n + 1]
          /\ f[n] \in Seq(E) /\ g[n] \in Seq(E) /\ s[n + 1] \in Seq(E)
      BY <3>1, <1>2, <1>3, ElementOfSeq DEF Concatenates
    <3>4. ASSUME n + 1 < m PROVE g[n + 1] = f[n + 1]
      <4>1. t[n + 1] = s[n + 1] /\ n < m
        <5>1. n < m
          BY <3>1, <3>4
        <5>2. t[n + 1] = s[n + 1]
          BY <3>4, Zenon
        <5> QED
          BY <5>1, <5>2, Zenon
      <4> QED
        BY <3>2, <3>3, <4>1
    <3>5. ASSUME n + 1 = m PROVE g[n + 1] = f[n + 1] \o out
      <4>1. t[n + 1] = s[n + 1] \o out /\ g[n] = f[n]
        <5>1. n < m
          BY <3>5
        <5> QED
          BY <3>2, <3>5, <5>1, Zenon
      <4>2. /\ Joins(f[n + 1], f[n], s[n + 1]) /\ Joins(t[n + 1], s[n + 1], out)
            /\ Joins(g[n + 1], f[n], t[n + 1])
        BY <3>3, <4>1 DEF Joins
      <4> DEFINE f0 == f[n]   f1 == f[n + 1]   g1 == g[n + 1]
                 s1 == s[n + 1]   t1 == t[n + 1]
      <4>3. /\ f0 \in Seq(E) /\ s1 \in Seq(E) /\ out \in Seq(E)
            /\ Joins(f1, f0, s1) /\ Joins(t1, s1, out) /\ Joins(g1, f0, t1)
        BY <3>3, <4>2
      <4> HIDE DEF f0, f1, g1, s1, t1
      <4>4. Joins(g1, f1, out)
        BY <4>3, Associative
      <4> QED
        BY <4>4 DEF Joins, f1, g1
    <3>6. ASSUME m < n + 1 PROVE g[n + 1] = f[n + 1] \o out
      <4>1. s[n + 1] = <<>> /\ t[n + 1] = <<>> /\ m <= n
        <5>1. m <= n
          BY <3>1, <3>6
        <5>2. s[n + 1] = <<>> /\ t[n + 1] = <<>>
          BY <3>6, Zenon
        <5> QED
          BY <5>1, <5>2, Zenon
      <4>2. f[n + 1] = f[n] /\ g[n + 1] = g[n]
        BY <3>3, <4>1, ConcatEmptySeq
      <4> QED
        BY <3>2, <4>1, <4>2
    <3>7. m <= n + 1 => n + 1 = m \/ m < n + 1
      BY <3>1
    <3> QED
      BY <3>4, <3>5, <3>6, <3>7 DEF Agree
  <2> QED
    BY <2>1, <2>2
<1>6. Nat \subseteq S
  <2> HIDE DEF S
  <2> QED
    BY <1>4, <1>5, Induction
<1>7. Len(s) \in 1..Len(s) /\ m <= Len(s)
  BY <1>1
<1>8. Agree(Len(s))
  BY <1>1, <1>6, <1>7
<1> QED
  BY <1>2, <1>3, <1>7, <1>8 DEF Agree

\* Nothing but empty sequences makes an empty one.
LEMMA FlattenedEmpty ==
  ASSUME NEW E, NEW s \in Seq(Seq(E)), \A i \in 1..Len(s) : s[i] = <<>>
  PROVE  FlattenSeq(s) = <<>>
<1>1. CASE s = <<>>
  BY <1>1 DEF FlattenSeq
<1>2. CASE s # <<>>
  <2>1. Len(s) \in Nat /\ Len(s) # 0
    BY <1>2, EmptySeq
  <2>2. PICK f \in [1..Len(s) -> Seq(E)] : Concatenates(f, s) /\ FlattenSeq(s) = f[Len(s)]
    BY <1>2, Flattened
  <2> DEFINE S == {i \in Nat : i \in 1..Len(s) => f[i] = <<>>}
  <2>3. 0 \in S
    OBVIOUS
  <2>4. ASSUME NEW n \in Nat, n \in S PROVE n + 1 \in S
    <3> SUFFICES ASSUME n + 1 \in 1..Len(s) PROVE f[n + 1] = <<>>
      OBVIOUS
    <3>1. CASE n = 0
      BY <3>1, <2>2 DEF Concatenates
    <3>2. CASE n # 0
      <4>1. n \in 1..Len(s) - 1 /\ n \in 1..Len(s) /\ f[n] = <<>>
        BY <3>2, <2>1, <2>4
      <4>2. f[n + 1] = <<>> \o <<>>
        BY <4>1, <2>2 DEF Concatenates
      <4> QED
        BY <4>2
    <3> QED
      BY <3>1, <3>2
  <2> HIDE DEF S
  <2>5. Nat \subseteq S
    BY <2>3, <2>4, Induction
  <2> QED
    BY <2>1, <2>2, <2>5 DEF S
<1> QED
  BY <1>1, <1>2

-----------------------------------------------------------------------------
(* The files                                                               *)

\* What the file may get; the lines of a text; all that was written.
Entry == UNION {Shown(l) : l \in Line \cup {Moved, Raw}}
Lines(s) == [i \in 1..Len(s) |-> s[i].line]
FilesOf(d) == FlattenSeq([i \in 1..MaxTime + 1 |-> d[i - 1]])
Output == Files \o stream

\* Files with later names than the one that is written are empty.
FileOK ==
  /\ now \in Second /\ opened \in 0..now
  /\ disk \in [Second -> Seq(Entry)]
  /\ stream \in Seq(Entry)
  /\ \A t \in Second : opened < t => disk[t] = <<>>

LEMMA EntryLine ==
  ASSUME NEW l \in Line \cup {Moved, Raw}, NEW e \in Shown(l)
  PROVE  e \in Entry /\ e.line = l
<1>1. e \in Entry
  BY DEF Entry
<1>2. e.line = l
  BY DEF Shown
<1> QED
  BY <1>1, <1>2

LEMMA LinesAppend ==
  ASSUME NEW s \in Seq(Entry), NEW e \in Entry
  PROVE  Lines(Append(s, e)) = Append(Lines(s), e.line)
<1>1. Len(s) \in Nat /\ Len(Append(s, e)) = Len(s) + 1
  BY AppendProperties
<1>2. Lines(s) \in Seq({x.line : x \in Entry}) /\ Len(Lines(s)) = Len(s)
  BY <1>1, ElementOfSeq DEF Lines
<1> DEFINE a == Lines(Append(s, e))
           b == Append(Lines(s), e.line)
<1>3. a = [i \in 1..Len(s) + 1 |-> Append(s, e)[i].line]
  BY <1>1 DEF Lines
<1>4. /\ DOMAIN b = 1..Len(s) + 1
      /\ \A i \in 1..Len(s) + 1 : b[i] = IF i <= Len(s) THEN s[i].line ELSE e.line
  BY <1>1, <1>2 DEF Lines
<1>5. \A i \in 1..Len(s) + 1 : Append(s, e)[i] = IF i <= Len(s) THEN s[i] ELSE e
  BY <1>1
<1>6. b = [i \in 1..Len(s) + 1 |-> b[i]]
  BY <1>1, <1>2
<1> QED
  BY <1>1, <1>3, <1>4, <1>5, <1>6

LEMMA FilesAppend ==
  ASSUME NEW d \in [Second -> Seq(Entry)], NEW o \in Second, NEW out \in Seq(Entry),
         \A t \in Second : o < t => d[t] = <<>>
  PROVE  FilesOf(d) \in Seq(Entry) /\ FilesOf([d EXCEPT ![o] = @ \o out]) = FilesOf(d) \o out
<1> DEFINE c == [d EXCEPT ![o] = @ \o out]
           s == [i \in 1..MaxTime + 1 |-> d[i - 1]]
           t == [i \in 1..MaxTime + 1 |-> c[i - 1]]
<1>1. MaxTime \in Nat /\ o \in Nat /\ o + 1 \in 1..MaxTime + 1
  BY LogFileAssumption DEF Second
<1>2. \A i \in 1..MaxTime + 1 : i - 1 \in Second
  BY <1>1 DEF Second
<1>3. c \in [Second -> Seq(Entry)]
  BY ConcatProperties
<1>4. \A x \in Second : c[x] = IF x = o THEN d[x] \o out ELSE d[x]
  OBVIOUS
<1> HIDE DEF c
<1>5. s \in Seq(Seq(Entry)) /\ t \in Seq(Seq(Entry)) /\ Len(s) = MaxTime + 1 /\ Len(t) = MaxTime + 1
  BY <1>1, <1>2, <1>3
<1>6. t[o + 1] = s[o + 1] \o out
  <2>1. o + 1 - 1 = o
    BY <1>1
  <2>2. \A i \in 1..MaxTime + 1 : t[i] = c[i - 1] /\ s[i] = d[i - 1]
    OBVIOUS
  <2> HIDE DEF s, t
  <2>3. t[o + 1] = c[o] /\ s[o + 1] = d[o]
    BY <1>1, <2>1, <2>2
  <2> QED
    BY <1>4, <2>3
<1>7. \A i \in 1..Len(s) : i < o + 1 => t[i] = s[i]
  BY <1>1, <1>2, <1>4, <1>5
<1>8. \A i \in 1..Len(s) : o + 1 < i => s[i] = <<>> /\ t[i] = <<>>
  BY <1>1, <1>2, <1>4, <1>5
<1> HIDE DEF s, t
<1>9. FlattenSeq(s) \in Seq(Entry) /\ FlattenSeq(t) = FlattenSeq(s) \o out
  <2>1. o + 1 \in 1..Len(s) /\ Len(s) = Len(t)
    BY <1>1, <1>5
  <2> QED
    BY <1>5, <1>6, <1>7, <1>8, <2>1, FlattenedAppend, Zenon
<1> QED
  BY <1>9 DEF s, t, c, FilesOf

\* What flushing does to the files.
LEMMA FlushFile ==
  ASSUME FileOK, NEW out \in Seq(Entry)
  PROVE  /\ Files \in Seq(Entry) /\ Flushed(out) \in [Second -> Seq(Entry)]
         /\ FilesOf(Flushed(out)) = Files \o out
         /\ \A t \in Second : opened < t => Flushed(out)[t] = <<>>
         /\ Flushed(out)[opened] = disk[opened] \o out
<1>1. opened \in Second /\ disk \in [Second -> Seq(Entry)]
  BY LogFileAssumption DEF FileOK, Second
<1>2. Files = FilesOf(disk) /\ \A t \in Second : opened < t => disk[t] = <<>>
  BY DEF Files, FilesOf, FileOK
<1>3. Flushed(out) = [disk EXCEPT ![opened] = @ \o out]
  BY DEF Flushed
<1>4. Flushed(out) \in [Second -> Seq(Entry)]
  BY <1>1, <1>3, ConcatProperties
<1>5. /\ \A t \in Second : opened < t => Flushed(out)[t] = <<>>
      /\ Flushed(out)[opened] = disk[opened] \o out
  BY <1>1, <1>2, <1>3 DEF Second
<1>6. Files \in Seq(Entry) /\ FilesOf(Flushed(out)) = Files \o out
  BY <1>1, <1>2, <1>3, FilesAppend
<1> QED
  BY <1>4, <1>5, <1>6

LEMMA AppendOut ==
  ASSUME NEW a \in Seq(Entry), NEW b \in Seq(Entry), NEW e \in Entry
  PROVE  /\ a \o b \in Seq(Entry) /\ Append(b, e) \in Seq(Entry) /\ Append(b, e) # <<>>
         /\ a \o Append(b, e) = Append(a \o b, e)
<1>1. a \o b \in Seq(Entry) /\ Append(b, e) \in Seq(Entry) /\ Append(b, e) # <<>>
  BY ConcatProperties, AppendProperties
<1>2. a \o Append(b, e) = Append(a \o b, e)
  OBVIOUS
<1> QED
  BY <1>1, <1>2

\* write(): the line is in the stream or in the file, unless a file of the
\* same second was truncated.
LEMMA WriteFile ==
  ASSUME FileOK, NEW e \in Entry, NEW t \in now..MaxTime, NEW n, write(t, e, n)
  PROVE  /\ FileOK' /\ (truncated => truncated')
         /\ ~truncated' => Output' = Append(Output, e)
<1> DEFINE out == Append(stream, e)
<1>1. /\ now \in Nat /\ now <= MaxTime /\ MaxTime \in Nat
      /\ opened \in Nat /\ opened <= now /\ opened \in Second
      /\ t \in Nat /\ now <= t /\ t \in Second
  BY LogFileAssumption DEF FileOK, Second
<1>2. out \in Seq(Entry) /\ out # <<>> /\ stream \in Seq(Entry)
  BY AppendProperties DEF FileOK
<1> HIDE DEF out
<1>3. /\ Files \in Seq(Entry) /\ Flushed(out) \in [Second -> Seq(Entry)]
      /\ FilesOf(Flushed(out)) = Files \o out
      /\ \A x \in Second : opened < x => Flushed(out)[x] = <<>>
      /\ Flushed(out)[opened] = disk[opened] \o out
  BY <1>2, FlushFile
<1>4. Files \o out = Append(Output, e) /\ Files' = FilesOf(disk')
  <2>1. Files \o out = Append(Files \o stream, e)
    BY <1>2, <1>3, AppendOut DEF out
  <2> QED
    BY <2>1 DEF Output, Files, FilesOf
<1>5. CASE rollFile(t, out) /\ now' = t
  <2>1. /\ disk' = [Flushed(out) EXCEPT ![t] = <<>>]
        /\ truncated' = (truncated \/ Flushed(out)[t] # <<>>)
        /\ stream' = <<>> /\ opened' = t
    BY <1>5 DEF rollFile
  <2>2. disk' \in [Second -> Seq(Entry)] /\ \A x \in Second : opened' < x => disk'[x] = <<>>
    <3>1. disk' \in [Second -> Seq(Entry)]
      BY <1>3, <2>1, EmptySeq
    <3>2. ASSUME NEW x \in Second, t < x PROVE disk'[x] = <<>>
      <4>1. x # t /\ opened < x
        BY <1>1, <3>2 DEF Second
      <4> QED
        BY <1>3, <2>1, <4>1
    <3> QED
      BY <2>1, <3>1, <3>2
  <2>3. FileOK'
    BY <1>1, <1>5, <2>1, <2>2 DEF FileOK
  <2>4. ASSUME ~truncated' PROVE Output' = Append(Output, e)
    <3>1. Flushed(out)[t] = <<>>
      BY <2>1, <2>4
    <3>2. disk' = Flushed(out)
      BY <1>3, <2>1, <3>1
    <3>3. Output' = (Files \o out) \o <<>>
      BY <1>3, <1>4, <2>1, <3>2 DEF Output
    <3>4. Files \o out \in Seq(Entry)
      BY <1>2, <1>3, ConcatProperties
    <3> QED
      BY <1>4, <3>3, <3>4, ConcatEmptySeq
  <2> QED
    BY <2>1, <2>3, <2>4
<1>6. CASE /\ now' \in {now, t} /\ UNCHANGED <<opened, truncated>>
           /\ disk' = Flushed(out) /\ stream' = <<>>
  <2>1. FileOK'
    BY <1>1, <1>3, <1>6 DEF FileOK
  <2>2. Output' = (Files \o out) \o <<>>
    BY <1>3, <1>4, <1>6 DEF Output
  <2>3. Files \o out \in Seq(Entry)
    BY <1>2, <1>3, ConcatProperties
  <2> QED
    BY <1>4, <1>6, <2>1, <2>2, <2>3, ConcatEmptySeq
<1>7. CASE /\ now' \in {now, t} /\ UNCHANGED <<opened, truncated>>
           /\ disk' = disk /\ stream' = out
  <2>1. FileOK'
    BY <1>1, <1>2, <1>7 DEF FileOK
  <2>2. Files' = Files
    BY <1>7 DEF Files
  <2> QED
    BY <1>4, <1>7, <2>1, <2>2 DEF Output
<1> QED
  BY <1>5, <1>6, <1>7 DEF write, out

\* The flush before abort(), and the end of the ofstream.
LEMMA EndFile ==
  ASSUME FileOK, NEW out \in Seq(Entry), UNCHANGED <<now, opened, truncated>>,
         disk' = Flushed(out), stream' = <<>>
  PROVE  FileOK' /\ Output' = Files \o out
<1>1. /\ Files \in Seq(Entry) /\ Flushed(out) \in [Second -> Seq(Entry)]
      /\ FilesOf(Flushed(out)) = Files \o out
      /\ \A x \in Second : opened < x => Flushed(out)[x] = <<>>
  BY FlushFile
<1>2. FileOK'
  BY <1>1 DEF FileOK
<1>3. Files' = Files \o out
  BY <1>1 DEF Files, FilesOf
<1>4. Files \o out \in Seq(Entry)
  BY <1>1, ConcatProperties
<1> QED
  BY <1>2, <1>3, <1>4, ConcatEmptySeq DEF Output

-----------------------------------------------------------------------------
(* Encoding and decoding a line                                            *)

\* The bytes of an argument, without its type code.
Size(a) == IF a.type = "kRawStr" THEN a.len + 1 ELSE SizeOf[a.type]

\* The buffer L holds the arguments v from the header to its end, the k-th at
\* the offset pos[k].
IsBuffer(L) ==
  /\ L = [used |-> L.used, size |-> L.size, heap |-> L.heap, mem |-> L.mem, inside |-> TRUE]
  /\ L.used \in Nat /\ L.size \in Nat /\ HeaderSize <= L.used
Places(L, v, pos) ==
  /\ pos[1] = HeaderSize /\ pos[Len(v) + 1] = L.used
  /\ \A k \in 1..Len(v) :
       /\ HeaderSize <= pos[k] /\ pos[k] + 1 < L.used
       /\ pos[k + 1] = pos[k] + 1 + Size(v[k])
       /\ pos[k] \in DOMAIN L.mem /\ L.mem[pos[k]] = v[k].type
       /\ pos[k] + 1 \in DOMAIN L.mem /\ L.mem[pos[k] + 1] = v[k]
Holds(L, v) ==
  IsBuffer(L) /\ \E pos \in [1..Len(v) + 1 -> Nat] : Places(L, v, pos)

LEMMA Sizes ==
  ASSUME NEW a \in Argument
  PROVE  /\ Size(a) \in Nat \ {0} /\ a.len \in Nat
         /\ a.type # "kRawStr" => a.type \in DOMAIN SizeOf
<1>1. a.type \in DOMAIN SizeOf \cup {"kRawStr"} /\ a.len \in Nat
  BY AsyncLoggerAssumption
<1>2. \A x \in DOMAIN SizeOf : SizeOf[x] \in Nat \ {0}
  BY DEF SizeOf
<1>3. CASE a.type = "kRawStr"
  BY <1>1, <1>3 DEF Size
<1>4. CASE a.type # "kRawStr"
  BY <1>1, <1>2, <1>4 DEF Size
<1> QED
  BY <1>1, <1>3, <1>4

\* There is room for what is needed, and what was used is still there.
LEMMA Resized ==
  ASSUME NEW L, IsBuffer(L), NEW n \in Nat
  PROVE  LET R == resizeBufferIfNeeded(L, n)
         IN /\ IsBuffer(R) /\ R.used = L.used /\ L.used + n <= R.size
            /\ \A x \in DOMAIN L.mem : x \in 0..L.used - 1 => x \in DOMAIN R.mem /\ R.mem[x] = L.mem[x]
<1> DEFINE R == resizeBufferIfNeeded(L, n)
           required == L.used + n
           least == IF L.heap THEN 2 * L.size ELSE HeapSize
           D == DOMAIN L.mem \cap 0..L.used - 1
<1>1. L.used \in Nat /\ L.size \in Nat /\ required \in Nat /\ least \in Nat
  BY DEF IsBuffer, HeapSize
<1>2. CASE required <= L.size
  <2>1. R = L
    BY <1>2 DEF resizeBufferIfNeeded
  <2> QED
    BY <1>2, <2>1
<1>3. CASE ~(required <= L.size)
  <2>1. R = [L EXCEPT !.size = Max({least, required}), !.heap = TRUE,
                      !.mem = Restrict(@, DOMAIN @ \cap 0..L.used - 1)]
    BY <1>3 DEF resizeBufferIfNeeded
  <2>2. Max({least, required}) \in Nat /\ required <= Max({least, required})
    <3> HIDE DEF least, required
    <3>1. \E m \in {least, required} : \A y \in {least, required} : m >= y
      BY <1>1
    <3>2. Max({least, required}) \in {least, required} /\ Max({least, required}) >= required
      BY <3>1 DEF Max
    <3> QED
      BY <1>1, <3>2
  <2>3. R = [used |-> L.used, size |-> Max({least, required}), heap |-> TRUE,
             mem |-> Restrict(L.mem, D), inside |-> TRUE]
    <3>1. PICK u, z, h, m : L = [used |-> u, size |-> z, heap |-> h, mem |-> m, inside |-> TRUE]
      BY DEF IsBuffer
    <3> HIDE DEF least, required
    <3> QED
      BY <2>1, <3>1
  <2> HIDE DEF least, required, R
  <2>4. \A x \in D : x \in DOMAIN R.mem /\ R.mem[x] = L.mem[x]
    BY <2>3 DEF Restrict
  <2>5. IsBuffer(R)
    BY <1>1, <2>2, <2>3 DEF IsBuffer
  <2> QED
    <3>1. R.used = L.used /\ required <= R.size
      BY <2>2, <2>3
    <3> QED
      BY <2>4, <2>5, <3>1 DEF required, R
<1> QED
  BY <1>2, <1>3

\* One more value at the end.
LEMMA PutAtEnd ==
  ASSUME NEW L, IsBuffer(L), NEW n \in Nat, NEW x, L.used + n <= L.size
  PROVE  LET P == Put(L, n, x)
         IN /\ IsBuffer(P) /\ P.used = L.used + n /\ P.size = L.size
            /\ L.used \in DOMAIN P.mem /\ P.mem[L.used] = x
            /\ \A y \in DOMAIN L.mem : y # L.used => y \in DOMAIN P.mem /\ P.mem[y] = L.mem[y]
<1> DEFINE P == Put(L, n, x)
           new == [b \in {L.used} \cup DOMAIN L.mem |-> IF b = L.used THEN x ELSE L.mem[b]]
<1>1. L.used \in Nat /\ L.size \in Nat /\ HeaderSize <= L.used /\ HeaderSize \in Nat
  BY DEF IsBuffer, HeaderSize
<1>2. P = [used |-> L.used + n, size |-> L.size, heap |-> L.heap, mem |-> new, inside |-> TRUE]
  <2>1. PICK u, z, h, m : L = [used |-> u, size |-> z, heap |-> h, mem |-> m, inside |-> TRUE]
    BY DEF IsBuffer
  <2>2. P = [L EXCEPT !.mem = new, !.used = L.used + n, !.inside = TRUE]
    BY <2>1 DEF Put
  <2> HIDE DEF new, P
  <2> QED
    BY <2>1, <2>2
<1>3. /\ DOMAIN new = {L.used} \cup DOMAIN L.mem
      /\ \A y \in DOMAIN new : new[y] = IF y = L.used THEN x ELSE L.mem[y]
  OBVIOUS
<1> HIDE DEF new, P
<1>4. IsBuffer(P)
  BY <1>1, <1>2 DEF IsBuffer
<1> QED
  BY <1>2, <1>3, <1>4 DEF P

LEMMA HoldsNewLine ==
  ASSUME NEW level
  PROVE  Holds(NewLine(level), <<>>)
<1> DEFINE L == NewLine(level)
           pos == [k \in 1..1 |-> HeaderSize]
<1>1. HeaderSize \in Nat /\ StackSize \in Nat /\ HeaderSize <= StackSize
  BY DEF HeaderSize, StackSize, kLogLineSize
<1>2. IsBuffer(L) /\ L.used = HeaderSize
  <2>1. (HeaderSize <= StackSize) = TRUE
    BY <1>1
  <2>2. L = [used |-> HeaderSize, size |-> StackSize, heap |-> FALSE,
             mem |-> [b \in {0} |-> level], inside |-> TRUE]
    BY <2>1 DEF NewLine
  <2> HIDE DEF L
  <2> QED
    BY <1>1, <2>2 DEF IsBuffer
<1> HIDE DEF L
<1>3. pos \in [1..Len(<<>>) + 1 -> Nat] /\ Places(L, <<>>, pos)
  BY <1>1, <1>2 DEF Places
<1> QED
  BY <1>2, <1>3 DEF Holds, L

\* A type code and an argument are put behind the others.
LEMMA HoldsOneMore ==
  ASSUME NEW L, NEW v \in Seq(Argument), NEW a \in Argument, Holds(L, v)
  PROVE  Holds(Put(Put(resizeBufferIfNeeded(L, 1 + Size(a)), 1, a.type), Size(a), a),
               Append(v, a))
<1> DEFINE n == Size(a)
           R == resizeBufferIfNeeded(L, 1 + n)
           P == Put(R, 1, a.type)
           Q == Put(P, n, a)
           w == Append(v, a)
<1>1. n \in Nat /\ n # 0
  BY Sizes
<1>2. IsBuffer(L) /\ L.used \in Nat /\ HeaderSize <= L.used /\ HeaderSize \in Nat
  BY DEF Holds, IsBuffer, HeaderSize
<1> HIDE DEF n, R, P, Q
<1>3. /\ IsBuffer(R) /\ R.used = L.used /\ L.used + (1 + n) <= R.size /\ R.size \in Nat
      /\ \A x \in DOMAIN L.mem : x \in 0..L.used - 1 => x \in DOMAIN R.mem /\ R.mem[x] = L.mem[x]
  <2>1. 1 + n \in Nat
    BY <1>1
  <2>2. /\ IsBuffer(R) /\ R.used = L.used /\ L.used + (1 + n) <= R.size
        /\ \A x \in DOMAIN L.mem : x \in 0..L.used - 1 => x \in DOMAIN R.mem /\ R.mem[x] = L.mem[x]
    BY <1>2, <2>1, Resized, Zenon DEF R
  <2> QED
    BY <2>2 DEF IsBuffer
<1>4. /\ IsBuffer(P) /\ P.used = L.used + 1 /\ P.size = R.size
      /\ L.used \in DOMAIN P.mem /\ P.mem[L.used] = a.type
      /\ \A y \in DOMAIN R.mem : y # L.used => y \in DOMAIN P.mem /\ P.mem[y] = R.mem[y]
  <2>1. R.used + 1 <= R.size
    BY <1>1, <1>2, <1>3
  <2> QED
    BY <1>3, <2>1, PutAtEnd DEF P
<1>5. /\ IsBuffer(Q) /\ Q.used = L.used + 1 + n
      /\ L.used + 1 \in DOMAIN Q.mem /\ Q.mem[L.used + 1] = a
      /\ \A y \in DOMAIN P.mem : y # L.used + 1 => y \in DOMAIN Q.mem /\ Q.mem[y] = P.mem[y]
  <2>1. P.used + n <= P.size
    BY <1>1, <1>2, <1>3, <1>4
  <2> QED
    BY <1>1, <1>4, <2>1, PutAtEnd DEF Q
<1>6. ASSUME NEW x \in DOMAIN L.mem, x \in 0..L.used - 1
      PROVE  x \in DOMAIN Q.mem /\ Q.mem[x] = L.mem[x]
  <2>1. x # L.used /\ x # L.used + 1
    BY <1>2, <1>6
  <2>2. x \in DOMAIN R.mem /\ R.mem[x] = L.mem[x]
    BY <1>3, <1>6
  <2>3. x \in DOMAIN P.mem /\ P.mem[x] = L.mem[x]
    BY <1>4, <2>1, <2>2
  <2> QED
    BY <1>5, <2>1, <2>3
<1>7. L.used \in DOMAIN Q.mem /\ Q.mem[L.used] = a.type
  <2>1. L.used # L.used + 1
    BY <1>2
  <2> QED
    BY <1>4, <1>5, <2>1
<1>8. PICK pos \in [1..Len(v) + 1 -> Nat] : Places(L, v, pos)
  BY DEF Holds
<1>9. /\ Len(v) \in Nat /\ w \in Seq(Argument) /\ Len(w) = Len(v) + 1 /\ w[Len(v) + 1] = a
      /\ \A k \in 1..Len(v) : w[k] = v[k]
  BY AppendProperties
<1> HIDE DEF w
<1> DEFINE new == [k \in 1..Len(w) + 1 |-> IF k = Len(w) + 1 THEN Q.used ELSE pos[k]]
<1>10. new \in [1..Len(w) + 1 -> Nat]
  BY <1>1, <1>2, <1>5, <1>8, <1>9
<1>11. /\ new[Len(w) + 1] = Q.used /\ new[Len(v) + 1] = L.used /\ new[1] = HeaderSize
       /\ \A k \in 1..Len(v) : new[k] = pos[k] /\ new[k + 1] = pos[k + 1]
  BY <1>8, <1>9 DEF Places
<1> HIDE DEF new
<1>12. ASSUME NEW k \in 1..Len(w)
       PROVE  /\ HeaderSize <= new[k] /\ new[k] + 1 < Q.used
              /\ new[k + 1] = new[k] + 1 + Size(w[k])
              /\ new[k] \in DOMAIN Q.mem /\ Q.mem[new[k]] = w[k].type
              /\ new[k] + 1 \in DOMAIN Q.mem /\ Q.mem[new[k] + 1] = w[k]
  <2>1. CASE k = Len(v) + 1
    <3>1. new[k] = L.used /\ new[k + 1] = L.used + 1 + n /\ w[k] = a
      BY <1>5, <1>9, <1>11, <2>1
    <3>2. HeaderSize <= new[k] /\ new[k] + 1 < Q.used
      <4>1. PICK u \in Nat : u = L.used
        BY <1>2
      <4>2. u + 1 < u + 1 + n
        BY <1>1
      <4> QED
        BY <1>2, <1>5, <3>1, <4>1, <4>2
    <3> QED
      BY <1>5, <1>7, <3>1, <3>2 DEF n
  <2>2. CASE k \in 1..Len(v)
    <3>1. /\ HeaderSize <= pos[k] /\ pos[k] + 1 < L.used /\ pos[k] \in Nat
          /\ pos[k + 1] = pos[k] + 1 + Size(v[k])
          /\ pos[k] \in DOMAIN L.mem /\ L.mem[pos[k]] = v[k].type
          /\ pos[k] + 1 \in DOMAIN L.mem /\ L.mem[pos[k] + 1] = v[k]
      BY <1>8, <1>9, <2>2 DEF Places
    <3>2. new[k] = pos[k] /\ new[k + 1] = pos[k + 1] /\ w[k] = v[k]
      BY <1>9, <1>11, <2>2
    <3>3. ASSUME NEW u \in Nat, NEW b \in Nat, b + 1 < u
          PROVE  b \in 0..u - 1 /\ b + 1 \in 0..u - 1 /\ b + 1 < u + 1 + n
      BY <1>1, <3>3
    <3>4. pos[k] \in 0..L.used - 1 /\ pos[k] + 1 \in 0..L.used - 1 /\ pos[k] + 1 < Q.used
      BY <1>2, <1>5, <3>1, <3>3
    <3> QED
      BY <1>6, <3>1, <3>2, <3>4
  <2> QED
    BY <1>9, <2>1, <2>2
<1>13. Places(Q, w, new)
  BY <1>11, <1>12 DEF Places
<1>14. Holds(Q, w)
  BY <1>5, <1>10, <1>13 DEF Holds
<1> QED
  BY <1>14 DEF Q, P, R, w, n

\* stringify() reads back what the buffer holds.
LEMMA Decoded ==
  ASSUME NEW L, NEW v \in Seq(Argument), Holds(L, v)
  PROVE  stringify(L) = v
<1> DEFINE After(b) == b + 1 + (IF L.mem[b] = "kRawStr" THEN L.mem[b + 1].len + 1
                                ELSE SizeOf[L.mem[b]])
           Rest(f, b) == IF After(b) \in b + 1..L.used - 1 THEN f[After(b)] ELSE <<>>
           From(f, b) == IF b = L.used THEN <<>>
                         ELSE IF {b, b + 1} \subseteq DOMAIN L.mem /\ L.inside
                         THEN <<L.mem[b + 1]>> \o Rest(f, b)
                         ELSE <<Garbage>>
           g == CHOOSE f : f = [b \in 0..L.used |-> From(f, b)]
<1>1. L.used \in Nat /\ L.inside = TRUE /\ HeaderSize <= L.used /\ HeaderSize \in Nat
  BY DEF Holds, IsBuffer, HeaderSize
<1>2. stringify(L) = g[HeaderSize]
  BY DEF stringify
<1> HIDE DEF After
<1>3. ASSUME NEW f, NEW h, NEW b \in 0..L.used, \A c \in b + 1..L.used : f[c] = h[c]
      PROVE  From(f, b) = From(h, b)
  <2>1. Rest(f, b) = Rest(h, b)
    <3>1. After(b) \in b + 1..L.used - 1 => After(b) \in b + 1..L.used
      BY <1>1
    <3> QED
      BY <1>3, <3>1
  <2> HIDE DEF Rest
  <2> QED
    BY <2>1
<1> HIDE DEF From
<1>4. \A m \in Nat : m <= L.used => \E f : f = [b \in L.used - m..L.used |-> From(f, b)]
  <2> DEFINE Exists(m) == \E f : f = [b \in L.used - m..L.used |-> From(f, b)]
             S == {m \in Nat : m <= L.used => Exists(m)}
  <2>1. ASSUME NEW m \in Nat, NEW f,
               \A b \in L.used - m + 1..L.used : f[b] = From(f, b), m <= L.used
        PROVE  Exists(m)
    <3> DEFINE h == [b \in L.used - m..L.used |-> From(f, b)]
    <3>1. ASSUME NEW b \in L.used - m..L.used PROVE From(f, b) = From(h, b)
      <4>1. \A c \in b + 1..L.used : f[c] = h[c]
        BY <1>1, <2>1
      <4>2. b \in 0..L.used
        BY <1>1, <2>1
      <4> QED
        BY <1>3, <4>1, <4>2
    <3>2. h = [b \in L.used - m..L.used |-> From(h, b)]
      BY <3>1
    <3> HIDE DEF h
    <3> QED
      BY <3>2
  <2>2. 0 \in S
    <3>1. \A b \in L.used - 0 + 1..L.used : <<>>[b] = From(<<>>, b)
      BY <1>1
    <3>2. Exists(0)
      <4> HIDE DEF Exists
      <4> QED
        BY <1>1, <2>1, <3>1
    <3> QED
      BY <3>2
  <2>3. ASSUME NEW m \in Nat, m \in S PROVE m + 1 \in S
    <3> SUFFICES ASSUME m + 1 <= L.used PROVE Exists(m + 1)
      OBVIOUS
    <3>1. PICK f : f = [b \in L.used - m..L.used |-> From(f, b)]
      BY <1>1, <2>3
    <3>2. \A b \in L.used - (m + 1) + 1..L.used : f[b] = From(f, b)
      <4>1. L.used - (m + 1) + 1 = L.used - m
        BY <1>1
      <4> QED
        BY <3>1, <4>1
    <3> HIDE DEF Exists
    <3> QED
      BY <2>1, <3>2
  <2> HIDE DEF S
  <2>4. Nat \subseteq S
    BY <2>2, <2>3, Induction
  <2> QED
    BY <2>4 DEF S
<1>5. g = [b \in 0..L.used |-> From(g, b)]
  <2>1. L.used - L.used = 0
    BY <1>1
  <2>2. \E f : f = [b \in 0..L.used |-> From(f, b)]
    BY <1>1, <1>4, <2>1
  <2> QED
    BY <2>2 DEF g
<1> HIDE DEF g
<1>6. \A b \in 0..L.used : g[b] = From(g, b)
  BY <1>5
<1>7. PICK pos \in [1..Len(v) + 1 -> Nat] : Places(L, v, pos)
  BY DEF Holds
<1>8. Len(v) \in Nat /\ \A k \in 1..Len(v) : v[k] \in Argument
  OBVIOUS
<1>9. \A m \in Nat : m <= Len(v) => g[pos[Len(v) + 1 - m]] = SubSeq(v, Len(v) + 1 - m, Len(v))
  <2> DEFINE Reads(m) == g[pos[Len(v) + 1 - m]] = SubSeq(v, Len(v) + 1 - m, Len(v))
             T == {m \in Nat : m <= Len(v) => Reads(m)}
  <2>1. 0 \in T
    <3>1. g[L.used] = <<>>
      <4>1. L.used \in 0..L.used
        BY <1>1
      <4>2. g[L.used] = From(g, L.used)
        BY <1>6, <4>1
      <4> QED
        BY <4>2 DEF From
    <3>2. Len(v) + 1 - 0 = Len(v) + 1 /\ SubSeq(v, Len(v) + 1, Len(v)) = <<>>
      BY <1>8
    <3> QED
      BY <1>7, <3>1, <3>2 DEF Places
  <2>2. ASSUME NEW m \in Nat, m \in T PROVE m + 1 \in T
    <3> HIDE DEF Reads
    <3> SUFFICES ASSUME m + 1 <= Len(v) PROVE Reads(m + 1)
      OBVIOUS
    <3>0. Reads(m)
      BY <1>8, <2>2
    <3>1. PICK k \in 1..Len(v) : k = Len(v) + 1 - (m + 1) /\ k + 1 = Len(v) + 1 - m
      BY <1>8
    <3>2. g[pos[k + 1]] = SubSeq(v, k + 1, Len(v))
      BY <3>0, <3>1 DEF Reads
    <3>3. PICK b \in Nat : b = pos[k]
      BY <1>7, <1>8
    <3>4. /\ HeaderSize <= b /\ b + 1 < L.used
          /\ pos[k + 1] = b + 1 + Size(v[k])
          /\ b \in DOMAIN L.mem /\ L.mem[b] = v[k].type
          /\ b + 1 \in DOMAIN L.mem /\ L.mem[b + 1] = v[k]
      BY <1>7, <3>3 DEF Places
    <3>5. After(b) = pos[k + 1] /\ Size(v[k]) \in Nat
      BY <1>8, <3>4, Sizes DEF After, Size
    <3>6. PICK u \in Nat : u = L.used /\ b + 1 < u
      BY <1>1, <3>4
    <3>7. g[b] = <<v[k]>> \o Rest(g, b)
      <4> HIDE DEF Rest
      <4>1. b \in 0..u /\ b # u
        BY <3>6
      <4>2. g[b] = From(g, b)
        BY <1>6, <3>6, <4>1
      <4> QED
        BY <1>1, <3>4, <3>6, <4>1, <4>2 DEF From
    <3>8. Rest(g, b) = SubSeq(v, k + 1, Len(v))
      <4>1. CASE k = Len(v)
        <5>1. pos[k + 1] = L.used /\ SubSeq(v, k + 1, Len(v)) = <<>>
          BY <1>7, <1>8, <4>1 DEF Places
        <5>2. After(b) \notin b + 1..L.used - 1
          BY <3>5, <3>6, <5>1
        <5> QED
          BY <5>1, <5>2
      <4>2. CASE k # Len(v)
        <5>1. k + 1 \in 1..Len(v)
          BY <1>8, <4>2
        <5>2. pos[k + 1] + 1 < L.used /\ pos[k + 1] \in Nat
          BY <1>7, <1>8, <5>1 DEF Places
        <5>3. After(b) \in b + 1..L.used - 1
          <6>1. PICK c \in Nat : c = pos[k + 1]
            BY <5>2
          <6>2. c + 1 < u /\ c = b + 1 + Size(v[k])
            BY <3>4, <3>6, <5>2, <6>1
          <6>3. c \in b + 1..u - 1
            <7>1. ASSUME NEW z \in Nat, c = b + 1 + z, c + 1 < u PROVE c \in b + 1..u - 1
              BY <7>1
            <7> QED
              BY <3>5, <6>2, <7>1
          <6> QED
            BY <3>5, <3>6, <6>1, <6>3
        <5> QED
          BY <3>2, <3>5, <5>3
      <4> QED
        BY <4>1, <4>2
    <3>9. SubSeq(v, k, Len(v)) = <<v[k]>> \o SubSeq(v, k + 1, Len(v))
      BY <1>8
    <3> QED
      BY <3>1, <3>3, <3>7, <3>8, <3>9 DEF Reads
  <2> HIDE DEF T
  <2>3. Nat \subseteq T
    BY <2>1, <2>2, Induction
  <2> QED
    BY <2>3 DEF T
<1>10. g[pos[1]] = SubSeq(v, 1, Len(v))
  <2>1. Len(v) + 1 - Len(v) = 1
    BY <1>8
  <2> QED
    <3>1. Len(v) <= Len(v)
      BY <1>8
    <3>2. g[pos[Len(v) + 1 - Len(v)]] = SubSeq(v, Len(v) + 1 - Len(v), Len(v))
      BY <1>8, <1>9, <3>1, Zenon
    <3> QED
      BY <2>1, <3>2
<1>11. SubSeq(v, 1, Len(v)) = v
  BY <1>8
<1> QED
  BY <1>2, <1>7, <1>10, <1>11 DEF Places

\* One operator <<.
Encode(L, a) == IF a.type = "kRawStr" THEN encodeString(L, a) ELSE encode(L, a)
IsEmpty(a) == a.type = "kRawStr" /\ a.len = 0

LEMMA EncodeHolds ==
  ASSUME NEW L, NEW v \in Seq(Argument), NEW a \in Argument, Holds(L, v)
  PROVE  Holds(Encode(L, a), IF IsEmpty(a) THEN v ELSE Append(v, a))
<1>1. CASE IsEmpty(a)
  BY <1>1 DEF IsEmpty, Encode, encodeString
<1>2. CASE ~IsEmpty(a)
  <2> DEFINE M == Put(Put(resizeBufferIfNeeded(L, 1 + Size(a)), 1, a.type), Size(a), a)
  <2>1. Holds(M, Append(v, a))
    BY HoldsOneMore
  <2>2. CASE a.type = "kRawStr"
    <3>1. Size(a) = a.len + 1 /\ 1 + (a.len + 1) = 1 + a.len + 1
      BY <2>2, Sizes DEF Size
    <3>2. Encode(L, a) = M
      BY <1>2, <2>2, <3>1 DEF Encode, encodeString, IsEmpty
    <3> QED
      BY <1>2, <2>1, <3>2
  <2>3. CASE a.type # "kRawStr"
    <3>1. Encode(L, a) = M
      BY <2>3 DEF Encode, encode, Size
    <3> QED
      BY <1>2, <2>1, <3>1
  <2> QED
    BY <2>2, <2>3
<1> QED
  BY <1>1, <1>2

\* The operators << leave the visible arguments in the buffer.
LEMMA EncodedHolds ==
  ASSUME NEW level, NEW args \in Seq(Argument)
  PROVE  Visible(args) \in Seq(Argument) /\ Holds(Encoded(level, args), Visible(args))
<1> DEFINE Upto(n, f) == [i \in 0..n |-> IF i = 0 THEN NewLine(level)
                                         ELSE Encode(f[i - 1], args[i])]
           g == CHOOSE f : f = Upto(Len(args), f)
<1>1. Len(args) \in Nat /\ DOMAIN args = 1..Len(args) /\ \A i \in 1..Len(args) : args[i] \in Argument
  OBVIOUS
<1>2. Encoded(level, args) = g[Len(args)]
  BY DEF Encoded, Encode
<1>3. \A n \in Nat : \E f : f = Upto(n, f)
  <2> DEFINE S == {n \in Nat : \E f : f = Upto(n, f)}
  <2>1. 0 \in S
    <3> DEFINE h == [i \in 0..0 |-> NewLine(level)]
    <3>1. h = Upto(0, h)
      OBVIOUS
    <3> HIDE DEF h
    <3>2. \E x : x = Upto(0, x)
      <4> HIDE DEF Upto
      <4> QED
        BY <3>1
    <3> QED
      BY <3>2
  <2>2. ASSUME NEW n \in Nat, n \in S PROVE n + 1 \in S
    <3>1. PICK f : f = Upto(n, f)
      BY <2>2
    <3> DEFINE h == [i \in 0..n + 1 |-> IF i = n + 1 THEN Encode(f[n], args[n + 1]) ELSE f[i]]
    <3>2. ASSUME NEW i \in 0..n + 1
          PROVE  h[i] = IF i = 0 THEN NewLine(level) ELSE Encode(h[i - 1], args[i])
      <4>1. CASE i = n + 1
        <5>1. i # 0 /\ i - 1 = n /\ n \in 0..n + 1 /\ n # n + 1
          BY <4>1
        <5> QED
          BY <4>1, <5>1
      <4>2. CASE i # n + 1
        <5>1. i \in 0..n /\ (i # 0 => i - 1 \in 0..n + 1 /\ i - 1 # n + 1)
          BY <4>2
        <5>2. f[i] = IF i = 0 THEN NewLine(level) ELSE Encode(f[i - 1], args[i])
          BY <3>1, <5>1
        <5> QED
          BY <4>2, <5>1, <5>2
      <4> QED
        BY <4>1, <4>2
    <3>3. h = Upto(n + 1, h)
      BY <3>2
    <3> HIDE DEF h
    <3>4. n + 1 \in Nat /\ \E x : x = Upto(n + 1, x)
      <4> HIDE DEF Upto
      <4> QED
        BY <3>3
    <3> QED
      BY <3>4
  <2>3. Nat \subseteq S
    <3> HIDE DEF S
    <3> QED
      BY <2>1, <2>2, Induction
  <2> QED
    BY <2>3
<1>4. g = Upto(Len(args), g)
  <2>1. \E f : f = Upto(Len(args), f)
    BY <1>1, <1>3
  <2> HIDE DEF Upto
  <2> QED
    BY <2>1
<1> HIDE DEF g
<1>5. g[0] = NewLine(level) /\ \A n \in 1..Len(args) : g[n] = Encode(g[n - 1], args[n])
  BY <1>1, <1>4
<1> HIDE DEF Upto
<1> DEFINE s == [i \in DOMAIN args |-> IF IsEmpty(args[i]) THEN <<>> ELSE <<args[i]>>]
<1>6. Visible(args) = FlattenSeq(s)
  BY DEF Visible, IsEmpty
<1>7. CASE Len(args) = 0
  <2>1. s = <<>>
    BY <1>1, <1>7
  <2>2. Visible(args) = <<>>
    BY <1>6, <2>1 DEF FlattenSeq
  <2> QED
    BY <1>2, <1>5, <1>7, <2>2, HoldsNewLine, EmptySeq
<1>8. CASE Len(args) # 0
  <2>1. s \in Seq(Seq(Argument)) /\ Len(s) = Len(args) /\ s # <<>>
    BY <1>1, <1>8
  <2>2. \A i \in 1..Len(args) : s[i] = IF IsEmpty(args[i]) THEN <<>> ELSE <<args[i]>>
    BY <1>1
  <2> HIDE DEF s
  <2>3. PICK f \in [1..Len(args) -> Seq(Argument)] :
          Concatenates(f, s) /\ FlattenSeq(s) = f[Len(args)]
    BY <2>1, Flattened
  <2> DEFINE S == {n \in Nat : n \in 1..Len(args) => Holds(g[n], f[n])}
  <2>4. 0 \in S
    OBVIOUS
  <2>5. ASSUME NEW n \in Nat, n \in S PROVE n + 1 \in S
    <3> SUFFICES ASSUME n + 1 \in 1..Len(args) PROVE Holds(g[n + 1], f[n + 1])
      OBVIOUS
    <3> DEFINE v == IF n = 0 THEN <<>> ELSE f[n]
               a == args[n + 1]
    <3>1. a \in Argument /\ s[n + 1] = IF IsEmpty(a) THEN <<>> ELSE <<a>>
      BY <1>1, <2>2
    <3>2. v \in Seq(Argument) /\ Holds(g[n], v)
      BY <1>1, <1>5, <2>5, HoldsNewLine, EmptySeq
    <3>3. f[n + 1] = v \o s[n + 1]
      <4>1. CASE n = 0
        BY <2>3, <3>1, <4>1 DEF Concatenates
      <4>2. CASE n # 0
        <5>1. n \in 1..Len(s) - 1
          BY <1>1, <2>1, <4>2
        <5> QED
          BY <2>3, <4>2, <5>1 DEF Concatenates
      <4> QED
        BY <4>1, <4>2
    <3>4. g[n + 1] = Encode(g[n], a)
      <4>1. n + 1 - 1 = n
        OBVIOUS
      <4> QED
        BY <1>5, <4>1
    <3> HIDE DEF v, a
    <3>5. f[n + 1] = IF IsEmpty(a) THEN v ELSE Append(v, a)
      BY <3>1, <3>2, <3>3, ConcatEmptySeq, AppendIsConcat
    <3> QED
      BY <3>1, <3>2, <3>4, <3>5, EncodeHolds
  <2> HIDE DEF S
  <2>6. Nat \subseteq S
    BY <2>4, <2>5, Induction
  <2>7. Len(args) \in 1..Len(args)
    BY <1>1, <1>8
  <2>8. Holds(g[Len(args)], f[Len(args)])
    BY <1>1, <2>6, <2>7 DEF S
  <2> QED
    BY <1>2, <1>6, <2>3, <2>7, <2>8
<1> QED
  BY <1>7, <1>8

\* What the background thread prints of a line is what was logged.
LEMMA TextIsVisible ==
  ASSUME NEW l \in Line
  PROVE  Text[l] = Visible(Statement[l].args) /\ Text[l] \in Seq(Argument)
<1>1. Statement[l].args \in Seq(Argument)
  BY AsyncLoggerAssumption
<1> QED
  BY <1>1, EncodedHolds, Decoded DEF Text

\* A visible argument is one of the arguments.
LEMMA VisibleArguments ==
  ASSUME NEW S, NEW args \in Seq(S)
  PROVE  Visible(args) \in Seq(S)
<1> DEFINE s == [i \in DOMAIN args |-> IF IsEmpty(args[i]) THEN <<>> ELSE <<args[i]>>]
<1>1. Visible(args) = FlattenSeq(s)
  BY DEF Visible, IsEmpty
<1>2. s \in Seq(Seq(S))
  <2>1. Len(args) \in Nat /\ DOMAIN args = 1..Len(args) /\ \A i \in 1..Len(args) : args[i] \in S
    OBVIOUS
  <2> QED
    BY <2>1
<1> HIDE DEF s
<1>3. CASE s = <<>>
  BY <1>1, <1>3, EmptySeq DEF FlattenSeq
<1>4. CASE s # <<>>
  <2>1. PICK f \in [1..Len(s) -> Seq(S)] : FlattenSeq(s) = f[Len(s)]
    BY <1>2, <1>4, Flattened
  <2>2. Len(s) \in 1..Len(s)
    BY <1>2, <1>4, EmptySeq
  <2> QED
    BY <1>1, <2>1, <2>2
<1> QED
  BY <1>3, <1>4

-----------------------------------------------------------------------------
(* Every step of the logger is one of the queue's, or leaves it alone.     *)

LEMMA QueueSteps ==
  ASSUME IInv, [LoggerNext]_allVars
  PROVE  \/ Quiet
         \/ ReaderStep
         \/ \E w \in Writer : WriterStep(w) \/ \E l \in Line : Push(w, l)
<1>1. unused \in SUBSET Line
  BY DEF IInv, Locals, TypeOK
<1>2. CASE UNCHANGED vars
  BY <1>1, <1>2 DEF vars, Quiet, history
<1>3. CASE \E w \in Writer, l \in Line : Discard(w, l)
  BY <1>1, <1>3 DEF Discard, Quiet
<1>4. CASE Add
  BY <1>4 DEF Add
<1>5. CASE PopStep
  BY <1>5 DEF PopStep
<1> QED
  BY <1>2, <1>3, <1>4, <1>5
  DEF LoggerNext, ThreadStep, Construct, SetLogLevel, Shutdown, Join, AwaitReady,
      TestState, allVars

LEMMA StagesStep ==
  ASSUME LoggerInv, [LoggerNext]_allVars
  PROVE  Stages'
<1>1. Stages /\ IInv /\ Complete
  BY DEF LoggerInv
<1>2. CASE UNCHANGED allVars
  BY <1>1, <1>2 DEF Stages, allVars, vars, loggerVars, ownerVars, writerVars, readerVars,
                    history
<1>3. CASE Construct \/ SetLogLevel \/ AwaitReady \/ TestState
  <2>1. UNCHANGED <<pc, reused, popped, reserved>>
    BY <1>3 DEF Construct, SetLogLevel, AwaitReady, TestState, vars, writerVars, readerVars,
                history
  <2>2. CASE Construct
    BY <1>1, <2>1, <2>2 DEF Stages, Construct
  <2>3. CASE SetLogLevel
    BY <1>1, <2>1, <2>3 DEF Stages, SetLogLevel
  <2>4. CASE AwaitReady
    BY <1>1, <2>1, <2>4 DEF Stages, AwaitReady, ownerVars
  <2>5. CASE TestState
    BY <1>1, <2>1, <2>5 DEF Stages, TestState, ownerVars
  <2> QED
    BY <1>3, <2>2, <2>3, <2>4, <2>5
<1>4. CASE Shutdown \/ Join
  <2>1. UNCHANGED <<pc, reused, popped, reserved>>
    BY <1>4 DEF Shutdown, Join, vars, writerVars, readerVars, history
  <2> QED
    BY <1>1, <1>4, <2>1 DEF Stages, Shutdown, Join
<1>5. CASE Add
  <2>1. owner = "running" /\ UNCHANGED <<logState, owner, tpc>>
    BY <1>5 DEF Add, loggerVars, ownerVars
  <2> QED
    BY <1>1, <2>1 DEF Stages
<1>6. CASE \E w \in Writer, l \in Line : Discard(w, l)
  <2>1. UNCHANGED <<pc, reused, popped, reserved, logState, owner, tpc>>
    BY <1>6 DEF Discard, writerVars, readerVars, loggerVars, ownerVars
  <2> QED
    BY <1>1, <2>1 DEF Stages
<1>7. CASE PopStep
  <2>1. /\ UNCHANGED <<pc, reused, reserved, logState, owner>>
        /\ tpc \in {"pop", "drain"} /\ ReaderStep
    BY <1>7 DEF PopStep, ReaderStep, GetBuffer, TakeLine, NothingToTake, Unqueue, Recycle,
                writerVars, history, ownerVars
  <2>2. \/ Returns /\ WithLine /\ tpc' \in {"aborted", IF tpc = "pop" THEN "test" ELSE "drain"}
        \/ ~(Returns /\ WithLine) /\ tpc' = IF ~Returns THEN tpc ELSE IF tpc = "pop" THEN "test" ELSE "exited"
    BY <1>7 DEF PopStep, Write
  <2>3. CASE tpc' # "exited"
    BY <1>1, <2>1, <2>2, <2>3 DEF Stages
  <2>4. CASE tpc' = "exited"
    <3>1. tpc = "drain" /\ rpc' = "idle" /\ popped' = popped /\ rpc # "recycle"
      BY <2>1, <2>2, <2>4 DEF Returns, WithLine
    <3>2. ~TakeLine
      <4> SUFFICES ASSUME TakeLine PROVE FALSE
        OBVIOUS
      <4>1. popped \in Seq(Line \cup {Moved, Raw})
        BY <1>1 DEF IInv, Locals, TypeOK
      <4>2. Len(Append(popped, items[curR][readIndex])) = Len(popped) + 1 /\ Len(popped) \in Nat
        BY <4>1, LenProperties
      <4> QED
        BY <3>1, <4>2 DEF TakeLine
    <3>3. \/ rpc = "idle" /\ curR = NULL /\ queue = <<>>
          \/ rpc = "try" /\ ~flags[curR][readIndex]
      <4>1. CASE GetBuffer
        <5>1. curR' = NULL
          BY <3>1, <4>1 DEF GetBuffer
        <5>2. queue # <<>> => Head(queue) # NULL
          <6>1. queue \in Seq(Buf)
            BY <1>1 DEF IInv, Locals, TypeOK
          <6>2. queue # <<>> => Head(queue) \in Buf
            BY <6>1, HeadTailProperties
          <6> QED
            BY <6>2 DEF Buf, NULL
        <5> QED
          BY <4>1, <5>1, <5>2 DEF GetBuffer
      <4>2. CASE NothingToTake
        BY <4>2 DEF NothingToTake
      <4>3. CASE Unqueue \/ Recycle
        BY <3>1, <4>3 DEF Unqueue, Recycle
      <4> QED
        BY <2>1, <3>2, <4>1, <4>2, <4>3 DEF ReaderStep
    <3>4. \A w \in Writer : pc[w] = "idle"
      BY <1>1, <3>1 DEF Stages
    <3>5. ~reused => popped = reserved
      BY <1>1, <3>3, <3>4, EmptyMeansAll
    <3> QED
      BY <1>1, <2>1, <2>4, <3>1, <3>5 DEF Stages
  <2> QED
    BY <2>3, <2>4
<1> QED
  BY <1>2, <1>3, <1>4, <1>5, <1>6, <1>7 DEF LoggerNext, ThreadStep

LEMMA LoggerNextInv == LoggerInv /\ [LoggerNext]_allVars => LoggerInv'
<1> SUFFICES ASSUME LoggerInv, [LoggerNext]_allVars PROVE LoggerInv'
  OBVIOUS
<1>1. IInv /\ Complete
  BY DEF LoggerInv
<1>2. IInv'
  BY <1>1, QueueSteps, QuietInv, ReaderInv, WriterInv
<1>3. Complete'
  BY <1>1, QueueSteps, QuietComplete, WriterComplete
<1> QED
  BY <1>2, <1>3, StagesStep DEF LoggerInv

LEMMA LoggerInitInv == LoggerInit => LoggerInv
<1> SUFFICES ASSUME LoggerInit PROVE LoggerInv
  OBVIOUS
<1>1. Init
  BY DEF LoggerInit
<1>2. Stages
  BY <1>1 DEF LoggerInit, Stages
<1> QED
  BY <1>1, <1>2, InitInv, InitComplete DEF LoggerInv

-----------------------------------------------------------------------------
(* From the queue to the files                                             *)

\* A line that was taken is written when pop() returns.
Taken == rpc \in {"unqueue", "recycle"}

Filed ==
  /\ LoggerTypeOK
  /\ FileOK
  /\ tpc \notin {"pop", "drain"} => rpc = "idle"
  /\ owner = "joined" \/ tpc = "aborted" => stream = <<>>
  /\ Taken => popped # <<>>
  /\ ~truncated => popped = IF Taken THEN Append(Lines(Output), Last(popped))
                            ELSE Lines(Output)

LEMMA OutputTyped ==
  ASSUME FileOK
  PROVE  Files \in Seq(Entry) /\ stream \in Seq(Entry) /\ Output \in Seq(Entry)
<1>1. Files \in Seq(Entry)
  BY FlushFile, EmptySeq
<1> QED
  BY <1>1, ConcatProperties DEF FileOK, Output

\* The line that pop() returns goes to the file.
LEMMA WriteFiled ==
  ASSUME FileOK, NEW l \in Line \cup {Moved, Raw}, Write(l)
  PROVE  /\ FileOK' /\ (truncated => truncated')
         /\ ~truncated' => Lines(Output') = Append(Lines(Output), l)
         /\ tpc' \in {"aborted", "test", "drain"}
         /\ tpc' = "aborted" => stream' = <<>>
<1>1. PICK e \in Shown(l) :
        \/ Abort(e) /\ tpc' = "aborted"
        \/ /\ \E t \in now..MaxTime : write(t, e, 1 + Len(e.text))
           /\ tpc' = IF tpc = "pop" THEN "test" ELSE "drain"
  BY DEF Write
<1>2. e \in Entry /\ e.line = l
  BY EntryLine
<1>3. Output \in Seq(Entry) /\ Files \in Seq(Entry) /\ stream \in Seq(Entry)
  BY OutputTyped
<1>4. Lines(Append(Output, e)) = Append(Lines(Output), l)
  BY <1>2, <1>3, LinesAppend
<1>5. CASE Abort(e) /\ tpc' = "aborted"
  <2>1. /\ Append(stream, e) \in Seq(Entry)
        /\ Files \o Append(stream, e) = Append(Output, e)
    BY <1>2, <1>3, AppendOut DEF Output
  <2>2. FileOK' /\ Output' = Files \o Append(stream, e)
    BY <1>5, <2>1, EndFile DEF Abort
  <2> QED
    BY <1>4, <1>5, <2>1, <2>2 DEF Abort
<1>6. CASE /\ \E t \in now..MaxTime : write(t, e, 1 + Len(e.text))
           /\ tpc' = IF tpc = "pop" THEN "test" ELSE "drain"
  <2>1. /\ FileOK' /\ (truncated => truncated')
        /\ ~truncated' => Output' = Append(Output, e)
    BY <1>2, <1>6, WriteFile
  <2> QED
    BY <1>4, <1>6, <2>1
<1> QED
  BY <1>1, <1>5, <1>6

LEMMA FiledPop ==
  ASSUME LoggerInv, LoggerTypeOK', Filed, PopStep
  PROVE  Filed'
<1>1. /\ FileOK /\ LoggerTypeOK /\ (Taken => popped # <<>>)
      /\ ~truncated => popped = IF Taken THEN Append(Lines(Output), Last(popped))
                                ELSE Lines(Output)
  BY DEF Filed
<1>2. /\ tpc \in {"pop", "drain"} /\ ReaderStep /\ UNCHANGED <<logLevel, logState, owner>>
      /\ IF Returns /\ WithLine THEN Write(Last(popped'))
         ELSE /\ tpc' = IF ~Returns THEN tpc ELSE IF tpc = "pop" THEN "test" ELSE "exited"
              /\ UNCHANGED fileVars
  BY DEF PopStep, ownerVars
<1>3. owner # "joined" /\ popped \in Seq(Line \cup {Moved, Raw})
  BY <1>1, <1>2 DEF LoggerInv, Stages, LoggerTypeOK, TypeOK
<1>4. Output \in Seq(Entry)
  BY <1>1, OutputTyped
<1>5. ASSUME NEW x PROVE LET q == Append(popped, x) IN q # popped /\ q # <<>> /\ Last(q) = x
  <2>1. /\ Len(popped) \in Nat /\ Len(Append(popped, x)) = Len(popped) + 1
        /\ Append(popped, x)[Len(popped) + 1] = x
    BY <1>3
  <2> QED
    BY <2>1, EmptySeq DEF Last
<1>6. CASE TakeLine /\ rpc' = "idle"
  <2> DEFINE x == items[curR][readIndex]
  <2>1. /\ popped' = Append(popped, x) /\ ~Taken /\ ~Taken'
        /\ x \in Line \cup {Moved, Raw}
    <3>1. popped' \in Seq(Line \cup {Moved, Raw}) /\ popped' = Append(popped, x)
      BY <1>6 DEF LoggerTypeOK, TypeOK, TakeLine
    <3>2. Len(popped') = Len(popped) + 1 /\ popped'[Len(popped) + 1] = x /\ Len(popped) \in Nat
      BY <1>3, <3>1
    <3> QED
      BY <1>6, <3>1, <3>2, ElementOfSeq DEF TakeLine, Taken
  <2> HIDE DEF x
  <2>2. Write(x)
    BY <1>2, <1>5, <1>6, <2>1 DEF Returns, WithLine
  <2>3. /\ FileOK' /\ (truncated => truncated')
        /\ ~truncated' => Lines(Output') = Append(Lines(Output), x)
        /\ tpc' = "aborted" => stream' = <<>>
    BY <1>1, <2>1, <2>2, WriteFiled
  <2>4. ~truncated' => popped' = Lines(Output')
    BY <1>1, <2>1, <2>3
  <2> QED
    BY <1>2, <1>3, <1>6, <2>1, <2>3, <2>4 DEF Filed
<1>7. CASE TakeLine /\ rpc' # "idle"
  <2>1. /\ popped' = Append(popped, items[curR][readIndex]) /\ ~Taken /\ Taken'
        /\ tpc' = tpc /\ UNCHANGED fileVars
    BY <1>2, <1>7 DEF TakeLine, Taken, Returns
  <2>2. FileOK' /\ Output' = Output /\ truncated' = truncated /\ stream' = stream
    BY <1>1, <2>1 DEF FileOK, Output, Files, fileVars
  <2>3. popped' # <<>> /\ (~truncated => popped' = Append(Lines(Output), Last(popped')))
    BY <1>1, <1>5, <2>1
  <2> QED
    BY <1>2, <1>3, <2>1, <2>2, <2>3 DEF Filed
<1>8. CASE Recycle
  <2>1. popped' = popped /\ Taken /\ ~Taken' /\ rpc' = "idle" /\ rpc = "recycle"
    BY <1>8 DEF Recycle, Taken
  <2>2. Write(Last(popped)) /\ Last(popped) \in Line \cup {Moved, Raw}
    <3>1. Last(popped) \in Line \cup {Moved, Raw}
      BY <1>1, <1>3, <2>1, EmptySeq, ElementOfSeq DEF Last
    <3> QED
      BY <1>2, <2>1, <3>1 DEF Returns, WithLine
  <2>3. /\ FileOK' /\ (truncated => truncated')
        /\ ~truncated' => Lines(Output') = Append(Lines(Output), Last(popped))
        /\ tpc' = "aborted" => stream' = <<>>
    BY <1>1, <2>2, WriteFiled
  <2>4. ~truncated' => popped' = Lines(Output')
    BY <1>1, <2>1, <2>3
  <2> QED
    BY <1>2, <1>3, <2>1, <2>3, <2>4 DEF Filed
<1>9. CASE GetBuffer \/ NothingToTake \/ Unqueue
  <2>1. popped' = popped /\ Taken' = Taken /\ rpc # "recycle"
    BY <1>9 DEF GetBuffer, NothingToTake, Unqueue, Taken
  <2>2. /\ UNCHANGED fileVars
        /\ tpc' = IF ~Returns THEN tpc ELSE IF tpc = "pop" THEN "test" ELSE "exited"
    BY <1>2, <2>1 DEF WithLine
  <2>3. FileOK' /\ Output' = Output /\ truncated' = truncated /\ stream' = stream
    BY <1>1, <2>2 DEF FileOK, Output, Files, fileVars
  <2>4. tpc' \notin {"pop", "drain"} => rpc' = "idle"
    BY <1>2, <2>2 DEF Returns
  <2>5. tpc' # "aborted"
    BY <1>2, <2>2
  <2> QED
    BY <1>1, <1>2, <1>3, <2>1, <2>3, <2>4, <2>5 DEF Filed
<1> QED
  BY <1>2, <1>6, <1>7, <1>8, <1>9 DEF ReaderStep

LEMMA LoggerTypes ==
  ASSUME LoggerTypeOK, TypeOK', [LoggerNext]_allVars
  PROVE  LoggerTypeOK'
<1>1. \A v \in Levels : v \in 0..5
  <2>1. \A v \in Range(LogLevel) : v \in 0..5
    BY DEF Range, LogLevel
  <2> QED
    BY <2>1, AsyncLoggerAssumption
<1>2. CASE UNCHANGED loggerVars
  BY <1>2 DEF LoggerTypeOK, loggerVars, ownerVars
<1>3. CASE Construct \/ SetLogLevel \/ Shutdown \/ Join \/ AwaitReady \/ TestState
  BY <1>1, <1>3 DEF LoggerTypeOK, Construct, SetLogLevel, Shutdown, Join, AwaitReady, TestState,
                    ownerVars
<1>4. CASE PopStep
  BY <1>4 DEF LoggerTypeOK, PopStep, Write, ownerVars
<1> QED
  BY <1>2, <1>3, <1>4 DEF LoggerNext, ThreadStep, Add, Discard, allVars

LEMMA FiledStep ==
  ASSUME LoggerInv, LoggerInv', Filed, [LoggerNext]_allVars
  PROVE  Filed'
<1>1. LoggerTypeOK'
  BY LoggerTypes DEF Filed, LoggerInv, IInv, Locals
<1>2. /\ FileOK /\ (tpc \notin {"pop", "drain"} => rpc = "idle")
      /\ (owner = "joined" \/ tpc = "aborted" => stream = <<>>) /\ (Taken => popped # <<>>)
      /\ ~truncated => popped = IF Taken THEN Append(Lines(Output), Last(popped))
                                ELSE Lines(Output)
  BY DEF Filed
<1>3. ASSUME UNCHANGED fileVars, UNCHANGED <<rpc, popped>>,
             tpc' \notin {"pop", "drain"} => tpc \notin {"pop", "drain"},
             owner' = "joined" \/ tpc' = "aborted" => owner = "joined" \/ tpc = "aborted"
      PROVE  Filed'
  <2>1. FileOK' /\ Output' = Output /\ truncated' = truncated /\ stream' = stream
    BY <1>2, <1>3 DEF FileOK, Output, Files, fileVars
  <2> QED
    BY <1>1, <1>2, <1>3, <2>1 DEF Filed, Taken
<1>4. CASE UNCHANGED allVars
  BY <1>3, <1>4 DEF allVars, vars, readerVars, loggerVars, ownerVars
<1>5. CASE Construct \/ SetLogLevel \/ Shutdown \/ AwaitReady \/ TestState
  BY <1>3, <1>5 DEF Construct, SetLogLevel, Shutdown, AwaitReady, TestState, vars, readerVars,
                    ownerVars
<1>6. CASE Add
  <2>1. UNCHANGED readerVars
    BY <1>6 DEF Add, WriterStep, Push, Reserve, Spin, LoadBuffer, WriteItem, SetFlag, CountLine,
                ResetCount, NextBuffer, Publish
  <2> QED
    BY <1>3, <1>6, <2>1 DEF Add, readerVars, loggerVars, ownerVars
<1>7. CASE \E w \in Writer, l \in Line : Discard(w, l)
  BY <1>3, <1>7 DEF Discard, readerVars, loggerVars, ownerVars
<1>8. CASE Join
  <2>1. Files \in Seq(Entry) /\ stream \in Seq(Entry)
    BY <1>2, OutputTyped
  <2>2. FileOK' /\ Output' = Output
    BY <1>2, <1>8, <2>1, EndFile DEF Join, Close, Output
  <2> QED
    BY <1>1, <1>2, <1>8, <2>2 DEF Join, Close, Filed, Taken, vars, readerVars
<1>9. CASE PopStep
  BY <1>1, <1>9, FiledPop
<1> QED
  BY <1>4, <1>5, <1>6, <1>7, <1>8, <1>9 DEF LoggerNext, ThreadStep

LEMMA FiledInit == LoggerInit => Filed
<1> SUFFICES ASSUME LoggerInit PROVE Filed
  OBVIOUS
<1>1. LoggerTypeOK
  <2>1. TypeOK
    BY InitInv DEF LoggerInit, IInv, Locals
  <2> QED
    BY <2>1 DEF LoggerInit, LoggerTypeOK, LogLevel
<1>2. FileOK
  BY LogFileAssumption, EmptySeq DEF LoggerInit, FileInit, FileOK, Second
<1>3. Output = <<>>
  <2> DEFINE s == [i \in 1..MaxTime + 1 |-> disk[i - 1]]
  <2>1. \A i \in 1..MaxTime + 1 : s[i] = <<>>
    BY LogFileAssumption DEF LoggerInit, FileInit, Second
  <2>2. s \in Seq(Seq(Entry)) /\ Len(s) = MaxTime + 1
    <3>1. MaxTime + 1 \in Nat /\ \A i \in 1..MaxTime + 1 : disk[i - 1] \in Seq(Entry)
      BY <1>2, LogFileAssumption DEF FileOK, Second
    <3> QED
      BY <3>1
  <2> HIDE DEF s
  <2>3. FlattenSeq(s) = <<>>
    BY <2>1, <2>2, FlattenedEmpty
  <2>4. Files = <<>> /\ stream = <<>>
    BY <2>3 DEF s, Files, LoggerInit, FileInit
  <2> QED
    BY <2>4 DEF Output
<1>4. Lines(Output) = <<>>
  BY <1>3 DEF Lines
<1> QED
  BY <1>1, <1>2, <1>4 DEF LoggerInit, Init, FileInit, Filed, Taken

-----------------------------------------------------------------------------
(* The theorems                                                            *)

\* The invariant of the logger.
THEOREM LoggerInvariant == LoggerSpec => []LoggerInv
<1> QED
  BY LoggerInitInv, LoggerNextInv, PTL DEF LoggerSpec

\* What the files and the stream hold, at every step.
THEOREM FiledInvariant == LoggerSpec => []Filed
<1>1. LoggerInit => Filed
  BY FiledInit
<1>2. LoggerInv /\ LoggerInv' /\ Filed /\ [LoggerNext]_allVars => Filed'
  BY FiledStep
<1> QED
  BY <1>1, <1>2, LoggerInvariant, PTL DEF LoggerSpec

\* The threads that log own their slots.
THEOREM LoggerSlotsOwned == LoggerSpec => []SlotOwnership
<1>1. LoggerInv => SlotOwnership
  BY OwnershipFollows DEF LoggerInv
<1> QED
  BY <1>1, LoggerInvariant, PTL

\* popThread() gets the lines in the order of their slots.
THEOREM LoggerPopsInOrder == LoggerSpec => []FifoUntilReuse
<1>1. LoggerInv => FifoUntilReuse
  BY FifoFollows DEF LoggerInv
<1> QED
  BY <1>1, LoggerInvariant, PTL

\* ~AsyncLogger() returns with an empty queue: the loop that drains it ends
\* when every line was taken, although a pop() that returns no line means only
\* that the next slot has no line yet.
THEOREM DestructorTakesAll == LoggerSpec => []TakesAll
<1>1. LoggerInv => TakesAll
  BY DEF LoggerInv, Stages, TakesAll
<1> QED
  BY <1>1, LoggerInvariant, PTL

\* Nothing is lost on the way to the disk: when the destructor has returned or
\* a fatal line has ended the program, the files, read in the order of their
\* names, hold every line that popThread() has taken, once and in order.
THEOREM FilesComplete == LoggerSpec => []FilesHoldLines
<1>1. ASSUME LoggerInv, Filed PROVE FilesHoldLines
  <2>1. ASSUME owner = "joined" \/ tpc = "aborted", ~truncated
        PROVE  [i \in DOMAIN Files |-> Files[i].line] = popped
    <3>1. ~Taken /\ stream = <<>>
      <4>1. owner = "joined" => tpc = "exited"
        BY <1>1 DEF LoggerInv, Stages
      <4> QED
        BY <1>1, <2>1, <4>1 DEF Filed, Taken
    <3>2. Files \in Seq(Entry)
      BY <1>1, OutputTyped DEF Filed
    <3>3. Output = Files
      BY <3>1, <3>2, ConcatEmptySeq DEF Output
    <3>4. popped = Lines(Files)
      BY <1>1, <2>1, <3>1, <3>3 DEF Filed
    <3>5. DOMAIN Files = 1..Len(Files)
      BY <3>2
    <3> QED
      BY <3>4, <3>5 DEF Lines
  <2>2. owner = "joined" /\ ~reused => popped = reserved
    BY <1>1 DEF LoggerInv, Stages
  <2> QED
    BY <1>1, <2>1, <2>2 DEF FilesHoldLines, Filed
<1> QED
  BY <1>1, LoggerInvariant, FiledInvariant, PTL

\* A line in the file says what its log statement said, for any arguments and
\* any sizes, unless one of them is a view of an object of the caller.
THEOREM TextSurvives == LoggerSpec => []TextAsLogged
<1>1. ASSUME Filed PROVE TextAsLogged
  <2> SUFFICES ASSUME NEW i \in DOMAIN Files, Files[i].line \in Line
               PROVE  LET l == Files[i].line
                      IN \/ Files[i].text = Visible(Statement[l].args)
                         \/ \E a \in Range(Statement[l].args) : a.type = "kStrView" /\ a.frame
    BY DEF TextAsLogged
  <2>1. Files[i] \in Entry
    <3>1. Files \in Seq(Entry)
      BY <1>1, OutputTyped DEF Filed
    <3> QED
      BY <3>1, ElementOfSeq
  <2>2. PICK l \in Line \cup {Moved, Raw} : Files[i] \in Shown(l)
    BY <2>1 DEF Entry
  <2>3. Files[i].line = l /\ l \in Line
    BY <2>2, EntryLine
  <2>4. Files[i].text = Text[l] \/ Viewed(l)
    BY <2>2, <2>3 DEF Shown
  <2>5. Text[l] = Visible(Statement[l].args)
    BY <2>3, TextIsVisible
  <2>6. ASSUME Viewed(l)
        PROVE  \E a \in Range(Statement[l].args) : a.type = "kStrView" /\ a.frame
    <3> DEFINE args == Statement[l].args
    <3>1. args \in Seq(Argument)
      BY <2>3, AsyncLoggerAssumption
    <3>2. args \in Seq(Range(args))
      BY <3>1 DEF Range
    <3>3. Text[l] \in Seq(Range(args))
      BY <2>5, <3>2, VisibleArguments
    <3>4. PICK j \in DOMAIN Text[l] : Text[l][j].type = "kStrView" /\ Text[l][j].frame
      BY <2>6 DEF Viewed
    <3>5. Text[l][j] \in Range(args)
      BY <3>3, <3>4, ElementOfSeq
    <3> QED
      BY <3>4, <3>5
  <2> QED
    BY <2>3, <2>4, <2>5, <2>6
<1> QED
  BY <1>1, FiledInvariant, PTL
=============================================================================
