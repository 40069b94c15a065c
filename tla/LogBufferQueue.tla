--------------------------- MODULE LogBufferQueue ---------------------------
(***************************************************************************)
(* fm::log::LogBufferQueue (src/util/LogBufferQueue.cpp): the lock-free    *)
(* queue between the threads that log and the one thread that writes the   *)
(* log file.  Writers reserve a slot of the current LogBuffer with one     *)
(* fetch_add; the writer that completes a LogBuffer sets up the next one,  *)
(* taken from the ring of recycled ones if there is any.                   *)
(*                                                                         *)
(* Every atomic access is a step of its own, and so is every critical      *)
(* section of a spin lock.  The accesses are sequentially consistent, as   *)
(* they are with the x86 instructions they compile to.                     *)
(***************************************************************************)
EXTENDS Naturals, Sequences, FiniteSets, SequencesExt

CONSTANTS
  Writer,    \* threads that push
  Line,      \* log lines; each is pushed at most once
  kSize,     \* slots of a LogBuffer (32768 in the code)
  RingSize,  \* capacity of backup_log_buffers_ (4 in the code)
  MaxBuf     \* bound: LogBuffers allocated in a run

ASSUME LogBufferQueueAssumption ==
  /\ kSize \in Nat \ {0}
  /\ RingSize \in Nat
  /\ MaxBuf \in Nat \ {0}

Buf == 1..MaxBuf
Slot == 0..kSize - 1
NULL == 0
Moved == "moved"     \* what is left of a LogLine after std::move
Raw == "raw"         \* memory no Item was constructed in

VARIABLES
  flags,     \* write_states_[0..kSize-1] of each LogBuffer
  count,     \* write_states_[kSize] of each LogBuffer
  items,     \* items_ of each LogBuffer
  queue,     \* log_buffers_
  curW,      \* current_write_buffer_
  writeIndex,\* write_index_
  backup,    \* backup_log_buffers_
  allocated, \* number of LogBuffers allocated
  freed,     \* LogBuffers deleted
  pc, line, slot, buf,   \* each writer: where it is and its locals
  curR,      \* current_read_buffer_
  readIndex, \* read_index_
  rpc,       \* where the reader is
  unused,    \* lines not pushed yet
  reserved,  \* history: lines in the order of their slots
  popped,    \* history: what pop() returned
  reused     \* history: a recycled LogBuffer has become the current one

bufVars == <<flags, count, items>>
queueVars == <<queue, curW, writeIndex, backup, allocated, freed>>
writerVars == <<pc, line, slot, buf>>
readerVars == <<curR, readIndex, rpc, popped>>
history == <<unused, reserved, reused>>
vars == <<bufVars, queueVars, writerVars, readerVars, history>>

WriterPC == {"idle", "reserve", "spin", "load", "item", "flag", "count",
             "reset", "next", "publish"}

TypeOK ==
  /\ flags \in [Buf -> [Slot -> BOOLEAN]]
  /\ count \in [Buf -> 0..kSize]
  /\ items \in [Buf -> [Slot -> Line \cup {Moved, Raw}]]
  /\ queue \in Seq(Buf)
  /\ curW \in Buf
  /\ writeIndex \in Nat
  /\ backup \in Seq(Buf) /\ Len(backup) <= RingSize
  /\ allocated \in Buf
  /\ freed \in SUBSET Buf
  /\ pc \in [Writer -> WriterPC]
  /\ line \in [Writer -> Line \cup {Moved}]
  /\ slot \in [Writer -> Slot]
  /\ buf \in [Writer -> Buf]
  /\ curR \in Buf \cup {NULL}
  /\ readIndex \in 0..kSize
  /\ rpc \in {"idle", "try", "unqueue", "recycle"}
  /\ unused \in SUBSET Line
  /\ reserved \in Seq(Line)
  /\ popped \in Seq(Line \cup {Moved, Raw})
  /\ reused \in BOOLEAN

Init ==
  /\ flags = [b \in Buf |-> [i \in Slot |-> FALSE]]
  /\ count = [b \in Buf |-> 0]
  /\ items = [b \in Buf |-> [i \in Slot |-> Raw]]
  /\ queue = <<1>>
  /\ curW = 1
  /\ writeIndex = 0
  /\ backup = <<>>
  /\ allocated = 1
  /\ freed = {}
  /\ pc = [w \in Writer |-> "idle"]
  /\ line = [w \in Writer |-> Moved]
  /\ slot = [w \in Writer |-> 0]
  /\ buf = [w \in Writer |-> 1]
  /\ curR = NULL
  /\ readIndex = 0
  /\ rpc = "idle"
  /\ unused = Line
  /\ reserved = <<>>
  /\ popped = <<>>
  /\ reused = FALSE

Goto(w, label) == pc' = [pc EXCEPT ![w] = label]

-----------------------------------------------------------------------------
(* push(), a writer                                                        *)

Push(w, l) ==
  /\ pc[w] = "idle"
  /\ l \in unused
  /\ line' = [line EXCEPT ![w] = l]
  /\ unused' = unused \ {l}
  /\ Goto(w, "reserve")
  /\ UNCHANGED <<bufVars, queueVars, slot, buf, readerVars, reserved, reused>>

\* The slot is read and the index advanced in two steps; here: a writer
\* that saw the same index as the one before it.
Reserve_Torn(w) ==
  /\ pc[w] = "reserve"
  /\ IF writeIndex < kSize
     THEN /\ slot' = [slot EXCEPT ![w] = IF writeIndex > 0 THEN writeIndex - 1 ELSE 0]
          /\ reserved' = Append(reserved, line[w])
          /\ Goto(w, "load")
     ELSE /\ Goto(w, "spin")
          /\ UNCHANGED <<slot, reserved>>
  /\ writeIndex' = writeIndex + 1
  /\ UNCHANGED <<bufVars, queue, curW, backup, allocated, freed, line, buf,
                 readerVars, unused, reused>>

\* write_index_.fetch_add(1) and the test of its result.
Reserve(w) ==
  /\ pc[w] = "reserve"
  /\ IF writeIndex < kSize
     THEN /\ slot' = [slot EXCEPT ![w] = writeIndex]
          /\ reserved' = Append(reserved, line[w])
          /\ Goto(w, "load")
     ELSE /\ Goto(w, "spin")
          /\ UNCHANGED <<slot, reserved>>
  /\ writeIndex' = writeIndex + 1
  /\ UNCHANGED <<bufVars, queue, curW, backup, allocated, freed, line, buf,
                 readerVars, unused, reused>>

\* while (write_index_.load() >= kSize); then push() again.
Spin(w) ==
  /\ pc[w] = "spin"
  /\ writeIndex < kSize
  /\ Goto(w, "reserve")
  /\ UNCHANGED <<bufVars, queueVars, line, slot, buf, readerVars, history>>

\* current_write_buffer_.load().
LoadBuffer(w) ==
  /\ pc[w] = "load"
  /\ buf' = [buf EXCEPT ![w] = curW]
  /\ Goto(w, "item")
  /\ UNCHANGED <<bufVars, queueVars, line, slot, readerVars, history>>

\* LogBuffer::push: the line is moved into items_[write_index] ...
WriteItem(w) ==
  /\ pc[w] = "item"
  /\ items' = [items EXCEPT ![buf[w]][slot[w]] = line[w]]
  /\ line' = [line EXCEPT ![w] = Moved]
  /\ Goto(w, "flag")
  /\ UNCHANGED <<flags, count, queueVars, slot, buf, readerVars, history>>

\* ... its flag is stored ...
SetFlag(w) ==
  /\ pc[w] = "flag"
  /\ flags' = [flags EXCEPT ![buf[w]][slot[w]] = TRUE]
  /\ Goto(w, "count")
  /\ UNCHANGED <<count, items, queueVars, line, slot, buf, readerVars, history>>

\* ... and counted: the writer that counts to kSize goes on.
CountLine(w) ==
  /\ pc[w] = "count"
  /\ count' = [count EXCEPT ![buf[w]] = @ + 1]
  /\ Goto(w, IF count[buf[w]] + 1 = kSize THEN "reset" ELSE "idle")
  /\ UNCHANGED <<flags, items, queueVars, line, slot, buf, readerVars, history>>

\* write_states_[kSize].store(0): the counter, not the flags.
ResetCount(w) ==
  /\ pc[w] = "reset"
  /\ count' = [count EXCEPT ![buf[w]] = 0]
  /\ Goto(w, "next")
  /\ UNCHANGED <<flags, items, queueVars, line, slot, buf, readerVars, history>>

\* setupNextWriteLogBuffer(): a recycled LogBuffer if the ring has one,
\* else a new one; it becomes the current write buffer.
NextBuffer(w) ==
  /\ pc[w] = "next"
  /\ IF backup # <<>>
     THEN /\ curW' = Head(backup)
          /\ backup' = Tail(backup)
          /\ reused' = TRUE
          /\ UNCHANGED allocated
     ELSE /\ allocated < MaxBuf
          /\ curW' = allocated + 1
          /\ allocated' = allocated + 1
          /\ UNCHANGED <<backup, reused>>
  /\ Goto(w, "publish")
  /\ UNCHANGED <<bufVars, queue, writeIndex, freed, line, slot, buf,
                 readerVars, unused, reserved>>

\* Under flag_: the LogBuffer joins log_buffers_, write_index_ restarts.
Publish(w) ==
  /\ pc[w] = "publish"
  /\ queue' = Append(queue, curW)
  /\ writeIndex' = 0
  /\ Goto(w, "idle")
  /\ UNCHANGED <<bufVars, curW, backup, allocated, freed, line, slot, buf,
                 readerVars, history>>

-----------------------------------------------------------------------------
(* pop(), the reader                                                       *)

\* getNextReadLogBuffer() when there is no current read buffer; pop()
\* returns false when there is none to read.
GetBuffer ==
  /\ rpc = "idle"
  /\ curR' = IF curR # NULL THEN curR
             ELSE IF queue = <<>> THEN NULL ELSE Head(queue)
  /\ rpc' = IF curR' = NULL THEN "idle" ELSE "try"
  /\ UNCHANGED <<bufVars, queueVars, writerVars, readIndex, popped, history>>

\* The flag is not tested.
TakeLine_Unchecked ==
  /\ rpc = "try"
  /\ popped' = Append(popped, items[curR][readIndex])
  /\ items' = [items EXCEPT ![curR][readIndex] = Moved]
  /\ IF readIndex + 1 = kSize
     THEN readIndex' = 0 /\ rpc' = "unqueue"
     ELSE readIndex' = readIndex + 1 /\ rpc' = "idle"
  /\ UNCHANGED <<flags, count, queueVars, writerVars, curR, history>>

\* LogBuffer::pop, when the flag is set: the line is moved out.
TakeLine ==
  /\ rpc = "try"
  /\ flags[curR][readIndex]
  /\ popped' = Append(popped, items[curR][readIndex])
  /\ items' = [items EXCEPT ![curR][readIndex] = Moved]
  /\ IF readIndex + 1 = kSize
     THEN readIndex' = 0 /\ rpc' = "unqueue"
     ELSE readIndex' = readIndex + 1 /\ rpc' = "idle"
  /\ UNCHANGED <<flags, count, queueVars, writerVars, curR, history>>

\* The flag is not set: pop() returns false.
NothingToTake ==
  /\ rpc = "try"
  /\ ~flags[curR][readIndex]
  /\ rpc' = "idle"
  /\ UNCHANGED <<bufVars, queueVars, writerVars, curR, readIndex, popped,
                 history>>

\* The LogBuffer is read to its end and leaves log_buffers_ under flag_.
Unqueue ==
  /\ rpc = "unqueue"
  /\ queue' = Tail(queue)
  /\ rpc' = "recycle"
  /\ UNCHANGED <<bufVars, curW, writeIndex, backup, allocated, freed,
                 writerVars, curR, readIndex, popped, history>>

\* RingQueue::push; a LogBuffer that finds the ring full is deleted.
Recycle ==
  /\ rpc = "recycle"
  /\ IF Len(backup) < RingSize
     THEN backup' = Append(backup, curR) /\ UNCHANGED freed
     ELSE freed' = freed \cup {curR} /\ UNCHANGED backup
  /\ curR' = NULL
  /\ rpc' = "idle"
  /\ UNCHANGED <<bufVars, queue, curW, writeIndex, allocated, writerVars,
                 readIndex, popped, history>>

-----------------------------------------------------------------------------
WriterStep(w) ==
  \/ Reserve(w) \/ Spin(w) \/ LoadBuffer(w) \/ WriteItem(w) \/ SetFlag(w)
  \/ CountLine(w) \/ ResetCount(w) \/ NextBuffer(w) \/ Publish(w)

ReaderStep ==
  GetBuffer \/ TakeLine \/ NothingToTake \/ Unqueue \/ Recycle

Next ==
  \/ ReaderStep
  \/ \E w \in Writer : WriterStep(w) \/ \E l \in Line : Push(w, l)

Spec == Init /\ [][Next]_vars

-----------------------------------------------------------------------------
\* A writer between the reservation of its slot and the end of its write.
Writing(w) == pc[w] \in {"load", "item", "flag", "count"}

\* No two writers own the same slot at the same time, and the LogBuffer a writer
\* reserved a slot of is the one it loads, a switch of buffers never comes
\* between the fetch_add and the load of current_write_buffer_.  And as long as
\* no LogBuffer has been recycled, the reader, which deletes a LogBuffer that
\* finds the ring full while a writer may have yet to count its line there,
\* deletes none that a line is still written to.
SlotOwnership ==
  /\ \A v, w \in Writer :
       Writing(v) /\ Writing(w) /\ v # w
         => /\ slot[v] # slot[w]
            /\ pc[v] # "load" /\ pc[w] # "load" => buf[v] = buf[w]
  /\ ~reused => \A w \in Writer : pc[w] \in {"item", "flag"} => buf[w] \notin freed

\* As long as no LogBuffer has been recycled, the reader gets every line
\* once, whole, and in the order in which the slots were reserved.
FifoUntilReuse == ~reused => IsPrefix(popped, reserved)
=============================================================================
