------------------------------- MODULE LogFile -------------------------------
(***************************************************************************)
(* fm::log::LogFile (src/util/LogFile.cpp): the file that is rolled when   *)
(* it is full or, looked at every checkLines lines, a day old.             *)
(*                                                                         *)
(* A file's name holds the second in which it was opened (and the name of  *)
(* the host, a constant), so the second stands for the file.  The name is  *)
(* in local time, and the clock can be set: here neither goes back, as     *)
(* they do at the end of summer time and by an adjustment.  What the       *)
(* ofstream has not flushed is in stream; it may have spilled some of it.  *)
(***************************************************************************)
EXTENDS Naturals, Sequences, SequencesExt

CONSTANTS
  MaxSize,          \* log_file_max_size_
  CheckLines,       \* check_lines_ (1000 in the code)
  FlushInterval,    \* flush_interval_ (3 in the code)
  kRollPerSeconds,  \* seconds of a day
  MaxTime           \* bound: the last second

ASSUME LogFileAssumption ==
  /\ MaxSize \in Nat /\ CheckLines \in Nat /\ FlushInterval \in Nat
  /\ kRollPerSeconds \in Nat \ {0} /\ MaxTime \in Nat

VARIABLES
  now,            \* the clock when it was last looked at
  disk,           \* the contents of each file
  stream,         \* log_file_: what is written and not flushed
  opened,         \* the name of log_file_
  writenBytes,    \* writen_bytes_
  lineCounts,     \* line_counts_
  startLogTime,   \* start_log_time_
  lastFlushTime,  \* last_flush_time_
  truncated       \* history: an open() has truncated a file with lines

fileVars == <<now, disk, stream, opened, writenBytes, lineCounts, startLogTime,
              lastFlushTime, truncated>>

Second == 0..MaxTime
StartOfDay(t) == (t \div kRollPerSeconds) * kRollPerSeconds

\* The constructor's rollFile().
FileInit ==
  /\ now = 0
  /\ disk = [t \in Second |-> <<>>]
  /\ stream = <<>>
  /\ opened = 0
  /\ writenBytes = 0
  /\ lineCounts = 0
  /\ startLogTime = 0
  /\ lastFlushTime = 0
  /\ truncated = FALSE

\* The flush of what is in the stream.
Flushed(out) == [disk EXCEPT ![opened] = @ \o out]

\* rollFile(): flush, close and open with the name of this second.
rollFile(t, out) ==
  /\ disk' = [Flushed(out) EXCEPT ![t] = <<>>]
  /\ truncated' = (truncated \/ Flushed(out)[t] # <<>>)
  /\ stream' = <<>>
  /\ opened' = t
  /\ writenBytes' = 0
  /\ lineCounts' = 0
  /\ startLogTime' = StartOfDay(t)
  /\ lastFlushTime' = t

\* write() of n bytes, at the second t.
write(t, out, n) ==
  LET full == writenBytes + n >= MaxSize
      check == lineCounts + 1 >= CheckLines
      newDay == StartOfDay(t) # startLogTime
      flush == check /\ t - lastFlushTime > FlushInterval
  IN /\ now' = IF full \/ check THEN t ELSE now
     /\ IF full \/ (check /\ newDay)
        THEN rollFile(t, Append(stream, out))
        ELSE /\ writenBytes' = writenBytes + n
             /\ lineCounts' = IF check THEN 0 ELSE lineCounts + 1
             /\ lastFlushTime' = IF flush THEN t ELSE lastFlushTime
             /\ disk' = IF flush THEN Flushed(Append(stream, out)) ELSE disk
             /\ stream' = IF flush THEN <<>> ELSE Append(stream, out)
             /\ UNCHANGED <<opened, startLogTime, truncated>>

\* The flush before abort().
Abort(out) ==
  /\ disk' = Flushed(Append(stream, out))
  /\ stream' = <<>>
  /\ UNCHANGED <<now, opened, writenBytes, lineCounts, startLogTime,
                 lastFlushTime, truncated>>

\* The destructor of the ofstream.
Close ==
  /\ disk' = Flushed(stream)
  /\ stream' = <<>>
  /\ UNCHANGED <<now, opened, writenBytes, lineCounts, startLogTime,
                 lastFlushTime, truncated>>

\* The files, one after the other in the order of their names.
Files == FlattenSeq([i \in 1..MaxTime + 1 |-> disk[i - 1]])
=============================================================================
