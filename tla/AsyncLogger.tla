----------------------------- MODULE AsyncLogger -----------------------------
(***************************************************************************)
(* fm::log::AsyncLogger (src/util/AsyncLogger.cpp) and the log statements  *)
(* of src/util/Log.cpp: the background thread that pops lines from a       *)
(* LogBufferQueue and writes them to the LogFile, the threads that log,    *)
(* and the owner that constructs and destroys the logger.                  *)
(*                                                                         *)
(* A line that was popped is written in the same step: the thread's file   *)
(* is its own.  The destructor is not called while a thread is inside      *)
(* add().  A line of level kFATAL ends the program when it is written, by  *)
(* the background thread, and not when it is logged.                       *)
(***************************************************************************)
EXTENDS LogBufferQueue, LogFile, LogLine

CONSTANTS
  Statement,  \* of each line: its level and its arguments
  Levels      \* the levels that setLogLevel() is called with

Argument == UNION {Range(Statement[l].args) : l \in Line}

ASSUME AsyncLoggerAssumption ==
  /\ Levels \subseteq Range(LogLevel)
  /\ \A l \in Line : Statement[l].args \in Seq(Argument)
  /\ \A a \in Argument : a.type \in DOMAIN SizeOf \cup {"kRawStr"} /\ a.len \in Nat

VARIABLES
  logLevel,  \* atomic_log_level
  logState,  \* state_
  owner,     \* the owner: constructing, using or destroying the logger
  tpc        \* where popThread() is

ownerVars == <<logLevel, logState, owner>>
loggerVars == <<ownerVars, tpc>>
allVars == <<vars, fileVars, loggerVars>>

LoggerTypeOK ==
  /\ TypeOK
  /\ logLevel \in 0..5
  /\ logState \in {"kINIT", "kREADY", "kSHUTDOWN"}
  /\ owner \in {"new", "running", "joining", "joined"}
  /\ tpc \in {"wait", "test", "pop", "drain", "exited", "aborted"}

LoggerInit ==
  /\ Init
  /\ FileInit
  /\ logLevel = LogLevel.kINFO
  /\ logState = "kINIT"
  /\ owner = "new"
  /\ tpc = "wait"

-----------------------------------------------------------------------------
(* The log statements and the owner                                        *)

\* isLowerThanOrEqualToCurr().
Enabled(l) == Statement[l].level <= logLevel

SetLogLevel ==
  /\ tpc # "aborted"
  /\ logLevel' \in Levels \ {logLevel}
  /\ UNCHANGED <<vars, fileVars, logState, owner, tpc>>

\* The body of the constructor, with the thread already running, and the
\* store to atomic_logger in initialize().
Construct ==
  /\ owner = "new"
  /\ owner' = "running"
  /\ logState' = "kREADY"
  /\ UNCHANGED <<vars, fileVars, logLevel, tpc>>

\* The level is too high, or there is no logger yet: the line is dropped.
Discard(w, l) ==
  /\ pc[w] = "idle" /\ l \in unused
  /\ owner \in {"new", "running"} /\ tpc # "aborted"
  /\ owner = "new" \/ ~Enabled(l)
  /\ unused' = unused \ {l}
  /\ UNCHANGED <<bufVars, queueVars, writerVars, readerVars, reserved, reused,
                 fileVars, loggerVars>>

\* FmLog::operator== and add(), on any thread.
Add ==
  /\ owner = "running" /\ tpc # "aborted"
  /\ \E w \in Writer :
       WriterStep(w) \/ \E l \in Line : Enabled(l) /\ Push(w, l)
  /\ UNCHANGED <<fileVars, loggerVars>>

\* ~AsyncLogger(): the store ...
Shutdown ==
  /\ owner = "running" /\ tpc # "aborted"
  /\ \A w \in Writer : pc[w] = "idle"
  /\ owner' = "joining"
  /\ logState' = "kSHUTDOWN"
  /\ UNCHANGED <<vars, fileVars, logLevel, tpc>>

\* ... the join, and the end of log_file_.
Join ==
  /\ owner = "joining"
  /\ tpc = "exited"
  /\ owner' = "joined"
  /\ Close
  /\ UNCHANGED <<vars, logLevel, logState, tpc>>

-----------------------------------------------------------------------------
(* popThread()                                                             *)

\* while (state_ == kINIT) sleep.
AwaitReady ==
  /\ tpc = "wait"
  /\ logState # "kINIT"
  /\ tpc' = "test"
  /\ UNCHANGED <<vars, fileVars, ownerVars>>

\* The loop goes on for as long as the logger is not being constructed.
TestState_Forever ==
  /\ tpc = "test"
  /\ tpc' = IF logState # "kINIT" THEN "pop" ELSE "drain"
  /\ UNCHANGED <<vars, fileVars, ownerVars>>

\* What is still queued is not written.
TestState_NoDrain ==
  /\ tpc = "test"
  /\ tpc' = IF logState = "kREADY" THEN "pop" ELSE "exited"
  /\ UNCHANGED <<vars, fileVars, ownerVars>>

\* while (state_ == kREADY).
TestState ==
  /\ tpc = "test"
  /\ tpc' = IF logState = "kREADY" THEN "pop" ELSE "drain"
  /\ UNCHANGED <<vars, fileVars, ownerVars>>

\* pop() returns: with a line after TakeLine or Recycle, else without.
Returns == rpc' = "idle"
WithLine == popped' # popped \/ rpc = "recycle"

\* What the file gets of a line: views of the caller's objects are read when
\* the line is written, and the objects may be gone.  A slot that is popped
\* for the second time holds what was left of its line, whichever it was.
Text == [l \in Line |-> stringify(Encoded(Statement[l].level, Statement[l].args))]
Viewed(l) == \E i \in DOMAIN Text[l] :
               Text[l][i].type = "kStrView" /\ Text[l][i].frame
Shown(l) ==
  IF l \notin Line THEN {[line |-> l, text |-> <<Garbage>>]}
  ELSE {[line |-> l, text |-> t] :
          t \in {Text[l]} \cup (IF Viewed(l) THEN {<<Garbage>>} ELSE {})}

\* LogFile::write(); stringify() flushes and aborts after a fatal line.
\* (Bytes are counted as if every argument had one.)
Write(l) ==
  \E e \in Shown(l) :
    IF l \in Line /\ Statement[l].level = LogLevel.kFATAL
    THEN Abort(e) /\ tpc' = "aborted"
    ELSE /\ \E t \in now..MaxTime : write(t, e, 1 + Len(e.text))
         /\ tpc' = IF tpc = "pop" THEN "test" ELSE "drain"

\* A line or none, the main loop tests state_ again; the loop that drains
\* the queue ends with the first pop() that returns no line.
PopStep ==
  /\ tpc \in {"pop", "drain"}
  /\ ReaderStep
  /\ IF Returns /\ WithLine THEN Write(Last(popped'))
     ELSE /\ tpc' = IF ~Returns THEN tpc ELSE IF tpc = "pop" THEN "test" ELSE "exited"
          /\ UNCHANGED fileVars
  /\ UNCHANGED ownerVars

-----------------------------------------------------------------------------
ThreadStep == AwaitReady \/ TestState \/ PopStep

LoggerNext ==
  \/ Construct \/ Add \/ SetLogLevel \/ Shutdown \/ Join \/ ThreadStep
  \/ \E w \in Writer, l \in Line : Discard(w, l)

LoggerSpec == LoggerInit /\ [][LoggerNext]_allVars

\* The constructor and the destructor, once begun, go on, and the
\* scheduler runs the background thread.
LoggerFairSpec ==
  /\ LoggerSpec
  /\ WF_allVars(ThreadStep)
  /\ WF_allVars(Join)

-----------------------------------------------------------------------------
\* Nothing is lost on the way to the disk: when the destructor has returned,
\* or a fatal line has ended the program, the files read in the order of their
\* names hold every line that was taken from the queue, once and in the order
\* of the slots, and the destructor has taken every line.  (As long as no
\* LogBuffer was recycled, see FifoUntilReuse, and no two files were opened in
\* the same second, when the second open() truncates the first file.)
FilesHoldLines ==
  /\ LoggerTypeOK
  /\ (owner = "joined" \/ tpc = "aborted") /\ ~reused /\ ~truncated
       => /\ [i \in DOMAIN Files |-> Files[i].line] = popped
          /\ owner = "joined" => popped = reserved

\* The arguments of a log statement that show: all but empty strings.
Visible(args) ==
  FlattenSeq([i \in DOMAIN args |-> IF args[i].type = "kRawStr" /\ args[i].len = 0
                                    THEN <<>> ELSE <<args[i]>>])

\* What a line says in the file is what was logged, whatever the sizes of its
\* arguments and wherever its buffer had to grow, except for a view of an
\* object of the caller, which may be gone when the line is written.
TextAsLogged ==
  \A i \in DOMAIN Files :
    LET l == Files[i].line
    IN l \in Line
         => \/ Files[i].text = Visible(Statement[l].args)
            \/ \E a \in Range(Statement[l].args) : a.type = "kStrView" /\ a.frame

\* The destructor returns, recycled LogBuffers with stale flags included,
\* unless a fatal line ends the program first.
DtorReturns == (owner = "joining") ~> (owner = "joined" \/ tpc = "aborted")
=============================================================================
