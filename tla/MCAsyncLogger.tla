---------------------------- MODULE MCAsyncLogger ----------------------------
\* Instance of AsyncLogger for TLC: lines that stay on the stack, that move to
\* the heap and that grow there, with a view of the caller's and a fatal one.
EXTENDS AsyncLogger

CONSTANTS l1, l2, l3, l4

MCLine == {l1, l2, l3, l4}
Arg(type, len, frame) == [type |-> type, text |-> <<type, len>>, len |-> len, frame |-> frame]
MCStatement ==
  l1 :> [level |-> LogLevel.kINFO,
         args |-> <<Arg("kStrView", 0, FALSE), Arg("kRawStr", 60, FALSE), Arg("kInt32", 0, FALSE)>>]
  @@ l2 :> [level |-> LogLevel.kWARN, args |-> <<Arg("kStrView", 0, TRUE), Arg("kRawStr", 0, FALSE)>>]
  @@ l3 :> [level |-> LogLevel.kFATAL, args |-> <<Arg("kRawStr", 0, FALSE), Arg("kUInt64", 0, FALSE)>>]
  @@ l4 :> [level |-> LogLevel.kDEBUG,
            args |-> <<Arg("kRawStr", 500, FALSE), Arg("kRawStr", 20, FALSE), Arg("kDouble", 0, FALSE)>>]
MCLevels == {LogLevel.kINFO, LogLevel.kDEBUG}
=============================================================================
