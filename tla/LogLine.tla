------------------------------- MODULE LogLine -------------------------------
(***************************************************************************)
(* fm::log::LogLine (src/util/LogLine.cpp): the arguments of a log         *)
(* statement are encoded into a buffer, first on the stack and then on the *)
(* heap, and decoded by stringify() on the thread that writes them out.    *)
(*                                                                         *)
(* The buffer is a function from the offsets at which something begins to  *)
(* what is there; sizes and offsets are those of the code.  An argument is *)
(* [type, text, len]: len is the length of a string up to its first NUL    *)
(* (c_str()) and 0 for the rest.  A view is the text of an object that     *)
(* lives elsewhere, here or there ([view |-> TRUE]).                       *)
(***************************************************************************)
EXTENDS Naturals, Sequences, FiniteSetsExt, Functions

\* LogLevel, in the order of the enumeration.
LogLevel == [kCLOSE |-> 0, kFATAL |-> 1, kINFO |-> 2, kWARN |-> 3,
             kERROR |-> 4, kDEBUG |-> 5]

\* sizeof the types that follow a type code of one byte.
SizeOf == [kChar |-> 1, kUInt32 |-> 4, kUInt64 |-> 8, kInt32 |-> 4,
           kInt64 |-> 8, kDouble |-> 8, kStrView |-> 16]

kLogLineSize == 128
StackSize == kLogLineSize - 8 * 2 - 8
HeapSize == 512
HeaderSize == 8 + 4 + 1 + 16 + 16 + 4 + 4
Garbage == [type |-> "garbage"]

\* The constructor: the header is encoded without a test of the room.
NewLine(level) ==
  [used |-> HeaderSize, size |-> StackSize, heap |-> FALSE,
   mem |-> [b \in {0} |-> level], inside |-> HeaderSize <= StackSize]

\* Only what was used is copied to the larger buffer.
resizeBufferIfNeeded(L, needed) ==
  LET required == L.used + needed
      least == IF L.heap THEN 2 * L.size ELSE HeapSize
  IN IF required <= L.size THEN L
     ELSE [L EXCEPT !.size = Max({least, required}),
                    !.heap = TRUE,
                    !.mem = Restrict(@, DOMAIN @ \cap 0..L.used - 1)]

\* encode<T>(t) at buffer(): n bytes at the offset used_bytes_.
Put(L, n, x) ==
  [L EXCEPT !.mem = [b \in {L.used} \cup DOMAIN @ |-> IF b = L.used THEN x ELSE @[b]],
            !.used = @ + n,
            !.inside = @ /\ L.used + n <= L.size]

\* encode<T>(type, t), and encodeStrView() for a view.
encode(L, a) ==
  Put(Put(resizeBufferIfNeeded(L, 1 + SizeOf[a.type]), 1, a.type), SizeOf[a.type], a)

\* The terminating NUL is copied and not counted.
encodeString_NoNul(L, a) ==
  IF a.len = 0 THEN L
  ELSE Put(Put(resizeBufferIfNeeded(L, 1 + a.len + 1), 1, "kRawStr"), a.len, a)

\* An empty string leaves no trace; else the bytes and their NUL.
encodeString(L, a) ==
  IF a.len = 0 THEN L
  ELSE Put(Put(resizeBufferIfNeeded(L, 1 + a.len + 1), 1, "kRawStr"), a.len + 1, a)

\* The operators <<, one after the other.
Encoded(level, args) ==
  LET L[n \in 0..Len(args)] ==
        IF n = 0 THEN NewLine(level)
        ELSE IF args[n].type = "kRawStr" THEN encodeString(L[n - 1], args[n])
        ELSE encode(L[n - 1], args[n])
  IN L[Len(args)]

\* stringify(): the loop over type codes and what follows each of them.  An
\* unknown type code ends it, and what is past the buffer is garbage.
stringify(L) ==
  LET After(b) == b + 1 + (IF L.mem[b] = "kRawStr" THEN L.mem[b + 1].len + 1
                           ELSE SizeOf[L.mem[b]])
      S[b \in 0..L.used] ==
        IF b = L.used THEN <<>>
        ELSE IF {b, b + 1} \subseteq DOMAIN L.mem /\ L.inside
        THEN <<L.mem[b + 1]>>
               \o (IF After(b) \in b + 1..L.used - 1 THEN S[After(b)] ELSE <<>>)
        ELSE <<Garbage>>
  IN S[HeaderSize]
=============================================================================
