------------------------------- MODULE Buffer -------------------------------
(***************************************************************************)
(* fm::net::Buffer (src/net/Buffer.cpp, src/include/libfm/fmnet/Buffer.h): *)
(* a vector with two indices, the readable bytes between them and a        *)
(* reserve of kCheapPrepend bytes in front.                                *)
(*                                                                         *)
(* A buffer is a record [buffer, r, w]: buffer_, read_index_ and           *)
(* write_index_.  Index i of the code is position i + 1 of the sequence.   *)
(* The Int8/16/32/64 variants are these operations with a fixed length.    *)
(***************************************************************************)
EXTENDS Integers, Sequences

CONSTANTS
  kCheapPrepend, kInitialSize,
  kExtraBuf,    \* size of extraBuf in readFd (65536 in the code)
  Byte,         \* the values of a byte
  Overrun,      \* TRUE: readv may return more than the writable bytes
  MaxLen,       \* bound: longest piece of data one call takes
  MaxSize       \* bound: largest buffer_ the model explores

ASSUME BufferAssumption ==
  /\ kCheapPrepend \in Nat /\ kInitialSize \in Nat /\ kExtraBuf \in Nat
  /\ MaxLen \in Nat /\ MaxSize \in Nat
  /\ Overrun \in BOOLEAN
  /\ 0 \in Byte

VARIABLES
  b,        \* the buffer
  content   \* history: the bytes put in and not taken out yet

vars == <<b, content>>

\* Data handed to one call.
Data == UNION {[1..n -> Byte] : n \in 0..MaxLen}

Zeros(n) == [i \in 1..n |-> 0]

\* buffer_ with data copied over it from index at.
Put(buffer, at, data) ==
  [i \in 1..Len(buffer) |->
     IF i - at \in 1..Len(data) THEN data[i - at] ELSE buffer[i]]

\* buffer_.resize(n), for n no smaller than its size.
Resize(buffer, n) == buffer \o Zeros(n - Len(buffer))

New == [buffer |-> Zeros(kCheapPrepend + kInitialSize),
        r |-> kCheapPrepend, w |-> kCheapPrepend]

readableBytes(x) == x.w - x.r
writableBytes(x) == Len(x.buffer) - x.w
prependableBytes(x) == x.r
toString(x) == SubSeq(x.buffer, x.r + 1, x.w)

retrieveAll(x) ==
  [buffer |-> x.buffer, r |-> kCheapPrepend, w |-> kCheapPrepend]

retrieve(x, n) ==
  IF n < readableBytes(x) THEN [x EXCEPT !.r = @ + n] ELSE retrieveAll(x)

\* The branch of makeSpace() that grows the vector.
MustGrow_Loose(x, n) ==
  writableBytes(x) + prependableBytes(x) < n

MustGrow(x, n) ==
  writableBytes(x) + prependableBytes(x) < n + kCheapPrepend

\* The bytes are moved to the front one position too early.
MoveToFront_Off(x) ==
  [buffer |-> Put(x.buffer, kCheapPrepend, SubSeq(x.buffer, x.r, x.w - 1)),
   r |-> kCheapPrepend, w |-> kCheapPrepend + readableBytes(x)]

\* The branch that moves the readable bytes back to kCheapPrepend.
MoveToFront(x) ==
  [buffer |-> Put(x.buffer, kCheapPrepend, toString(x)),
   r |-> kCheapPrepend, w |-> kCheapPrepend + readableBytes(x)]

\* The vector is grown to the request, not to the request past write_index_.
makeSpace_Short(x, n) ==
  IF MustGrow(x, n) THEN [x EXCEPT !.buffer = Resize(@, n)]
                    ELSE MoveToFront(x)

makeSpace(x, n) ==
  IF MustGrow(x, n) THEN [x EXCEPT !.buffer = Resize(@, x.w + n)]
                    ELSE MoveToFront(x)

ensureWritableBytes(x, n) ==
  IF writableBytes(x) < n THEN makeSpace(x, n) ELSE x

hasWritten(x, n) == [x EXCEPT !.w = @ + n]

unWrite(x, n) == [x EXCEPT !.w = @ - n]

append(x, data) ==
  LET y == ensureWritableBytes(x, Len(data))
  IN  hasWritten([y EXCEPT !.buffer = Put(@, y.w, data)], Len(data))

prepend(x, data) ==
  [buffer |-> Put(x.buffer, x.r - Len(data), data),
   r |-> x.r - Len(data), w |-> x.w]

shrink(x, reserve) ==
  append(ensureWritableBytes(New, readableBytes(x) + reserve), toString(x))

\* How much readv() can return: extraBuf is offered only while the
\* writable space is smaller than it.
ReadLimit(x) ==
  IF writableBytes(x) < kExtraBuf THEN writableBytes(x) + kExtraBuf
                                  ELSE writableBytes(x)

\* readFd(): readv() has returned n = Len(data) bytes.  What does not fit
\* is in extraBuf; the test in the code compares writable with itself, so
\* write_index_ advances by n in every case and extraBuf is dropped.
readFd(x, data) ==
  hasWritten([x EXCEPT !.buffer = Put(@, x.w, data)], Len(data))

\* sizeof of the integers.
IntSize == {1, 2, 4, 8}

-----------------------------------------------------------------------------
Init == b = New /\ content = <<>>

\* What follows a write_index_ outside the vector is undefined.
Usable == b.w <= Len(b.buffer) /\ Len(b.buffer) <= MaxSize

Append_ ==
  \E data \in Data :
    /\ b' = append(b, data)
    /\ content' = content \o data

Prepend_ ==
  \E data \in Data :
    /\ Len(data) <= prependableBytes(b)
    /\ b' = prepend(b, data)
    /\ content' = data \o content

\* retrieve, retrieveUntil, retrieveAsString, retrieveIntN.
Retrieve_ ==
  \E n \in 0..readableBytes(b) :
    /\ b' = retrieve(b, n)
    /\ content' = SubSeq(content, n + 1, Len(content))

\* readIntN(): peekIntN(), whose assert is the guard, and retrieveIntN().
ReadInt_ ==
  \E n \in IntSize :
    /\ readableBytes(b) >= n
    /\ b' = retrieve(b, n)
    /\ content' = SubSeq(content, n + 1, Len(content))

RetrieveAll_ ==
  /\ b' = retrieveAll(b)
  /\ content' = <<>>

EnsureWritable_ ==
  \E n \in 0..MaxLen :
    b' = ensureWritableBytes(b, n) /\ UNCHANGED content

\* The caller writes at beginWrite() and reports it with hasWritten().
HasWritten_ ==
  \E data \in Data :
    /\ Len(data) <= writableBytes(b)
    /\ b' = hasWritten([b EXCEPT !.buffer = Put(@, b.w, data)], Len(data))
    /\ content' = content \o data

UnWrite_ ==
  \E n \in 0..readableBytes(b) :
    /\ b' = unWrite(b, n)
    /\ content' = SubSeq(content, 1, Len(content) - n)

Shrink_ ==
  \E reserve \in 0..MaxLen : b' = shrink(b, reserve) /\ UNCHANGED content

ReadFd_ ==
  \E data \in Data :
    /\ Len(data) <= ReadLimit(b)
    /\ Len(data) > writableBytes(b) => Overrun
    /\ b' = readFd(b, data)
    /\ content' = content \o data

Next ==
  /\ Usable
  /\ \/ Append_ \/ Prepend_ \/ Retrieve_ \/ ReadInt_ \/ RetrieveAll_
     \/ EnsureWritable_ \/ HasWritten_ \/ UnWrite_ \/ Shrink_ \/ ReadFd_

Spec == Init /\ [][Next]_vars

-----------------------------------------------------------------------------
TypeOK ==
  /\ b \in [buffer : Seq(Byte), r : Nat, w : Nat]
  /\ content \in Seq(Byte)

\* Buffer keeps read_index_ <= write_index_ <= buffer_.size(): what every
\* assert on readableBytes() and writableBytes() takes for granted, and
\* what keeps these unsigned differences from wrapping around.
InBounds == b.r <= b.w /\ b.w <= Len(b.buffer)

\* Whatever sequence of calls is made, and however the bytes are moved or
\* the vector grown, the readable bytes are those put in and not taken out.
ContentPreserved == toString(b) = content

\* The asserts of ensureWritableBytes() and makeSpace() hold for every
\* request: space is moved only towards the front, and there is room after.
MakeSpaceAsserts ==
  \A n \in 0..MaxLen :
    /\ writableBytes(b) < n /\ ~MustGrow(b, n) => kCheapPrepend < b.r
    /\ writableBytes(ensureWritableBytes(b, n)) >= n
=============================================================================
