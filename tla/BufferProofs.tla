---------------------------- MODULE BufferProofs ----------------------------
(***************************************************************************)
(* Proofs about Buffer, for every reserve, initial size and byte set, as   *)
(* long as readFd() is not given more than fits (Overrun is FALSE).        *)
(*                                                                         *)
(* Every operation is shown to take a buffer that holds a sequence of      *)
(* bytes to one that holds what the operation promises (Holds).            *)
(***************************************************************************)
EXTENDS Buffer, SequenceTheorems, TLAPS

Buffers == [buffer : Seq(Byte), r : Nat, w : Nat]

\* The buffer x is well formed and its readable bytes are c.
Holds(x, c) ==
  /\ x \in Buffers
  /\ c \in Seq(Byte)
  /\ x.r <= x.w /\ x.w <= Len(x.buffer)
  /\ kCheapPrepend <= Len(x.buffer)
  /\ Len(c) = x.w - x.r
  /\ \A i \in 1..Len(c) : c[i] = x.buffer[x.r + i]

LEMMA HoldsIntro ==
  ASSUME NEW s \in Seq(Byte), NEW r \in Nat, NEW w \in Nat,
         NEW c \in Seq(Byte),
         r <= w, w <= Len(s), kCheapPrepend <= Len(s), Len(c) = w - r,
         \A i \in 1..Len(c) : c[i] = s[r + i]
  PROVE  Holds([buffer |-> s, r |-> r, w |-> w], c)
BY DEF Holds, Buffers

LEMMA HoldsElim ==
  ASSUME NEW x, NEW c, Holds(x, c)
  PROVE  /\ x = [buffer |-> x.buffer, r |-> x.r, w |-> x.w]
         /\ x.buffer \in Seq(Byte) /\ Len(x.buffer) \in Nat
         /\ x.r \in Nat /\ x.w \in Nat
         /\ c \in Seq(Byte) /\ Len(c) \in Nat
         /\ x.r <= x.w /\ x.w <= Len(x.buffer)
         /\ kCheapPrepend <= Len(x.buffer)
         /\ Len(c) = x.w - x.r
BY LenProperties DEF Holds, Buffers

LEMMA HoldsContent ==
  ASSUME NEW x, NEW c, Holds(x, c)
  PROVE  \A i \in 1..Len(c) : c[i] = x.buffer[x.r + i]
BY DEF Holds

LEMMA ConcatProps ==
  ASSUME NEW c \in Seq(Byte), NEW d \in Seq(Byte)
  PROVE  /\ c \o d \in Seq(Byte)
         /\ Len(c \o d) = Len(c) + Len(d)
         /\ \A i \in 1..Len(c \o d) :
              (c \o d)[i] = IF i <= Len(c) THEN c[i] ELSE d[i - Len(c)]
BY ConcatProperties

LEMMA SubSeqProps ==
  ASSUME NEW c \in Seq(Byte), NEW m \in Nat, NEW n \in Nat,
         m <= n, n <= Len(c)
  PROVE  /\ SubSeq(c, m + 1, n) \in Seq(Byte)
         /\ Len(SubSeq(c, m + 1, n)) = n - m
         /\ \A i \in 1..(n - m) : SubSeq(c, m + 1, n)[i] = c[m + i]
<1>1. Len(c) \in Nat
  BY LenProperties
<1>2. \A i \in m + 1 .. n : c[i] \in Byte
  BY <1>1, ElementOfSeq
<1>3. /\ SubSeq(c, m + 1, n) \in Seq(Byte)
      /\ Len(SubSeq(c, m + 1, n)) =
           IF m + 1 <= n THEN n - (m + 1) + 1 ELSE 0
      /\ \A i \in 1 .. n - (m + 1) + 1 :
           SubSeq(c, m + 1, n)[i] = c[(m + 1) + i - 1]
  BY <1>2, SubSeqProperties
<1>4. n - (m + 1) + 1 = n - m /\ \A i \in Int : (m + 1) + i - 1 = m + i
  OBVIOUS
<1> QED
  BY <1>3, <1>4

LEMMA DataIsSeq == \A data \in Data : data \in Seq(Byte)
BY BufferAssumption DEF Data

LEMMA ZerosProps ==
  ASSUME NEW n \in Nat
  PROVE  Zeros(n) \in Seq(Byte) /\ Len(Zeros(n)) = n
BY BufferAssumption DEF Zeros

LEMMA PutProps ==
  ASSUME NEW s \in Seq(Byte), NEW at \in Nat, NEW d \in Seq(Byte)
  PROVE  /\ Put(s, at, d) \in Seq(Byte)
         /\ Len(Put(s, at, d)) = Len(s)
         /\ \A i \in 1..Len(s) :
              Put(s, at, d)[i] = IF i - at \in 1..Len(d) THEN d[i - at]
                                                        ELSE s[i]
<1>1. Len(s) \in Nat /\ s \in [1..Len(s) -> Byte]
  BY LenProperties
<1>2. Len(d) \in Nat /\ d \in [1..Len(d) -> Byte]
  BY LenProperties
<1>3. Put(s, at, d) \in [1..Len(s) -> Byte]
  BY <1>1, <1>2 DEF Put
<1> QED
  BY <1>1, <1>3 DEF Put

LEMMA ResizeProps ==
  ASSUME NEW s \in Seq(Byte), NEW n \in Nat, n >= Len(s)
  PROVE  /\ Resize(s, n) \in Seq(Byte)
         /\ Len(Resize(s, n)) = n
         /\ \A i \in 1..Len(s) : Resize(s, n)[i] = s[i]
<1>1. Len(s) \in Nat /\ n - Len(s) \in Nat
  BY LenProperties
<1>2. Zeros(n - Len(s)) \in Seq(Byte) /\ Len(Zeros(n - Len(s))) = n - Len(s)
  BY <1>1, ZerosProps
<1> QED
  BY <1>1, <1>2, ConcatProperties DEF Resize

LEMMA NewHolds == Holds(New, <<>>)
<1>1. /\ Zeros(kCheapPrepend + kInitialSize) \in Seq(Byte)
      /\ Len(Zeros(kCheapPrepend + kInitialSize)) = kCheapPrepend + kInitialSize
  BY BufferAssumption, ZerosProps
<1> QED
  BY <1>1, BufferAssumption, EmptySeq DEF Holds, New, Buffers

LEMMA toStringHolds ==
  ASSUME NEW x, NEW c, Holds(x, c)
  PROVE  toString(x) = c
<1>1. /\ toString(x) \in Seq(Byte)
      /\ Len(toString(x)) = x.w - x.r
      /\ \A i \in 1..(x.w - x.r) : toString(x)[i] = x.buffer[x.r + i]
  BY HoldsElim, SubSeqProps DEF toString
<1> QED
  BY <1>1, HoldsElim, HoldsContent, SeqEqual

LEMMA retrieveAllHolds ==
  ASSUME NEW x, NEW c, Holds(x, c)
  PROVE  Holds(retrieveAll(x), <<>>)
<1>1. retrieveAll(x) = [buffer |-> x.buffer, r |-> kCheapPrepend,
                        w |-> kCheapPrepend]
  BY DEF retrieveAll
<1>2. /\ <<>> \in Seq(Byte)
      /\ Len(<<>>) = kCheapPrepend - kCheapPrepend
      /\ \A i \in 1..Len(<<>>) : <<>>[i] = x.buffer[kCheapPrepend + i]
  BY EmptySeq, BufferAssumption
<1>3. Holds([buffer |-> x.buffer, r |-> kCheapPrepend, w |-> kCheapPrepend],
            <<>>)
  <2>1. /\ x.buffer \in Seq(Byte) /\ kCheapPrepend <= Len(x.buffer)
        /\ kCheapPrepend \in Nat /\ kCheapPrepend <= kCheapPrepend
    BY HoldsElim, BufferAssumption
  <2> QED
    BY <1>2, <2>1, HoldsIntro
<1> QED
  BY <1>1, <1>3

LEMMA retrieveHolds ==
  ASSUME NEW x, NEW c, Holds(x, c), NEW n \in 0..readableBytes(x)
  PROVE  Holds(retrieve(x, n), SubSeq(c, n + 1, Len(c)))
<1>1. readableBytes(x) = Len(c) /\ Len(c) \in Nat
  BY HoldsElim DEF readableBytes
<1>2. n \in Nat /\ n <= Len(c) /\ c \in Seq(Byte)
  BY <1>1, HoldsElim
<1> DEFINE d == SubSeq(c, n + 1, Len(c))
<1>3. /\ d \in Seq(Byte)
      /\ Len(d) = Len(c) - n
      /\ \A i \in 1..(Len(c) - n) : d[i] = c[n + i]
  BY <1>1, <1>2, SubSeqProps
<1> HIDE DEF d
<1>4. CASE n < Len(c)
  <2>1. retrieve(x, n) = [buffer |-> x.buffer, r |-> x.r + n, w |-> x.w]
    BY <1>1, <1>4, HoldsElim DEF retrieve
  <2>2. \A i \in 1..Len(d) : d[i] = x.buffer[(x.r + n) + i]
    <3> SUFFICES ASSUME NEW i \in 1..Len(d)
        PROVE  d[i] = x.buffer[(x.r + n) + i]
      OBVIOUS
    <3>1. n + i \in 1..Len(c) /\ x.r + (n + i) = (x.r + n) + i
      BY <1>1, <1>2, <1>3, HoldsElim
    <3>2. c[n + i] = x.buffer[x.r + (n + i)]
      BY <3>1, HoldsContent
    <3> QED
      BY <1>3, <3>1, <3>2
  <2>3. x.r + n \in Nat /\ x.r + n <= x.w /\ Len(d) = x.w - (x.r + n)
    BY <1>1, <1>2, <1>3, <1>4, HoldsElim
  <2>4. Holds([buffer |-> x.buffer, r |-> x.r + n, w |-> x.w], d)
    BY <1>3, <2>2, <2>3, HoldsElim, HoldsIntro
  <2> QED
    BY <2>1, <2>4 DEF d
<1>5. CASE ~(n < Len(c))
  <2>1. retrieve(x, n) = retrieveAll(x)
    BY <1>1, <1>5 DEF retrieve
  <2>2. d = <<>>
    BY <1>1, <1>2, <1>3, <1>5, EmptySeq
  <2> QED
    BY <2>1, <2>2, retrieveAllHolds DEF d
<1> QED
  BY <1>4, <1>5

LEMMA MoveToFrontHolds ==
  ASSUME NEW x, NEW c, Holds(x, c), kCheapPrepend <= x.r
  PROVE  /\ Holds(MoveToFront(x), c)
         /\ Len(MoveToFront(x).buffer) = Len(x.buffer)
         /\ MoveToFront(x).w = kCheapPrepend + Len(c)
<1> USE BufferAssumption
<1>1. toString(x) = c
  BY toStringHolds
<1> DEFINE s == Put(x.buffer, kCheapPrepend, c)
<1>2. /\ s \in Seq(Byte)
      /\ Len(s) = Len(x.buffer)
      /\ \A i \in 1..Len(x.buffer) :
           s[i] = IF i - kCheapPrepend \in 1..Len(c)
                  THEN c[i - kCheapPrepend] ELSE x.buffer[i]
  BY HoldsElim, PutProps
<1>3. MoveToFront(x) = [buffer |-> s, r |-> kCheapPrepend,
                        w |-> kCheapPrepend + Len(c)]
  BY <1>1, HoldsElim DEF MoveToFront, readableBytes
<1> HIDE DEF s
<1>4. kCheapPrepend + Len(c) \in Nat /\ kCheapPrepend + Len(c) <= Len(s)
  BY <1>2, HoldsElim
<1>5. \A i \in 1..Len(c) : c[i] = s[kCheapPrepend + i]
  <2> SUFFICES ASSUME NEW i \in 1..Len(c) PROVE c[i] = s[kCheapPrepend + i]
    OBVIOUS
  <2>1. /\ kCheapPrepend + i \in 1..Len(x.buffer)
        /\ (kCheapPrepend + i) - kCheapPrepend = i
    BY <1>2, <1>4, HoldsElim
  <2> QED
    BY <1>2, <2>1
<1>6. Holds([buffer |-> s, r |-> kCheapPrepend, w |-> kCheapPrepend + Len(c)], c)
  BY <1>2, <1>4, <1>5, HoldsElim, HoldsIntro
<1> QED
  BY <1>2, <1>3, <1>6

LEMMA GrowHolds ==
  ASSUME NEW x, NEW c, Holds(x, c), NEW n \in Nat, writableBytes(x) < n
  PROVE  /\ Holds([x EXCEPT !.buffer = Resize(@, x.w + n)], c)
         /\ Len([x EXCEPT !.buffer = Resize(@, x.w + n)].buffer) = x.w + n
         /\ [x EXCEPT !.buffer = Resize(@, x.w + n)].w = x.w
<1>1. x.w + n \in Nat /\ x.w + n >= Len(x.buffer)
  BY HoldsElim DEF writableBytes
<1> DEFINE s == Resize(x.buffer, x.w + n)
<1>2. /\ s \in Seq(Byte)
      /\ Len(s) = x.w + n
      /\ \A i \in 1..Len(x.buffer) : s[i] = x.buffer[i]
  BY <1>1, HoldsElim, ResizeProps
<1>3. [x EXCEPT !.buffer = Resize(@, x.w + n)] =
        [buffer |-> s, r |-> x.r, w |-> x.w]
  BY HoldsElim
<1> HIDE DEF s
<1>4. \A i \in 1..Len(c) : c[i] = s[x.r + i]
  <2> SUFFICES ASSUME NEW i \in 1..Len(c) PROVE c[i] = s[x.r + i]
    OBVIOUS
  <2>1. x.r + i \in 1..Len(x.buffer)
    BY HoldsElim
  <2> QED
    BY <1>2, <2>1, HoldsContent
<1>5. x.w <= Len(s) /\ kCheapPrepend <= Len(s)
  BY <1>1, <1>2, HoldsElim, BufferAssumption
<1>6. Holds([buffer |-> s, r |-> x.r, w |-> x.w], c)
  BY <1>2, <1>4, <1>5, HoldsElim, HoldsIntro
<1> QED
  BY <1>2, <1>3, <1>6

\* Buffer::makeSpace, ensureWritableBytes: the assert kCheapPrepend <
\* read_index_ holds where it stands, there is room for len bytes after the
\* call, and the readable bytes are the same.
LEMMA ensureWritableHolds ==
  ASSUME NEW x, NEW c, Holds(x, c), NEW n \in Nat
  PROVE  /\ Holds(ensureWritableBytes(x, n), c)
         /\ writableBytes(ensureWritableBytes(x, n)) >= n
         /\ writableBytes(x) < n /\ ~MustGrow(x, n) => kCheapPrepend < x.r
<1>1. /\ Len(c) \in Nat /\ Len(x.buffer) \in Nat
      /\ x.r \in Nat /\ x.w \in Nat /\ x.r <= x.w /\ x.w <= Len(x.buffer)
      /\ Len(c) = x.w - x.r
  BY LenProperties DEF Holds, Buffers
<1>2. writableBytes(x) < n /\ ~MustGrow(x, n) => kCheapPrepend < x.r
  BY <1>1, BufferAssumption DEF MustGrow, writableBytes, prependableBytes
<1>3. CASE writableBytes(x) >= n
  BY <1>1, <1>2, <1>3 DEF ensureWritableBytes, writableBytes
<1>4. CASE writableBytes(x) < n /\ MustGrow(x, n)
  <2>1. ensureWritableBytes(x, n) = [x EXCEPT !.buffer = Resize(@, x.w + n)]
    BY <1>4 DEF ensureWritableBytes, makeSpace
  <2>2. /\ Holds(ensureWritableBytes(x, n), c)
        /\ Len(ensureWritableBytes(x, n).buffer) = x.w + n
        /\ ensureWritableBytes(x, n).w = x.w
    BY <1>4, <2>1, GrowHolds
  <2> QED
    BY <1>1, <1>2, <2>2 DEF writableBytes
<1>5. CASE writableBytes(x) < n /\ ~MustGrow(x, n)
  <2>1. ensureWritableBytes(x, n) = MoveToFront(x)
    BY <1>5 DEF ensureWritableBytes, makeSpace
  <2>2. kCheapPrepend <= x.r
    BY <1>1, <1>2, <1>5, BufferAssumption
  <2>3. /\ Holds(MoveToFront(x), c)
        /\ Len(MoveToFront(x).buffer) = Len(x.buffer)
        /\ MoveToFront(x).w = kCheapPrepend + Len(c)
    BY <2>2, MoveToFrontHolds
  <2>4. Len(x.buffer) - (kCheapPrepend + Len(c)) >= n
    BY <1>1, <1>5, BufferAssumption
       DEF MustGrow, writableBytes, prependableBytes
  <2> QED
    BY <1>2, <2>1, <2>3, <2>4 DEF writableBytes
<1> QED
  BY <1>1, <1>3, <1>4, <1>5 DEF writableBytes

\* Bytes written at beginWrite() and reported with hasWritten().
LEMMA writeHolds ==
  ASSUME NEW x, NEW c, Holds(x, c), NEW d \in Seq(Byte),
         Len(d) <= writableBytes(x)
  PROVE  Holds(hasWritten([x EXCEPT !.buffer = Put(@, x.w, d)], Len(d)),
               c \o d)
<1>1. Len(d) \in Nat
  BY LenProperties
<1> DEFINE s == Put(x.buffer, x.w, d)
           e == c \o d
<1>2. /\ s \in Seq(Byte)
      /\ Len(s) = Len(x.buffer)
      /\ \A i \in 1..Len(x.buffer) :
           s[i] = IF i - x.w \in 1..Len(d) THEN d[i - x.w] ELSE x.buffer[i]
  BY HoldsElim, PutProps
<1>3. /\ e \in Seq(Byte)
      /\ Len(e) = Len(c) + Len(d)
      /\ \A i \in 1..Len(e) : e[i] = IF i <= Len(c) THEN c[i] ELSE d[i - Len(c)]
  BY HoldsElim, ConcatProps
<1>4. hasWritten([x EXCEPT !.buffer = Put(@, x.w, d)], Len(d)) =
        [buffer |-> s, r |-> x.r, w |-> x.w + Len(d)]
  <2>1. [x EXCEPT !.buffer = Put(@, x.w, d)] =
          [buffer |-> s, r |-> x.r, w |-> x.w]
    BY HoldsElim
  <2> HIDE DEF s
  <2>2. [[buffer |-> s, r |-> x.r, w |-> x.w] EXCEPT !.w = @ + Len(d)] =
          [buffer |-> s, r |-> x.r, w |-> x.w + Len(d)]
    OBVIOUS
  <2> QED
    BY <2>1, <2>2 DEF hasWritten
<1> HIDE DEF s, e
<1>5. /\ x.w + Len(d) \in Nat
      /\ x.w + Len(d) <= Len(s)
      /\ x.r <= x.w + Len(d)
      /\ Len(e) = (x.w + Len(d)) - x.r
  BY <1>1, <1>2, <1>3, HoldsElim DEF writableBytes
<1>6. \A i \in 1..Len(e) : e[i] = s[x.r + i]
  <2> SUFFICES ASSUME NEW i \in 1..Len(e) PROVE e[i] = s[x.r + i]
    OBVIOUS
  <2>1. x.r + i \in 1..Len(x.buffer)
    BY <1>1, <1>2, <1>3, <1>5, HoldsElim
  <2>2. CASE i <= Len(c)
    <3>1. (x.r + i) - x.w \notin 1..Len(d) /\ i \in 1..Len(c)
      BY <1>1, <2>2, HoldsElim
    <3>2. e[i] = c[i] /\ s[x.r + i] = x.buffer[x.r + i]
      BY <1>2, <1>3, <2>1, <2>2, <3>1
    <3> QED
      BY <3>1, <3>2, HoldsContent
  <2>3. CASE ~(i <= Len(c))
    <3>1. (x.r + i) - x.w = i - Len(c) /\ i - Len(c) \in 1..Len(d)
      BY <1>1, <1>3, <2>3, HoldsElim
    <3> QED
      BY <1>2, <1>3, <2>1, <2>3, <3>1
  <2> QED
    BY <2>2, <2>3
<1>7. Holds([buffer |-> s, r |-> x.r, w |-> x.w + Len(d)], e)
  BY <1>2, <1>3, <1>5, <1>6, HoldsElim, HoldsIntro
<1> QED
  BY <1>4, <1>7 DEF e

LEMMA appendHolds ==
  ASSUME NEW x, NEW c, Holds(x, c), NEW d \in Seq(Byte)
  PROVE  Holds(append(x, d), c \o d)
<1> DEFINE y == ensureWritableBytes(x, Len(d))
<1>1. Len(d) \in Nat
  BY LenProperties
<1>2. Holds(y, c) /\ writableBytes(y) >= Len(d)
  BY <1>1, ensureWritableHolds
<1>3. writableBytes(y) \in Int
  BY <1>2, LenProperties DEF writableBytes, Holds, Buffers
<1>4. append(x, d) = hasWritten([y EXCEPT !.buffer = Put(@, y.w, d)], Len(d))
  BY DEF append
<1> HIDE DEF y
<1> QED
  BY <1>1, <1>2, <1>3, <1>4, writeHolds

LEMMA prependHolds ==
  ASSUME NEW x, NEW c, Holds(x, c), NEW d \in Seq(Byte),
         Len(d) <= prependableBytes(x)
  PROVE  Holds(prepend(x, d), d \o c)
<1>1. Len(d) \in Nat
  BY LenProperties
<1> DEFINE q == x.r - Len(d)
           s == Put(x.buffer, q, d)
           e == d \o c
<1>2. q \in Nat /\ q + Len(d) = x.r
  BY <1>1, HoldsElim DEF prependableBytes
<1>3. prepend(x, d) = [buffer |-> s, r |-> q, w |-> x.w]
  BY DEF prepend
<1> HIDE DEF q
<1>4. /\ s \in Seq(Byte)
      /\ Len(s) = Len(x.buffer)
      /\ \A i \in 1..Len(x.buffer) :
           s[i] = IF i - q \in 1..Len(d) THEN d[i - q] ELSE x.buffer[i]
  BY <1>2, HoldsElim, PutProps
<1>5. /\ e \in Seq(Byte)
      /\ Len(e) = Len(d) + Len(c)
      /\ \A i \in 1..Len(e) : e[i] = IF i <= Len(d) THEN d[i] ELSE c[i - Len(d)]
  BY HoldsElim, ConcatProps
<1> HIDE DEF s, e
<1>6. \A i \in 1..Len(e) : e[i] = s[q + i]
  <2> SUFFICES ASSUME NEW i \in 1..Len(e) PROVE e[i] = s[q + i]
    OBVIOUS
  <2>1. q + i \in 1..Len(x.buffer) /\ (q + i) - q = i
    BY <1>1, <1>2, <1>5, HoldsElim
  <2>2. CASE i <= Len(d)
    <3>1. i \in 1..Len(d)
      BY <1>1, <2>2
    <3> QED
      BY <1>4, <1>5, <2>1, <2>2, <3>1
  <2>3. CASE ~(i <= Len(d))
    <3>1. i \notin 1..Len(d)
      BY <1>1, <2>3
    <3>2. i - Len(d) \in 1..Len(c) /\ x.r + (i - Len(d)) = q + i
      BY <1>1, <1>2, <1>5, <2>3, HoldsElim
    <3>3. e[i] = c[i - Len(d)] /\ s[q + i] = x.buffer[q + i]
      BY <1>4, <1>5, <2>1, <2>3, <3>1
    <3> QED
      BY <3>2, <3>3, HoldsContent
  <2> QED
    BY <2>2, <2>3
<1>7. q <= x.w /\ Len(e) = x.w - q
  BY <1>1, <1>2, <1>5, HoldsElim
<1>8. Holds([buffer |-> s, r |-> q, w |-> x.w], e)
  BY <1>2, <1>4, <1>5, <1>6, <1>7, HoldsElim, HoldsIntro
<1> QED
  BY <1>3, <1>8 DEF e

LEMMA unWriteHolds ==
  ASSUME NEW x, NEW c, Holds(x, c), NEW n \in 0..readableBytes(x)
  PROVE  Holds(unWrite(x, n), SubSeq(c, 1, Len(c) - n))
<1>1. n \in Nat /\ n <= Len(c) /\ Len(c) \in Nat /\ Len(c) - n \in Nat
  BY HoldsElim DEF readableBytes
<1> DEFINE d == SubSeq(c, 0 + 1, Len(c) - n)
<1>2. /\ d \in Seq(Byte)
      /\ Len(d) = (Len(c) - n) - 0
      /\ \A i \in 1..((Len(c) - n) - 0) : d[i] = c[0 + i]
  BY <1>1, HoldsElim, SubSeqProps
<1>3. unWrite(x, n) = [buffer |-> x.buffer, r |-> x.r, w |-> x.w - n]
  BY HoldsElim DEF unWrite
<1> HIDE DEF d
<1>4. /\ x.w - n \in Nat /\ x.r <= x.w - n /\ x.w - n <= Len(x.buffer)
      /\ Len(d) = (x.w - n) - x.r
  BY <1>1, <1>2, HoldsElim
<1>5. \A i \in 1..Len(d) : d[i] = x.buffer[x.r + i]
  BY <1>1, <1>2, HoldsContent
<1>6. Holds([buffer |-> x.buffer, r |-> x.r, w |-> x.w - n], d)
  BY <1>2, <1>4, <1>5, HoldsElim, HoldsIntro
<1> QED
  BY <1>3, <1>6 DEF d

LEMMA shrinkHolds ==
  ASSUME NEW x, NEW c, Holds(x, c), NEW reserve \in Nat
  PROVE  Holds(shrink(x, reserve), c)
<1>1. toString(x) = c /\ c \in Seq(Byte)
  BY toStringHolds DEF Holds
<1>2. readableBytes(x) + reserve \in Nat
  BY DEF Holds, Buffers, readableBytes
<1>3. Holds(ensureWritableBytes(New, readableBytes(x) + reserve), <<>>)
  BY <1>2, NewHolds, ensureWritableHolds
<1>4. Holds(shrink(x, reserve), <<>> \o c)
  BY <1>1, <1>3, appendHolds DEF shrink
<1> QED
  BY <1>1, <1>4, ConcatEmptySeq

\* The inductive invariant: the buffer holds its history.
BInv == Holds(b, content)

LEMMA BInvInit == Init => BInv
BY NewHolds DEF Init, BInv

LEMMA BInvNext ==
  ASSUME Overrun = FALSE, BInv, [Next]_vars
  PROVE  BInv'
<1> USE DEF BInv
<1>1. CASE Append_
  BY <1>1, DataIsSeq, appendHolds DEF Append_
<1>2. CASE Prepend_
  BY <1>2, DataIsSeq, prependHolds DEF Prepend_
<1>3. CASE Retrieve_
  BY <1>3, retrieveHolds DEF Retrieve_
<1>4. CASE ReadInt_
  <2>1. PICK n \in IntSize :
          /\ readableBytes(b) >= n
          /\ b' = retrieve(b, n)
          /\ content' = SubSeq(content, n + 1, Len(content))
    BY <1>4 DEF ReadInt_
  <2>2. readableBytes(b) \in Nat
    BY HoldsElim DEF readableBytes
  <2>3. n \in 0..readableBytes(b)
    BY <2>1, <2>2 DEF IntSize
  <2> QED
    BY <2>1, <2>3, retrieveHolds
<1>5. CASE RetrieveAll_
  BY <1>5, retrieveAllHolds DEF RetrieveAll_
<1>6. CASE EnsureWritable_
  BY <1>6, ensureWritableHolds, BufferAssumption DEF EnsureWritable_
<1>7. CASE HasWritten_
  BY <1>7, DataIsSeq, writeHolds DEF HasWritten_
<1>8. CASE UnWrite_
  BY <1>8, unWriteHolds DEF UnWrite_
<1>9. CASE Shrink_
  BY <1>9, shrinkHolds, BufferAssumption DEF Shrink_
<1>10. CASE ReadFd_
  <2>1. PICK data \in Data :
          /\ ~(Len(data) > writableBytes(b))
          /\ b' = readFd(b, data)
          /\ content' = content \o data
    BY <1>10 DEF ReadFd_
  <2>2. Len(data) \in Nat /\ writableBytes(b) \in Int /\ data \in Seq(Byte)
    BY DataIsSeq, LenProperties, HoldsElim DEF writableBytes
  <2>3. Len(data) <= writableBytes(b)
    BY <2>1, <2>2
  <2> QED
    BY <2>1, <2>2, <2>3, writeHolds DEF readFd
<1>11. CASE UNCHANGED vars
  BY <1>11 DEF vars
<1> QED
  BY <1>1, <1>2, <1>3, <1>4, <1>5, <1>6, <1>7, <1>8, <1>9, <1>10, <1>11
     DEF Next

\* Buffer: through every sequence of calls the buffer holds its history,
\* provided that readFd() never receives more than the writable bytes.
THEOREM BufferInductive == ASSUME Overrun = FALSE PROVE Spec => []BInv
<1>1. BInv /\ [Next]_vars => BInv'
  BY BInvNext
<1> QED
  BY BInvInit, <1>1, PTL DEF Spec

\* Buffer: the buffer and its history keep their types.
THEOREM BufferTyped == ASSUME Overrun = FALSE PROVE Spec => []TypeOK
<1>1. BInv => TypeOK
  BY DEF BInv, Holds, Buffers, TypeOK
<1> QED
  BY <1>1, BufferInductive, PTL

\* Buffer: read_index_ <= write_index_ <= buffer_.size().
THEOREM BufferInBounds == ASSUME Overrun = FALSE PROVE Spec => []InBounds
<1>1. BInv => InBounds
  BY DEF BInv, Holds, InBounds
<1> QED
  BY <1>1, BufferInductive, PTL

\* Buffer: the readable bytes are those put in and not taken out, however
\* makeSpace() moves or grows the vector.
THEOREM BufferContent == ASSUME Overrun = FALSE PROVE Spec => []ContentPreserved
<1>1. BInv => ContentPreserved
  BY toStringHolds DEF BInv, ContentPreserved
<1> QED
  BY <1>1, BufferInductive, PTL

\* Buffer::makeSpace and ensureWritableBytes: their asserts never fail.
THEOREM BufferAsserts == ASSUME Overrun = FALSE PROVE Spec => []MakeSpaceAsserts
<1>1. BInv => MakeSpaceAsserts
  BY ensureWritableHolds, BufferAssumption DEF BInv, MakeSpaceAsserts
<1> QED
  BY <1>1, BufferInductive, PTL
=============================================================================
