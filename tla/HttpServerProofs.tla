-------------------------- MODULE HttpServerProofs --------------------------
(***************************************************************************)
(* TLAPS proofs about HttpServer, for any connections, streams, worker     *)
(* threads and sizes of the pool: however a stream is cut into reads, the  *)
(* tasks ask for what the stream as a whole asks for, and the responses    *)
(* are in the order of the requests.                                       *)
(***************************************************************************)
EXTENDS HttpServer, SequenceTheorems, WellFoundedInduction, TLAPS

\* Induction over the natural numbers, with the set of those that have the
\* property.
LEMMA Induction ==
  ASSUME NEW S, 0 \in S, \A n \in Nat : n \in S => n + 1 \in S
  PROVE  Nat \subseteq S
<1> SUFFICES ASSUME Nat \ S # {} PROVE FALSE
  OBVIOUS
<1>1. PICK x \in Nat \ S : \A y \in Nat \ S : ~(<<y, x>> \in OpToRel(<, Nat))
  <2>1. Nat \ S \subseteq Nat
    OBVIOUS
  <2> QED
    BY <2>1, WFMin, NatLessThanWellFounded, Zenon
<1>2. \A y \in Nat \ S : ~(y < x)
  BY <1>1 DEF OpToRel
<1>3. x # 0 /\ x - 1 \in Nat /\ x - 1 < x
  OBVIOUS
<1>4. x - 1 \in S
  BY <1>2, <1>3
<1> QED
  BY <1>3, <1>4

\* A set of natural numbers that is not empty has a least element.
LEMMA Least ==
  ASSUME NEW S \in SUBSET Nat, S # {}
  PROVE  Min(S) \in S /\ \A y \in S : Min(S) <= y
<1>1. PICK x \in S : \A y \in S : ~(<<y, x>> \in OpToRel(<, Nat))
  BY WFMin, NatLessThanWellFounded, Zenon
<1>2. \A y \in S : ~(y < x)
  BY <1>1 DEF OpToRel
<1>3. \A y \in S : x <= y
  BY <1>2
<1> QED
  BY <1>3, Zenon DEF Min

-----------------------------------------------------------------------------
(* The requests of a stream                                                *)

\* The lines after i that end a request begun there.
Ends(s, n, i) == {j \in i + 1..n : s[j] \notin Header}
NoneFrom(s, n, i) == i > n \/ s[i] \notin DOMAIN Version \/ Ends(s, n, i) = {}

\* From the line i, when f says what there is from later lines.
From(s, n, f, i) ==
  IF NoneFrom(s, n, i) THEN <<>>
  ELSE <<RequestOf(s, i, Min(Ends(s, n, i)))>> \o f[Min(Ends(s, n, i)) + 1]

LEMMA LaterEnd ==
  ASSUME NEW s, NEW n \in Nat, NEW i \in 1..n + 1, ~NoneFrom(s, n, i)
  PROVE  /\ Min(Ends(s, n, i)) \in i + 1..n
         /\ Min(Ends(s, n, i)) \in Ends(s, n, i)
         /\ \A j \in Ends(s, n, i) : Min(Ends(s, n, i)) <= j
<1>1. Ends(s, n, i) \in SUBSET Nat /\ Ends(s, n, i) # {}
  BY DEF Ends, NoneFrom
<1>2. /\ Min(Ends(s, n, i)) \in Ends(s, n, i)
      /\ \A j \in Ends(s, n, i) : Min(Ends(s, n, i)) <= j
  BY <1>1, Least
<1> QED
  BY <1>2 DEF Ends

\* Requests() defines a function by recursion, from the last line backwards;
\* there is such a function.
LEMMA RequestsFunction ==
  ASSUME NEW s, NEW n \in Nat
  PROVE  \E f : /\ f = [i \in 1..n + 1 |-> From(s, n, f, i)]
                /\ Requests(s, n) = f[1]
<1> DEFINE Down(d, f) == [i \in n + 2 - d..n + 1 |-> From(s, n, f, i)]
           S == {d \in Nat : d <= n + 1 => \E f : f = Down(d, f)}
<1>1. 0 \in S
  <2>1. Down(0, <<>>) = Down(0, Down(0, <<>>))
    OBVIOUS
  <2> QED
    BY <2>1
<1>2. ASSUME NEW d \in Nat, d \in S PROVE d + 1 \in S
  <2> SUFFICES ASSUME d + 1 <= n + 1 PROVE \E f : f = Down(d + 1, f)
    OBVIOUS
  <2>1. PICK f : f = Down(d, f)
    BY <1>2
  <2> DEFINE m == n + 1 - d
             h == [i \in m..n + 1 |-> IF i = m THEN From(s, n, f, i) ELSE f[i]]
  <2>2. m \in 1..n + 1 /\ n + 2 - d = m + 1 /\ n + 2 - (d + 1) = m
    OBVIOUS
  <2>3. ASSUME NEW i \in m..n + 1 PROVE From(s, n, f, i) = From(s, n, h, i)
    <3>1. CASE NoneFrom(s, n, i)
      BY <3>1 DEF From
    <3>2. CASE ~NoneFrom(s, n, i)
      <4>1. Min(Ends(s, n, i)) \in i + 1..n
        BY <2>2, <3>2, LaterEnd
      <4>2. h[Min(Ends(s, n, i)) + 1] = f[Min(Ends(s, n, i)) + 1]
        BY <2>2, <4>1
      <4> QED
        BY <3>2, <4>2 DEF From
    <3> QED
      BY <3>1, <3>2
  <2> HIDE DEF m
  <2>4. ASSUME NEW i \in m + 1..n + 1 PROVE f[i] = From(s, n, f, i)
    <3>1. f = [j \in m + 1..n + 1 |-> From(s, n, f, j)]
      BY <2>1, <2>2
    <3> QED
      BY <3>1
  <2>5. ASSUME NEW i \in m..n + 1 PROVE h[i] = From(s, n, h, i)
    <3>1. CASE i = m
      BY <2>3, <3>1
    <3>2. CASE i # m
      <4>1. i \in m + 1..n + 1
        BY <2>2, <3>2
      <4>2. h[i] = f[i]
        BY <3>2
      <4> QED
        BY <2>3, <2>4, <4>1, <4>2
    <3> QED
      BY <3>1, <3>2
  <2> DEFINE g == [i \in m..n + 1 |-> From(s, n, h, i)]
  <2>6. h = g
    BY <2>5
  <2>7. Down(d + 1, h) = g
    BY <2>2
  <2> QED
    BY <2>6, <2>7
<1>3. Nat \subseteq S
  <2> HIDE DEF S
  <2> QED
    BY <1>1, <1>2, Induction
<1>4. \E f : f = Down(n + 1, f)
  BY <1>3
<1>5. n + 2 - (n + 1) = 1
  OBVIOUS
<1>6. \E f : f = [i \in 1..n + 1 |-> From(s, n, f, i)]
  BY <1>4, <1>5
<1> DEFINE R == CHOOSE f : f = [i \in 1..n + 1 |-> From(s, n, f, i)]
<1>7. R = [i \in 1..n + 1 |-> From(s, n, R, i)]
  BY <1>6, Zenon
<1>8. Requests(s, n) = R[1]
  BY DEF Requests, From, NoneFrom, Ends
<1> QED
  BY <1>7, <1>8

LEMMA RequestsTyped ==
  ASSUME NEW s, NEW n \in Nat, NEW f, f = [i \in 1..n + 1 |-> From(s, n, f, i)]
  PROVE  \E E : \A i \in 1..n + 1 : f[i] \in Seq(E)
<1> DEFINE E == {RequestOf(s, i, e) : i \in 1..n, e \in 1..n}
           S == {d \in Nat : \A i \in 1..n + 1 : n + 1 - i <= d => f[i] \in Seq(E)}
<1>0. ASSUME NEW i \in 1..n + 1 PROVE f[i] = From(s, n, f, i)
  <2> DEFINE g == [j \in 1..n + 1 |-> From(s, n, f, j)]
  <2>1. f = g /\ g[i] = From(s, n, f, i)
    OBVIOUS
  <2> QED
    BY <2>1
<1> HIDE DEF E
<1>1. 0 \in S
  <2> SUFFICES ASSUME NEW i \in 1..n + 1, n + 1 - i <= 0 PROVE f[i] \in Seq(E)
    OBVIOUS
  <2>1. f[i] = <<>>
    BY <1>0 DEF From, NoneFrom
  <2> QED
    BY <2>1, EmptySeq
<1>2. ASSUME NEW d \in Nat, d \in S PROVE d + 1 \in S
  <2> SUFFICES ASSUME NEW i \in 1..n + 1, n + 1 - i <= d + 1 PROVE f[i] \in Seq(E)
    OBVIOUS
  <2>1. CASE NoneFrom(s, n, i)
    BY <1>0, <2>1, EmptySeq DEF From
  <2>2. CASE ~NoneFrom(s, n, i)
    <3> DEFINE e == Min(Ends(s, n, i))
    <3>1. e \in i + 1..n
      BY <2>2, LaterEnd
    <3> HIDE DEF e
    <3>2. i \in 1..n /\ e \in 1..n /\ e + 1 \in 1..n + 1 /\ n + 1 - (e + 1) <= d
      BY <3>1
    <3>3. f[e + 1] \in Seq(E)
      BY <1>2, <3>2
    <3>4. RequestOf(s, i, e) \in E
      BY <3>2 DEF E
    <3>5. f[i] = <<RequestOf(s, i, e)>> \o f[e + 1]
      BY <1>0, <2>2 DEF From, e
    <3>6. <<RequestOf(s, i, e)>> \in Seq(E)
      BY <3>4
    <3> QED
      BY <3>3, <3>5, <3>6, ConcatProperties
  <2> QED
    BY <2>1, <2>2
<1>3. Nat \subseteq S
  <2> HIDE DEF S
  <2> QED
    BY <1>1, <1>2, Induction
<1>4. ASSUME NEW i \in 1..n + 1 PROVE f[i] \in Seq(E)
  <2>1. n + 1 - i \in Nat /\ n + 1 - i <= n + 1 - i
    OBVIOUS
  <2>2. n + 1 - i \in S
    BY <1>3, <2>1
  <2> QED
    BY <2>1, <2>2
<1> QED
  BY <1>4

\* The lines i to e are a request, and b[0], ..., b[k] are where the first k
\* requests of a stream and the next one begin, after t lines at the most.
Whole(s, i, e) ==
  /\ i < e
  /\ s[i] \in DOMAIN Version
  /\ \A j \in i + 1..e - 1 : s[j] \in Header
  /\ s[e] \notin Header
Chain(s, b, k, t) ==
  /\ b \in [0..k -> 1..t + 1]
  /\ b[0] = 1
  /\ \A i \in 1..k : Whole(s, b[i - 1], b[i] - 1)

LEMMA WholeEnd ==
  ASSUME NEW s, NEW n \in Nat, NEW i \in 1..n, NEW e \in 1..n, Whole(s, i, e)
  PROVE  ~NoneFrom(s, n, i) /\ Min(Ends(s, n, i)) = e
<1>1. e \in Ends(s, n, i)
  BY DEF Whole, Ends
<1>2. ~NoneFrom(s, n, i)
  BY <1>1 DEF Whole, NoneFrom
<1>3. \A j \in Ends(s, n, i) : e <= j
  BY DEF Whole, Ends
<1>4. Min(Ends(s, n, i)) \in Ends(s, n, i) /\ Min(Ends(s, n, i)) <= e
  BY <1>1, <1>2, LaterEnd
<1>5. e <= Min(Ends(s, n, i)) /\ Min(Ends(s, n, i)) \in i + 1..n
  BY <1>2, <1>3, <1>4, LaterEnd
<1> QED
  BY <1>2, <1>4, <1>5

\* The requests of such a chain are the first ones of Requests().
BeginsWith(requests, s, b, k) ==
  /\ k <= Len(requests)
  /\ \A i \in 1..k : requests[i] = RequestOf(s, b[i - 1], b[i] - 1)

LEMMA ChainRequests ==
  ASSUME NEW s, NEW n \in Nat, NEW t \in 0..n, NEW k \in Nat, NEW b, Chain(s, b, k, t)
  PROVE  BeginsWith(Requests(s, n), s, b, k)
<1>1. PICK f : /\ f = [i \in 1..n + 1 |-> From(s, n, f, i)]
               /\ Requests(s, n) = f[1]
  BY RequestsFunction
<1>2. PICK E : \A i \in 1..n + 1 : f[i] \in Seq(E)
  BY <1>1, RequestsTyped
<1>3. ASSUME NEW i \in 1..n + 1 PROVE f[i] = From(s, n, f, i)
  <2> DEFINE g == [j \in 1..n + 1 |-> From(s, n, f, j)]
  <2>1. f = g /\ g[i] = From(s, n, f, i)
    BY <1>1
  <2> QED
    BY <2>1
<1>4. \A i \in 0..k : b[i] \in 1..n + 1
  BY DEF Chain
<1> DEFINE Right(i) == /\ k - i <= Len(f[b[i]])
                       /\ \A j \in 1..k - i :
                            f[b[i]][j] = RequestOf(s, b[i + j - 1], b[i + j] - 1)
           S == {d \in Nat : d <= k => Right(k - d)}
<1>5. 0 \in S
  <2>1. f[b[k]] \in Seq(E)
    BY <1>2, <1>4
  <2>2. Len(f[b[k]]) \in Nat
    BY <2>1, LenProperties
  <2> QED
    BY <2>2
<1>6. ASSUME NEW d \in Nat, d \in S PROVE d + 1 \in S
  <2> SUFFICES ASSUME d + 1 <= k PROVE Right(k - (d + 1))
    OBVIOUS
  <2> DEFINE i == k - (d + 1)
             e == b[i + 1] - 1
  <2>1. i \in 0..k /\ i + 1 \in 1..k /\ k - d = i + 1
    OBVIOUS
  <2>2. Right(i + 1)
    BY <1>6, <2>1
  <2>3. b[i] \in 1..n + 1 /\ b[i + 1] \in 1..n + 1
    BY <1>4, <2>1
  <2>4. Whole(s, b[i], e)
    <3>1. (i + 1) - 1 = i
      BY <2>1
    <3>2. \A x \in 1..k : Whole(s, b[x - 1], b[x] - 1)
      BY DEF Chain
    <3> QED
      BY <2>1, <3>1, <3>2
  <2> HIDE DEF i
  <2>5. b[i] \in 1..n /\ e \in 1..n
    BY <2>3, <2>4 DEF Whole
  <2>6. ~NoneFrom(s, n, b[i]) /\ Min(Ends(s, n, b[i])) = e
    BY <2>4, <2>5, WholeEnd
  <2>7. e + 1 = b[i + 1]
    BY <2>3
  <2>8. f[b[i]] = <<RequestOf(s, b[i], e)>> \o f[b[i + 1]]
    BY <1>3, <2>3, <2>6, <2>7 DEF From
  <2>9. f[b[i + 1]] \in Seq(E)
    BY <1>2, <2>3
  <2> DEFINE u == f[b[i + 1]]
             r == RequestOf(s, b[i], e)
  <2>10. /\ Len(<<r>> \o u) = 1 + Len(u)
         /\ (<<r>> \o u)[1] = r
         /\ \A j \in 2..1 + Len(u) : (<<r>> \o u)[j] = u[j - 1]
    <3> HIDE DEF u, r
    <3>1. u \in Seq(E \cup {r}) /\ <<r>> \in Seq(E \cup {r})
      BY <2>9 DEF u
    <3> QED
      BY <3>1
  <2>11. k - i <= Len(f[b[i]])
    <3>1. Len(u) \in Nat /\ k - (i + 1) <= Len(u)
      BY <2>2, <2>9, LenProperties
    <3> QED
      BY <2>1, <2>8, <2>10, <3>1
  <2>12. ASSUME NEW j \in 1..k - i
         PROVE  f[b[i]][j] = RequestOf(s, b[i + j - 1], b[i + j] - 1)
    <3>1. CASE j = 1
      <4>1. i + j - 1 = i /\ i + j = i + 1
        BY <2>1, <3>1
      <4> QED
        BY <2>8, <2>10, <3>1, <4>1
    <3>2. CASE j # 1
      <4>1. /\ j - 1 \in 1..k - (i + 1) /\ (i + 1) + (j - 1) = i + j
            /\ (i + 1) + (j - 1) - 1 = i + j - 1
        BY <2>1, <3>2
      <4>2. u[j - 1] = RequestOf(s, b[(i + 1) + (j - 1) - 1], b[(i + 1) + (j - 1)] - 1)
        BY <2>2, <4>1
      <4>3. Len(u) \in Nat /\ k - (i + 1) <= Len(u)
        BY <2>2, <2>9, LenProperties
      <4>4. j \in 2..1 + Len(u)
        BY <2>1, <4>1, <4>3
      <4>5. f[b[i]][j] = u[j - 1]
        BY <2>8, <2>10, <4>4
      <4> QED
        BY <4>1, <4>2, <4>5
    <3> QED
      BY <3>1, <3>2
  <2> QED
    BY <2>11, <2>12 DEF i
<1>7. Nat \subseteq S
  <2> HIDE DEF S
  <2> QED
    BY <1>5, <1>6, Induction
<1>8. k - k = 0
  OBVIOUS
<1>9. Right(0)
  BY <1>7, <1>8
<1>10. b[0] = 1
  BY DEF Chain
<1>11. k - 0 = k /\ \A j \in 1..k : 0 + j = j /\ 0 + j - 1 = j - 1
  OBVIOUS
<1> QED
  BY <1>1, <1>9, <1>10, <1>11 DEF BeginsWith

-----------------------------------------------------------------------------
(* The parser                                                              *)

\* One turn of the loop in parseRequest().
Turn(s, n, y) ==
  IF y.end # "more" THEN y
  ELSE IF y.taken >= n THEN [y EXCEPT !.end = "noLine"]
  ELSE ParseLine(y, s[y.taken + 1])

\* The turns of a call; there is a function of them.
LEMMA ParseFunction ==
  ASSUME NEW x, NEW s, NEW n, Len(s) \in Nat
  PROVE  \E p : /\ p[0] = [x EXCEPT !.end = "more"]
                /\ \A i \in 1..Len(s) + 1 : p[i] = Turn(s, n, p[i - 1])
                /\ parseRequest(x, s, n) = p[Len(s) + 1]
<1> DEFINE first == [x EXCEPT !.end = "more"]
           At(f, i) == IF i = 0 THEN first ELSE Turn(s, n, f[i - 1])
           Upto(m, f) == [i \in 0..m |-> At(f, i)]
           S == {m \in Nat : \E f : f = Upto(m, f)}
<1>1. 0 \in S
  <2> DEFINE g == [i \in 0..0 |-> first]
  <2>1. g = Upto(0, g)
    OBVIOUS
  <2> QED
    BY <2>1
<1>2. ASSUME NEW m \in Nat, m \in S PROVE m + 1 \in S
  <2>1. PICK f : f = Upto(m, f)
    BY <1>2
  <2> DEFINE h == [i \in 0..m + 1 |-> IF i = m + 1 THEN At(f, i) ELSE f[i]]
  <2>2. ASSUME NEW i \in 0..m + 1 PROVE h[i] = At(h, i)
    <3>1. CASE i = m + 1
      <4>1. i - 1 \in 0..m + 1 /\ i - 1 # m + 1
        BY <3>1
      <4>2. h[i - 1] = f[i - 1] /\ h[i] = At(f, i)
        BY <3>1, <4>1
      <4> QED
        BY <4>2
    <3>2. CASE i # m + 1
      <4>1. i \in 0..m
        BY <3>2
      <4>2. h[i] = f[i]
        BY <3>2
      <4>3. f[i] = At(f, i)
        <5> DEFINE g == Upto(m, f)
        <5>1. f = g /\ g[i] = At(f, i)
          BY <2>1, <4>1
        <5> QED
          BY <5>1
      <4>4. i # 0 => h[i - 1] = f[i - 1]
        BY <4>1
      <4> QED
        BY <4>2, <4>3, <4>4
    <3> QED
      BY <3>1, <3>2
  <2>3. h = Upto(m + 1, h)
    <3> DEFINE g == Upto(m + 1, h)
    <3>1. \A i \in 0..m + 1 : h[i] = g[i]
      BY <2>2
    <3> QED
      BY <3>1
  <2> HIDE DEF h
  <2>4. \E f1 : f1 = Upto(m + 1, f1)
    BY <2>3
  <2> QED
    BY <2>4
<1>3. Nat \subseteq S
  <2> HIDE DEF S
  <2> QED
    BY <1>1, <1>2, Induction
<1>4. \E f : f = Upto(Len(s) + 1, f)
  BY <1>3
<1> DEFINE P == CHOOSE f : f = Upto(Len(s) + 1, f)
<1>5. P = Upto(Len(s) + 1, P)
  BY <1>4, Zenon
<1>6. parseRequest(x, s, n) = P[Len(s) + 1]
  BY DEF parseRequest, Turn
<1> HIDE DEF P
<1>7. ASSUME NEW i \in 0..Len(s) + 1 PROVE P[i] = At(P, i)
  <2> DEFINE g == Upto(Len(s) + 1, P)
  <2>1. P = g /\ g[i] = At(P, i)
    BY <1>5
  <2> QED
    BY <2>1
<1>8. P[0] = first /\ \A i \in 1..Len(s) + 1 : P[i] = Turn(s, n, P[i - 1])
  <2>1. P[0] = first
    <3>1. 0 \in 0..Len(s) + 1
      OBVIOUS
    <3>2. P[0] = At(P, 0)
      BY <1>7, <3>1
    <3> QED
      BY <3>2
  <2>2. ASSUME NEW i \in 1..Len(s) + 1 PROVE P[i] = Turn(s, n, P[i - 1])
    <3>1. i \in 0..Len(s) + 1 /\ i # 0
      OBVIOUS
    <3> QED
      BY <1>7, <3>1
  <2> QED
    BY <2>1, <2>2
<1> QED
  BY <1>6, <1>8

\* The values of a request and of a context.
Request == [method : {"kInvalidMethod", "kGet", "kHead"},
            version : {"kUnknownVersion", "kHttp10", "kHttp11", "kHttp20"},
            connection : {"", "close", "keep-alive"}]
Context == [taken : Nat, state : {"kParseRequestLine", "kParseHeaders", "kAllDone"},
            request : Request, end : {"more", "noLine", "allDone", "never"}]

LEMMA RequestTyped ==
  ASSUME NEW s, NEW i, NEW e, s[i] \in DOMAIN Version
  PROVE  /\ RequestOf(s, i, e).method = Method[s[i]]
         /\ RequestOf(s, i, e).version = Version[s[i]]
         /\ Method[s[i]] \in {"kGet", "kHead"}
         /\ Version[s[i]] \in {"kHttp10", "kHttp11", "kHttp20"}
BY DEF RequestOf, Method, Version

\* What a request is when the headers go on with one more line, and when there
\* are none.
LEMMA RequestMore ==
  ASSUME NEW s, NEW i \in Nat, NEW t \in Nat, i <= t
  PROVE  RequestOf(s, i, t + 1) =
           IF s[t + 1] \in Header \ {"field"}
           THEN [RequestOf(s, i, t) EXCEPT !.connection = s[t + 1]]
           ELSE RequestOf(s, i, t)
<1> DEFINE V(e) == {j \in i + 1..e : s[j] \in Header \ {"field"}}
<1>1. CASE s[t + 1] \in Header \ {"field"}
  <2>1. t + 1 \in V(t + 1) /\ \A j \in V(t + 1) : t + 1 >= j
    BY <1>1
  <2>2. \A m \in V(t + 1) : (\A j \in V(t + 1) : m >= j) => m = t + 1
    BY <2>1
  <2>3. Max(V(t + 1)) = t + 1
    <3> HIDE DEF V
    <3> QED
      BY <2>1, <2>2, Zenon DEF Max
  <2>4. V(t + 1) # {}
    BY <2>1
  <2> QED
    BY <1>1, <2>3, <2>4 DEF RequestOf
<1>2. CASE s[t + 1] \notin Header \ {"field"}
  <2>1. V(t + 1) = V(t)
    BY <1>2
  <2> QED
    BY <1>2, <2>1 DEF RequestOf
<1> QED
  BY <1>1, <1>2

LEMMA RequestNew ==
  ASSUME NEW s, NEW i \in Nat
  PROVE  RequestOf(s, i, i) = [method |-> Method[s[i]], version |-> Version[s[i]],
                               connection |-> ""]
<1>1. {j \in i + 1..i : s[j] \in Header \ {"field"}} = {}
  OBVIOUS
<1> QED
  BY <1>1 DEF RequestOf

\* The parser is before the request that begins at line i, or in its headers;
\* or it has found the end of that request, or no request line.  It had taken m
\* lines before, and n can be read.
Fresh(i, y) ==
  /\ y.state = "kParseRequestLine" /\ y.request = NoRequest /\ y.taken + 1 = i
Open(s, i, y) ==
  /\ y.state = "kParseHeaders"
  /\ i <= y.taken /\ s[i] \in DOMAIN Version
  /\ \A j \in i + 1..y.taken : s[j] \in Header
  /\ y.request = RequestOf(s, i, y.taken)
Found(s, i, y) ==
  /\ y.state = "kAllDone"
  /\ Whole(s, i, y.taken) /\ y.request = RequestOf(s, i, y.taken)
Stuck(s, n, i, y) ==
  /\ Fresh(i, y) /\ y.taken < n /\ s[i] \notin DOMAIN Version

Parsed(s, m, n, i, y) ==
  /\ y \in Context /\ m <= y.taken /\ y.taken <= n
  /\ y.end \in {"more", "noLine"} => Fresh(i, y) \/ Open(s, i, y)
  /\ y.end = "allDone" => Found(s, i, y)
  /\ y.end = "never" => Stuck(s, n, i, y)

\* A context, part by part.
LEMMA ContextTyped ==
  ASSUME NEW y \in Context, NEW t \in Nat, NEW r \in Request,
         NEW st \in {"kParseRequestLine", "kParseHeaders", "kAllDone"}
  PROVE  /\ [y EXCEPT !.request = r, !.taken = t, !.state = st] \in Context
         /\ [y EXCEPT !.request = r, !.taken = t] \in Context
         /\ [y EXCEPT !.taken = t, !.state = st, !.end = "allDone"] \in Context
<1>1. [y EXCEPT !.request = r, !.taken = t, !.state = st] \in Context
  BY DEF Context
<1>2. [y EXCEPT !.request = r, !.taken = t] \in Context
  BY DEF Context
<1>3. [y EXCEPT !.taken = t, !.state = st, !.end = "allDone"] \in Context
  BY DEF Context
<1> QED
  BY <1>1, <1>2, <1>3

LEMMA TurnParsed ==
  ASSUME NEW s, NEW m \in Nat, NEW n \in Nat, NEW i \in Nat \ {0}, NEW y,
         Parsed(s, m, n, i, y)
  PROVE  Parsed(s, m, n, i, Turn(s, n, y))
<1> USE DEF Context
<1>1. CASE y.end # "more"
  BY <1>1 DEF Turn
<1>2. CASE y.end = "more" /\ y.taken >= n
  <2> DEFINE z == [y EXCEPT !.end = "noLine"]
  <2>1. /\ z \in Context /\ z.end = "noLine"
        /\ z.taken = y.taken /\ z.state = y.state /\ z.request = y.request
    BY DEF Parsed
  <2>2. Turn(s, n, y) = z
    BY <1>2 DEF Turn
  <2> HIDE DEF z
  <2> QED
    BY <1>2, <2>1, <2>2 DEF Parsed, Fresh, Open
<1>3. CASE y.end = "more" /\ ~(y.taken >= n)
  <2> DEFINE line == s[y.taken + 1]
  <2>1. Turn(s, n, y) = ParseLine(y, line)
    BY <1>3 DEF Turn
  <2>2. y \in Context /\ y.taken \in Nat /\ y.taken + 1 <= n
    BY <1>3 DEF Parsed
  <2>3. CASE Fresh(i, y)
    <3>1. line = s[i] /\ ParseLine(y, line) = ParseRequestLine(y, line)
      BY <2>2, <2>3 DEF Fresh, ParseLine
    <3>2. CASE line \in DOMAIN Version
      <4> DEFINE z == ParseRequestLine(y, line)
      <4>1. z = [y EXCEPT !.request.method = Method[line],
                          !.request.version = Version[line],
                          !.taken = @ + 1, !.state = "kParseHeaders"]
        BY <3>2 DEF ParseRequestLine
      <4>2. /\ z.taken = y.taken + 1 /\ z.state = "kParseHeaders" /\ z.end = "more"
            /\ z.request = [y.request EXCEPT !.method = Method[line],
                                             !.version = Version[line]]
        BY <2>2, <4>1, <1>3
      <4>3. z.request = RequestOf(s, i, i)
        <5>1. z.request = [method |-> Method[s[i]], version |-> Version[s[i]],
                           connection |-> ""]
          <6> DEFINE q == y.request
          <6>1. q = [method |-> "kInvalidMethod", version |-> "kUnknownVersion",
                     connection |-> ""]
            BY <2>3 DEF Fresh, NoRequest
          <6>2. z.request = [q EXCEPT !.method = Method[s[i]], !.version = Version[s[i]]]
            BY <3>1, <4>2
          <6> HIDE DEF q
          <6> QED
            BY <6>1, <6>2
        <5> QED
          BY <5>1, RequestNew
      <4>4. z.request \in Request
        <5>1. Method[line] \in {"kGet", "kHead"}
              /\ Version[line] \in {"kHttp10", "kHttp11", "kHttp20"}
          BY <3>2 DEF Method, Version
        <5>2. y.request \in Request
          BY <2>2
        <5> QED
          BY <4>2, <5>1, <5>2 DEF Request
      <4>5. z \in Context
        <5>1. z = [y EXCEPT !.request = z.request, !.taken = y.taken + 1,
                            !.state = "kParseHeaders"]
          BY <2>2, <4>1, <4>2
        <5>2. y.taken + 1 \in Nat
          BY <2>2
        <5> HIDE DEF z, Context
        <5>3. [y EXCEPT !.request = z.request, !.taken = y.taken + 1,
                        !.state = "kParseHeaders"] \in Context
          BY <2>2, <4>4, <5>2, ContextTyped
        <5> QED
          BY <5>1, <5>3
      <4>6. Open(s, i, z)
        BY <2>2, <2>3, <3>1, <3>2, <4>2, <4>3 DEF Open, Fresh
      <4> HIDE DEF z
      <4>7. Parsed(s, m, n, i, z)
        BY <2>2, <4>2, <4>5, <4>6 DEF Parsed
      <4> QED
        BY <2>1, <3>1, <4>7 DEF z
    <3>3. CASE line \notin DOMAIN Version
      <4> DEFINE z == [y EXCEPT !.end = "never"]
      <4>1. ParseRequestLine(y, line) = z
        BY <3>3 DEF ParseRequestLine
      <4>2. /\ z \in Context /\ z.end = "never"
            /\ z.taken = y.taken /\ z.state = y.state /\ z.request = y.request
        BY <2>2
      <4> HIDE DEF z
      <4>3. Parsed(s, m, n, i, z)
        BY <2>2, <2>3, <3>1, <3>3, <4>2 DEF Parsed, Stuck, Fresh
      <4> QED
        BY <2>1, <3>1, <4>1, <4>3
    <3> QED
      BY <3>2, <3>3
  <2>4. CASE Open(s, i, y)
    <3>1. ParseLine(y, line) = ParseHeader(y, line)
      BY <2>2, <2>4 DEF Open, ParseLine
    <3>2. /\ y.request = RequestOf(s, i, y.taken) /\ i <= y.taken
          /\ \A j \in i + 1..y.taken : s[j] \in Header
          /\ s[i] \in DOMAIN Version
      BY <2>4 DEF Open
    <3>3. RequestOf(s, i, y.taken + 1) =
            IF line \in Header \ {"field"} THEN [y.request EXCEPT !.connection = line]
            ELSE y.request
      BY <2>2, <3>2, RequestMore
    <3>4. CASE line \in Header
      <4> DEFINE z == ParseHeader(y, line)
      <4>1. z = [y EXCEPT !.request.connection = IF line = "field" THEN @ ELSE line,
                          !.taken = @ + 1]
        BY <3>4 DEF ParseHeader
      <4>2. /\ z.taken = y.taken + 1 /\ z.state = y.state /\ z.end = "more"
            /\ z.request = [y.request EXCEPT !.connection =
                              IF line = "field" THEN @ ELSE line]
        BY <1>3, <2>2, <4>1
      <4>3. y.request \in Request
        BY <2>2
      <4>4. z.request = RequestOf(s, i, y.taken + 1) /\ z.request \in Request
        <5>1. CASE line = "field"
          <6>1. [y.request EXCEPT !.connection = y.request.connection] = y.request
            BY <4>3 DEF Request
          <6> QED
            BY <3>3, <4>2, <4>3, <5>1, <6>1
        <5>2. CASE line # "field"
          <6>1. line \in Header \ {"field"} /\ line \in {"close", "keep-alive"}
            BY <3>4, <5>2 DEF Header
          <6>2. z.request = [y.request EXCEPT !.connection = line]
            BY <4>2, <5>2
          <6>3. z.request \in Request
            BY <4>3, <6>1, <6>2 DEF Request
          <6> QED
            BY <3>3, <6>1, <6>2, <6>3
        <5> QED
          BY <5>1, <5>2
      <4>5. z \in Context
        <5>1. z = [y EXCEPT !.request = z.request, !.taken = y.taken + 1]
          BY <2>2, <4>1, <4>2
        <5>2. y.taken + 1 \in Nat
          BY <2>2
        <5> HIDE DEF z, Context
        <5>3. [y EXCEPT !.request = z.request, !.taken = y.taken + 1] \in Context
          BY <2>2, <4>4, <5>2, ContextTyped
        <5> QED
          BY <5>1, <5>3
      <4>6. \A j \in i + 1..y.taken + 1 : s[j] \in Header
        BY <2>2, <3>2, <3>4
      <4>7. Open(s, i, z)
        BY <2>2, <2>4, <3>2, <4>2, <4>4, <4>6 DEF Open
      <4> HIDE DEF z
      <4>8. Parsed(s, m, n, i, z)
        BY <2>2, <4>2, <4>5, <4>7 DEF Parsed
      <4> QED
        BY <2>1, <3>1, <4>8 DEF z
    <3>5. CASE line \notin Header
      <4> DEFINE z == [y EXCEPT !.taken = @ + 1, !.state = "kAllDone", !.end = "allDone"]
      <4>1. ParseHeader(y, line) = z
        BY <3>5 DEF ParseHeader
      <4>2. /\ z \in Context /\ z.end = "allDone" /\ z.state = "kAllDone"
            /\ z.taken = y.taken + 1 /\ z.request = y.request
        <5>1. y.taken + 1 \in Nat /\ y.request \in Request
          BY <2>2
        <5>2. z \in Context
          <6> HIDE DEF Context
          <6> QED
            BY <2>2, <5>1, ContextTyped
        <5> QED
          BY <2>2, <5>2
      <4> HIDE DEF z
      <4>3. Whole(s, i, y.taken + 1)
        <5>1. (y.taken + 1) - 1 = y.taken /\ i < y.taken + 1
          BY <2>2, <3>2
        <5> QED
          BY <3>2, <3>5, <5>1 DEF Whole
      <4>4. Found(s, i, z)
        BY <3>3, <3>5, <4>2, <4>3 DEF Found
      <4>5. Parsed(s, m, n, i, z)
        BY <2>2, <4>2, <4>4 DEF Parsed
      <4> QED
        BY <2>1, <3>1, <4>1, <4>5
    <3> QED
      BY <3>4, <3>5
  <2> QED
    BY <1>3, <2>3, <2>4 DEF Parsed
<1> QED
  BY <1>1, <1>2, <1>3

\* What a call of parseRequest() leaves, in a context that it may be called in.
LEMMA ParseLeaves ==
  ASSUME NEW s, Len(s) \in Nat, NEW m \in Nat, NEW n \in Nat, NEW i \in Nat \ {0},
         NEW x \in Context, m <= x.taken, x.taken <= n,
         Fresh(i, x) \/ Open(s, i, x)
  PROVE  Parsed(s, m, n, i, parseRequest(x, s, n))
<1>1. PICK p : /\ p[0] = [x EXCEPT !.end = "more"]
               /\ \A j \in 1..Len(s) + 1 : p[j] = Turn(s, n, p[j - 1])
               /\ parseRequest(x, s, n) = p[Len(s) + 1]
  BY ParseFunction
<1> DEFINE S == {j \in Nat : j <= Len(s) + 1 => Parsed(s, m, n, i, p[j])}
<1>2. 0 \in S
  <2>1. /\ p[0] \in Context /\ p[0].end = "more" /\ p[0].taken = x.taken
        /\ p[0].state = x.state /\ p[0].request = x.request
    BY <1>1 DEF Context
  <2> QED
    BY <2>1 DEF Parsed, Fresh, Open
<1>3. ASSUME NEW j \in Nat, j \in S PROVE j + 1 \in S
  <2> SUFFICES ASSUME j + 1 <= Len(s) + 1 PROVE Parsed(s, m, n, i, p[j + 1])
    OBVIOUS
  <2>1. Parsed(s, m, n, i, p[j])
    BY <1>3
  <2>2. j + 1 \in 1..Len(s) + 1 /\ (j + 1) - 1 = j
    OBVIOUS
  <2>3. p[j + 1] = Turn(s, n, p[j])
    BY <1>1, <2>2
  <2> QED
    BY <2>1, <2>3, TurnParsed
<1>4. Nat \subseteq S
  <2> HIDE DEF S
  <2> QED
    BY <1>2, <1>3, Induction
<1> QED
  BY <1>1, <1>4

-----------------------------------------------------------------------------
(* The inductive invariant                                                 *)

Response == [task : Task,
             text : [version : {"kUnknownVersion", "kHttp10", "kHttp11", "kHttp20"},
                     status : {"k200OK", "k404NotFound"},
                     end : {"close", "Content-Length"}]]

HttpTypeOK ==
  /\ TypeOK
  /\ stream \in [Conn -> Seq(Text)]
  /\ received \in [Conn -> Nat]
  /\ context \in [Conn -> Context]
  /\ io \in [Conn -> {"idle", "done", "submit", "spin"}]
  /\ asked \in [Task -> Request]
  /\ connected \in [Conn -> BOOLEAN]
  /\ sent \in [Conn -> Seq(Response)]
  /\ aborted \in BOOLEAN

\* Where the parser is, when the request after those submitted begins at i.
Where(c, i) ==
  /\ context[c].taken <= received[c] \div 2
  /\ io[c] = "idle" => Fresh(i, context[c]) \/ Open(stream[c], i, context[c])
  /\ io[c] = "done" => Found(stream[c], i, context[c])
  /\ io[c] = "submit" => context[c].request = NoRequest /\ context[c].taken + 1 = i
  /\ io[c] = "spin" => Stuck(stream[c], received[c] \div 2, i, context[c])

\* The first k requests have been submitted, in the order of the stream, and
\* b is where they begin.
Submitted(c, k) ==
  \A n \in 1..MaxReq : TaskOf(c, n) \notin unused <=> n <= k
Asked(c, k, b) ==
  /\ Chain(stream[c], b, k, context[c].taken)
  /\ \A n \in 1..k :
       asked[TaskOf(c, n)] = RequestOf(stream[c], b[n - 1], b[n] - 1)
Asking(c) ==
  \E k \in 0..MaxReq :
    /\ Submitted(c, k)
    /\ \E b \in [0..k -> 1..context[c].taken + 1] : Asked(c, k, b) /\ Where(c, b[k])

\* What was sent answers the first requests; without worker threads, all that
\* were submitted while the connection was open.
Answers(c, i) ==
  /\ i <= MaxReq /\ TaskOf(c, i) \notin unused
  /\ sent[c][i].task = TaskOf(c, i)
  /\ sent[c][i].text.version = asked[TaskOf(c, i)].version
  /\ sent[c][i].text.end = "close" <=> i = Len(sent[c]) /\ ~connected[c]
Answering(c) ==
  /\ \A i \in DOMAIN sent[c] : Answers(c, i)
  /\ threads = {} /\ connected[c] /\ ~aborted
       => \A n \in 1..MaxReq : TaskOf(c, n) \notin unused => n <= Len(sent[c])

\* Worker threads run no task: take() waits until the queue is empty.
Unanswered ==
  /\ main = "new" => unused = Task
  /\ main = "new" \/ threads # {} => \A c \in Conn : sent[c] = <<>> /\ connected[c]

HttpInv ==
  /\ HttpTypeOK
  /\ \A c \in Conn : Asking(c) /\ Answering(c)
  /\ Unanswered

-----------------------------------------------------------------------------
(* The thread pool                                                         *)

\* notify_one() leaves some of those who sleep.
LEMMA NotifyLeaves ==
  ASSUME NEW sleepers, NEW left, NotifyOne(sleepers, left)
  PROVE  left \subseteq sleepers
BY DEF NotifyOne

\* The types of the pool, in every step of it.
LEMMA OwnerTyped ==
  ASSUME TypeOK, NEW S \in SUBSET Thread, Start \/ Stop \/ Join \/ SetThreadNum(S)
  PROVE  TypeOK' /\ unused' = unused
BY DEF TypeOK, Start, Stop, Join, SetThreadNum, config, poolVars, WorkerState

LEMMA SubmitTyped ==
  ASSUME TypeOK, NEW c \in Client, NEW task,
         Submit(c, task) \/ SubmitInline(c, task)
  PROVE  TypeOK' /\ main = "started" /\ UNCHANGED <<main, threads>>
<1>1. task \in Task
  BY DEF TypeOK, Submit, SubmitInline
<1>2. CASE Submit(c, task)
  BY <1>1, <1>2 DEF TypeOK, Submit, config
<1>3. CASE SubmitInline(c, task)
  <2>1. done' \in Seq(Task)
    BY <1>1, <1>3, AppendProperties DEF TypeOK, SubmitInline
  <2> QED
    BY <1>3, <2>1 DEF TypeOK, SubmitInline, config
<1> QED
  BY <1>2, <1>3

LEMMA ClientTyped ==
  ASSUME TypeOK, NEW c \in Client, ClientStep(c)
  PROVE  TypeOK' /\ UNCHANGED <<main, threads, unused>>
<1>1. CASE SubmitWait(c)
  BY <1>1 DEF TypeOK, SubmitWait, config, poolVars
<1>2. CASE SubmitPush(c)
  <2>1. client[c] \in Task
    BY <1>2 DEF TypeOK, SubmitPush
  <2>2. queue' \in Seq(Task)
    BY <1>2, <2>1, AppendProperties DEF TypeOK, SubmitPush
  <2>3. notEmpty' \subseteq notEmpty
    BY <1>2, NotifyLeaves DEF SubmitPush
  <2> QED
    BY <1>2, <2>2, <2>3 DEF TypeOK, SubmitPush, config
<1> QED
  BY <1>1, <1>2 DEF ClientStep

\* take() goes on when the queue is empty, so that no worker ever runs a task.
LEMMA ThreadTyped ==
  ASSUME TypeOK, NEW t \in Thread, ThreadStep(t)
  PROVE  TypeOK' /\ UNCHANGED <<main, threads, unused, done>>
<1>1. CASE WorkerTest(t)
  BY <1>1 DEF TypeOK, WorkerTest, config, poolVars, WorkerState
<1>2. CASE TakeWait(t)
  BY <1>2 DEF TypeOK, TakeWait, config, poolVars
<1>3. CASE TakeReturn(t)
  <2>1. queue' = queue /\ done' = done
    BY <1>3 DEF TakeReturn, TakePred
  <2>2. notFull' \subseteq notFull
    BY <1>3, NotifyLeaves DEF TakeReturn
  <2>3. worker' \in [Thread -> WorkerState]
    BY <1>3 DEF TypeOK, TakeReturn, WorkerState
  <2> QED
    BY <1>3, <2>1, <2>2, <2>3 DEF TypeOK, TakeReturn, config
<1> QED
  BY <1>1, <1>2, <1>3 DEF ThreadStep

-----------------------------------------------------------------------------
(* Steps that leave a connection alone                                     *)

\* The tasks of a connection are as they were.
SameTasks(c) ==
  \A n \in 1..MaxReq :
    /\ TaskOf(c, n) \in unused' <=> TaskOf(c, n) \in unused
    /\ asked'[TaskOf(c, n)] = asked[TaskOf(c, n)]

LEMMA AskedSame ==
  ASSUME NEW c \in Conn, NEW k \in 0..MaxReq, NEW b, SameTasks(c),
         stream'[c] = stream[c], context'[c].taken = context[c].taken,
         Submitted(c, k), Asked(c, k, b)
  PROVE  Submitted(c, k)' /\ Asked(c, k, b)'
<1>1. Submitted(c, k)'
  BY DEF Submitted, SameTasks
<1>2. 1..k \subseteq 1..MaxReq
  BY HttpAssumption
<1>3. \A n \in 1..k : asked'[TaskOf(c, n)] = RequestOf(stream'[c], b[n - 1], b[n] - 1)
  BY <1>2 DEF Asked, SameTasks
<1>4. Chain(stream'[c], b, k, context'[c].taken)
  BY DEF Asked
<1> QED
  BY <1>1, <1>3, <1>4 DEF Asked

LEMMA AskingSame ==
  ASSUME NEW c \in Conn, SameTasks(c), Asking(c),
         stream'[c] = stream[c], context'[c] = context[c],
         received'[c] = received[c], io'[c] = io[c]
  PROVE  Asking(c)'
<1>1. PICK k \in 0..MaxReq :
        /\ Submitted(c, k)
        /\ \E b \in [0..k -> 1..context[c].taken + 1] : Asked(c, k, b) /\ Where(c, b[k])
  BY DEF Asking
<1>2. PICK b \in [0..k -> 1..context[c].taken + 1] : Asked(c, k, b) /\ Where(c, b[k])
  BY <1>1
<1>3. Submitted(c, k)' /\ Asked(c, k, b)'
  BY <1>1, <1>2, AskedSame
<1>4. Where(c, b[k])'
  BY <1>2 DEF Where
<1>5. b \in [0..k -> 1..context'[c].taken + 1]
  BY <1>2
<1> QED
  BY <1>3, <1>4, <1>5 DEF Asking

LEMMA AnsweringSame ==
  ASSUME NEW c \in Conn, HttpTypeOK, SameTasks(c), Answering(c),
         sent'[c] = sent[c], connected'[c] = connected[c], aborted => aborted',
         threads' = threads
  PROVE  Answering(c)'
<1>1. ASSUME NEW i \in DOMAIN sent'[c] PROVE Answers(c, i)'
  <2>1. Answers(c, i)
    BY DEF Answering
  <2>2. i \in 1..MaxReq
    <3>1. i \in 1..Len(sent[c])
      BY LenProperties DEF HttpTypeOK
    <3> QED
      BY <2>1, <3>1, HttpAssumption DEF Answers
  <2> QED
    BY <2>1, <2>2 DEF Answers, SameTasks
<1>2. ASSUME threads' = {}, connected'[c], ~aborted', NEW n \in 1..MaxReq,
             TaskOf(c, n) \notin unused'
      PROVE  n <= Len(sent'[c])
  BY <1>2 DEF Answering, SameTasks
<1> QED
  BY <1>1, <1>2 DEF Answering

LEMMA OneTask ==
  ASSUME NEW c, NEW d, NEW n, NEW m, TaskOf(c, n) = TaskOf(d, m)
  PROVE  c = d /\ n = m
BY DEF TaskOf

LEMMA TasksKnown ==
  ASSUME NEW c \in Conn, NEW n \in 1..MaxReq
  PROVE  TaskOf(c, n) \in Task
BY HttpAssumption DEF HttpTask

-----------------------------------------------------------------------------
(* Each step keeps the invariant                                           *)

LEMMA OwnerInv == ASSUME HttpInv, PoolOwner PROVE HttpInv'
<1> USE DEF HttpInv
<1>1. UNCHANGED <<stream, received, context, io, asked, connected, sent, aborted>>
  BY DEF PoolOwner, httpVars, connVars, answerVars
<1>2. PICK S \in SUBSET Thread : Start \/ Stop \/ Join \/ SetThreadNum(S)
  BY DEF PoolOwner
<1>3. TypeOK' /\ unused' = unused
  BY <1>2, OwnerTyped DEF HttpTypeOK
<1>4. HttpTypeOK'
  BY <1>1, <1>3 DEF HttpTypeOK
<1>5. threads' = threads \/ main = "new"
  BY <1>2 DEF Start, Stop, Join, SetThreadNum, config
<1>6. main' = "new" \/ threads' # {} => main = "new" \/ threads # {}
  BY <1>2 DEF Start, Stop, Join, SetThreadNum, config
<1>7. main' = "new" => main = "new"
  BY <1>2 DEF Start, Stop, Join, SetThreadNum
<1>8. Unanswered'
  BY <1>1, <1>3, <1>6, <1>7 DEF Unanswered
<1>9. ASSUME NEW c \in Conn PROVE Asking(c)' /\ Answering(c)'
  <2>1. SameTasks(c)
    BY <1>1, <1>3 DEF SameTasks
  <2>2. Asking(c)'
    BY <1>1, <2>1, AskingSame
  <2>3. CASE threads' = threads
    BY <1>1, <2>1, <2>2, <2>3, AnsweringSame
  <2>4. CASE main = "new"
    <3>1. sent'[c] = <<>> /\ unused' = Task
      BY <1>1, <1>3, <2>4 DEF Unanswered
    <3>2. DOMAIN sent'[c] = {}
      BY <3>1
    <3>3. \A n \in 1..MaxReq : TaskOf(c, n) \in unused'
      BY <3>1, TasksKnown
    <3> QED
      BY <2>2, <3>2, <3>3 DEF Answering
  <2> QED
    BY <1>5, <2>3, <2>4
<1> QED
  BY <1>4, <1>8, <1>9

LEMMA PoolInv == ASSUME HttpInv, NEW t \in Thread, PoolStep(t) PROVE HttpInv'
<1> USE DEF HttpInv
<1>1. ThreadStep(t) /\ UNCHANGED <<stream, received, context, io, asked>>
  BY DEF PoolStep, connVars
<1>2. TypeOK' /\ UNCHANGED <<main, threads, unused, done>>
  BY <1>1, ThreadTyped DEF HttpTypeOK
<1>3. UNCHANGED <<connected, sent, aborted>>
  BY <1>2 DEF PoolStep, answerVars
<1>4. HttpTypeOK'
  BY <1>1, <1>2, <1>3 DEF HttpTypeOK
<1>5. Unanswered'
  BY <1>2, <1>3 DEF Unanswered
<1>6. ASSUME NEW c \in Conn PROVE Asking(c)' /\ Answering(c)'
  <2>1. SameTasks(c)
    BY <1>1, <1>2 DEF SameTasks
  <2> QED
    BY <1>1, <1>2, <1>3, <2>1, AskingSame, AnsweringSame
<1> QED
  BY <1>4, <1>5, <1>6

\* A step of one connection's I/O thread that submits nothing.
LEMMA OthersInv ==
  ASSUME HttpInv, NEW c \in Conn, HttpTypeOK', Asking(c)',
         UNCHANGED <<stream, asked, connected, sent, aborted, threads, main, unused>>,
         \A d \in Conn \ {c} : /\ received'[d] = received[d]
                               /\ context'[d] = context[d] /\ io'[d] = io[d]
  PROVE  HttpInv'
<1>1. Unanswered'
  BY DEF HttpInv, Unanswered
<1>2. ASSUME NEW d \in Conn PROVE Asking(d)' /\ Answering(d)'
  <2>1. SameTasks(d)
    BY DEF SameTasks
  <2>2. Answering(d)'
    BY <2>1, AnsweringSame DEF HttpInv
  <2>3. Asking(d)'
    <3>1. CASE d = c
      BY <3>1
    <3>2. CASE d # c
      BY <2>1, <3>2, AskingSame DEF HttpInv
    <3> QED
      BY <3>1, <3>2
  <2> QED
    BY <2>2, <2>3
<1> QED
  BY <1>1, <1>2 DEF HttpInv

LEMMA MessageInv == ASSUME HttpInv, NEW c \in Conn, OnMessage(c) PROVE HttpInv'
<1> DEFINE s == stream[c]
<1>1. /\ UNCHANGED <<stream, asked, connected, sent, aborted, callback>>
      /\ UNCHANGED vars /\ io[c] = "idle"
  BY DEF OnMessage, answerVars
<1>2. PICK n \in received[c] + 1..2 * Len(s) :
        LET x == parseRequest(context[c], s, n \div 2)
        IN /\ received' = [received EXCEPT ![c] = n]
           /\ context' = [context EXCEPT ![c] = x]
           /\ io' = [io EXCEPT ![c] = IF x.end = "never" THEN "spin"
                                      ELSE IF x.end = "allDone" THEN "done" ELSE "idle"]
  BY DEF OnMessage
<1> DEFINE x == parseRequest(context[c], s, n \div 2)
<1>3. HttpTypeOK
  BY DEF HttpInv
<1>4. /\ s \in Seq(Text) /\ Len(s) \in Nat /\ received[c] \in Nat
      /\ context[c] \in Context /\ context[c].taken \in Nat
  BY <1>3, LenProperties DEF HttpTypeOK, Context
<1>5. n \in Nat /\ n \div 2 \in Nat /\ received[c] \div 2 <= n \div 2
  BY <1>4
<1>6. PICK k \in 0..MaxReq :
        /\ Submitted(c, k)
        /\ \E b \in [0..k -> 1..context[c].taken + 1] : Asked(c, k, b) /\ Where(c, b[k])
  BY DEF HttpInv, Asking
<1>7. PICK b \in [0..k -> 1..context[c].taken + 1] : Asked(c, k, b) /\ Where(c, b[k])
  BY <1>6
<1>8. k \in Nat /\ b[k] \in Nat \ {0}
  BY <1>4, <1>7, HttpAssumption
<1>9. /\ context[c].taken <= n \div 2
      /\ Fresh(b[k], context[c]) \/ Open(s, b[k], context[c])
  <2>1. received[c] \div 2 \in Int
    BY <1>4
  <2> QED
    BY <1>1, <1>4, <1>5, <1>7, <2>1 DEF Where
<1>10. Parsed(s, context[c].taken, n \div 2, b[k], x)
  <2> DEFINE y == context[c]
             m == n \div 2
  <2>1. /\ y \in Context /\ y.taken \in Nat /\ m \in Nat /\ Len(s) \in Nat
        /\ y.taken <= y.taken /\ y.taken <= m
        /\ Fresh(b[k], y) \/ Open(s, b[k], y)
    BY <1>4, <1>5, <1>9
  <2> HIDE DEF s, y, m
  <2>2. Parsed(s, y.taken, m, b[k], parseRequest(y, s, m))
    BY <1>8, <2>1, ParseLeaves
  <2> QED
    BY <2>2 DEF y, m
<1> HIDE DEF x
<1>11. x \in Context /\ context[c].taken <= x.taken /\ x.taken <= n \div 2
  BY <1>10 DEF Parsed
<1>12. /\ received'[c] = n /\ context'[c] = x
       /\ io'[c] = IF x.end = "never" THEN "spin"
                   ELSE IF x.end = "allDone" THEN "done" ELSE "idle"
  BY <1>2, <1>3 DEF HttpTypeOK, x
<1>13. HttpTypeOK'
  <2>1. TypeOK'
    BY <1>1, <1>3 DEF HttpTypeOK, TypeOK, vars
  <2>2. received' \in [Conn -> Nat]
    BY <1>2, <1>3, <1>5 DEF HttpTypeOK
  <2>3. context' \in [Conn -> Context]
    BY <1>2, <1>3, <1>11 DEF HttpTypeOK, x
  <2>4. io' \in [Conn -> {"idle", "done", "submit", "spin"}]
    BY <1>2, <1>3 DEF HttpTypeOK
  <2> QED
    BY <1>1, <1>3, <2>1, <2>2, <2>3, <2>4 DEF HttpTypeOK
<1>14. Where(c, b[k])'
  <2>1. x.end \in {"more", "noLine", "allDone", "never"}
    BY <1>11 DEF Context
  <2> QED
    BY <1>1, <1>10, <1>11, <1>12, <2>1 DEF Where, Parsed
<1>15. b \in [0..k -> 1..context'[c].taken + 1]
  <2>1. x.taken \in Nat
    BY <1>11 DEF Context
  <2> QED
    BY <1>4, <1>7, <1>11, <1>12, <2>1
<1>16. Asked(c, k, b)'
  <2>1. Chain(stream'[c], b, k, context'[c].taken)
    BY <1>1, <1>7, <1>15 DEF Asked, Chain
  <2> QED
    BY <1>1, <1>7, <2>1 DEF Asked
<1>17. Submitted(c, k)'
  BY <1>1, <1>6 DEF Submitted, vars
<1>18. Asking(c)'
  BY <1>14, <1>15, <1>16, <1>17 DEF Asking
<1>19. \A d \in Conn \ {c} : /\ received'[d] = received[d]
                             /\ context'[d] = context[d] /\ io'[d] = io[d]
  BY <1>2, <1>3 DEF HttpTypeOK
<1> QED
  BY <1>1, <1>13, <1>18, <1>19, OthersInv DEF vars

\* submit() has taken the request out of the context; reset() follows.
LEMMA SubmitStepInv == ASSUME HttpInv, NEW c \in Conn, SubmitStep(c) PROVE HttpInv'
<1>1. /\ UNCHANGED <<stream, received, asked, connected, sent, aborted>>
      /\ io[c] = "submit" /\ ClientStep(c)
  BY DEF SubmitStep, answerVars
<1>2. HttpTypeOK
  BY DEF HttpInv
<1>3. TypeOK' /\ UNCHANGED <<main, threads, unused>>
  BY <1>1, <1>2, ClientTyped DEF HttpTypeOK, Conn
<1>4. CASE UNCHANGED <<context, io>>
  <2>1. HttpTypeOK'
    BY <1>1, <1>2, <1>3, <1>4 DEF HttpTypeOK
  <2>2. SameTasks(c)
    BY <1>1, <1>3 DEF SameTasks
  <2>3. Asking(c)'
    BY <1>1, <1>4, <2>2, AskingSame DEF HttpInv
  <2> QED
    BY <1>1, <1>3, <1>4, <2>1, <2>3, OthersInv
<1>5. CASE /\ context' = [context EXCEPT ![c] = reset(@)]
           /\ io' = [io EXCEPT ![c] = "idle"]
  <2> DEFINE y == context[c]
  <2>1. y \in Context /\ context' = [context EXCEPT ![c] = reset(y)]
    BY <1>2, <1>5 DEF HttpTypeOK
  <2>2. NoRequest \in Request
    BY DEF NoRequest, Request
  <2>3. /\ reset(y) \in Context /\ reset(y).taken = y.taken
        /\ reset(y).state = "kParseRequestLine" /\ reset(y).request = NoRequest
    BY <2>1, <2>2 DEF reset, Context
  <2>4. context'[c] = reset(y) /\ io'[c] = "idle"
    BY <1>2, <1>5, <2>1 DEF HttpTypeOK
  <2>5. HttpTypeOK'
    BY <1>1, <1>2, <1>3, <1>5, <2>1, <2>3 DEF HttpTypeOK
  <2>6. PICK k \in 0..MaxReq :
          /\ Submitted(c, k)
          /\ \E b \in [0..k -> 1..y.taken + 1] : Asked(c, k, b) /\ Where(c, b[k])
    BY DEF HttpInv, Asking
  <2>7. PICK b \in [0..k -> 1..y.taken + 1] : Asked(c, k, b) /\ Where(c, b[k])
    BY <2>6
  <2> HIDE DEF y
  <2>8. SameTasks(c)
    BY <1>1, <1>3 DEF SameTasks
  <2>9. Submitted(c, k)' /\ Asked(c, k, b)'
    BY <1>1, <2>3, <2>4, <2>6, <2>7, <2>8, AskedSame DEF y
  <2>10. Where(c, b[k])'
    BY <1>1, <2>3, <2>4, <2>7 DEF Where, Fresh, y
  <2>11. Asking(c)'
    BY <2>3, <2>4, <2>7, <2>9, <2>10 DEF Asking
  <2>12. \A d \in Conn \ {c} : context'[d] = context[d] /\ io'[d] = io[d]
    BY <1>2, <1>5 DEF HttpTypeOK
  <2> QED
    BY <1>1, <1>3, <2>5, <2>11, <2>12, OthersInv
<1> QED
  BY <1>4, <1>5 DEF SubmitStep

\* The request that the parser has found is the next one of the connection.
LEMMA NextTask ==
  ASSUME HttpTypeOK, NEW c \in Conn, Asking(c), io[c] = "done",
         NEW n \in 1..MaxReq, TaskOf(c, n) \in unused,
         \A i \in 1..n - 1 : TaskOf(c, i) \notin unused
  PROVE  /\ Submitted(c, n - 1)
         /\ \E b \in [0..n -> 1..context[c].taken + 1] :
              /\ Chain(stream[c], b, n, context[c].taken)
              /\ \A i \in 1..n - 1 :
                   asked[TaskOf(c, i)] = RequestOf(stream[c], b[i - 1], b[i] - 1)
              /\ b[n] = context[c].taken + 1
              /\ context[c].request = RequestOf(stream[c], b[n - 1], b[n] - 1)
<1> DEFINE s == stream[c]
           t == context[c].taken
<1>1. PICK k \in 0..MaxReq :
        /\ Submitted(c, k)
        /\ \E b \in [0..k -> 1..t + 1] : Asked(c, k, b) /\ Where(c, b[k])
  BY DEF Asking
<1>2. PICK b \in [0..k -> 1..t + 1] : Asked(c, k, b) /\ Where(c, b[k])
  BY <1>1
<1>3. n = k + 1 /\ k \in Nat
  <2>1. ~(n <= k)
    BY <1>1 DEF Submitted
  <2>2. k \in Nat /\ n \in Nat
    BY HttpAssumption
  <2>3. k < n - 1 => k + 1 \in 1..n - 1 /\ k + 1 \in 1..MaxReq
    BY <2>2, HttpAssumption
  <2>4. ~(k < n - 1)
    BY <1>1, <2>2, <2>3 DEF Submitted
  <2> QED
    BY <2>1, <2>2, <2>4
<1>4. t \in Nat
  BY DEF HttpTypeOK, Context
<1>5. Found(s, b[k], context[c])
  BY <1>2 DEF Where
<1> HIDE DEF s, t
<1> DEFINE a == [i \in 0..n |-> IF i = n THEN t + 1 ELSE b[i]]
<1>6. ASSUME NEW i \in 0..k PROVE a[i] = b[i] /\ b[i] \in 1..t + 1
  BY <1>2, <1>3
<1>7. a[n] = t + 1 /\ a \in [0..n -> 1..t + 1]
  BY <1>2, <1>3, <1>4
<1>8. n - 1 = k /\ (t + 1) - 1 = t
  BY <1>3, <1>4
<1> HIDE DEF a
<1>9. /\ Chain(s, b, k, t)
      /\ \A i \in 1..k : asked[TaskOf(c, i)] = RequestOf(s, b[i - 1], b[i] - 1)
  BY <1>2 DEF Asked, s, t
<1>10. \A i \in 1..k : a[i - 1] = b[i - 1] /\ a[i] = b[i]
  <2> SUFFICES ASSUME NEW i \in 1..k PROVE a[i - 1] = b[i - 1] /\ a[i] = b[i]
    OBVIOUS
  <2>1. i \in 0..k /\ i - 1 \in 0..k
    BY <1>3
  <2> QED
    BY <1>6, <2>1
<1>11. Whole(s, a[n - 1], a[n] - 1) /\ context[c].request = RequestOf(s, a[n - 1], a[n] - 1)
  <2>1. a[k] = b[k]
    BY <1>3, <1>6
  <2> QED
    BY <1>5, <1>7, <1>8, <2>1 DEF Found, t
<1>12. Chain(s, a, n, t)
  <2>1. a[0] = 1
    <3>1. 0 \in 0..k
      BY <1>3
    <3> QED
      BY <1>6, <1>9, <3>1 DEF Chain
  <2>2. ASSUME NEW i \in 1..n PROVE Whole(s, a[i - 1], a[i] - 1)
    <3>1. CASE i = n
      BY <1>11, <3>1
    <3>2. CASE i # n
      <4>1. i \in 1..k
        BY <1>3, <3>2
      <4> QED
        BY <1>9, <1>10, <4>1 DEF Chain
    <3> QED
      BY <3>1, <3>2
  <2> QED
    BY <1>7, <2>1, <2>2 DEF Chain
<1>13. \A i \in 1..n - 1 : asked[TaskOf(c, i)] = RequestOf(s, a[i - 1], a[i] - 1)
  BY <1>8, <1>9, <1>10
<1>14. Submitted(c, n - 1)
  BY <1>1, <1>8
<1> QED
  BY <1>7, <1>11, <1>12, <1>13, <1>14 DEF s, t

\* What submitting the n-th request of a connection changes.
Submits(c, n) ==
  /\ TaskOf(c, n) \in unused /\ unused' = unused \ {TaskOf(c, n)}
  /\ \A i \in 1..n - 1 : TaskOf(c, i) \notin unused
  /\ asked' = [asked EXCEPT ![TaskOf(c, n)] = context[c].request]
  /\ UNCHANGED <<stream, received>>

LEMMA SubmitsOne ==
  ASSUME HttpTypeOK, NEW c \in Conn, NEW n \in 1..MaxReq, Submits(c, n)
  PROVE  /\ asked' \in [Task -> Request]
         /\ asked'[TaskOf(c, n)] = context[c].request
         /\ \A i \in 1..MaxReq :
              i # n => /\ TaskOf(c, i) \in unused' <=> TaskOf(c, i) \in unused
                       /\ asked'[TaskOf(c, i)] = asked[TaskOf(c, i)]
         /\ \A d \in Conn : d # c => SameTasks(d)
<1>1. TaskOf(c, n) \in Task /\ context[c].request \in Request
  BY TasksKnown DEF HttpTypeOK, Context
<1>2. /\ asked' \in [Task -> Request]
      /\ asked'[TaskOf(c, n)] = context[c].request
  BY <1>1 DEF HttpTypeOK, Submits
<1>3. ASSUME NEW d \in Conn, NEW i \in 1..MaxReq, d # c \/ i # n
      PROVE  /\ TaskOf(d, i) \in unused' <=> TaskOf(d, i) \in unused
             /\ asked'[TaskOf(d, i)] = asked[TaskOf(d, i)]
  <2>1. TaskOf(d, i) # TaskOf(c, n)
    BY <1>3, OneTask
  <2>2. TaskOf(d, i) \in Task
    BY TasksKnown
  <2> QED
    BY <2>1, <2>2 DEF Submits, HttpTypeOK
<1> QED
  BY <1>2, <1>3 DEF SameTasks

LEMMA SubmitsAsking ==
  ASSUME HttpTypeOK, NEW c \in Conn, Asking(c), io[c] = "done",
         NEW n \in 1..MaxReq, Submits(c, n),
         context'[c].taken = context[c].taken, context'[c].request = NoRequest,
         io'[c] = "submit" \/ (io'[c] = "idle" /\ context'[c].state = "kParseRequestLine")
  PROVE  Asking(c)'
<1>1. n \in Nat /\ n \in 0..MaxReq
  BY HttpAssumption
<1>2. Submitted(c, n - 1)
  BY NextTask DEF Submits
<1>3. PICK b \in [0..n -> 1..context[c].taken + 1] :
        /\ Chain(stream[c], b, n, context[c].taken)
        /\ \A i \in 1..n - 1 : asked[TaskOf(c, i)] = RequestOf(stream[c], b[i - 1], b[i] - 1)
        /\ b[n] = context[c].taken + 1
        /\ context[c].request = RequestOf(stream[c], b[n - 1], b[n] - 1)
  BY NextTask DEF Submits
<1>4. Submitted(c, n)'
  <2>1. ASSUME NEW i \in 1..MaxReq PROVE TaskOf(c, i) \notin unused' <=> i <= n
    <3>1. CASE i = n
      BY <1>1, <3>1 DEF Submits
    <3>2. CASE i # n
      <4>1. i <= n <=> i <= n - 1
        BY <1>1, <3>2
      <4>2. TaskOf(c, i) \in unused' <=> TaskOf(c, i) \in unused
        BY <3>2, SubmitsOne
      <4> QED
        BY <1>2, <4>1, <4>2 DEF Submitted
    <3> QED
      BY <3>1, <3>2
  <2> QED
    BY <2>1 DEF Submitted
<1>5. ASSUME NEW i \in 1..n
      PROVE  asked'[TaskOf(c, i)] = RequestOf(stream[c], b[i - 1], b[i] - 1)
  <2>1. CASE i = n
    BY <1>3, <2>1, SubmitsOne
  <2>2. CASE i # n
    <3>1. i \in 1..n - 1 /\ i \in 1..MaxReq
      BY <1>1, <2>2, HttpAssumption
    <3>2. asked'[TaskOf(c, i)] = asked[TaskOf(c, i)]
      BY <2>2, <3>1, SubmitsOne
    <3> QED
      BY <1>3, <3>1, <3>2
  <2> QED
    BY <2>1, <2>2
<1>6. Asked(c, n, b)'
  BY <1>3, <1>5 DEF Asked, Submits
<1>7. Where(c, b[n])'
  <2>1. context[c].taken <= received[c] \div 2
    BY DEF Asking, Where
  <2>2. Fresh(b[n], context'[c]) \/ io'[c] # "idle"
    BY <1>3 DEF Fresh
  <2> QED
    BY <1>3, <2>1, <2>2 DEF Where, Submits
<1>8. b \in [0..n -> 1..context'[c].taken + 1]
  BY <1>3
<1> QED
  BY <1>1, <1>4, <1>6, <1>7, <1>8 DEF Asking

\* Moved() and reset(), part by part.
LEMMA Cleared ==
  ASSUME NEW y \in Context
  PROVE  /\ Moved(y) \in Context /\ reset(Moved(y)) \in Context
         /\ Moved(y).taken = y.taken /\ reset(Moved(y)).taken = y.taken
         /\ Moved(y).request = NoRequest /\ reset(Moved(y)).request = NoRequest
         /\ reset(Moved(y)).state = "kParseRequestLine"
<1>1. NoRequest \in Request
  BY DEF NoRequest, Request
<1>2. /\ Moved(y) \in Context /\ Moved(y).taken = y.taken
      /\ Moved(y).request = NoRequest
  BY <1>1 DEF Moved, Context
<1> DEFINE z == Moved(y)
<1> HIDE DEF z
<1>3. z \in Context
  BY <1>2 DEF z
<1>4. /\ reset(z) \in Context /\ reset(z).taken = z.taken
      /\ reset(z).request = NoRequest /\ reset(z).state = "kParseRequestLine"
  BY <1>1, <1>3 DEF reset, Context
<1> QED
  BY <1>2, <1>4 DEF z

LEMMA RequestInv == ASSUME HttpInv, NEW c \in Conn, OnRequest(c) PROVE HttpInv'
<1>1. /\ UNCHANGED <<connected, sent, aborted>> /\ io[c] = "done"
      /\ context' = [context EXCEPT ![c] = Moved(@)]
      /\ io' = [io EXCEPT ![c] = "submit"]
  BY DEF OnRequest, answerVars
<1>2. PICK n \in 1..MaxReq : Submits(c, n) /\ Submit(c, TaskOf(c, n))
  BY DEF OnRequest, Submits, Submit
<1>3. HttpTypeOK
  BY DEF HttpInv
<1>4. TypeOK' /\ main = "started" /\ UNCHANGED <<main, threads>>
  BY <1>2, <1>3, SubmitTyped DEF HttpTypeOK, Conn
<1>5. /\ asked' \in [Task -> Request]
      /\ \A d \in Conn : d # c => SameTasks(d)
  BY <1>2, <1>3, SubmitsOne
<1>6. context[c] \in Context
  BY <1>3 DEF HttpTypeOK
<1>7. Moved(context[c]) \in Context
  BY <1>6, Cleared
<1>8. context'[c] = Moved(context[c]) /\ io'[c] = "submit"
  BY <1>1, <1>3 DEF HttpTypeOK
<1>9. HttpTypeOK'
  <2>1. context' \in [Conn -> Context] /\ io' \in [Conn -> {"idle", "done", "submit", "spin"}]
    BY <1>1, <1>3, <1>7 DEF HttpTypeOK
  <2>2. UNCHANGED <<stream, received>>
    BY <1>2 DEF Submits
  <2> QED
    BY <1>1, <1>3, <1>4, <1>5, <2>1, <2>2 DEF HttpTypeOK
<1>10. threads # {} /\ sent[c] = <<>>
  BY <1>2 DEF HttpInv, Unanswered, Submit
<1>11. Unanswered'
  BY <1>1, <1>4, <1>10 DEF HttpInv, Unanswered
<1>12. Asking(c)' /\ Answering(c)'
  <2>1. Asking(c)'
    BY <1>1, <1>2, <1>3, <1>6, <1>8, Cleared, SubmitsAsking DEF HttpInv
  <2>2. sent'[c] = <<>> /\ threads' # {}
    BY <1>1, <1>4, <1>10
  <2>3. DOMAIN sent'[c] = {}
    BY <2>2
  <2> QED
    BY <2>1, <2>2, <2>3 DEF Answering
<1>13. ASSUME NEW d \in Conn, d # c PROVE Asking(d)' /\ Answering(d)'
  <2>1. SameTasks(d)
    BY <1>5, <1>13
  <2>2. UNCHANGED <<stream, received>> /\ context'[d] = context[d] /\ io'[d] = io[d]
    BY <1>1, <1>2, <1>3, <1>13 DEF Submits, HttpTypeOK
  <2>3. Asking(d)'
    BY <2>1, <2>2, AskingSame DEF HttpInv
  <2>4. Answering(d)'
    BY <1>1, <1>3, <1>4, <2>1, AnsweringSame DEF HttpInv
  <2> QED
    BY <2>3, <2>4
<1> QED
  BY <1>9, <1>11, <1>12, <1>13 DEF HttpInv

\* The response to a request, and what it does to the connection.
Reply(c, task, version) ==
  \E text \in [version : {version}, status : {"k200OK", "k404NotFound"},
               end : {"close", "Content-Length"}] :
    /\ sent' = [sent EXCEPT ![c] = Append(@, [task |-> task, text |-> text])]
    /\ connected' = [connected EXCEPT ![c] = text.end # "close"]

LEMMA Replied ==
  ASSUME HttpTypeOK, NEW c \in Conn, NEW n \in 1..MaxReq, NEW r \in Request,
         onRequestInThreadPool(TaskOf(c, n), r)
  PROVE  \/ aborted' /\ UNCHANGED <<connected, sent>>
         \/ ~connected[c] /\ UNCHANGED <<connected, sent, aborted>>
         \/ connected[c] /\ Reply(c, TaskOf(c, n), r.version) /\ UNCHANGED aborted
<1> DEFINE task == TaskOf(c, n)
           new == HttpResponse(r.connection = "close" \/ r.version = "kHttp10")
<1>1. ConnOf(task) = c
  BY DEF ConnOf, TaskOf
<1>2. PICK found \in BOOLEAN :
        LET response == IF callback = "user" THEN userHttpCallback(r, new, found)
                        ELSE defaultHttpCallback(r, new)
        IN IF response.version = "kUnknownVersion"
           THEN aborted' = TRUE /\ UNCHANGED <<connected, sent>>
           ELSE /\ sent' = IF connected[c]
                           THEN [sent EXCEPT ![c] = Append(@, [task |-> task,
                                   text |-> appendToBuffer(response)])]
                           ELSE sent
                /\ connected' = [connected EXCEPT ![c] = @ /\ ~response.close]
                /\ UNCHANGED aborted
  BY <1>1 DEF onRequestInThreadPool
<1> DEFINE response == IF callback = "user" THEN userHttpCallback(r, new, found)
                       ELSE defaultHttpCallback(r, new)
<1>3. CASE response.version = "kUnknownVersion"
  BY <1>2, <1>3
<1>4. CASE response.version # "kUnknownVersion"
  <2>1. /\ new.version = "kUnknownVersion" /\ new.close \in BOOLEAN
        /\ new = [version |-> "kUnknownVersion", status |-> "kInvalidStatus",
                  close |-> new.close]
    BY DEF HttpResponse
  <2> HIDE DEF new
  <2>2. callback = "user"
    BY <1>4, <2>1 DEF defaultHttpCallback
  <2>3. response = userHttpCallback(r, new, found)
    BY <2>2
  <2>4. /\ response.version = r.version
        /\ response.status \in {"k200OK", "k404NotFound"}
        /\ response.close \in BOOLEAN
    BY <2>1, <2>3 DEF userHttpCallback
  <2> HIDE DEF response
  <2> DEFINE text == appendToBuffer(response)
  <2>5. /\ text \in [version : {r.version}, status : {"k200OK", "k404NotFound"},
                     end : {"close", "Content-Length"}]
        /\ text.end # "close" <=> ~response.close
    BY <2>4 DEF appendToBuffer
  <2>6. /\ sent' = IF connected[c]
                   THEN [sent EXCEPT ![c] = Append(@, [task |-> task, text |-> text])]
                   ELSE sent
        /\ connected' = [connected EXCEPT ![c] = connected[c] /\ ~response.close]
        /\ UNCHANGED aborted
    BY <1>2, <1>4 DEF response
  <2> HIDE DEF text
  <2>7. connected \in [Conn -> BOOLEAN]
    BY DEF HttpTypeOK
  <2>8. CASE connected[c]
    <3>1. (connected[c] /\ ~response.close) = (text.end # "close")
      BY <2>5, <2>8
    <3>2. connected' = [connected EXCEPT ![c] = text.end # "close"]
      BY <2>6, <3>1
    <3>3. Reply(c, task, r.version)
      BY <2>5, <2>6, <2>8, <3>2 DEF Reply
    <3> QED
      BY <2>6, <2>8, <3>3
  <2>9. CASE ~connected[c]
    <3>1. (connected[c] /\ ~response.close) = connected[c]
      BY <2>7, <2>9
    <3>2. connected' = connected
      BY <2>6, <2>7, <3>1
    <3> QED
      BY <2>6, <2>9, <3>2
  <2> QED
    BY <2>8, <2>9
<1> QED
  BY <1>3, <1>4

\* A reply is the answer to the request after those that were answered.
LEMMA ReplyAnswering ==
  ASSUME HttpInv, NEW c \in Conn, NEW n \in 1..MaxReq, Submits(c, n),
         threads = {}, ~aborted, connected[c], UNCHANGED aborted,
         Reply(c, TaskOf(c, n), context[c].request.version)
  PROVE  /\ sent' \in [Conn -> Seq(Response)] /\ connected' \in [Conn -> BOOLEAN]
         /\ \A d \in Conn : d # c => sent'[d] = sent[d] /\ connected'[d] = connected[d]
         /\ Answering(c)'
<1> DEFINE task == TaskOf(c, n)
           v == context[c].request.version
<1>1. PICK text \in [version : {v}, status : {"k200OK", "k404NotFound"},
                     end : {"close", "Content-Length"}] :
        /\ sent' = [sent EXCEPT ![c] = Append(@, [task |-> task, text |-> text])]
        /\ connected' = [connected EXCEPT ![c] = text.end # "close"]
  BY DEF Reply
<1> DEFINE answer == [task |-> task, text |-> text]
<1>2. HttpTypeOK
  BY DEF HttpInv
<1>3. sent[c] \in Seq(Response) /\ Len(sent[c]) \in Nat /\ connected \in [Conn -> BOOLEAN]
  BY <1>2, LenProperties DEF HttpTypeOK
<1>4. answer \in Response
  <2>1. v \in {"kUnknownVersion", "kHttp10", "kHttp11", "kHttp20"}
    BY <1>2 DEF HttpTypeOK, Context, Request
  <2>2. task \in Task
    BY TasksKnown
  <2> QED
    BY <1>1, <2>1, <2>2 DEF Response
<1>5. sent'[c] = Append(sent[c], answer) /\ connected'[c] = (text.end # "close")
  BY <1>1, <1>2 DEF HttpTypeOK
<1>6. /\ answer.task = task /\ answer.text.version = v
      /\ answer.text.end = text.end
  BY <1>1
<1> HIDE DEF answer
<1>7. /\ sent'[c] \in Seq(Response) /\ Len(sent'[c]) = Len(sent[c]) + 1
      /\ DOMAIN sent'[c] = 1..Len(sent[c]) + 1
      /\ \A i \in 1..Len(sent[c]) : sent'[c][i] = sent[c][i]
      /\ sent'[c][Len(sent[c]) + 1] = answer
  BY <1>3, <1>4, <1>5, AppendProperties
<1>8. /\ sent' \in [Conn -> Seq(Response)] /\ connected' \in [Conn -> BOOLEAN]
      /\ \A d \in Conn : d # c => sent'[d] = sent[d] /\ connected'[d] = connected[d]
  BY <1>1, <1>2, <1>7 DEF HttpTypeOK
<1>9. DOMAIN sent[c] = 1..Len(sent[c])
  BY <1>3, LenProperties
<1>10. Answering(c)
  BY DEF HttpInv
<1>11. n = Len(sent[c]) + 1
  <2>1. n \in Nat /\ MaxReq \in Nat
    BY HttpAssumption
  <2>2. ~(n <= Len(sent[c]))
    <3>1. n <= Len(sent[c]) => n \in DOMAIN sent[c]
      BY <1>3, <1>9, <2>1
    <3> QED
      BY <1>10, <3>1 DEF Answering, Answers, Submits
  <2>3. n - 1 <= Len(sent[c])
    <3>1. CASE n = 1
      BY <1>3, <3>1
    <3>2. CASE n # 1
      <4>1. n - 1 \in 1..n - 1 /\ n - 1 \in 1..MaxReq
        BY <2>1, <3>2
      <4> QED
        BY <1>10, <4>1 DEF Answering, Submits
    <3> QED
      BY <3>1, <3>2
  <2> QED
    BY <1>3, <2>1, <2>2, <2>3
<1>12. ASSUME NEW i \in DOMAIN sent'[c] PROVE Answers(c, i)'
  <2>1. CASE i = n
    <3>1. sent'[c][i] = answer /\ i = Len(sent'[c])
      BY <1>7, <1>11, <2>1
    <3>2. i <= MaxReq /\ TaskOf(c, i) \notin unused'
      BY <2>1, HttpAssumption DEF Submits
    <3>3. asked'[TaskOf(c, i)] = context[c].request
      BY <1>2, <2>1, SubmitsOne
    <3>4. text.end = "close" <=> ~connected'[c]
      BY <1>5
    <3> QED
      BY <1>6, <2>1, <3>1, <3>2, <3>3, <3>4 DEF Answers
  <2>2. CASE i # n
    <3>1. i \in 1..Len(sent[c]) /\ i # Len(sent'[c])
      BY <1>3, <1>7, <1>11, <2>2
    <3>2. sent'[c][i] = sent[c][i] /\ Answers(c, i)
      BY <1>7, <1>9, <1>10, <3>1 DEF Answering
    <3>3. i \in 1..MaxReq
      BY <1>3, <3>1, <3>2, HttpAssumption DEF Answers
    <3>4. /\ TaskOf(c, i) \in unused' <=> TaskOf(c, i) \in unused
          /\ asked'[TaskOf(c, i)] = asked[TaskOf(c, i)]
      BY <1>2, <2>2, <3>3, SubmitsOne
    <3> QED
      BY <3>1, <3>2, <3>4 DEF Answers
  <2> QED
    BY <2>1, <2>2
<1>13. ASSUME NEW i \in 1..MaxReq, TaskOf(c, i) \notin unused'
       PROVE  i <= Len(sent'[c])
  <2>1. CASE i = n
    BY <1>3, <1>7, <1>11, <2>1
  <2>2. CASE i # n
    <3>1. TaskOf(c, i) \notin unused
      BY <1>2, <1>13, <2>2, SubmitsOne
    <3>2. i <= Len(sent[c])
      BY <1>10, <3>1 DEF Answering
    <3> QED
      BY <1>3, <1>7, <3>2
  <2> QED
    BY <2>1, <2>2
<1> QED
  BY <1>8, <1>12, <1>13 DEF Answering

\* The same without a reply: the connection was closed, or the program aborts.
LEMMA NoReplyAnswering ==
  ASSUME HttpInv, NEW c \in Conn, NEW n \in 1..MaxReq, Submits(c, n),
         UNCHANGED <<connected, sent>>, aborted' \/ ~connected[c]
  PROVE  Answering(c)'
<1>1. HttpTypeOK /\ Answering(c)
  BY DEF HttpInv
<1>2. ASSUME NEW i \in DOMAIN sent'[c] PROVE Answers(c, i)'
  <2>1. Answers(c, i)
    BY <1>1 DEF Answering
  <2>2. i \in 1..MaxReq
    <3>1. i \in 1..Len(sent[c])
      BY <1>1, LenProperties DEF HttpTypeOK
    <3> QED
      BY <2>1, <3>1, HttpAssumption DEF Answers
  <2>3. i # n
    BY <2>1 DEF Answers, Submits
  <2>4. /\ TaskOf(c, i) \in unused' <=> TaskOf(c, i) \in unused
        /\ asked'[TaskOf(c, i)] = asked[TaskOf(c, i)]
    BY <1>1, <2>2, <2>3, SubmitsOne
  <2> QED
    BY <2>1, <2>4 DEF Answers
<1> QED
  BY <1>2 DEF Answering

LEMMA InlineInv == ASSUME HttpInv, NEW c \in Conn, OnRequestInline(c) PROVE HttpInv'
<1>1. /\ io[c] = "done" /\ ~aborted
      /\ context' = [context EXCEPT ![c] = reset(Moved(@))]
      /\ io' = [io EXCEPT ![c] = "idle"]
  BY DEF OnRequestInline
<1>2. PICK n \in 1..MaxReq : /\ Submits(c, n) /\ SubmitInline(c, TaskOf(c, n))
                             /\ onRequestInThreadPool(TaskOf(c, n), context[c].request)
  BY DEF OnRequestInline, Submits, SubmitInline
<1>3. HttpTypeOK
  BY DEF HttpInv
<1>4. TypeOK' /\ main = "started" /\ UNCHANGED <<main, threads>> /\ threads = {}
  BY <1>2, <1>3, SubmitTyped DEF HttpTypeOK, Conn, SubmitInline
<1>5. /\ asked' \in [Task -> Request]
      /\ \A d \in Conn : d # c => SameTasks(d)
  BY <1>2, <1>3, SubmitsOne
<1>6. context[c] \in Context /\ context[c].request \in Request
  BY <1>3 DEF HttpTypeOK, Context
<1>7. reset(Moved(context[c])) \in Context
  BY <1>6, Cleared
<1>8. context'[c] = reset(Moved(context[c])) /\ io'[c] = "idle"
  BY <1>1, <1>3 DEF HttpTypeOK
<1>9. /\ sent' \in [Conn -> Seq(Response)] /\ connected' \in [Conn -> BOOLEAN]
      /\ aborted' \in BOOLEAN
      /\ \A d \in Conn : d # c => sent'[d] = sent[d] /\ connected'[d] = connected[d]
      /\ Answering(c)'
  <2> DEFINE r == context[c].request
  <2>1. \/ aborted' /\ UNCHANGED <<connected, sent>>
        \/ ~connected[c] /\ UNCHANGED <<connected, sent, aborted>>
        \/ connected[c] /\ Reply(c, TaskOf(c, n), r.version) /\ UNCHANGED aborted
    BY <1>2, <1>3, <1>6, Replied
  <2>2. aborted' \in BOOLEAN
    BY <1>2, <1>3 DEF onRequestInThreadPool, HttpTypeOK
  <2>3. CASE UNCHANGED <<connected, sent>> /\ (aborted' \/ ~connected[c])
    BY <1>2, <1>3, <2>2, <2>3, NoReplyAnswering DEF HttpTypeOK
  <2>4. CASE connected[c] /\ Reply(c, TaskOf(c, n), r.version) /\ UNCHANGED aborted
    BY <1>1, <1>2, <1>4, <2>2, <2>4, ReplyAnswering
  <2> QED
    BY <2>1, <2>3, <2>4
<1>10. UNCHANGED <<stream, received>>
  BY <1>2 DEF Submits
<1>11. HttpTypeOK'
  <2>1. context' \in [Conn -> Context] /\ io' \in [Conn -> {"idle", "done", "submit", "spin"}]
    BY <1>1, <1>3, <1>7 DEF HttpTypeOK
  <2> QED
    BY <1>3, <1>4, <1>5, <1>9, <1>10, <2>1 DEF HttpTypeOK
<1>12. Unanswered'
  BY <1>4 DEF Unanswered
<1>13. Asking(c)'
  BY <1>1, <1>2, <1>3, <1>6, <1>8, Cleared, SubmitsAsking DEF HttpInv
<1>14. ASSUME NEW d \in Conn, d # c PROVE Asking(d)' /\ Answering(d)'
  <2>1. SameTasks(d)
    BY <1>5, <1>14
  <2>2. context'[d] = context[d] /\ io'[d] = io[d]
    BY <1>1, <1>3, <1>14 DEF HttpTypeOK
  <2>3. Asking(d)'
    BY <1>10, <2>1, <2>2, AskingSame DEF HttpInv
  <2>4. Answering(d)'
    BY <1>1, <1>3, <1>4, <1>9, <1>14, <2>1, AnsweringSame DEF HttpInv
  <2> QED
    BY <2>3, <2>4
<1> QED
  BY <1>9, <1>11, <1>12, <1>13, <1>14 DEF HttpInv

-----------------------------------------------------------------------------
LEMMA HttpInitInv == HttpInit => HttpInv
<1> SUFFICES ASSUME HttpInit PROVE HttpInv
  OBVIOUS
<1>1. HttpTypeOK
  <2>1. TypeOK
    BY EmptySeq, ThreadPoolAssumption DEF HttpInit, Init, TypeOK, WorkerState
  <2>2. stream \in [Conn -> Seq(Text)]
    BY HttpAssumption DEF HttpInit
  <2>3. NoRequest \in Request
    BY DEF NoRequest, Request
  <2>4. NewContext \in Context
    BY <2>3 DEF NewContext, Context
  <2>5. sent \in [Conn -> Seq(Response)]
    BY EmptySeq DEF HttpInit
  <2> QED
    BY <2>1, <2>2, <2>3, <2>4, <2>5 DEF HttpInit, HttpTypeOK
<1>2. Unanswered
  BY DEF HttpInit, Init, Unanswered
<1>3. ASSUME NEW c \in Conn PROVE Asking(c) /\ Answering(c)
  <2>1. \A n \in 1..MaxReq : TaskOf(c, n) \in unused
    BY TasksKnown DEF HttpInit, Init
  <2>2. /\ context[c] = NewContext /\ io[c] = "idle" /\ received[c] = 0
        /\ sent[c] = <<>>
    BY DEF HttpInit
  <2>3. Answering(c)
    <3>1. DOMAIN sent[c] = {}
      BY <2>2
    <3> QED
      BY <2>1, <3>1 DEF Answering
  <2> DEFINE b == [i \in 0..0 |-> 1]
  <2>4. 0 \in 0..MaxReq /\ Submitted(c, 0)
    BY <2>1, HttpAssumption DEF Submitted
  <2>5. context[c].taken = 0 /\ b \in [0..0 -> 1..context[c].taken + 1] /\ b[0] = 1
    BY <2>2 DEF NewContext
  <2> HIDE DEF b
  <2>6. Asked(c, 0, b)
    BY <2>5 DEF Asked, Chain
  <2>7. Where(c, b[0])
    <3>1. Fresh(1, context[c])
      BY <2>2 DEF Fresh, NewContext
    <3>2. 0 <= 0 \div 2
      OBVIOUS
    <3> QED
      BY <2>2, <2>5, <3>1, <3>2 DEF Where
  <2>8. Asking(c)
    BY <2>4, <2>5, <2>6, <2>7 DEF Asking
  <2> QED
    BY <2>3, <2>8
<1> QED
  BY <1>1, <1>2, <1>3 DEF HttpInv

LEMMA HttpNextInv == HttpInv /\ [HttpNext]_allVars => HttpInv'
<1> SUFFICES ASSUME HttpInv, [HttpNext]_allVars PROVE HttpInv'
  OBVIOUS
<1>1. CASE UNCHANGED allVars
  <2>1. UNCHANGED <<stream, received, context, io, asked, connected, sent, aborted>>
        /\ UNCHANGED vars
    BY <1>1 DEF allVars, httpVars, connVars, answerVars
  <2>2. UNCHANGED <<main, threads, unused>> /\ TypeOK'
    BY <2>1 DEF vars, HttpInv, HttpTypeOK, TypeOK
  <2>3. HttpTypeOK' /\ Unanswered'
    BY <2>1, <2>2 DEF HttpInv, HttpTypeOK, Unanswered
  <2>4. ASSUME NEW c \in Conn PROVE Asking(c)' /\ Answering(c)'
    <3>1. SameTasks(c)
      BY <2>1, <2>2 DEF SameTasks
    <3> QED
      BY <2>1, <2>2, <3>1, AskingSame, AnsweringSame DEF HttpInv
  <2> QED
    BY <2>3, <2>4 DEF HttpInv
<1> QED
  BY <1>1, OwnerInv, PoolInv, MessageInv, SubmitStepInv, RequestInv, InlineInv
  DEF HttpNext, IoStep

\* HttpServer::onMessage(), onRequest() and the pool keep the invariant.
THEOREM HttpInvariant == HttpSpec => []HttpInv
BY HttpInitInv, HttpNextInv, PTL DEF HttpSpec

\* HttpServer and HttpContext, for any connections, streams, reads, worker
\* threads and bound on the requests: the tasks ask for what the streams ask
\* for, and the responses are in that order, once each and in the version of
\* their requests, with the closing one last.
THEOREM InOrder == HttpSpec => []AnswersInOrder
<1>1. HttpInv => AnswersInOrder
  <2> SUFFICES ASSUME HttpInv PROVE AnswersInOrder
    OBVIOUS
  <2>1. TypeOK
    BY DEF HttpInv, HttpTypeOK
  <2>2. ASSUME NEW c \in Conn
        PROVE  /\ \A n \in 1..MaxReq :
                    TaskOf(c, n) \notin unused
                      => n <= Len(Complete(c)) /\ asked[TaskOf(c, n)] = Complete(c)[n]
               /\ io[c] = "spin"
                    => /\ HasLine(c) /\ context[c].state = "kParseRequestLine"
                       /\ stream[c][context[c].taken + 1] \notin DOMAIN Version
    <3> DEFINE s == stream[c]
               m == received[c] \div 2
    <3>1. PICK k \in 0..MaxReq :
            /\ Submitted(c, k)
            /\ \E b \in [0..k -> 1..context[c].taken + 1] : Asked(c, k, b) /\ Where(c, b[k])
      BY DEF HttpInv, Asking
    <3>2. PICK b \in [0..k -> 1..context[c].taken + 1] : Asked(c, k, b) /\ Where(c, b[k])
      BY <3>1
    <3>3. received[c] \in Nat /\ context[c] \in Context
      BY DEF HttpInv, HttpTypeOK
    <3>4. m \in Nat /\ context[c].taken \in 0..m /\ k \in Nat
      <4>1. m \in Nat /\ context[c].taken \in Nat
        BY <3>3 DEF Context
      <4>2. context[c].taken <= m
        BY <3>2 DEF Where
      <4> QED
        BY <4>1, <4>2, HttpAssumption
    <3>5. /\ k <= Len(Requests(s, m))
          /\ \A i \in 1..k : Requests(s, m)[i] = RequestOf(s, b[i - 1], b[i] - 1)
      <4> DEFINE t == context[c].taken
      <4>1. Chain(s, b, k, t) /\ m \in Nat /\ t \in 0..m /\ k \in Nat
        BY <3>2, <3>4 DEF Asked
      <4> HIDE DEF s, m, t
      <4>2. BeginsWith(Requests(s, m), s, b, k)
        BY <4>1, ChainRequests
      <4> QED
        BY <4>2 DEF BeginsWith
    <3>6. ASSUME NEW n \in 1..MaxReq, TaskOf(c, n) \notin unused
          PROVE  n <= Len(Complete(c)) /\ asked[TaskOf(c, n)] = Complete(c)[n]
      <4>1. n <= k
        BY <3>1, <3>6 DEF Submitted
      <4>2. n \in 1..k
        BY <3>4, <4>1
      <4>3. asked[TaskOf(c, n)] = Requests(s, m)[n]
        BY <3>2, <3>5, <4>2 DEF Asked
      <4>4. n <= Len(Requests(s, m))
        BY <3>5, <4>1, <3>4 DEF Complete
      <4> QED
        BY <4>3, <4>4 DEF Complete
    <3>7. ASSUME io[c] = "spin"
          PROVE  /\ HasLine(c) /\ context[c].state = "kParseRequestLine"
                 /\ stream[c][context[c].taken + 1] \notin DOMAIN Version
      BY <3>2, <3>7 DEF Where, Stuck, Fresh, HasLine
    <3> QED
      BY <3>6, <3>7
  <2>3. ASSUME NEW c \in Conn, NEW i \in DOMAIN sent[c]
        PROVE  /\ sent[c][i].task = TaskOf(c, i)
               /\ sent[c][i].text.version = asked[TaskOf(c, i)].version
               /\ sent[c][i].text.end = "close" <=> i = Len(sent[c]) /\ ~connected[c]
    BY DEF HttpInv, Answering, Answers
  <2> QED
    BY <2>1, <2>2, <2>3 DEF AnswersInOrder
<1> QED
  BY <1>1, HttpInvariant, PTL

\* With worker threads in the pool no response has been sent.
NeverAnswered == threads # {} => \A c \in Conn : sent[c] = <<>>

\* ThreadPool::take() waits until the queue is empty, so a worker never has a
\* task to run: with worker threads no request is ever answered.
THEOREM WorkersAnswerNothing == HttpSpec => []NeverAnswered
<1>1. HttpInv => NeverAnswered
  BY DEF HttpInv, Unanswered, NeverAnswered
<1> QED
  BY <1>1, HttpInvariant, PTL
=============================================================================
