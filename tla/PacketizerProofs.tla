--------------------------- MODULE PacketizerProofs ---------------------------
(***************************************************************************)
(* Proofs about Ring and Packetizer.  The ring keeps the bytes, whatever    *)
(* grab joins and consume cuts; the packetizer finds the messages of the    *)
(* bytes that came, whatever the chunks they came in.                       *)
(***************************************************************************)
EXTENDS Packetizer, SequenceLemmas

-----------------------------------------------------------------------------
(* The ring. *)

Buffers == Seq(Bytes) \ {<<>>}

LEMMA BuffersAreSequences ==
  ASSUME NEW bs \in Seq(Buffers)
  PROVE  bs \in Seq(Seq(Bytes)) /\ FlattenSeq(bs) \in Seq(Bytes)
<1>1. bs \in Seq(Seq(Bytes))
  BY SeqMonotonic DEF Buffers
<1> QED
  BY <1>1, FlattenType

(* The first of the buffers is where the bytes begin. *)
LEMMA FirstBuffer ==
  ASSUME NEW bs \in Seq(Buffers), FlattenSeq(bs) # <<>>
  PROVE  /\ bs # <<>> /\ bs[1] \in Buffers /\ Tail(bs) \in Seq(Buffers)
         /\ FlattenSeq(bs) = bs[1] \o FlattenSeq(Tail(bs))
         /\ FlattenSeq(bs)[1] = bs[1][1] /\ bs[1][1] \in Bytes
<1>1. bs # <<>>
  BY FlattenEmpty
<1>2. bs[1] \in Buffers /\ Tail(bs) \in Seq(Buffers)
  BY <1>1
<1>3. FlattenSeq(bs) = bs[1] \o FlattenSeq(Tail(bs))
  BY <1>1, BuffersAreSequences, FlattenHeadTail
<1>4. bs[1] \in Seq(Bytes) /\ bs[1] # <<>> /\ FlattenSeq(Tail(bs)) \in Seq(Bytes)
  BY <1>2, BuffersAreSequences DEF Buffers
<1>5. Len(bs[1]) \in Nat /\ Len(bs[1]) >= 1 /\ bs[1][1] \in Bytes
  BY <1>4
<1>6. (bs[1] \o FlattenSeq(Tail(bs)))[1] = bs[1][1]
  <2> DEFINE x == bs[1]
             y == FlattenSeq(Tail(bs))
  <2>1. x \in Seq(Bytes) /\ y \in Seq(Bytes) /\ Len(x) \in Nat /\ Len(x) >= 1
    BY <1>4, <1>5
  <2> HIDE DEF x, y
  <2>2. (x \o y)[1] = x[1]
    BY <2>1, ConcatProperties
  <2> QED
    BY <2>2 DEF x, y
<1> QED
  BY <1>1, <1>2, <1>3, <1>5, <1>6

(* There is a least number of buffers that have n bytes. *)
LEMMA NeededExists ==
  ASSUME NEW bs \in Seq(Buffers), NEW n \in Nat, n <= Len(FlattenSeq(bs))
  PROVE  LET k == Needed(bs, n)
         IN  k \in 0..Len(bs) /\ Len(FlattenSeq(SubSeq(bs, 1, k))) >= n
<1> DEFINE enough(k) == Len(FlattenSeq(SubSeq(bs, 1, k))) >= n
           fewer(k) == Len(FlattenSeq(SubSeq(bs, 1, k))) < n
           T == {k \in 0..Len(bs) : enough(k)}
<1>1. Len(bs) \in T
  <2>1. SubSeq(bs, 1, Len(bs)) = bs /\ Len(bs) \in 0..Len(bs)
    BY SubSeqFull
  <2> QED
    BY <2>1
<1>2. T \in SUBSET Nat /\ T # {}
  <2>1. T \subseteq 0..Len(bs)
    OBVIOUS
  <2>2. 0..Len(bs) \subseteq Nat
    OBVIOUS
  <2> QED
    BY <1>1, <2>1, <2>2
<1> HIDE DEF T
<1>3. PICK k \in T : \A j \in T : k <= j
  BY <1>2, LeastNumber
<1>4. k \in 0..Len(bs) /\ enough(k)
  BY <1>3 DEF T
<1>5. ASSUME NEW j \in 0..(k - 1) PROVE fewer(j)
  <2>1. j \in 0..Len(bs) /\ ~(k <= j)
    BY <1>4
  <2>2. ~enough(j)
    BY <1>3, <2>1 DEF T
  <2>3. FlattenSeq(SubSeq(bs, 1, j)) \in Seq(Bytes)
    <3>1. SubSeq(bs, 1, j) = SubSeq(bs, 0 + 1, j) /\ j \in Nat /\ j <= Len(bs)
      BY <2>1
    <3>2. SubSeq(bs, 1, j) \in Seq(Buffers)
      BY <3>1, SubSeqType
    <3> QED
      BY <3>2, BuffersAreSequences
  <2> QED
    BY <2>2, <2>3
<1>6. \E i \in 0..Len(bs) : enough(i) /\ \A j \in 0..(i - 1) : fewer(j)
  BY <1>4, <1>5
<1> DEFINE c == CHOOSE i \in 0..Len(bs) : enough(i) /\ \A j \in 0..(i - 1) : fewer(j)
<1>7. c \in 0..Len(bs) /\ enough(c)
  BY <1>6, Zenon
<1>8. c = Needed(bs, n)
  BY DEF Needed
<1> QED
  BY <1>7, <1>8

(* grab: the same bytes, and the first buffer has n of them. *)
LEMMA GrabbedKeeps ==
  ASSUME NEW bs \in Seq(Buffers), NEW n \in Nat, 0 < n, n <= Len(FlattenSeq(bs))
  PROVE  /\ Grabbed(bs, n) \in Seq(Buffers)
         /\ FlattenSeq(Grabbed(bs, n)) = FlattenSeq(bs)
         /\ Grabbed(bs, n) # <<>> /\ Len(Grabbed(bs, n)[1]) >= n
<1>0. FlattenSeq(bs) # <<>>
  BY FlattenEmpty
<1>1. CASE Len(bs[1]) >= n
  <2>1. Grabbed(bs, n) = bs
    BY <1>1 DEF Grabbed
  <2> QED
    BY <1>0, <1>1, <2>1, FirstBuffer
<1>2. CASE ~(Len(bs[1]) >= n)
  <2> DEFINE k == Needed(bs, n)
             x == SubSeq(bs, 1, k)
             y == SubSeq(bs, k + 1, Len(bs))
             f == FlattenSeq(x)
  <2>1. k \in 0..Len(bs) /\ Len(f) >= n
    BY NeededExists
  <2>2. Grabbed(bs, n) = <<f>> \o y
    <3>1. Grabbed(bs, n) = IF n = 0 \/ Len(bs[1]) >= n THEN bs ELSE <<f>> \o y
      BY Zenon DEF Grabbed
    <3>2. n # 0
      OBVIOUS
    <3> QED
      BY <1>2, <3>1, <3>2, Zenon
  <2> HIDE DEF k
  <2>3. k \in Nat /\ k <= Len(bs) /\ Len(bs) \in Nat
    BY <2>1
  <2>4. x \in Seq(Buffers) /\ y \in Seq(Buffers)
    <3>1. x = SubSeq(bs, 0 + 1, k)
      OBVIOUS
    <3> QED
      BY <2>3, <3>1, SubSeqType
  <2>5. FlattenSeq(bs) = f \o FlattenSeq(y)
    BY <2>3, BuffersAreSequences, FlattenCut
  <2> HIDE DEF x, y
  <2>6. f \in Seq(Bytes) /\ y \in Seq(Seq(Bytes))
    BY <2>4, BuffersAreSequences
  <2> HIDE DEF f
  <2>7. f \in Buffers
    BY <2>1, <2>6 DEF Buffers
  <2>8. <<f>> \o y \in Seq(Buffers) /\ <<f>> \o y # <<>> /\ (<<f>> \o y)[1] = f
    BY <2>4, <2>7
  <2>9. FlattenSeq(<<f>> \o y) = f \o FlattenSeq(y)
    BY <2>6, FlattenCons
  <2> QED
    BY <2>1, <2>2, <2>5, <2>8, <2>9
<1> QED
  BY <1>1, <1>2

(* consume: the first n bytes leave. *)
LEMMA ConsumedDrops ==
  ASSUME NEW bs \in Seq(Buffers), bs # <<>>, NEW n \in Nat, 0 < n, Len(bs[1]) >= n
  PROVE  /\ Consumed(bs, n) \in Seq(Buffers)
         /\ FlattenSeq(Consumed(bs, n)) = SubSeq(FlattenSeq(bs), n + 1, Len(FlattenSeq(bs)))
         /\ SubSeq(bs[1], 1, n) = SubSeq(FlattenSeq(bs), 1, n)
<1> DEFINE b == bs[1]
           t == Tail(bs)
           c == SubSeq(b, n + 1, Len(b))
           r == FlattenSeq(t)
<1>1. b \in Buffers /\ t \in Seq(Buffers) /\ FlattenSeq(bs) = b \o r
  <2>1. b \in Buffers /\ t \in Seq(Buffers)
    OBVIOUS
  <2> QED
    BY <2>1, BuffersAreSequences, FlattenHeadTail
<1>2. Consumed(bs, n) = IF Len(b) = n THEN t ELSE <<c>> \o t
  BY DEF Consumed
<1>3. Len(b) >= n
  OBVIOUS
<1> HIDE DEF b, t
<1>4. b \in Seq(Bytes) /\ r \in Seq(Bytes) /\ Len(b) \in Nat /\ t \in Seq(Seq(Bytes))
  BY <1>1, BuffersAreSequences DEF Buffers
<1>5. c \in Seq(Bytes) /\ (Len(c) = IF n < Len(b) THEN Len(b) - n ELSE 0)
  BY <1>4, SubSeqType
<1> HIDE DEF c, r
<1>6. SubSeq(b \o r, n + 1, Len(b \o r)) = c \o r
  BY <1>3, <1>4, DropOfConcat DEF c
<1>7. SubSeq(b \o r, 1, n) = SubSeq(b, 1, n)
  <2>1. SubSeq(b \o r, 0 + 1, n) = SubSeq(b, 0 + 1, n) /\ 0 + 1 = 1
    BY <1>3, <1>4, SubSeqOfConcat
  <2> QED
    BY <2>1
<1>8. CASE Len(b) = n
  <2>1. c = <<>> /\ <<>> \o r = r
    BY <1>4, <1>5, <1>8, ConcatEmptySeq
  <2> QED
    BY <1>1, <1>2, <1>6, <1>7, <1>8, <2>1 DEF b, r
<1>9. CASE Len(b) # n
  <2>1. c \in Buffers
    <3>1. Len(c) > 0
      BY <1>3, <1>4, <1>5, <1>9
    <3> QED
      BY <1>5, <3>1 DEF Buffers
  <2>2. <<c>> \o t \in Seq(Buffers)
    BY <1>1, <2>1
  <2>3. FlattenSeq(<<c>> \o t) = c \o r
    BY <1>4, <1>5, FlattenCons DEF r
  <2> QED
    BY <1>1, <1>2, <1>6, <1>7, <1>9, <2>2, <2>3 DEF b
<1> QED
  BY <1>8, <1>9

(* grab and consume together, as _get_frame and _get_msg call them. *)
LEMMA TakeBytes ==
  ASSUME NEW bs \in Seq(Buffers), NEW n \in Nat, 0 < n, n <= Len(FlattenSeq(bs))
  PROVE  LET c == Consumed(Grabbed(bs, n), n)
             f == FlattenSeq(bs)
         IN  /\ c \in Seq(Buffers)
             /\ FlattenSeq(c) = SubSeq(f, n + 1, Len(f))
             /\ SubSeq(Grabbed(bs, n)[1], 1, n) = SubSeq(f, 1, n)
<1> DEFINE g == Grabbed(bs, n)
<1>1. g \in Seq(Buffers) /\ FlattenSeq(g) = FlattenSeq(bs) /\ g # <<>> /\ Len(g[1]) >= n
  BY GrabbedKeeps
<1> HIDE DEF g
<1>2. /\ Consumed(g, n) \in Seq(Buffers)
      /\ FlattenSeq(Consumed(g, n)) = SubSeq(FlattenSeq(g), n + 1, Len(FlattenSeq(g)))
      /\ SubSeq(g[1], 1, n) = SubSeq(FlattenSeq(g), 1, n)
  BY <1>1, ConsumedDrops
<1> QED
  BY <1>1, <1>2 DEF g
-----------------------------------------------------------------------------
(* Numbers. *)

Valuing(v, s, n) ==
  v = [i \in 0..n |-> IF i <= 1 THEN 0 ELSE 256 * v[i - 1] + s[i]]

LEMMA ValuingExists ==
  ASSUME NEW s, NEW n \in Nat
  PROVE  \E v : Valuing(v, s, n)
<1> DEFINE e(v, i) == IF i <= 1 THEN 0 ELSE 256 * v[i - 1] + s[i]
           S == {k \in Nat : \E v : Valuing(v, s, k)}
<1>1. 0 \in S
  <2> DEFINE v == [i \in 0..0 |-> 0]
  <2>1. \A i \in 0..0 : e(v, i) = 0
    OBVIOUS
  <2>2. v = [i \in 0..0 |-> e(v, i)]
    BY <2>1
  <2>3. Valuing(v, s, 0)
    BY <2>2 DEF Valuing
  <2> QED
    BY <2>3
<1>2. ASSUME NEW k \in Nat, k \in S PROVE k + 1 \in S
  <2>1. PICK v : Valuing(v, s, k)
    BY <1>2
  <2> DEFINE w == [i \in 0..(k + 1) |-> IF i <= k THEN v[i] ELSE e(v, i)]
  <2>2. \A i \in 0..k : v[i] = e(v, i)
    BY <2>1, Zenon DEF Valuing
  <2>3. ASSUME NEW i \in 0..(k + 1) PROVE w[i] = e(w, i)
    <3>1. i <= 1 \/ (i - 1 \in 0..k /\ i - 1 \in 0..(k + 1))
      OBVIOUS
    <3>2. ~(i <= 1) => w[i - 1] = v[i - 1]
      BY <3>1
    <3>3. e(w, i) = e(v, i)
      BY <3>2
    <3>4. w[i] = e(v, i)
      BY <2>2
    <3> QED
      BY <3>3, <3>4
  <2> HIDE DEF e
  <2>4. w = [i \in 0..(k + 1) |-> e(w, i)]
    BY <2>3
  <2>5. Valuing(w, s, k + 1)
    BY <2>4 DEF Valuing, e
  <2> QED
    BY <2>5
<1> HIDE DEF S
<1>3. n \in S
  BY <1>1, <1>2, Induction
<1> QED
  BY <1>3 DEF S

LEMMA NumberIs ==
  ASSUME NEW s \in Seq(Nat), NEW n \in Nat, n = Len(s), n # 1
  PROVE  \E v : Valuing(v, s, n) /\ Number(s) = v[n]
<1> DEFINE v == CHOOSE u : u = [i \in 0..n |-> IF i <= 1 THEN 0 ELSE 256 * u[i - 1] + s[i]]
<1>1. Valuing(v, s, n)
  <2>1. \E u : u = [i \in 0..n |-> IF i <= 1 THEN 0 ELSE 256 * u[i - 1] + s[i]]
    <3>1. PICK u : Valuing(u, s, n)
      BY ValuingExists
    <3>2. u = [i \in 0..n |-> IF i <= 1 THEN 0 ELSE 256 * u[i - 1] + s[i]]
      BY <3>1, Zenon DEF Valuing
    <3> QED
      BY <3>2
  <2>2. v = [i \in 0..n |-> IF i <= 1 THEN 0 ELSE 256 * v[i - 1] + s[i]]
    BY <2>1, Zenon
  <2> QED
    BY <2>2, Zenon DEF Valuing
<1>2. Number(s) = v[n]
  BY Zenon DEF Number
<1> QED
  BY <1>1, <1>2

LEMMA NumberType ==
  ASSUME NEW s \in Seq(Nat)
  PROVE  Number(s) \in Nat
<1>1. CASE Len(s) = 1
  <2>1. Number(s) = s[1]
    BY <1>1, Zenon DEF Number
  <2>2. s[1] \in Nat
    <3>1. 1 \in 1..Len(s)
      BY <1>1
    <3> QED
      BY <3>1, ElementOfSeq
  <2> QED
    BY <2>1, <2>2
<1>2. CASE Len(s) # 1
  <2> DEFINE n == Len(s)
  <2>1. n \in Nat /\ n = Len(s) /\ n # 1 /\ \A i \in 1..n : s[i] \in Nat
    BY <1>2
  <2> HIDE DEF n
  <2>2. PICK v : Valuing(v, s, n) /\ Number(s) = v[n]
    BY <2>1, NumberIs
  <2>3. \A i \in 0..n : v[i] = IF i <= 1 THEN 0 ELSE 256 * v[i - 1] + s[i]
    BY <2>2 DEF Valuing
  <2> DEFINE T == {i \in Nat : i \in 0..n => v[i] \in Nat}
  <2>4. 0 \in T
    BY <2>3
  <2>5. ASSUME NEW i \in Nat, i \in T PROVE i + 1 \in T
    <3> SUFFICES ASSUME i + 1 \in 0..n PROVE v[i + 1] \in Nat
      OBVIOUS
    <3>1. PICK j \in 1..n : j = i + 1
      BY <2>1
    <3>2. v[j] = IF j <= 1 THEN 0 ELSE 256 * v[i] + s[j]
      BY <2>3, <3>1
    <3>3. v[i] \in Nat /\ s[j] \in Nat
      BY <2>1, <2>5, <3>1
    <3>4. v[j] \in Nat
      BY <3>2, <3>3
    <3> QED
      BY <3>1, <3>4
  <2> HIDE DEF T
  <2>6. n \in T
    BY <2>1, <2>4, <2>5, Induction
  <2> QED
    BY <2>1, <2>2, <2>6 DEF T
<1> QED
  BY <1>1, <1>2

-----------------------------------------------------------------------------
(* The messages of a sequence of bytes. *)

LEMMA HeadLen ==
  ASSUME NEW b \in Bytes
  PROVE  msgpack_frame_len(b) \in Nat
BY BytesAssumption DEF msgpack_frame_len

LEMMA BytesAreNumbers ==
  ASSUME NEW s \in Seq(Bytes)
  PROVE  s \in Seq(Nat)
<1>1. Bytes \subseteq Nat
  BY BytesAssumption
<1> QED
  BY <1>1, SeqMonotonic

(* A complete message ends after it begins, and within the bytes. *)
LEMMA NextType ==
  ASSUME NEW s \in Seq(Bytes), NEW p \in 0..Len(s), HeadAt(s, p) > 0, p + HeadAt(s, p) <= Len(s)
  PROVE  /\ HeadAt(s, p) \in Nat /\ SizeAt(s, p) \in Nat
         /\ NextAt(s, p) \in Nat /\ NextAt(s, p) > p
         /\ MessageAt(s, p) \in Seq(Bytes) \/ NextAt(s, p) > Len(s)
<1> DEFINE h == HeadAt(s, p)
           x == SubSeq(s, p + 1, p + h)
           n == Number(x)
<1>1. Len(s) \in Nat /\ h \in Nat
  <2>1. CASE p = Len(s)
    BY <2>1 DEF HeadAt
  <2>2. CASE p # Len(s)
    <3>1. s[p + 1] \in Bytes
      BY <2>2
    <3> QED
      BY <2>2, <3>1, HeadLen DEF HeadAt
  <2> QED
    BY <2>1, <2>2
<1>2. h > 0 /\ p + h <= Len(s) /\ NextAt(s, p) = p + h + n /\ SizeAt(s, p) = n
      /\ MessageAt(s, p) = SubSeq(s, p + h + 1, NextAt(s, p))
  BY DEF NextAt, SizeAt, MessageAt
<1> HIDE DEF h
<1>3. x \in Seq(Bytes)
  BY <1>1, <1>2, SubSeqType
<1> HIDE DEF x
<1>4. n \in Nat
  BY <1>3, BytesAreNumbers, NumberType
<1> HIDE DEF n
<1>5. NextAt(s, p) \in Nat /\ NextAt(s, p) > p /\ p + h \in Nat
  BY <1>1, <1>2, <1>4
<1>6. NextAt(s, p) <= Len(s) => MessageAt(s, p) \in Seq(Bytes)
  BY <1>1, <1>2, <1>5, SubSeqType
<1>7. NextAt(s, p) <= Len(s) \/ NextAt(s, p) > Len(s)
  BY <1>1, <1>5
<1>8. HeadAt(s, p) \in Nat /\ SizeAt(s, p) \in Nat
  BY <1>1, <1>2, <1>4 DEF h
<1> QED
  BY <1>5, <1>6, <1>7, <1>8

LEMMA CompleteIs ==
  ASSUME NEW s \in Seq(Bytes), NEW p \in 0..Len(s), CompleteAt(s, p)
  PROVE  NextAt(s, p) \in (p + 1)..Len(s) /\ MessageAt(s, p) \in Seq(Bytes)
BY NextType DEF CompleteAt

MessagesIn(a, s, p) ==
  IF CompleteAt(s, p) THEN <<MessageAt(s, p)>> \o a[NextAt(s, p)] ELSE <<>>

LEMMA MessagesAfterExists ==
  ASSUME NEW s \in Seq(Bytes)
  PROVE  \E a : a = [p \in 0..Len(s) |-> MessagesIn(a, s, p)]
<1> DEFINE n == Len(s)
           S == {k \in Nat : \E a : \A p \in 0..n : p + k > n => a[p] = MessagesIn(a, s, p)}
<1>1. n \in Nat /\ \A p \in 0..n : CompleteAt(s, p) => NextAt(s, p) \in (p + 1)..n
  BY CompleteIs
<1> HIDE DEF n
<1>2. 0 \in S
  BY <1>1
<1>3. ASSUME NEW k \in Nat, k \in S PROVE k + 1 \in S
  <2>1. PICK a : \A p \in 0..n : p + k > n => a[p] = MessagesIn(a, s, p)
    BY <1>3
  <2> DEFINE b == [p \in 0..n |-> IF p + k > n THEN a[p] ELSE MessagesIn(a, s, p)]
  <2>2. ASSUME NEW p \in 0..n, p + (k + 1) > n PROVE b[p] = MessagesIn(b, s, p)
    <3>1. b[p] = MessagesIn(a, s, p)
      BY <2>1
    <3>2. ASSUME CompleteAt(s, p) PROVE b[NextAt(s, p)] = a[NextAt(s, p)]
      <4>1. NextAt(s, p) \in 0..n /\ NextAt(s, p) + k > n
        BY <1>1, <2>2, <3>2
      <4> QED
        BY <4>1
    <3> HIDE DEF b
    <3>3. MessagesIn(b, s, p) = MessagesIn(a, s, p)
      BY <3>2 DEF MessagesIn
    <3> QED
      BY <3>1, <3>3
  <2> HIDE DEF b
  <2> QED
    BY <2>2
<1> HIDE DEF S
<1>4. n + 1 \in S
  BY <1>1, <1>2, <1>3, Induction
<1>5. PICK a : \A p \in 0..n : p + (n + 1) > n => a[p] = MessagesIn(a, s, p)
  BY <1>4 DEF S
<1> DEFINE b == [p \in 0..n |-> a[p]]
<1>6. ASSUME NEW p \in 0..n PROVE b[p] = MessagesIn(b, s, p)
  <2>1. b[p] = a[p] /\ a[p] = MessagesIn(a, s, p)
    BY <1>1, <1>5
  <2>2. ASSUME CompleteAt(s, p) PROVE b[NextAt(s, p)] = a[NextAt(s, p)]
    <3>1. NextAt(s, p) \in 0..n
      BY <1>1, <2>2
    <3> QED
      BY <3>1
  <2> HIDE DEF b
  <2>3. MessagesIn(b, s, p) = MessagesIn(a, s, p)
    BY <2>2 DEF MessagesIn
  <2> QED
    BY <2>1, <2>3
<1>7. b = [p \in 0..n |-> MessagesIn(b, s, p)]
  <2>1. b = [p \in 0..n |-> b[p]]
    OBVIOUS
  <2> HIDE DEF b
  <2> QED
    BY <1>6, <2>1
<1> HIDE DEF b
<1> QED
  BY <1>7 DEF n

(* Which messages there are after p is determined by the one at p and those *)
(* after it.                                                                *)
LEMMA MessagesAfterIs ==
  ASSUME NEW s \in Seq(Bytes), NEW p \in 0..Len(s)
  PROVE  MessagesAfter(s)[p] = MessagesIn(MessagesAfter(s), s, p)
<1>1. MessagesAfter(s) = [q \in 0..Len(s) |-> MessagesIn(MessagesAfter(s), s, q)]
  BY MessagesAfterExists, Zenon DEF MessagesAfter, MessagesIn
<1> QED
  BY <1>1, Zenon

LEMMA MessagesAfterType ==
  ASSUME NEW s \in Seq(Bytes), NEW p \in 0..Len(s)
  PROVE  MessagesAfter(s)[p] \in Seq(Seq(Bytes))
<1> DEFINE n == Len(s)
           a == MessagesAfter(s)
           S == {k \in Nat : \A q \in 0..n : q + k > n => a[q] \in Seq(Seq(Bytes))}
<1>1. /\ n \in Nat
      /\ \A q \in 0..n : CompleteAt(s, q) => /\ NextAt(s, q) \in (q + 1)..n
                                             /\ MessageAt(s, q) \in Seq(Bytes)
  BY CompleteIs
<1>2. \A q \in 0..n : a[q] = MessagesIn(a, s, q)
  BY MessagesAfterIs
<1> HIDE DEF n, a
<1>3. 0 \in S
  BY <1>1
<1>4. ASSUME NEW k \in Nat, k \in S PROVE k + 1 \in S
  <2>1. ASSUME NEW q \in 0..n, q + (k + 1) > n PROVE a[q] \in Seq(Seq(Bytes))
    <3>1. CASE ~CompleteAt(s, q)
      <4>1. a[q] = <<>>
        BY <1>2, <3>1 DEF MessagesIn
      <4> QED
        BY <4>1
    <3>2. CASE CompleteAt(s, q)
      <4> DEFINE m == MessageAt(s, q)
                 r == NextAt(s, q)
      <4>1. r \in 0..n /\ r + k > n /\ m \in Seq(Bytes)
        BY <1>1, <2>1, <3>2
      <4>2. a[r] \in Seq(Seq(Bytes))
        BY <1>4, <4>1
      <4>3. a[q] = <<m>> \o a[r]
        BY <1>2, <3>2 DEF MessagesIn
      <4> HIDE DEF m, r
      <4>4. <<m>> \o a[r] \in Seq(Seq(Bytes))
        BY <4>1, <4>2
      <4> QED
        BY <4>3, <4>4
    <3> QED
      BY <3>1, <3>2
  <2> QED
    BY <2>1
<1> HIDE DEF S
<1>5. n + 1 \in S
  BY <1>1, <1>3, <1>4, Induction
<1>6. p \in 0..n /\ p + (n + 1) > n
  BY <1>1 DEF n
<1> QED
  BY <1>5, <1>6 DEF S, a

(* What is complete does not change when more bytes come. *)
LEMMA MoreBytes ==
  ASSUME NEW s \in Seq(Bytes), NEW t \in Seq(Bytes), NEW p \in 0..Len(s),
         HeadAt(s, p) > 0, p + HeadAt(s, p) <= Len(s)
  PROVE  /\ s \o t \in Seq(Bytes) /\ p \in 0..Len(s \o t)
         /\ HeadAt(s \o t, p) = HeadAt(s, p) /\ SizeAt(s \o t, p) = SizeAt(s, p)
         /\ NextAt(s \o t, p) = NextAt(s, p)
         /\ p + HeadAt(s, p) <= Len(s \o t)
         /\ NextAt(s, p) <= Len(s) => MessageAt(s \o t, p) = MessageAt(s, p)
<1> DEFINE z == s \o t
           h == HeadAt(s, p)
<1>1. z \in Seq(Bytes) /\ Len(z) = Len(s) + Len(t) /\ Len(s) \in Nat /\ Len(t) \in Nat
      /\ \A i \in 1..Len(s) : z[i] = s[i]
  BY ConcatProperties
<1>2. p # Len(s) /\ h \in Nat /\ NextAt(s, p) \in Nat
  <2>1. p # Len(s)
    BY DEF HeadAt
  <2> QED
    BY <2>1, NextType
<1>3. \A n \in Nat, m \in Nat : n <= Len(s) => SubSeq(z, m + 1, n) = SubSeq(s, m + 1, n)
  BY SubSeqOfConcat
<1> HIDE DEF z
<1>4. HeadAt(z, p) = h
  <2>1. p + 1 \in 1..Len(s) /\ p # Len(z)
    BY <1>1, <1>2
  <2> QED
    BY <1>1, <1>2, <2>1 DEF HeadAt
<1>5. SizeAt(z, p) = SizeAt(s, p)
  <2>1. p + h \in Nat /\ p + h <= Len(s) /\ p \in Nat
    BY <1>2
  <2>2. SubSeq(z, p + 1, p + h) = SubSeq(s, p + 1, p + h)
    BY <1>3, <2>1
  <2> QED
    BY <1>4, <2>2 DEF SizeAt
<1>6. NextAt(z, p) = NextAt(s, p)
  BY <1>4, <1>5 DEF NextAt
<1>7. ASSUME NextAt(s, p) <= Len(s) PROVE MessageAt(z, p) = MessageAt(s, p)
  <2>1. p + h \in Nat
    BY <1>2
  <2> DEFINE e == NextAt(s, p)
  <2>2. e \in Nat /\ e <= Len(s)
    BY <1>2, <1>7
  <2> HIDE DEF e, h
  <2>3. SubSeq(z, p + h + 1, e) = SubSeq(s, p + h + 1, e)
    BY <1>3, <2>1, <2>2
  <2> QED
    BY <1>4, <1>6, <2>3 DEF MessageAt, e, h
<1>8. p \in 0..Len(z) /\ p + h <= Len(z)
  BY <1>1, <1>2
<1> QED
  BY <1>1, <1>4, <1>5, <1>6, <1>7, <1>8 DEF z

LEMMA CompleteStays ==
  ASSUME NEW s \in Seq(Bytes), NEW t \in Seq(Bytes), NEW p \in 0..Len(s), CompleteAt(s, p)
  PROVE  MessagesAfter(s \o t)[p] = <<MessageAt(s, p)>> \o MessagesAfter(s \o t)[NextAt(s, p)]
<1> DEFINE z == s \o t
           m == MessageAt(s, p)
           e == NextAt(s, p)
<1>1. HeadAt(s, p) > 0 /\ p + HeadAt(s, p) <= Len(s) /\ e <= Len(s) /\ IsArray(m)
  BY DEF CompleteAt
<1>2. /\ z \in Seq(Bytes) /\ p \in 0..Len(z)
      /\ HeadAt(z, p) = HeadAt(s, p) /\ NextAt(z, p) = e /\ MessageAt(z, p) = m
      /\ p + HeadAt(s, p) <= Len(z)
  BY <1>1, MoreBytes
<1>3. Len(s) \in Nat /\ Len(s) <= Len(z) /\ Len(z) \in Nat /\ e \in Nat
  BY <1>1, ConcatProperties, NextType
<1> HIDE DEF z, m, e
<1>4. e <= Len(z)
  BY <1>1, <1>3
<1>5. CompleteAt(z, p)
  BY <1>1, <1>2, <1>4 DEF CompleteAt
<1>6. MessagesAfter(z)[p] = MessagesIn(MessagesAfter(z), z, p)
  BY <1>2, MessagesAfterIs
<1>7. MessagesAfter(z)[p] = <<m>> \o MessagesAfter(z)[e]
  BY <1>2, <1>5, <1>6 DEF MessagesIn
<1> QED
  BY <1>7 DEF z, m, e

-----------------------------------------------------------------------------
(* Where the packetizer is in the bytes r: at the frame that begins after   *)
(* the first q of them, or behind its head, with the number in it.  c is    *)
(* what it has still to read, and d are the messages before q, whatever     *)
(* comes after r.                                                           *)

Finds(r, d, q) ==
  \A t \in Seq(Bytes) : MessagesAfter(r \o t)[0] = d \o MessagesAfter(r \o t)[q]

HeadRead(n, c, r, q) ==
  /\ HeadAt(r, q) > 0 /\ q + HeadAt(r, q) <= Len(r)
  /\ n = SizeAt(r, q)
  /\ c = SubSeq(r, q + HeadAt(r, q) + 1, Len(r))

AtFrame(st, n, c, r, d, q) ==
  /\ q \in 0..Len(r)
  /\ IF st = "DATA" THEN HeadRead(n, c, r, q) ELSE c = SubSeq(r, q + 1, Len(r))
  /\ Finds(r, d, q)

LEMMA StartAtFrame ==
  ASSUME NEW n
  PROVE  AtFrame("FRAME", n, <<>>, <<>>, <<>>, 0)
<1>1. <<>> = SubSeq(<<>>, 0 + 1, Len(<<>>)) /\ 0 \in 0..Len(<<>>)
  BY SubSeqEmpty
<1>2. Finds(<<>>, <<>>, 0)
  <2>1. ASSUME NEW t \in Seq(Bytes)
        PROVE  MessagesAfter(<<>> \o t)[0] = <<>> \o MessagesAfter(<<>> \o t)[0]
    <3>1. <<>> \o t = t /\ 0 \in 0..Len(t)
      BY ConcatEmptySeq
    <3>2. MessagesAfter(t)[0] \in Seq(Seq(Bytes))
      BY <3>1, MessagesAfterType
    <3>3. <<>> \o MessagesAfter(t)[0] = MessagesAfter(t)[0]
      BY <3>2, ConcatEmptySeq
    <3> QED
      BY <3>1, <3>3
  <2> QED
    BY <2>1 DEF Finds
<1> QED
  BY <1>1, <1>2 DEF AtFrame

(* More bytes come. *)
LEMMA DataAtFrame ==
  ASSUME NEW st, NEW n, NEW c, NEW r \in Seq(Bytes), NEW d, NEW q,
         AtFrame(st, n, c, r, d, q), NEW b \in Seq(Bytes)
  PROVE  AtFrame(st, n, c \o b, r \o b, d, q)
<1> DEFINE z == r \o b
           h == HeadAt(r, q)
<1>1. q \in 0..Len(r) /\ Len(r) \in Nat /\ z \in Seq(Bytes) /\ Len(z) = Len(r) + Len(b)
      /\ q \in 0..Len(z)
  BY ConcatProperties DEF AtFrame
<1>2. Finds(z, d, q)
  <2>1. ASSUME NEW t \in Seq(Bytes)
        PROVE  MessagesAfter(z \o t)[0] = d \o MessagesAfter(z \o t)[q]
    <3>1. z \o t = r \o (b \o t) /\ b \o t \in Seq(Bytes)
      BY ConcatAssociative, ConcatProperties
    <3> HIDE DEF z
    <3>2. MessagesAfter(r \o (b \o t))[0] = d \o MessagesAfter(r \o (b \o t))[q]
      BY <3>1 DEF AtFrame, Finds
    <3> QED
      BY <3>1, <3>2
  <2> QED
    BY <2>1 DEF Finds
<1>3. CASE st = "DATA"
  <2>1. h > 0 /\ q + h <= Len(r) /\ n = SizeAt(r, q) /\ c = SubSeq(r, q + h + 1, Len(r))
    BY <1>3 DEF AtFrame, HeadRead
  <2>2. HeadAt(z, q) = h /\ SizeAt(z, q) = n /\ q + h <= Len(z) /\ h \in Nat
    BY <1>1, <2>1, MoreBytes, NextType
  <2>3. q + h \in Nat
    BY <1>1, <2>2
  <2> HIDE DEF h
  <2>4. SubSeq(r \o b, q + h + 1, Len(r \o b)) = SubSeq(r, q + h + 1, Len(r)) \o b
    BY <2>1, <2>3, DropOfConcat
  <2>5. HeadRead(n, c \o b, z, q)
    BY <2>1, <2>2, <2>4 DEF HeadRead
  <2> QED
    BY <1>1, <1>2, <1>3, <2>5 DEF AtFrame
<1>4. CASE st # "DATA"
  <2>1. c = SubSeq(r, q + 1, Len(r)) /\ q \in Nat /\ q <= Len(r)
    BY <1>1, <1>4 DEF AtFrame
  <2>2. SubSeq(r \o b, q + 1, Len(r \o b)) = SubSeq(r, q + 1, Len(r)) \o b
    BY <2>1, DropOfConcat
  <2> QED
    BY <1>1, <1>2, <1>4, <2>1, <2>2 DEF AtFrame
<1> QED
  BY <1>3, <1>4

(* What can be read from the rest of the bytes is what is at q. *)
LEMMA RestIs ==
  ASSUME NEW r \in Seq(Bytes), NEW p \in 0..Len(r), NEW c, c = SubSeq(r, p + 1, Len(r))
  PROVE  /\ c \in Seq(Bytes) /\ Len(c) = Len(r) - p
         /\ HeadAt(r, p) = IF c = <<>> THEN 0 ELSE msgpack_frame_len(c[1])
<1>1. Len(r) \in Nat /\ p \in Nat /\ p <= Len(r)
  OBVIOUS
<1>2. c \in Seq(Bytes) /\ (Len(c) = IF p < Len(r) THEN Len(r) - p ELSE 0)
      /\ \A i \in 1..(Len(r) - p) : c[i] = r[p + i]
  BY <1>1, SubSeqType
<1>3. Len(c) = Len(r) - p
  BY <1>1, <1>2
<1>4. HeadAt(r, p) = IF c = <<>> THEN 0 ELSE msgpack_frame_len(c[1])
  <2>1. CASE c = <<>>
    <3>1. Len(c) = 0
      <4>1. Len(<<>>) = 0
        OBVIOUS
      <4> QED
        BY <2>1, <4>1, Zenon
    <3>2. p = Len(r)
      BY <1>1, <1>3, <3>1
    <3> QED
      BY <2>1, <3>2 DEF HeadAt
  <2>2. CASE c # <<>>
    <3>1. p # Len(r)
      BY <1>1, <1>2, <1>3, <2>2
    <3>2. c[1] = r[p + 1]
      BY <1>1, <1>2, <3>1
    <3> QED
      BY <2>2, <3>1, <3>2 DEF HeadAt
  <2> QED
    BY <2>1, <2>2
<1> QED
  BY <1>2, <1>3, <1>4

CutAt(c, h, r, p) ==
  /\ SubSeq(c, 1, h) = SubSeq(r, p + 1, p + h)
  /\ SubSeq(c, h + 1, Len(c)) = SubSeq(r, p + h + 1, Len(r))

LEMMA RestCut ==
  ASSUME NEW r \in Seq(Bytes), NEW p \in 0..Len(r), NEW c, c = SubSeq(r, p + 1, Len(r)),
         NEW h \in Nat, h <= Len(c)
  PROVE  CutAt(c, h, r, p)
<1>1. Len(r) \in Nat /\ p \in Nat /\ Len(c) = Len(r) - p
  BY RestIs
<1>2. p + h <= Len(r)
  BY <1>1
<1> QED
  BY <1>1, <1>2, DropDrop DEF CutAt

(* _get_frame reads a head ... *)
LEMMA HeadAtFrame ==
  ASSUME NEW st, st # "DATA", NEW n, NEW c, NEW r \in Seq(Bytes), NEW d, NEW q,
         AtFrame(st, n, c, r, d, q), c # <<>>,
         NEW h \in Nat, h = msgpack_frame_len(c[1]), h > 0, h <= Len(c)
  PROVE  AtFrame("DATA", Number(SubSeq(c, 1, h)), SubSeq(c, h + 1, Len(c)), r, d, q)
<1>1. q \in 0..Len(r) /\ c = SubSeq(r, q + 1, Len(r)) /\ Finds(r, d, q)
  BY DEF AtFrame
<1>2. /\ Len(c) = Len(r) - q /\ HeadAt(r, q) = h /\ Len(r) \in Nat
      /\ SubSeq(c, 1, h) = SubSeq(r, q + 1, q + h)
      /\ SubSeq(c, h + 1, Len(c)) = SubSeq(r, q + h + 1, Len(r))
  <2>1. Len(c) = Len(r) - q /\ HeadAt(r, q) = h /\ Len(r) \in Nat
    BY <1>1, RestIs
  <2>2. q \in 0..Len(r) /\ c = SubSeq(r, q + 1, Len(r))
    BY <1>1
  <2>3. CutAt(c, h, r, q)
    BY <2>2, RestCut
  <2> QED
    BY <2>1, <2>3 DEF CutAt
<1>3. q + h <= Len(r)
  BY <1>1, <1>2
<1>4. SizeAt(r, q) = Number(SubSeq(c, 1, h))
  BY <1>2 DEF SizeAt
<1>5. HeadRead(Number(SubSeq(c, 1, h)), SubSeq(c, h + 1, Len(c)), r, q)
  BY <1>2, <1>3, <1>4 DEF HeadRead
<1> QED
  BY <1>1, <1>5 DEF AtFrame

(* ... or waits, or there is no head. *)
LEMMA NoHeadAtFrame ==
  ASSUME NEW st, st # "DATA", NEW n, NEW c, NEW r \in Seq(Bytes), NEW d, NEW q,
         AtFrame(st, n, c, r, d, q),
         \/ c = <<>>
         \/ msgpack_frame_len(c[1]) = 0
         \/ msgpack_frame_len(c[1]) \in Nat /\ msgpack_frame_len(c[1]) > Len(c)
  PROVE  ~CompleteAt(r, q)
<1>1. q \in 0..Len(r) /\ c = SubSeq(r, q + 1, Len(r)) /\ Len(r) \in Nat
  BY DEF AtFrame
<1>2. /\ Len(c) = Len(r) - q
      /\ HeadAt(r, q) = IF c = <<>> THEN 0 ELSE msgpack_frame_len(c[1])
  BY <1>1, RestIs
<1>3. HeadAt(r, q) = 0 \/ (HeadAt(r, q) \in Nat /\ HeadAt(r, q) > Len(c))
  BY <1>2
<1>4. HeadAt(r, q) = 0 \/ (HeadAt(r, q) \in Nat /\ q + HeadAt(r, q) > Len(r))
  BY <1>1, <1>2, <1>3
<1> QED
  BY <1>1, <1>4 DEF CompleteAt

(* Behind a head, the rest of the bytes has the message. *)
LEMMA MessageIs ==
  ASSUME NEW n, NEW c, NEW r \in Seq(Bytes), NEW d, NEW q, AtFrame("DATA", n, c, r, d, q)
  PROVE  /\ n \in Nat /\ c \in Seq(Bytes) /\ Len(c) \in Nat
         /\ CompleteAt(r, q) <=> n <= Len(c) /\ IsArray(SubSeq(c, 1, n))
         /\ n <= Len(c) =>
              /\ NextAt(r, q) \in 0..Len(r)
              /\ SubSeq(c, 1, n) = MessageAt(r, q)
              /\ SubSeq(c, n + 1, Len(c)) = SubSeq(r, NextAt(r, q) + 1, Len(r))
<1> DEFINE h == HeadAt(r, q)
           p == q + h
<1>1. q \in 0..Len(r) /\ h > 0 /\ p <= Len(r) /\ n = SizeAt(r, q)
      /\ c = SubSeq(r, p + 1, Len(r)) /\ Len(r) \in Nat
  BY DEF AtFrame, HeadRead
<1>2. h \in Nat /\ n \in Nat /\ NextAt(r, q) = p + n
  BY <1>1, NextType DEF NextAt
<1>3. MessageAt(r, q) = SubSeq(r, p + 1, NextAt(r, q))
  BY DEF MessageAt
<1>4. CompleteAt(r, q) <=> NextAt(r, q) <= Len(r) /\ IsArray(MessageAt(r, q))
  BY <1>1 DEF CompleteAt
<1>5. p \in 0..Len(r)
  BY <1>1, <1>2
<1> HIDE DEF h, p
<1>6. /\ c \in Seq(Bytes) /\ Len(c) = Len(r) - p
      /\ n <= Len(c) => /\ SubSeq(c, 1, n) = SubSeq(r, p + 1, p + n)
                        /\ SubSeq(c, n + 1, Len(c)) = SubSeq(r, p + n + 1, Len(r))
  <2>1. c \in Seq(Bytes) /\ Len(c) = Len(r) - p
    BY <1>1, <1>5, RestIs
  <2>2. ASSUME n <= Len(c)
        PROVE  /\ SubSeq(c, 1, n) = SubSeq(r, p + 1, p + n)
               /\ SubSeq(c, n + 1, Len(c)) = SubSeq(r, p + n + 1, Len(r))
    <3>1. c = SubSeq(r, p + 1, Len(r)) /\ n \in Nat
      BY <1>1, <1>2
    <3>2. CutAt(c, n, r, p)
      BY <1>5, <2>2, <3>1, RestCut
    <3> QED
      BY <3>2 DEF CutAt
  <2> QED
    BY <2>1, <2>2, Zenon
<1>7. n <= Len(c) <=> NextAt(r, q) <= Len(r)
  BY <1>1, <1>2, <1>5, <1>6
<1>8. Len(c) \in Nat /\ (n <= Len(c) => NextAt(r, q) \in 0..Len(r))
  <2>1. p \in Nat /\ p <= Len(r) /\ Len(c) = Len(r) - p
    BY <1>5, <1>6
  <2>2. Len(c) \in Nat /\ NextAt(r, q) \in Nat
    BY <1>1, <1>2, <2>1
  <2>3. NextAt(r, q) <= Len(r) => NextAt(r, q) \in 0..Len(r)
    BY <1>1, <2>2
  <2> QED
    BY <1>7, <2>2, <2>3, Zenon
<1>9. n <= Len(c) => SubSeq(c, 1, n) = MessageAt(r, q)
                     /\ SubSeq(c, n + 1, Len(c)) = SubSeq(r, NextAt(r, q) + 1, Len(r))
  BY <1>2, <1>3, <1>6
<1>10. CompleteAt(r, q) <=> n <= Len(c) /\ IsArray(SubSeq(c, 1, n))
  BY <1>4, <1>7, <1>9
<1> QED
  BY <1>2, <1>6, <1>8, <1>9, <1>10

(* The first message after d is the last of those found when it is read. *)
NextFound(f, d, m, x) == f = d \o (<<m>> \o x)
LastFound(f, d, m, x) == f = Append(d, m) \o x

LEMMA NextIsLast ==
  ASSUME NEW M, NEW f, NEW d \in Seq(M), NEW m \in M, NEW x \in Seq(M),
         NextFound(f, d, m, x)
  PROVE  LastFound(f, d, m, x)
<1> DEFINE y == <<m>>
<1>1. y = <<m>>
  OBVIOUS
<1> HIDE DEF y
<1>2. d \o (y \o x) = Append(d, m) \o x
  BY <1>1, AppendConcat
<1> QED
  BY <1>1, <1>2 DEF NextFound, LastFound

(* _get_msg reads it. *)
LEMMA FindsNext ==
  ASSUME NEW r \in Seq(Bytes), NEW d \in Seq(Seq(Bytes)), NEW q \in 0..Len(r),
         Finds(r, d, q), CompleteAt(r, q)
  PROVE  Finds(r, Append(d, MessageAt(r, q)), NextAt(r, q))
<1> DEFINE e == NextAt(r, q)
           m == MessageAt(r, q)
           y == <<m>>
<1>1. m \in Seq(Bytes) /\ e \in (q + 1)..Len(r)
  BY CompleteIs
<1>2. y = <<m>>
  OBVIOUS
<1> HIDE DEF e, m, y
<1>3. ASSUME NEW t \in Seq(Bytes)
      PROVE  MessagesAfter(r \o t)[0] = Append(d, m) \o MessagesAfter(r \o t)[e]
  <2> DEFINE z == r \o t
             x == MessagesAfter(z)[e]
  <2>1. MessagesAfter(z)[q] = y \o x
    BY CompleteStays DEF e, m, y
  <2>2. MessagesAfter(z)[0] = d \o MessagesAfter(z)[q]
    BY DEF Finds
  <2>3. x \in Seq(Seq(Bytes))
    <3>1. z \in Seq(Bytes) /\ Len(z) = Len(r) + Len(t) /\ Len(r) \in Nat /\ Len(t) \in Nat
      BY ConcatProperties
    <3> HIDE DEF z
    <3>2. e \in 0..Len(z)
      BY <1>1, <3>1
    <3> QED
      BY <3>1, <3>2, MessagesAfterType
  <2> HIDE DEF x, z
  <2>4. NextFound(MessagesAfter(z)[0], d, m, x)
    BY <1>2, <2>1, <2>2 DEF NextFound
  <2>5. LastFound(MessagesAfter(z)[0], d, m, x)
    BY <1>1, <2>3, <2>4, NextIsLast, Zenon
  <2> QED
    BY <2>5, Zenon DEF LastFound, x, z
<1>4. Finds(r, Append(d, m), e)
  BY <1>3 DEF Finds
<1> QED
  BY <1>4 DEF e, m

LEMMA MessageAtFrame ==
  ASSUME NEW n, NEW c, NEW r \in Seq(Bytes), NEW d \in Seq(Seq(Bytes)), NEW q,
         AtFrame("DATA", n, c, r, d, q),
         NEW m, m = SubSeq(c, 1, n), n <= Len(c), IsArray(m)
  PROVE  /\ m \in Seq(Bytes)
         /\ AtFrame("FRAME", n, SubSeq(c, n + 1, Len(c)), r, Append(d, m), NextAt(r, q))
<1> DEFINE e == NextAt(r, q)
<1>1. /\ CompleteAt(r, q) /\ e \in 0..Len(r) /\ m = MessageAt(r, q)
      /\ SubSeq(c, n + 1, Len(c)) = SubSeq(r, e + 1, Len(r))
  BY MessageIs
<1>2. q \in 0..Len(r) /\ Finds(r, d, q)
  BY DEF AtFrame
<1>3. m \in Seq(Bytes)
  BY <1>1, <1>2, CompleteIs
<1>4. Finds(r, Append(d, m), e)
  BY <1>1, <1>2, FindsNext
<1> QED
  BY <1>1, <1>3, <1>4 DEF AtFrame

(* The messages found so far are the first ones, and all if the next is not *)
(* complete.                                                                *)
LEMMA FoundIs ==
  ASSUME NEW st, NEW n, NEW c, NEW r \in Seq(Bytes), NEW d \in Seq(Seq(Bytes)), NEW q,
         AtFrame(st, n, c, r, d, q)
  PROVE  /\ IsPrefix(d, Parse(r))
         /\ ~CompleteAt(r, q) => d = Parse(r)
<1> DEFINE x == MessagesAfter(r)[q]
<1>1. q \in 0..Len(r) /\ Finds(r, d, q)
  BY DEF AtFrame
<1>2. Parse(r) = d \o x
  <2>1. r \o <<>> = r /\ <<>> \in Seq(Bytes)
    BY ConcatEmptySeq
  <2>2. MessagesAfter(r \o <<>>)[0] = d \o MessagesAfter(r \o <<>>)[q]
    BY <1>1, <2>1 DEF Finds
  <2> QED
    BY <2>1, <2>2 DEF Parse
<1>3. x \in Seq(Seq(Bytes))
  BY <1>1, MessagesAfterType
<1>4. ~CompleteAt(r, q) => x = <<>>
  BY <1>1, MessagesAfterIs DEF MessagesIn
<1> HIDE DEF x
<1>5. IsPrefix(d, d \o x)
  BY <1>3, PrefixOfConcat
<1>6. d \o <<>> = d
  BY ConcatEmptySeq
<1> QED
  BY <1>2, <1>4, <1>5, <1>6

-----------------------------------------------------------------------------
(* The steps of the packetizer. *)

(* Some q is where the packetizer is; when the loop has ended there is no   *)
(* complete message at q.                                                   *)
PacketizerInv ==
  /\ PacketizerTypeOK
  /\ \E q \in Nat : /\ AtFrame(state, next_msg_len, Contents, received, dispatched, q)
                    /\ loop = "idle" => ~CompleteAt(received, q)

LEMMA InitInv == PacketizerInit => PacketizerInv
<1> SUFFICES ASSUME PacketizerInit PROVE PacketizerInv
  OBVIOUS
<1> USE DEF PacketizerInit, RingInit
<1>1. Contents = <<>>
  BY FlattenEmpty DEF Contents
<1>2. PacketizerTypeOK
  BY <1>1 DEF PacketizerTypeOK, RingTypeOK
<1>3. AtFrame("FRAME", next_msg_len, <<>>, <<>>, <<>>, 0)
  BY StartAtFrame
<1>4. ~CompleteAt(<<>>, 0)
  BY DEF CompleteAt, HeadAt
<1>5. /\ AtFrame(state, next_msg_len, Contents, received, dispatched, 0)
      /\ ~CompleteAt(received, 0)
  BY <1>1, <1>3, <1>4
<1> QED
  BY <1>2, <1>5 DEF PacketizerInv

LEMMA TypeFacts ==
  ASSUME PacketizerTypeOK
  PROVE  /\ bufs \in Seq(Buffers) /\ Contents = FlattenSeq(bufs) /\ Contents \in Seq(Bytes)
         /\ len = Len(Contents) /\ len \in Nat /\ next_msg_len \in Nat
         /\ received \in Seq(Bytes) /\ dispatched \in Seq(Seq(Bytes))
         /\ state \in {"FRAME", "DATA"}
<1>1. bufs \in Seq(Buffers) /\ Contents = FlattenSeq(bufs) /\ len = Len(Contents)
  BY DEF PacketizerTypeOK, RingTypeOK, Buffers, Contents
<1>2. Contents \in Seq(Bytes)
  BY <1>1, BuffersAreSequences
<1> QED
  BY <1>1, <1>2 DEF PacketizerTypeOK

LEMMA DataInv ==
  ASSUME PacketizerInv, NEW b \in Seq(Bytes) \ {<<>>}, Data(b)
  PROVE  PacketizerInv'
<1>1. PacketizerTypeOK /\ UNCHANGED <<state, next_msg_len, dispatched>>
  BY DEF PacketizerInv, Data, stateVars
<1>2. /\ bufs' = Append(bufs, b) /\ len' = len + Len(b)
      /\ received' = received \o b /\ loop' = "runs"
  BY DEF Data, RingBuffer
<1>3. Contents' = Contents \o b
  <2>1. bufs \in Seq(Seq(Bytes))
    BY <1>1, TypeFacts, BuffersAreSequences
  <2>2. FlattenSeq(Append(bufs, b)) = FlattenSeq(bufs) \o b
    BY <2>1, FlattenAppend
  <2> QED
    BY <1>2, <2>2 DEF Contents
<1>4. PacketizerTypeOK'
  <2>1. bufs' \in Seq(Buffers)
    BY <1>1, <1>2, TypeFacts DEF Buffers
  <2>2. received' \in Seq(Bytes)
    BY <1>1, <1>2, TypeFacts, ConcatProperties
  <2>3. len' = Len(Contents')
    BY <1>1, <1>2, <1>3, TypeFacts, ConcatProperties
  <2> QED
    BY <1>1, <1>2, <2>1, <2>2, <2>3 DEF PacketizerTypeOK, RingTypeOK, Buffers
<1>5. PICK q \in Nat : AtFrame(state, next_msg_len, Contents, received, dispatched, q)
  BY DEF PacketizerInv
<1>6. AtFrame(state, next_msg_len, Contents \o b, received \o b, dispatched, q)
  BY <1>1, <1>5, TypeFacts, DataAtFrame
<1>7. AtFrame(state', next_msg_len', Contents', received', dispatched', q)
  BY <1>1, <1>2, <1>3, <1>6
<1>8. loop' # "idle"
  BY <1>2
<1> QED
  BY <1>4, <1>7, <1>8 DEF PacketizerInv

LEMMA ResetInv ==
  ASSUME PacketizerInv, PacketizerReset, loop' \in {"idle", "runs", "calls"}
  PROVE  PacketizerInv'
<1>1. /\ bufs' = <<>> /\ len' = 0 /\ state' = "FRAME" /\ next_msg_len' = next_msg_len
      /\ received' = <<>> /\ dispatched' = <<>>
  BY DEF PacketizerReset
<1>2. Contents' = <<>>
  BY <1>1, FlattenEmpty DEF Contents
<1>3. PacketizerTypeOK'
  BY <1>1, <1>2 DEF PacketizerInv, PacketizerTypeOK, RingTypeOK
<1>4. AtFrame("FRAME", next_msg_len, <<>>, <<>>, <<>>, 0)
  BY StartAtFrame
<1>5. ~CompleteAt(<<>>, 0)
  BY DEF CompleteAt, HeadAt
<1>6. /\ AtFrame(state', next_msg_len', Contents', received', dispatched', 0)
      /\ ~CompleteAt(received', 0)
  BY <1>1, <1>2, <1>4, <1>5
<1> QED
  BY <1>3, <1>6 DEF PacketizerInv

(* The loop ends with nothing read; grab may have joined buffers. *)
LEMMA LoopStopsInv ==
  ASSUME PacketizerInv, NEW q \in Nat,
         AtFrame(state, next_msg_len, Contents, received, dispatched, q),
         ~CompleteAt(received, q),
         bufs' \in Seq(Buffers), FlattenSeq(bufs') = FlattenSeq(bufs),
         loop' = "idle", UNCHANGED <<len, stateVars, historyVars>>
  PROVE  PacketizerInv'
<1>1. UNCHANGED <<len, state, next_msg_len, received, dispatched>> /\ Contents' = Contents
  BY DEF stateVars, historyVars, Contents
<1>2. PacketizerTypeOK'
  BY <1>1 DEF PacketizerInv, PacketizerTypeOK, RingTypeOK, Buffers
<1>3. /\ AtFrame(state', next_msg_len', Contents', received', dispatched', q)
      /\ ~CompleteAt(received', q)
  BY <1>1
<1> QED
  BY <1>2, <1>3 DEF PacketizerInv

LEMMA WaitInv ==
  ASSUME PacketizerInv, NEW q \in Nat,
         AtFrame(state, next_msg_len, Contents, received, dispatched, q),
         ~CompleteAt(received, q), Wait
  PROVE  PacketizerInv'
<1>1. bufs' = bufs /\ loop' = "idle" /\ UNCHANGED <<len, stateVars, historyVars>>
  BY DEF Wait, ringVars
<1>2. bufs \in Seq(Buffers)
  BY TypeFacts DEF PacketizerInv
<1>3. bufs' \in Seq(Buffers) /\ FlattenSeq(bufs') = FlattenSeq(bufs)
  BY <1>1, <1>2
<1> QED
  BY <1>1, <1>3, LoopStopsInv

LEMMA ErrorInv ==
  ASSUME PacketizerInv, NEW q \in Nat,
         AtFrame(state, next_msg_len, Contents, received, dispatched, q),
         ~CompleteAt(received, q),
         NEW bs \in Seq(Buffers), FlattenSeq(bs) = FlattenSeq(bufs), PacketizeError(bs)
  PROVE  PacketizerInv'
<1>1. loop' = "idle"
  BY DEF PacketizeError
<1>2. CASE PacketizerReset
  BY <1>1, <1>2, ResetInv
<1>3. CASE bufs' = bs /\ UNCHANGED <<len, stateVars, historyVars>>
  <2>1. bufs' \in Seq(Buffers) /\ FlattenSeq(bufs') = FlattenSeq(bufs)
    BY <1>3
  <2> QED
    BY <1>1, <1>3, <2>1, LoopStopsInv
<1> QED
  BY <1>2, <1>3 DEF PacketizeError

LEMMA TakeFacts ==
  ASSUME PacketizerTypeOK, NEW n \in Nat, 0 < n, n <= len, Take(n)
  PROVE  /\ bufs' \in Seq(Buffers) /\ len' = Len(Contents') /\ len' < len
         /\ Contents' = SubSeq(Contents, n + 1, Len(Contents))
         /\ SubSeq(Grabbed(bufs, n)[1], 1, n) = SubSeq(Contents, 1, n)
<1>1. /\ bufs \in Seq(Buffers) /\ Contents = FlattenSeq(bufs) /\ Contents \in Seq(Bytes)
      /\ len = Len(Contents) /\ len \in Nat
  BY TypeFacts
<1>2. bufs' = Consumed(Grabbed(bufs, n), n) /\ len' = len - n
  BY DEF Take
<1>3. Contents' = FlattenSeq(bufs')
  BY DEF Contents
<1>4. /\ bufs' \in Seq(Buffers)
      /\ Contents' = SubSeq(Contents, n + 1, Len(Contents))
      /\ SubSeq(Grabbed(bufs, n)[1], 1, n) = SubSeq(Contents, 1, n)
  BY <1>1, <1>2, <1>3, TakeBytes
<1>5. Len(SubSeq(Contents, n + 1, Len(Contents))) = Len(Contents) - n
  <2> DEFINE c == Contents
  <2>1. c \in Seq(Bytes) /\ Len(c) \in Nat /\ n <= Len(c)
    BY <1>1
  <2> HIDE DEF c
  <2>2. Len(SubSeq(c, n + 1, Len(c))) = IF n < Len(c) THEN Len(c) - n ELSE 0
    BY <2>1, SubSeqType
  <2>3. Len(SubSeq(c, n + 1, Len(c))) = Len(c) - n
    BY <2>1, <2>2
  <2> QED
    BY <2>3 DEF c
<1> QED
  BY <1>1, <1>2, <1>4, <1>5

(* The byte that the length of the head is read from. *)
LEMMA FrameLenIs ==
  ASSUME PacketizerTypeOK, len > 0
  PROVE  /\ Contents # <<>> /\ FrameLen \in Nat
         /\ FrameLen = msgpack_frame_len(Contents[1])
<1>1. bufs \in Seq(Buffers) /\ Contents = FlattenSeq(bufs) /\ len = Len(Contents)
  BY TypeFacts
<1>2. Contents # <<>>
  BY <1>1
<1>3. Contents[1] = bufs[1][1] /\ bufs[1][1] \in Bytes
  BY <1>1, <1>2, FirstBuffer
<1> QED
  BY <1>2, <1>3, HeadLen DEF FrameLen

LEMMA GetFrameInv ==
  ASSUME PacketizerInv, GetFrame
  PROVE  PacketizerInv'
<1>1. /\ PacketizerTypeOK /\ state = "FRAME" /\ state # "DATA"
      /\ bufs \in Seq(Buffers) /\ Contents = FlattenSeq(bufs) /\ Contents \in Seq(Bytes)
      /\ len = Len(Contents) /\ len \in Nat
      /\ received \in Seq(Bytes) /\ dispatched \in Seq(Seq(Bytes))
  BY TypeFacts DEF PacketizerInv, GetFrame
<1>2. PICK q \in Nat : AtFrame(state, next_msg_len, Contents, received, dispatched, q)
  BY DEF PacketizerInv
<1>3. len > 0 => /\ Contents # <<>> /\ FrameLen \in Nat
                 /\ FrameLen = msgpack_frame_len(Contents[1])
  BY <1>1, FrameLenIs
<1>4. CASE len = 0 /\ Wait
  <2>1. Contents = <<>>
    <3>1. Contents \in Seq(Bytes) /\ Len(Contents) = 0
      BY <1>1, <1>4, Zenon
    <3> QED
      BY <3>1, EmptySeq
  <2>2. ~CompleteAt(received, q)
    BY <1>1, <1>2, <2>1, NoHeadAtFrame
  <2> QED
    BY <1>2, <1>4, <2>2, WaitInv
<1>5. CASE len > 0 /\ FrameLen = 0 /\ PacketizeError(bufs)
  <2>1. ~CompleteAt(received, q)
    BY <1>1, <1>2, <1>3, <1>5, NoHeadAtFrame
  <2> QED
    BY <1>1, <1>2, <1>5, <2>1, ErrorInv
<1>6. CASE len > 0 /\ FrameLen > 0 /\ ~CanGrab(FrameLen) /\ Wait
  <2>1. FrameLen > Len(Contents)
    BY <1>1, <1>3, <1>6 DEF CanGrab
  <2>2. ~CompleteAt(received, q)
    BY <1>1, <1>2, <1>3, <1>6, <2>1, NoHeadAtFrame
  <2> QED
    BY <1>2, <1>6, <2>2, WaitInv
<1>7. CASE /\ len > 0 /\ FrameLen > 0 /\ CanGrab(FrameLen)
           /\ Take(FrameLen)
           /\ next_msg_len' = Number(SubSeq(Grabbed(bufs, FrameLen)[1], 1, FrameLen))
           /\ state' = "DATA" /\ loop' = "runs"
           /\ UNCHANGED historyVars
  <2> DEFINE h == FrameLen
             x == SubSeq(Contents, 1, h)
  <2>1. h \in Nat /\ 0 < h /\ h <= len /\ Contents # <<>> /\ h = msgpack_frame_len(Contents[1])
    BY <1>3, <1>7 DEF CanGrab
  <2>2. received' = received /\ dispatched' = dispatched /\ Take(h)
    BY <1>7 DEF historyVars
  <2>3. next_msg_len' = Number(SubSeq(Grabbed(bufs, h)[1], 1, h))
    BY <1>7
  <2> HIDE DEF h
  <2>4. /\ bufs' \in Seq(Buffers) /\ len' = Len(Contents')
        /\ Contents' = SubSeq(Contents, h + 1, Len(Contents))
        /\ next_msg_len' = Number(x)
    BY <1>1, <2>1, <2>2, <2>3, TakeFacts
  <2>5. x \in Seq(Bytes)
    <3>1. x = SubSeq(Contents, 0 + 1, h) /\ h <= Len(Contents)
      BY <1>1, <2>1
    <3> QED
      BY <1>1, <2>1, <3>1, SubSeqType
  <2>6. Number(x) \in Nat
    BY <2>5, BytesAreNumbers, NumberType
  <2>7. PacketizerTypeOK'
    BY <1>1, <1>7, <2>2, <2>4, <2>6 DEF PacketizerTypeOK, RingTypeOK, Buffers
  <2>8. AtFrame("DATA", Number(x), SubSeq(Contents, h + 1, Len(Contents)), received,
                dispatched, q)
    BY <1>1, <1>2, <2>1, HeadAtFrame
  <2>9. AtFrame(state', next_msg_len', Contents', received', dispatched', q) /\ loop' # "idle"
    BY <1>7, <2>2, <2>4, <2>8
  <2> QED
    BY <2>7, <2>9 DEF PacketizerInv
<1> QED
  BY <1>4, <1>5, <1>6, <1>7 DEF GetFrame

LEMMA GetMsgInv ==
  ASSUME PacketizerInv, GetMsg
  PROVE  PacketizerInv'
<1>1. /\ PacketizerTypeOK /\ state = "DATA"
      /\ bufs \in Seq(Buffers) /\ Contents = FlattenSeq(bufs) /\ Contents \in Seq(Bytes)
      /\ len = Len(Contents) /\ len \in Nat /\ next_msg_len \in Nat
      /\ received \in Seq(Bytes) /\ dispatched \in Seq(Seq(Bytes))
  BY TypeFacts DEF PacketizerInv, GetMsg
<1> DEFINE n == next_msg_len
           x == SubSeq(Contents, 1, n)
<1>2. PICK q \in Nat : AtFrame("DATA", n, Contents, received, dispatched, q)
  BY <1>1 DEF PacketizerInv
<1>3. AtFrame(state, next_msg_len, Contents, received, dispatched, q)
  BY <1>1, <1>2
<1>4. CompleteAt(received, q) <=> n <= Len(Contents) /\ IsArray(x)
  BY <1>1, <1>2, MessageIs
<1>5. n > 0 /\ CanGrab(n) => Message = x
  <2>1. ASSUME n > 0, CanGrab(n)
        PROVE  SubSeq(Grabbed(bufs, n)[1], 1, n) = x
    <3>1. n <= Len(FlattenSeq(bufs))
      BY <1>1, <2>1 DEF CanGrab
    <3> QED
      BY <1>1, <2>1, <3>1, TakeBytes
  <2> QED
    BY <1>1, <2>1 DEF Message
<1>6. n = 0 => Message = <<>> /\ x = <<>>
  BY <1>1, SubSeqEmpty DEF Message
<1>7. CanGrab(n) => (IsArray(Message) <=> IsArray(x)) /\ (IsArray(Message) => n > 0 /\ Message = x)
  <2>1. ~IsArray(<<>>)
    BY DEF IsArray
  <2>2. CASE n = 0
    BY <1>6, <2>1, <2>2, Zenon
  <2>3. CASE n > 0
    BY <1>5, <2>3, Zenon
  <2> QED
    BY <1>1, <2>2, <2>3
<1>8. CASE ~CanGrab(n) /\ Wait
  <2>1. ~CompleteAt(received, q)
    BY <1>1, <1>4, <1>8 DEF CanGrab
  <2> QED
    BY <1>3, <1>8, <2>1, WaitInv
<1>9. CASE CanGrab(n) /\ ~IsArray(Message) /\ PacketizeError(Grabbed(bufs, n))
  <2>1. ~CompleteAt(received, q)
    BY <1>4, <1>7, <1>9
  <2> DEFINE bs == Grabbed(bufs, n)
  <2>2. bs \in Seq(Buffers) /\ FlattenSeq(bs) = FlattenSeq(bufs)
    <3>1. CASE n = 0
      <4>1. bs = bufs
        BY <3>1 DEF Grabbed
      <4> QED
        BY <1>1, <4>1
    <3>2. CASE n # 0
      <4>1. n > 0 /\ n <= Len(FlattenSeq(bufs))
        BY <1>1, <1>9, <3>2 DEF CanGrab
      <4> QED
        BY <1>1, <4>1, GrabbedKeeps
    <3> QED
      BY <3>1, <3>2
  <2>3. PacketizeError(bs)
    BY <1>9
  <2> HIDE DEF bs
  <2> QED
    BY <1>3, <2>1, <2>2, <2>3, ErrorInv
<1>10. CASE /\ CanGrab(n) /\ IsArray(Message)
            /\ Take(n)
            /\ state' = "FRAME" /\ loop' = "calls"
            /\ dispatched' = Append(dispatched, Message)
            /\ UNCHANGED <<next_msg_len, received>>
  <2>1. n > 0 /\ n <= len /\ Message = x /\ IsArray(x) /\ n <= Len(Contents)
    BY <1>1, <1>7, <1>10 DEF CanGrab
  <2>2. /\ bufs' \in Seq(Buffers) /\ len' = Len(Contents')
        /\ Contents' = SubSeq(Contents, n + 1, Len(Contents))
    BY <1>1, <1>10, <2>1, TakeFacts
  <2> DEFINE m == Message
  <2>3. m = x
    BY <2>1
  <2> HIDE DEF m
  <2>4. m \in Seq(Bytes) /\ AtFrame("FRAME", n, SubSeq(Contents, n + 1, Len(Contents)),
                                    received, Append(dispatched, m), NextAt(received, q))
    BY <1>1, <1>2, <2>1, <2>3, MessageAtFrame
  <2>5. dispatched' = Append(dispatched, m)
    BY <1>10 DEF m
  <2>6. PacketizerTypeOK'
    BY <1>1, <1>10, <2>2, <2>4, <2>5 DEF PacketizerTypeOK, RingTypeOK, Buffers
  <2>7. AtFrame(state', next_msg_len', Contents', received', dispatched', NextAt(received, q))
    BY <1>10, <2>2, <2>4, <2>5
  <2>8. NextAt(received, q) \in Nat
    BY <2>4 DEF AtFrame
  <2>9. loop' # "idle"
    BY <1>10
  <2> QED
    BY <2>6, <2>7, <2>8, <2>9 DEF PacketizerInv
<1> QED
  BY <1>8, <1>9, <1>10 DEF GetMsg

LEMMA LoopInv ==
  ASSUME PacketizerInv, Loop
  PROVE  PacketizerInv'
BY GetFrameInv, GetMsgInv DEF Loop

-----------------------------------------------------------------------------
(* The theorems. *)

LEMMA ChunksAreBuffers == Chunks \subseteq Seq(Bytes) \ {<<>>}
<1>1. SeqOf(Bytes, MaxChunk) \subseteq Seq(Bytes)
  BY MaxChunkAssumption, SeqDef DEF SeqOf
<1> QED
  BY <1>1 DEF Chunks

LEMMA PacketizerStepInv ==
  ASSUME PacketizerInv, [PacketizerNext]_packetizerVars
  PROVE  PacketizerInv'
<1>1. CASE Loop
  BY <1>1, LoopInv
<1>2. ASSUME NEW b \in Chunks, Data(b) PROVE PacketizerInv'
  BY <1>2, ChunksAreBuffers, DataInv
<1>3. CASE UserCloses
  <2>1. PacketizerReset /\ loop' = loop
    BY <1>3 DEF UserCloses
  <2>2. loop' \in {"idle", "runs", "calls"}
    BY <2>1 DEF PacketizerInv, PacketizerTypeOK
  <2> QED
    BY <2>1, <2>2, ResetInv
<1>4. CASE UNCHANGED packetizerVars
  <2>1. UNCHANGED <<bufs, len, state, next_msg_len, loop, received, dispatched>>
    BY <1>4 DEF packetizerVars, ringVars, stateVars, historyVars
  <2>2. Contents' = Contents
    BY <2>1 DEF Contents
  <2> QED
    BY <2>1, <2>2 DEF PacketizerInv, PacketizerTypeOK, RingTypeOK
<1> QED
  BY <1>1, <1>2, <1>3, <1>4 DEF PacketizerNext

(* The ring holds what is left of the bytes that came behind the messages   *)
(* that were dispatched: all that _get_frame and _get_msg rely on.          *)
THEOREM PacketizerInvHolds == PacketizerSpec => []PacketizerInv
<1>1. PacketizerInit => PacketizerInv
  BY InitInv
<1>2. PacketizerInv /\ [PacketizerNext]_packetizerVars => PacketizerInv'
  BY PacketizerStepInv
<1> QED
  BY <1>1, <1>2, PTL DEF PacketizerSpec

(* The variables of the packetizer and of its ring have their types; @_len  *)
(* counts the bytes in the buffers, and no buffer is empty.                 *)
THEOREM PacketizerTypeCorrect == PacketizerSpec => []PacketizerTypeOK
<1>1. PacketizerInv => PacketizerTypeOK
  BY DEF PacketizerInv
<1> QED
  BY <1>1, PacketizerInvHolds, PTL

(* packetize_data finds the messages that are in the bytes, however the     *)
(* socket has cut them, and holds none back that is complete.               *)
THEOREM ChunkingMakesNoDifference == PacketizerSpec => []ChunkingIrrelevant
<1>1. ASSUME PacketizerInv PROVE ChunkingIrrelevant
  <2>1. PICK q \in Nat : /\ AtFrame(state, next_msg_len, Contents, received, dispatched, q)
                         /\ loop = "idle" => ~CompleteAt(received, q)
    BY <1>1 DEF PacketizerInv
  <2>2. received \in Seq(Bytes) /\ dispatched \in Seq(Seq(Bytes))
    BY <1>1, TypeFacts DEF PacketizerInv
  <2>3. /\ IsPrefix(dispatched, Parse(received))
        /\ ~CompleteAt(received, q) => dispatched = Parse(received)
    BY <2>1, <2>2, FoundIs
  <2> QED
    BY <2>1, <2>3 DEF ChunkingIrrelevant
<1> QED
  BY <1>1, PacketizerInvHolds, PTL

(* The consume of _get_frame and of _get_msg never throws: the grab before  *)
(* it has put enough bytes into the first buffer.                           *)
THEOREM ConsumeNeverThrows == PacketizerSpec => []NoUnderflow
<1>1. ASSUME PacketizerInv PROVE NoUnderflow
  <2>1. PacketizerTypeOK
    BY <1>1 DEF PacketizerInv
  <2>2. /\ bufs \in Seq(Buffers) /\ Contents = FlattenSeq(bufs)
        /\ len = Len(Contents) /\ len \in Nat /\ next_msg_len \in Nat
    BY <2>1, TypeFacts
  <2>3. len > 0 => FrameLen \in Nat
    BY <2>1, FrameLenIs
  <2>4. ASSUME NEW n \in Nat, n > 0, CanGrab(n) PROVE ~Underflow(Grabbed(bufs, n), n)
    <3>1. n <= Len(FlattenSeq(bufs))
      BY <2>2, <2>4 DEF CanGrab
    <3> DEFINE g == Grabbed(bufs, n)
    <3>2. g \in Seq(Buffers) /\ g # <<>> /\ Len(g[1]) >= n
      BY <2>2, <2>4, <3>1, GrabbedKeeps
    <3> HIDE DEF g
    <3>3. Len(g[1]) \in Nat
      BY <3>2 DEF Buffers
    <3>4. ~Underflow(g, n)
      BY <3>2, <3>3 DEF Underflow
    <3> QED
      BY <3>4 DEF g
  <2>5. \A n \in (IF state = "DATA" THEN {next_msg_len} ELSE IF len > 0 THEN {FrameLen} ELSE {}) :
          n \in Nat
    BY <2>2, <2>3
  <2> QED
    BY <2>4, <2>5 DEF NoUnderflow
<1> QED
  BY <1>1, PacketizerInvHolds, PTL

(* An iteration after which the loop of packetize_data goes on has taken    *)
(* bytes from the ring, where nothing puts any while it runs; so the loop   *)
(* cannot go on for ever.                                                   *)
LoopTakesBytes == [][Loop /\ loop' # "idle" => len' < len /\ len' \in Nat]_packetizerVars

(* Every iteration of the loop but its last one takes bytes, in every state *)
(* it can be in (packetizer.js, packetize_data).                            *)
THEOREM LoopProgress == PacketizerSpec => LoopTakesBytes
<1>1. ASSUME PacketizerInv, [PacketizerNext]_packetizerVars, Loop, loop' # "idle"
      PROVE  len' < len /\ len' \in Nat
  <2>1. PacketizerTypeOK /\ PacketizerInv'
    BY <1>1, LoopInv DEF PacketizerInv
  <2>2. len' \in Nat
    <3>1. PacketizerTypeOK'
      BY <2>1 DEF PacketizerInv
    <3>2. bufs' \in Seq(Buffers) /\ len' = Len(FlattenSeq(bufs'))
      BY <3>1 DEF PacketizerTypeOK, RingTypeOK, Contents, Buffers
    <3>3. FlattenSeq(bufs') \in Seq(Bytes)
      BY <3>2, BuffersAreSequences
    <3> QED
      BY <3>2, <3>3
  <2>3. ~Wait
    BY <1>1 DEF Wait
  <2>4. \A bs : ~PacketizeError(bs)
    BY <1>1 DEF PacketizeError
  <2>5. CASE GetFrame
    <3>1. len > 0 /\ FrameLen > 0 /\ CanGrab(FrameLen) /\ Take(FrameLen)
      BY <2>3, <2>4, <2>5, Zenon DEF GetFrame
    <3>2. FrameLen \in Nat /\ FrameLen <= len
      BY <2>1, <3>1, FrameLenIs DEF CanGrab
    <3> QED
      BY <2>1, <2>2, <3>1, <3>2, TakeFacts
  <2>6. CASE GetMsg
    <3>1. CanGrab(next_msg_len) /\ IsArray(Message) /\ Take(next_msg_len)
      BY <2>3, <2>4, <2>6, Zenon DEF GetMsg
    <3>2. next_msg_len # 0
      BY <3>1 DEF Message, IsArray
    <3>3. next_msg_len \in Nat /\ 0 < next_msg_len /\ next_msg_len <= len
      BY <2>1, <3>1, <3>2, TypeFacts DEF CanGrab
    <3> QED
      BY <2>1, <2>2, <3>1, <3>3, TakeFacts
  <2> QED
    BY <1>1, <2>5, <2>6 DEF Loop
<1> QED
  BY <1>1, PacketizerInvHolds, PTL DEF PacketizerSpec, LoopTakesBytes

(* The ring implements the byte queue: what it holds, put together, grows   *)
(* only at its end and shrinks only at its front.                           *)
LEMMA QueueTakes ==
  ASSUME PacketizerTypeOK, NEW n \in Nat, 0 < n, n <= len, Take(n)
  PROVE  Queue!Next
<1>1. len = Len(Contents) /\ n \in 1..Len(Contents)
  BY TypeFacts
<1>2. Contents' = SubSeq(Contents, n + 1, Len(Contents))
  BY TakeFacts
<1> QED
  BY <1>1, <1>2 DEF Queue!Next, Queue!Take

LEMMA QueueKept ==
  ASSUME PacketizerTypeOK,
         PacketizerReset \/ FlattenSeq(bufs') = FlattenSeq(bufs)
  PROVE  Queue!Next \/ UNCHANGED Contents
<1>1. CASE FlattenSeq(bufs') = FlattenSeq(bufs)
  BY <1>1 DEF Contents
<1>2. CASE PacketizerReset
  <2>1. Contents' = <<>>
    BY <1>2, FlattenEmpty DEF PacketizerReset, Contents
  <2> DEFINE n == Len(Contents)
  <2>2. Contents \in Seq(Bytes) /\ n \in Nat
    BY TypeFacts
  <2>3. CASE n = 0
    <3>1. Contents = <<>>
      BY <2>2, <2>3, EmptySeq
    <3> QED
      BY <2>1, <3>1
  <2>4. CASE n # 0
    <3>1. SubSeq(Contents, n + 1, n) = <<>>
      BY <2>2, SubSeqEmpty
    <3>2. n \in 1..Len(Contents) /\ Contents' = SubSeq(Contents, n + 1, Len(Contents))
      BY <2>1, <2>2, <2>4, <3>1
    <3> QED
      BY <3>2 DEF Queue!Next, Queue!Take
  <2> QED
    BY <2>3, <2>4
<1> QED
  BY <1>1, <1>2

LEMMA QueueStep ==
  ASSUME PacketizerTypeOK, [PacketizerNext]_packetizerVars
  PROVE  Queue!Next \/ UNCHANGED Contents
<1>1. /\ bufs \in Seq(Buffers) /\ Contents = FlattenSeq(bufs) /\ Contents \in Seq(Bytes)
      /\ len = Len(Contents) /\ len \in Nat /\ next_msg_len \in Nat
  BY TypeFacts
<1>2. CASE Wait
  <2>1. FlattenSeq(bufs') = FlattenSeq(bufs)
    BY <1>2 DEF Wait, ringVars
  <2> QED
    BY <2>1, QueueKept
<1>3. ASSUME NEW bs, FlattenSeq(bs) = FlattenSeq(bufs), PacketizeError(bs)
      PROVE  Queue!Next \/ UNCHANGED Contents
  <2>1. PacketizerReset \/ FlattenSeq(bufs') = FlattenSeq(bufs)
    BY <1>3 DEF PacketizeError
  <2> QED
    BY <2>1, QueueKept
<1>4. CASE GetFrame
  <2>1. Wait \/ PacketizeError(bufs)
        \/ (len > 0 /\ FrameLen > 0 /\ CanGrab(FrameLen) /\ Take(FrameLen))
    BY <1>4, Zenon DEF GetFrame
  <2>2. ASSUME len > 0, FrameLen > 0, CanGrab(FrameLen), Take(FrameLen) PROVE Queue!Next
    <3>1. FrameLen \in Nat /\ FrameLen <= len
      BY <2>2, FrameLenIs DEF CanGrab
    <3> QED
      BY <2>2, <3>1, QueueTakes
  <2> QED
    BY <1>2, <1>3, <2>1, <2>2
<1>5. CASE GetMsg
  <2> DEFINE n == next_msg_len
  <2>1. \/ Wait
        \/ CanGrab(n) /\ PacketizeError(Grabbed(bufs, n))
        \/ CanGrab(n) /\ IsArray(Message) /\ Take(n)
    BY <1>5, Zenon DEF GetMsg
  <2>2. ASSUME CanGrab(n) PROVE FlattenSeq(Grabbed(bufs, n)) = FlattenSeq(bufs)
    <3>1. CASE n = 0
      <4>1. Grabbed(bufs, n) = bufs
        BY <3>1 DEF Grabbed
      <4> QED
        BY <4>1
    <3>2. CASE n # 0
      <4>1. n > 0 /\ n <= Len(FlattenSeq(bufs))
        BY <1>1, <2>2, <3>2 DEF CanGrab
      <4> QED
        BY <1>1, <4>1, GrabbedKeeps
    <3> QED
      BY <3>1, <3>2
  <2>3. ASSUME CanGrab(n), IsArray(Message), Take(n) PROVE Queue!Next
    <3>1. n # 0
      BY <2>3 DEF Message, IsArray
    <3>2. 0 < n /\ n <= len
      BY <1>1, <2>3, <3>1 DEF CanGrab
    <3> QED
      BY <1>1, <2>3, <3>2, QueueTakes
  <2> QED
    BY <1>2, <1>3, <2>1, <2>2, <2>3
<1>6. ASSUME NEW b \in Chunks, Data(b) PROVE Queue!Next
  <2>1. bufs' = Append(bufs, b) /\ b \in Seq(Bytes) /\ bufs \in Seq(Seq(Bytes))
    BY <1>1, <1>6, ChunksAreBuffers, BuffersAreSequences DEF Data, RingBuffer
  <2>2. Contents' = Contents \o b
    BY <1>1, <2>1, FlattenAppend DEF Contents
  <2>3. IsPrefix(Contents, Contents')
    BY <1>1, <2>1, <2>2, PrefixOfConcat
  <2> QED
    BY <2>3 DEF IsPrefix, Queue!IsPrefix, Queue!Next, Queue!Put
<1>7. CASE UserCloses
  BY <1>7, QueueKept DEF UserCloses
<1>8. CASE UNCHANGED packetizerVars
  BY <1>8 DEF packetizerVars, ringVars, Contents
<1> QED
  BY <1>4, <1>5, <1>6, <1>7, <1>8 DEF PacketizerNext, Loop

(* The buffers of the ring, put together, are a byte queue: bytes are added *)
(* at the end and taken from the front, and grab changes none of them.      *)
THEOREM RingIsByteQueue == PacketizerSpec => KeepsBytes
<1>1. PacketizerInit => Queue!Init
  BY FlattenEmpty DEF PacketizerInit, RingInit, Queue!Init, Contents
<1>2. PacketizerTypeOK /\ [PacketizerNext]_packetizerVars => [Queue!Next]_Contents
  BY QueueStep
<1> QED
  BY <1>1, <1>2, PacketizerTypeCorrect, PTL DEF PacketizerSpec, KeepsBytes, Queue!Spec
=============================================================================
