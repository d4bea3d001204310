---------------------------- MODULE SequenceLemmas ----------------------------
(***************************************************************************)
(* Facts about numbers, sequences and recursive functions that the proofs   *)
(* about the list, the ring and the packetizer rest on.  Induction is       *)
(* stated with sets: every set of numbers has a least one, so a set that    *)
(* has 0 and with every number the next one has all of them.                *)
(***************************************************************************)
EXTENDS Integers, SequencesExt, SequenceTheorems, WellFoundedInduction, TLAPS

LEMMA LeastNumber ==
  ASSUME NEW T \in SUBSET Nat, T # {}
  PROVE  \E n \in T : \A m \in T : n <= m
<1>1. PICK n \in T : \A m \in T : ~(<<m, n>> \in OpToRel(<, Nat))
  BY NatLessThanWellFounded, WFMin
<1>2. ASSUME NEW m \in T PROVE ~(m < n)
  BY <1>1, <1>2 DEF OpToRel
<1> QED
  BY <1>2

LEMMA Induction ==
  ASSUME NEW S, 0 \in S, \A n \in Nat : n \in S => n + 1 \in S
  PROVE  \A n \in Nat : n \in S
<1> SUFFICES ASSUME Nat \ S # {} PROVE FALSE
  OBVIOUS
<1>1. PICK n \in Nat \ S : \A m \in Nat \ S : n <= m
  BY LeastNumber
<1>2. n # 0 /\ n - 1 \in Nat /\ n - 1 \in S
  BY <1>1
<1> QED
  BY <1>1, <1>2

-----------------------------------------------------------------------------
(* FlattenSeq puts a sequence of sequences together, from the left. *)

Flattening(f, s, n) == f = [i \in 1..n |-> IF i = 1 THEN s[i] ELSE f[i - 1] \o s[i]]

LEMMA FlatteningExists ==
  ASSUME NEW s, NEW n \in Nat
  PROVE  \E f : Flattening(f, s, n)
<1> DEFINE S == {k \in Nat : \E f : Flattening(f, s, k)}
<1>1. 0 \in S
  <2> DEFINE f == [i \in 1..0 |-> s[i]]
  <2>1. Flattening(f, s, 0)
    BY DEF Flattening
  <2> QED
    BY <2>1
<1>2. ASSUME NEW k \in Nat, k \in S PROVE k + 1 \in S
  <2>1. PICK f : Flattening(f, s, k)
    BY <1>2
  <2> DEFINE e(h, i) == IF i = 1 THEN s[i] ELSE h[i - 1] \o s[i]
  <2> DEFINE g == [i \in 1..(k + 1) |-> IF i <= k THEN f[i] ELSE e(f, i)]
  <2>2. \A i \in 1..k : f[i] = e(f, i)
    BY <2>1, Zenon DEF Flattening
  <2>3. ASSUME NEW i \in 1..(k + 1) PROVE g[i] = e(g, i)
    <3>1. i = 1 \/ (i - 1 \in 1..k /\ i - 1 \in 1..(k + 1))
      OBVIOUS
    <3>2. i # 1 => g[i - 1] = f[i - 1]
      BY <3>1
    <3>3. e(g, i) = e(f, i)
      BY <3>2
    <3>4. g[i] = e(f, i)
      BY <2>2
    <3> QED
      BY <3>3, <3>4
  <2> HIDE DEF e
  <2>4. g = [i \in 1..(k + 1) |-> e(g, i)]
    BY <2>3
  <2>5. Flattening(g, s, k + 1)
    BY <2>4 DEF Flattening, e
  <2> QED
    BY <2>5
<1> HIDE DEF S
<1>3. n \in S
  BY <1>1, <1>2, Induction
<1> QED
  BY <1>3 DEF S

LEMMA FlattenSeqIs ==
  ASSUME NEW s, NEW n \in Nat, n = Len(s), n # 0
  PROVE  \E f : Flattening(f, s, n) /\ FlattenSeq(s) = f[n]
<1> DEFINE f == CHOOSE g : g = [i \in 1..n |-> IF i = 1 THEN s[i] ELSE g[i - 1] \o s[i]]
<1>1. Flattening(f, s, n)
  BY FlatteningExists, Zenon DEF Flattening
<1>2. FlattenSeq(s) = f[n]
  BY Zenon DEF FlattenSeq
<1> QED
  BY <1>1, <1>2

LEMMA FlattenEmpty == FlattenSeq(<<>>) = <<>>
BY DEF FlattenSeq

LEMMA FlattenSingle ==
  ASSUME NEW b
  PROVE  FlattenSeq(<<b>>) = b
<1> DEFINE s == <<b>>
<1>1. Len(s) = 1 /\ s[1] = b /\ 1 \in Nat /\ 1 # 0
  OBVIOUS
<1> HIDE DEF s
<1>2. \E f : Flattening(f, s, 1) /\ FlattenSeq(s) = f[1]
  <2> DEFINE n == 1
  <2>1. n \in Nat /\ n = Len(s) /\ n # 0
    BY <1>1
  <2> HIDE DEF n
  <2>2. \E f : Flattening(f, s, n) /\ FlattenSeq(s) = f[n]
    BY <2>1, FlattenSeqIs
  <2> QED
    BY <2>2 DEF n
<1> PICK f : Flattening(f, s, 1) /\ FlattenSeq(s) = f[1]
  BY <1>2
<1>3. f[1] = s[1]
  BY DEF Flattening
<1> QED
  BY <1>1, <1>3 DEF s

LEMMA FlattenAppendOne ==
  ASSUME NEW S, NEW s \in Seq(S), NEW b \in S, s # <<>>
  PROVE  FlattenSeq(Append(s, b)) = FlattenSeq(s) \o b
<1> DEFINE n == Len(s)
           t == Append(s, b)
<1>1. /\ n \in Nat \ {0} /\ Len(t) = n + 1 /\ t[n + 1] = b
      /\ \A i \in 1..n : t[i] = s[i]
  OBVIOUS
<1> HIDE DEF t, n
<1>2. PICK f : Flattening(f, s, n) /\ FlattenSeq(s) = f[n]
  BY <1>1, FlattenSeqIs DEF n
<1>3. PICK g : Flattening(g, t, n + 1) /\ FlattenSeq(t) = g[n + 1]
  BY <1>1, FlattenSeqIs
<1>4. \A i \in 1..n : f[i] = IF i = 1 THEN s[i] ELSE f[i - 1] \o s[i]
  BY <1>2 DEF Flattening
<1>5. \A i \in 1..(n + 1) : g[i] = IF i = 1 THEN t[i] ELSE g[i - 1] \o t[i]
  BY <1>3 DEF Flattening
<1> DEFINE E == {i \in Nat : i \in 1..n => f[i] = g[i]}
<1>6. 0 \in E
  OBVIOUS
<1>7. ASSUME NEW i \in Nat, i \in E PROVE i + 1 \in E
  <2> SUFFICES ASSUME i + 1 \in 1..n PROVE f[i + 1] = g[i + 1]
    OBVIOUS
  <2>1. s[i + 1] = t[i + 1]
    BY <1>1
  <2>2. CASE i = 0
    BY <1>4, <1>5, <1>1, <2>1, <2>2
  <2>3. CASE i # 0
    <3>1. i \in 1..n /\ f[i] = g[i]
      BY <1>1, <1>7, <2>3
    <3>2. PICK j \in 1..n : j = i + 1
      OBVIOUS
    <3>3. j - 1 = i /\ j # 1 /\ j \in 1..(n + 1)
      BY <1>1, <2>3, <3>2
    <3>4. f[j] = f[j - 1] \o s[j] /\ g[j] = g[j - 1] \o t[j]
      BY <3>3, <1>4, <1>5, Zenon
    <3> QED
      BY <3>1, <3>2, <3>3, <3>4, <2>1
  <2> QED
    BY <2>2, <2>3
<1> HIDE DEF E
<1>8. n \in E
  BY <1>1, <1>6, <1>7, Induction
<1>9. f[n] = g[n]
  BY <1>1, <1>8 DEF E
<1>10. g[n + 1] = g[n] \o t[n + 1]
  <2>1. PICK j \in 1..(n + 1) : j = n + 1
    BY <1>1
  <2>2. j # 1 /\ j - 1 = n
    BY <1>1, <2>1
  <2>3. g[j] = g[j - 1] \o t[j]
    BY <2>2, <1>5, Zenon
  <2> QED
    BY <2>1, <2>2, <2>3
<1> QED
  BY <1>1, <1>2, <1>3, <1>9, <1>10 DEF t

(* The parts have their bytes, or whatever they consist of, in B. *)
LEMMA FlattenAppend ==
  ASSUME NEW B, NEW s \in Seq(Seq(B)), NEW b \in Seq(B)
  PROVE  FlattenSeq(Append(s, b)) = FlattenSeq(s) \o b
<1>1. CASE s = <<>>
  <2>1. Append(s, b) = <<b>> /\ <<>> \o b = b
    BY <1>1
  <2> QED
    BY <1>1, <2>1, FlattenEmpty, FlattenSingle
<1>2. CASE s # <<>>
  BY <1>2, FlattenAppendOne
<1> QED
  BY <1>1, <1>2

LEMMA FlattenType ==
  ASSUME NEW B, NEW s \in Seq(Seq(B))
  PROVE  FlattenSeq(s) \in Seq(B)
<1> DEFINE S == {n \in Nat : \A t \in Seq(Seq(B)) : Len(t) = n => FlattenSeq(t) \in Seq(B)}
<1>1. 0 \in S
  <2>1. ASSUME NEW t \in Seq(Seq(B)), Len(t) = 0 PROVE FlattenSeq(t) \in Seq(B)
    <3>1. t = <<>> /\ <<>> \in Seq(B)
      BY <2>1
    <3>2. FlattenSeq(t) = <<>>
      BY <3>1, FlattenEmpty
    <3> QED
      BY <3>1, <3>2
  <2> QED
    BY <2>1
<1>2. ASSUME NEW n \in Nat, n \in S PROVE n + 1 \in S
  <2>1. ASSUME NEW t \in Seq(Seq(B)), Len(t) = n + 1 PROVE FlattenSeq(t) \in Seq(B)
    <3>1. PICK u \in Seq(Seq(B)), b \in Seq(B) : t = Append(u, b)
      <4>1. t # <<>>
        BY <2>1
      <4> QED
        BY <4>1, SequenceEmptyOrAppend
    <3>2. Len(u) = n
      BY <2>1, <3>1
    <3>3. FlattenSeq(u) \in Seq(B)
      BY <1>2, <3>2
    <3>4. FlattenSeq(t) = FlattenSeq(u) \o b
      BY <3>1, FlattenAppend
    <3> QED
      BY <3>3, <3>4
  <2> QED
    BY <2>1
<1> HIDE DEF S
<1>3. Len(s) \in Nat
  OBVIOUS
<1>4. Len(s) \in S
  BY <1>1, <1>2, <1>3, Induction
<1> QED
  BY <1>4 DEF S

LEMMA FlattenConcat ==
  ASSUME NEW B, NEW s \in Seq(Seq(B)), NEW t \in Seq(Seq(B))
  PROVE  FlattenSeq(s \o t) = FlattenSeq(s) \o FlattenSeq(t)
<1> DEFINE P(u) == FlattenSeq(s \o u) = FlattenSeq(s) \o FlattenSeq(u)
           S == {n \in Nat : \A u \in Seq(Seq(B)) : Len(u) = n => P(u)}
<1>1. 0 \in S
  <2>1. ASSUME NEW u \in Seq(Seq(B)), Len(u) = 0 PROVE P(u)
    <3>1. u = <<>> /\ s \o u = s
      BY <2>1
    <3>2. FlattenSeq(s) \o <<>> = FlattenSeq(s)
      BY FlattenType, ConcatEmptySeq
    <3> QED
      BY <3>1, <3>2, FlattenEmpty
  <2> QED
    BY <2>1
<1>2. ASSUME NEW n \in Nat, n \in S PROVE n + 1 \in S
  <2>1. ASSUME NEW u \in Seq(Seq(B)), Len(u) = n + 1 PROVE P(u)
    <3>1. PICK v \in Seq(Seq(B)), b \in Seq(B) : u = Append(v, b)
      <4>1. u # <<>>
        BY <2>1
      <4> QED
        BY <4>1, SequenceEmptyOrAppend
    <3>2. Len(v) = n
      BY <2>1, <3>1
    <3>3. P(v)
      BY <1>2, <3>2
    <3>4. s \o u = Append(s \o v, b) /\ s \o v \in Seq(Seq(B))
      BY <3>1
    <3>5. FlattenSeq(s \o u) = FlattenSeq(s \o v) \o b
      BY <3>4, FlattenAppend
    <3>6. FlattenSeq(u) = FlattenSeq(v) \o b
      BY <3>1, FlattenAppend
    <3>7. FlattenSeq(s) \in Seq(B) /\ FlattenSeq(v) \in Seq(B)
      BY FlattenType
    <3> QED
      BY <3>3, <3>5, <3>6, <3>7, ConcatAssociative
  <2> QED
    BY <2>1
<1> HIDE DEF S, P
<1>3. Len(t) \in Nat
  OBVIOUS
<1>4. Len(t) \in S
  BY <1>1, <1>2, <1>3, Induction
<1> QED
  BY <1>4 DEF S, P
-----------------------------------------------------------------------------
(* Cutting sequences.  n elements are taken from the front, or dropped. *)

LEMMA SubSeqType ==
  ASSUME NEW B, NEW s \in Seq(B), NEW m \in Nat, NEW n \in Nat, n <= Len(s)
  PROVE  /\ SubSeq(s, m + 1, n) \in Seq(B)
         /\ Len(SubSeq(s, m + 1, n)) = IF m < n THEN n - m ELSE 0
         /\ \A i \in 1..(n - m) : SubSeq(s, m + 1, n)[i] = s[m + i]
<1>1. \A i \in (m + 1)..n : s[i] \in B
  OBVIOUS
<1>2. m + 1 \in Int /\ n \in Int
  OBVIOUS
<1>3. /\ SubSeq(s, m + 1, n) \in Seq(B)
      /\ Len(SubSeq(s, m + 1, n)) = IF m + 1 <= n THEN n - (m + 1) + 1 ELSE 0
      /\ \A i \in 1..(n - (m + 1) + 1) : SubSeq(s, m + 1, n)[i] = s[m + 1 + i - 1]
  BY <1>1, <1>2, SubSeqProperties
<1>4. n - (m + 1) + 1 = n - m /\ \A i \in Int : m + 1 + i - 1 = m + i
  OBVIOUS
<1> QED
  BY <1>3, <1>4

LEMMA TakeDrop ==
  ASSUME NEW B, NEW s \in Seq(B), NEW n \in Nat, n <= Len(s)
  PROVE  s = SubSeq(s, 1, n) \o SubSeq(s, n + 1, Len(s))
<1> DEFINE x == SubSeq(s, 1, n)
           y == SubSeq(s, n + 1, Len(s))
           z == x \o y
<1>1. x \in Seq(B) /\ Len(x) = n /\ \A i \in 1..n : x[i] = s[i]
  <2>1. x = SubSeq(s, 0 + 1, n) /\ n - 0 = n /\ \A i \in Int : 0 + i = i
    OBVIOUS
  <2> QED
    BY <2>1, SubSeqType
<1>2. y \in Seq(B) /\ Len(y) = Len(s) - n /\ \A i \in 1..(Len(s) - n) : y[i] = s[n + i]
  <2>1. Len(s) \in Nat
    OBVIOUS
  <2> QED
    BY <2>1, SubSeqType
<1> HIDE DEF x, y
<1>3. /\ x \o y \in Seq(B) /\ Len(x \o y) = Len(x) + Len(y)
      /\ \A i \in 1..(Len(x) + Len(y)) :
           (x \o y)[i] = IF i <= Len(x) THEN x[i] ELSE y[i - Len(x)]
  BY <1>1, <1>2, ConcatProperties
<1> HIDE DEF z
<1>4. Len(x) + Len(y) = Len(s) /\ Len(s) \in Nat
  BY <1>1, <1>2
<1>5. ASSUME NEW i \in 1..Len(s) PROVE z[i] = s[i]
  <2>1. z[i] = IF i <= n THEN x[i] ELSE y[i - n]
    BY <1>1, <1>3, <1>4 DEF z
  <2>2. CASE i <= n
    BY <1>1, <2>1, <2>2
  <2>3. CASE ~(i <= n)
    <3>1. i - n \in 1..(Len(s) - n) /\ n + (i - n) = i
      BY <1>4, <2>3
    <3> QED
      BY <1>2, <2>1, <2>3, <3>1
  <2> QED
    BY <2>2, <2>3
<1>6. s = z
  BY <1>3, <1>4, <1>5, SeqEqual DEF z
<1> QED
  BY <1>6 DEF x, y, z

LEMMA SubSeqOfConcat ==
  ASSUME NEW B, NEW x \in Seq(B), NEW y \in Seq(B),
         NEW m \in Nat, NEW n \in Nat, n <= Len(x)
  PROVE  SubSeq(x \o y, m + 1, n) = SubSeq(x, m + 1, n)
<1> DEFINE z == x \o y
           u == SubSeq(z, m + 1, n)
           v == SubSeq(x, m + 1, n)
<1>1. z \in Seq(B) /\ n <= Len(z) /\ \A i \in 1..Len(x) : z[i] = x[i]
  BY ConcatProperties
<1> HIDE DEF z
<1>2. u \in Seq(B) /\ (Len(u) = IF m < n THEN n - m ELSE 0)
      /\ \A i \in 1..(n - m) : u[i] = z[m + i]
  BY <1>1, SubSeqType
<1>3. v \in Seq(B) /\ (Len(v) = IF m < n THEN n - m ELSE 0)
      /\ \A i \in 1..(n - m) : v[i] = x[m + i]
  BY SubSeqType
<1> HIDE DEF u, v
<1>4. Len(u) = Len(v)
  BY <1>2, <1>3
<1>5. ASSUME NEW i \in 1..Len(u) PROVE u[i] = v[i]
  BY <1>1, <1>2, <1>3
<1>6. u = v
  BY <1>2, <1>3, <1>4, <1>5, SeqEqual
<1> QED
  BY <1>6 DEF u, v, z

LEMMA DropOfConcat ==
  ASSUME NEW B, NEW x \in Seq(B), NEW y \in Seq(B), NEW n \in Nat, n <= Len(x)
  PROVE  SubSeq(x \o y, n + 1, Len(x \o y)) = SubSeq(x, n + 1, Len(x)) \o y
<1> DEFINE z == x \o y
           u == SubSeq(z, n + 1, Len(z))
           v == SubSeq(x, n + 1, Len(x))
           w == v \o y
<1>1. /\ z \in Seq(B) /\ Len(z) = Len(x) + Len(y) /\ Len(z) \in Nat /\ Len(x) \in Nat
      /\ \A i \in 1..(Len(x) + Len(y)) : z[i] = IF i <= Len(x) THEN x[i] ELSE y[i - Len(x)]
  BY ConcatProperties
<1> HIDE DEF z
<1>2. u \in Seq(B) /\ Len(u) = Len(z) - n
      /\ \A i \in 1..(Len(z) - n) : u[i] = z[n + i]
  BY <1>1, SubSeqType
<1>3. v \in Seq(B) /\ Len(v) = Len(x) - n
      /\ \A i \in 1..(Len(x) - n) : v[i] = x[n + i]
  BY <1>1, SubSeqType
<1> HIDE DEF u, v
<1>4. /\ w \in Seq(B) /\ Len(w) = Len(v) + Len(y)
      /\ \A i \in 1..(Len(v) + Len(y)) : w[i] = IF i <= Len(v) THEN v[i] ELSE y[i - Len(v)]
  BY <1>3, ConcatProperties
<1> HIDE DEF w
<1>5. Len(y) \in Nat /\ Len(u) = Len(w)
  BY <1>1, <1>2, <1>3, <1>4
<1>6. ASSUME NEW i \in 1..Len(u) PROVE u[i] = w[i]
  <2>1. i \in 1..(Len(z) - n) /\ u[i] = z[n + i]
    BY <1>2
  <2>2. z[n + i] = IF n + i <= Len(x) THEN x[n + i] ELSE y[n + i - Len(x)]
    BY <1>1, <1>5, <2>1
  <2>3. w[i] = IF i <= Len(x) - n THEN v[i] ELSE y[i - (Len(x) - n)]
    BY <1>1, <1>3, <1>4, <1>5, <2>1
  <2>4. CASE i <= Len(x) - n
    BY <1>1, <1>3, <2>1, <2>2, <2>3, <2>4
  <2>5. CASE ~(i <= Len(x) - n)
    BY <1>1, <2>1, <2>2, <2>3, <2>5
  <2> QED
    BY <2>4, <2>5
<1>7. u = w
  BY <1>2, <1>4, <1>5, <1>6, SeqEqual
<1> QED
  BY <1>7 DEF u, v, w, z

(* Two special cases: all of the first sequence is taken, or dropped. *)
LEMMA TakeConcat ==
  ASSUME NEW B, NEW x \in Seq(B), NEW y \in Seq(B)
  PROVE  SubSeq(x \o y, 1, Len(x)) = x
<1>1. Len(x) \in Nat /\ 0 + 1 = 1
  OBVIOUS
<1>2. SubSeq(x \o y, 0 + 1, Len(x)) = SubSeq(x, 0 + 1, Len(x))
  BY <1>1, SubSeqOfConcat
<1> QED
  BY <1>1, <1>2, SubSeqFull

LEMMA DropConcat ==
  ASSUME NEW B, NEW x \in Seq(B), NEW y \in Seq(B)
  PROVE  SubSeq(x \o y, Len(x) + 1, Len(x \o y)) = y
<1>1. Len(x) \in Nat
  OBVIOUS
<1>2. SubSeq(x, Len(x) + 1, Len(x)) = <<>>
  BY <1>1, SubSeqEmpty
<1>3. SubSeq(x \o y, Len(x) + 1, Len(x \o y)) = <<>> \o y
  BY <1>1, <1>2, DropOfConcat
<1> QED
  BY <1>3, ConcatEmptySeq

LEMMA DropDrop ==
  ASSUME NEW B, NEW s \in Seq(B), NEW m \in Nat, NEW n \in Nat, m + n <= Len(s)
  PROVE  LET d == SubSeq(s, m + 1, Len(s))
         IN  /\ SubSeq(d, n + 1, Len(d)) = SubSeq(s, m + n + 1, Len(s))
             /\ SubSeq(d, 1, n) = SubSeq(s, m + 1, m + n)
<1> DEFINE d == SubSeq(s, m + 1, Len(s))
           u == SubSeq(d, n + 1, Len(d))
           v == SubSeq(s, m + n + 1, Len(s))
           x == SubSeq(d, 0 + 1, n)
           y == SubSeq(s, m + 1, m + n)
<1>1. Len(s) \in Nat /\ m <= Len(s) /\ m + n \in Nat
  OBVIOUS
<1>2. d \in Seq(B) /\ Len(d) = Len(s) - m /\ \A i \in 1..(Len(s) - m) : d[i] = s[m + i]
  BY <1>1, SubSeqType
<1>3. v \in Seq(B) /\ Len(v) = Len(s) - (m + n)
      /\ \A i \in 1..(Len(s) - (m + n)) : v[i] = s[m + n + i]
  BY <1>1, SubSeqType
<1>4. y \in Seq(B) /\ (Len(y) = IF m < m + n THEN m + n - m ELSE 0)
      /\ \A i \in 1..(m + n - m) : y[i] = s[m + i]
  BY <1>1, SubSeqType
<1> HIDE DEF d, v, y
<1>5. Len(d) \in Nat /\ n <= Len(d)
  BY <1>1, <1>2
<1>6. u \in Seq(B) /\ (Len(u) = IF n < Len(d) THEN Len(d) - n ELSE 0)
      /\ \A i \in 1..(Len(d) - n) : u[i] = d[n + i]
  BY <1>2, <1>5, SubSeqType
<1>7. x \in Seq(B) /\ (Len(x) = IF 0 < n THEN n - 0 ELSE 0)
      /\ \A i \in 1..(n - 0) : x[i] = d[0 + i]
  BY <1>2, <1>5, SubSeqType
<1> HIDE DEF u, x
<1>8. u = v
  <2>1. Len(u) = Len(d) - n /\ Len(d) - n = Len(s) - (m + n)
    BY <1>1, <1>2, <1>5, <1>6
  <2>2. ASSUME NEW i \in 1..(Len(s) - (m + n)) PROVE u[i] = v[i]
    <3>1. u[i] = d[n + i] /\ n + i \in 1..(Len(s) - m) /\ m + (n + i) = m + n + i
      BY <1>1, <1>6, <2>1
    <3>2. d[n + i] = s[m + (n + i)] /\ v[i] = s[m + n + i]
      BY <1>2, <1>3, <3>1
    <3> QED
      BY <3>1, <3>2
  <2>3. Len(u) = Len(v) /\ Len(u) = Len(s) - (m + n)
    BY <1>3, <2>1
  <2> QED
    BY <1>3, <1>6, <2>2, <2>3, SeqEqual
<1>9. x = y
  <2>1. Len(x) = Len(y)
    BY <1>4, <1>7
  <2>2. ASSUME NEW i \in 1..Len(x) PROVE x[i] = y[i]
    BY <1>1, <1>2, <1>4, <1>5, <1>7
  <2> QED
    BY <1>4, <1>7, <2>1, <2>2, SeqEqual
<1> QED
  BY <1>8, <1>9 DEF u, v, x, y, d

LEMMA AppendConcat ==
  ASSUME NEW B, NEW s \in Seq(B), NEW b \in B, NEW t \in Seq(B), NEW y, y = <<b>>
  PROVE  s \o (y \o t) = Append(s, b) \o t
<1>1. y \in Seq(B) /\ Append(s, b) = s \o y
  BY AppendIsConcat
<1>2. s \o (y \o t) = (s \o y) \o t
  BY <1>1, ConcatAssociative
<1> QED
  BY <1>1, <1>2

LEMMA PrefixOfConcat ==
  ASSUME NEW B, NEW x \in Seq(B), NEW y \in Seq(B)
  PROVE  IsPrefix(x, x \o y)
<1>1. Len(x) <= Len(x \o y)
  BY ConcatProperties
<1> QED
  BY <1>1, TakeConcat, SubSeqFull DEF IsPrefix
-----------------------------------------------------------------------------
(* Flattening, and cutting where one sequence of it ends. *)

LEMMA FlattenCut ==
  ASSUME NEW B, NEW s \in Seq(Seq(B)), NEW k \in Nat, k <= Len(s)
  PROVE  FlattenSeq(s) = FlattenSeq(SubSeq(s, 1, k)) \o FlattenSeq(SubSeq(s, k + 1, Len(s)))
<1> DEFINE x == SubSeq(s, 1, k)
           y == SubSeq(s, k + 1, Len(s))
<1>1. s = x \o y
  BY TakeDrop
<1>2. x \in Seq(Seq(B)) /\ y \in Seq(Seq(B))
  <2>1. x = SubSeq(s, 0 + 1, k) /\ Len(s) \in Nat
    OBVIOUS
  <2> QED
    BY <2>1, SubSeqType
<1> HIDE DEF x, y
<1>3. FlattenSeq(x \o y) = FlattenSeq(x) \o FlattenSeq(y)
  BY <1>2, FlattenConcat
<1>4. FlattenSeq(s) = FlattenSeq(x) \o FlattenSeq(y)
  BY <1>1, <1>3
<1> QED
  BY <1>4 DEF x, y

LEMMA FlattenCons ==
  ASSUME NEW B, NEW b \in Seq(B), NEW s \in Seq(Seq(B))
  PROVE  FlattenSeq(<<b>> \o s) = b \o FlattenSeq(s)
<1>1. <<b>> \in Seq(Seq(B))
  OBVIOUS
<1>2. FlattenSeq(<<b>> \o s) = FlattenSeq(<<b>>) \o FlattenSeq(s)
  BY <1>1, FlattenConcat
<1> QED
  BY <1>2, FlattenSingle

LEMMA FlattenHeadTail ==
  ASSUME NEW B, NEW s \in Seq(Seq(B)), s # <<>>
  PROVE  FlattenSeq(s) = s[1] \o FlattenSeq(Tail(s))
<1>1. s[1] \in Seq(B) /\ Tail(s) \in Seq(Seq(B)) /\ s = <<s[1]>> \o Tail(s)
  OBVIOUS
<1>2. FlattenSeq(<<s[1]>> \o Tail(s)) = s[1] \o FlattenSeq(Tail(s))
  BY <1>1, FlattenCons
<1> QED
  BY <1>1, <1>2
=============================================================================
