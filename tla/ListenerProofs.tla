---------------------------- MODULE ListenerProofs -----------------------------
(***************************************************************************)
(* Proofs about Listener, for any number of connections, servers and        *)
(* closes: the list links exactly the live connections, and the server that *)
(* holds the port is known, unless it was made too early or has failed.     *)
(***************************************************************************)
EXTENDS Listener, SequenceLemmas

-----------------------------------------------------------------------------
(* The list. *)

Lists == [head : 0..MaxAccept, tail : 0..MaxAccept,
          next : [Children -> 0..MaxAccept], prev : [Children -> 0..MaxAccept]]

(* Next and previous in a set of children. *)
Next(S, a, b) ==
  /\ b = 0 \/ (b \in S /\ a < b)
  /\ \A c \in S : a < c => b # 0 /\ b <= c

Prev(S, a, b) ==
  /\ b = 0 \/ (b \in S /\ b < a)
  /\ \A c \in S : c < a => b # 0 /\ c <= b

(* What the list has to be for the children in S. *)
Links(l, S) ==
  /\ Next(S, 0, l.head) /\ Prev(S, MaxAccept + 1, l.tail)
  /\ \A c \in S : Next(S, c, l.next[c]) /\ Prev(S, c, l.prev[c])

Resets(l, S) == \A c \in Children \ S : l.next[c] = 0 /\ l.prev[c] = 0

LEMMA LinksAre == ListLinksLive <=> Links(children, live)
BY DEF ListLinksLive, Links, Next, Prev, IsNext, IsPrev

(* Pushing a child that is newer than all others. *)
LEMMA PushLinks ==
  ASSUME NEW l \in Lists, NEW S \in SUBSET Children, NEW o \in Children,
         \A c \in S : c < o, Links(l, S), Resets(l, S)
  PROVE  /\ push(l, o) \in Lists
         /\ Links(push(l, o), S \cup {o})
         /\ Resets(push(l, o), S \cup {o})
<1> DEFINE T == S \cup {o}
           m == push(l, o)
<1>1. /\ S \subseteq Nat /\ o \in Nat /\ o # 0 /\ 0 \notin S /\ MaxAccept \in Nat
      /\ \A c \in Children : c \in Nat /\ c # 0 /\ c <= MaxAccept
  BY MaxAcceptAssumption DEF Children
<1>2. /\ l.head \in Nat /\ l.tail \in Nat
      /\ \A c \in Children : l.next[c] \in Nat /\ l.prev[c] \in Nat
      /\ DOMAIN l.next = Children
  BY <1>1 DEF Lists
<1>3. /\ m.head = IF l.head = 0 THEN o ELSE l.head
      /\ m.tail = o
      /\ m.next = [x \in Children |-> IF x = o THEN 0
                                      ELSE IF x = l.tail THEN o ELSE l.next[x]]
      /\ m.prev = [l.prev EXCEPT ![o] = l.tail]
      /\ m = [head |-> m.head, tail |-> m.tail, next |-> m.next, prev |-> m.prev]
  BY <1>2 DEF push
<1>4. m \in Lists
  <2>1. m.head \in 0..MaxAccept /\ m.tail \in 0..MaxAccept
    BY <1>1, <1>3 DEF Lists
  <2>2. m.next \in [Children -> 0..MaxAccept]
    BY <1>1, <1>3 DEF Lists
  <2>3. m.prev \in [Children -> 0..MaxAccept]
    BY <1>3 DEF Lists
  <2> HIDE DEF m
  <2> QED
    BY <1>3, <2>1, <2>2, <2>3 DEF Lists
<1>5. \A x \in Children : m.prev[x] = IF x = o THEN l.tail ELSE l.prev[x]
  BY <1>3 DEF Lists
<1>6. \A x \in Children : m.next[x] = IF x = o THEN 0
                                      ELSE IF x = l.tail THEN o ELSE l.next[x]
  BY <1>3
<1> HIDE DEF m
<1>7. Next(T, 0, m.head)
  BY <1>1, <1>2, <1>3 DEF Links, Next
<1>8. Prev(T, MaxAccept + 1, m.tail)
  BY <1>1, <1>3 DEF Links, Prev
<1>9. ASSUME NEW c \in T PROVE Next(T, c, m.next[c])
  <2>1. CASE c = o
    BY <1>1, <1>6, <2>1 DEF Next
  <2>2. CASE c # o /\ c = l.tail
    <3>1. m.next[c] = o /\ c \in S
      BY <1>6, <2>2
    <3>a. \A d \in S : d < MaxAccept + 1
      BY <1>1
    <3>b. Prev(S, MaxAccept + 1, c)
      BY <2>2 DEF Links
    <3>2. c < o /\ \A d \in S : d <= c
      BY <3>1, <3>a, <3>b DEF Prev
    <3>3. ASSUME NEW d \in T, c < d PROVE o <= d
      <4>1. c \in Nat /\ d \in Nat /\ o \in Nat
        BY <1>1, <3>1
      <4>2. d \notin S
        BY <3>2, <3>3, <4>1
      <4>3. d = o
        BY <4>2
      <4> QED
        BY <4>1, <4>3
    <3> QED
      BY <1>1, <3>1, <3>2, <3>3 DEF Next
  <2>3. CASE c # o /\ c # l.tail
    <3>1. c \in S /\ l.tail \in S /\ c < l.tail
      BY <1>1, <1>2, <2>3 DEF Links, Prev
    <3>2. l.next[c] # 0 /\ Next(S, c, l.next[c]) /\ m.next[c] = l.next[c]
      BY <1>1, <1>6, <2>3, <3>1 DEF Links, Next
    <3>3. l.next[c] \in S /\ c < l.next[c] /\ l.next[c] < o
      BY <3>2 DEF Next
    <3>a. l.next[c] \in Nat
      BY <1>1, <3>3
    <3>b. \A d \in S : c < d => l.next[c] <= d
      BY <3>2 DEF Next
    <3>4. \A d \in T : c < d => l.next[c] <= d
      BY <1>1, <3>3, <3>a, <3>b
    <3> QED
      BY <3>2, <3>3, <3>4 DEF Next
  <2> QED
    BY <2>1, <2>2, <2>3
<1>10. ASSUME NEW c \in T PROVE Prev(T, c, m.prev[c])
  <2>1. CASE c = o
    BY <1>1, <1>2, <1>5, <2>1 DEF Links, Prev
  <2>2. CASE c # o
    BY <1>1, <1>2, <1>5, <2>2 DEF Links, Prev
  <2> QED
    BY <2>1, <2>2
<1>11. Resets(m, T)
  <2> SUFFICES ASSUME NEW c \in Children \ T PROVE m.next[c] = 0 /\ m.prev[c] = 0
    BY DEF Resets
  <2>1. c # o /\ c \notin S /\ l.next[c] = 0 /\ l.prev[c] = 0
    BY DEF Resets
  <2>2. c # l.tail
    BY <1>1, <2>1 DEF Links, Prev
  <2> QED
    BY <1>5, <1>6, <2>1, <2>2
<1> QED
  BY <1>4, <1>7, <1>8, <1>9, <1>10, <1>11 DEF Links, m

(* Removing a child, wherever it is. *)
LEMMA RemoveLinks ==
  ASSUME NEW l \in Lists, NEW S \in SUBSET Children, NEW w \in S,
         Links(l, S), Resets(l, S)
  PROVE  /\ remove(l, w) \in Lists
         /\ Links(remove(l, w), S \ {w})
         /\ Resets(remove(l, w), S \ {w})
<1> DEFINE T == S \ {w}
           m == remove(l, w)
           p == l.prev[w]
           n == l.next[w]
<1>1. /\ S \subseteq Nat /\ w \in Nat /\ w # 0 /\ 0 \notin S /\ MaxAccept \in Nat
      /\ \A c \in Children : c \in Nat /\ c # 0 /\ c <= MaxAccept
  BY MaxAcceptAssumption DEF Children
<1>2. /\ l.head \in Nat /\ l.tail \in Nat /\ p \in Nat /\ n \in Nat
      /\ \A c \in Children : l.next[c] \in Nat /\ l.prev[c] \in Nat
      /\ DOMAIN l.next = Children /\ DOMAIN l.prev = Children
      /\ p \in 0..MaxAccept /\ n \in 0..MaxAccept
  BY <1>1 DEF Lists
<1>3. /\ m.head = IF p = 0 THEN n ELSE l.head
      /\ m.tail = IF n = 0 THEN p ELSE l.tail
      /\ m.next = [x \in Children |-> IF x = w THEN 0
                                      ELSE IF x = p THEN n ELSE l.next[x]]
      /\ m.prev = [x \in Children |-> IF x = w THEN 0
                                      ELSE IF x = n THEN p ELSE l.prev[x]]
      /\ m = [head |-> m.head, tail |-> m.tail, next |-> m.next, prev |-> m.prev]
  BY <1>2 DEF remove
<1>4. m \in Lists
  <2>1. m.head \in 0..MaxAccept /\ m.tail \in 0..MaxAccept
    BY <1>2, <1>3 DEF Lists
  <2>2. m.next \in [Children -> 0..MaxAccept]
    BY <1>1, <1>2, <1>3 DEF Lists
  <2>3. m.prev \in [Children -> 0..MaxAccept]
    BY <1>1, <1>2, <1>3 DEF Lists
  <2> HIDE DEF m
  <2> QED
    BY <1>3, <2>1, <2>2, <2>3 DEF Lists
<1>5. \A x \in Children : /\ m.next[x] = IF x = w THEN 0 ELSE IF x = p THEN n ELSE l.next[x]
                         /\ m.prev[x] = IF x = w THEN 0 ELSE IF x = n THEN p ELSE l.prev[x]
  BY <1>3
<1>6. Next(S, w, n) /\ Prev(S, w, p)
  BY DEF Links
<1> HIDE DEF m, p, n
<1>7. Next(T, 0, m.head)
  <2>1. CASE p = 0
    BY <1>1, <1>2, <1>3, <1>6, <2>1 DEF Next, Prev
  <2>2. CASE p # 0
    BY <1>1, <1>2, <1>3, <1>6, <2>2 DEF Links, Next, Prev
  <2> QED
    BY <2>1, <2>2
<1>8. Prev(T, MaxAccept + 1, m.tail)
  <2>1. CASE n = 0
    BY <1>1, <1>2, <1>3, <1>6, <2>1 DEF Next, Prev
  <2>2. CASE n # 0
    BY <1>1, <1>2, <1>3, <1>6, <2>2 DEF Links, Next, Prev
  <2> QED
    BY <2>1, <2>2
<1>9. ASSUME NEW c \in T PROVE Next(T, c, m.next[c]) /\ Prev(T, c, m.prev[c])
  <2>0. c \in S /\ c # w /\ c \in Children /\ Next(S, c, l.next[c]) /\ Prev(S, c, l.prev[c])
    BY DEF Links
  <2>1. CASE c = p
    BY <1>1, <1>2, <1>5, <1>6, <2>0, <2>1 DEF Next, Prev
  <2>2. CASE c = n
    BY <1>1, <1>2, <1>5, <1>6, <2>0, <2>2 DEF Next, Prev
  <2>3. CASE c # p /\ c # n
    <3>1. m.next[c] = l.next[c] /\ m.prev[c] = l.prev[c]
      BY <1>5, <2>0, <2>3
    <3>2. l.next[c] # w
      <4> SUFFICES ASSUME l.next[c] = w PROVE FALSE
        OBVIOUS
      <4>1. c < w /\ c \in Nat
        BY <1>1, <2>0 DEF Next
      <4>2. p # 0 /\ c <= p /\ p \in S /\ p < w
        BY <1>6, <2>0, <4>1 DEF Prev
      <4>3. c < p
        BY <1>2, <2>3, <4>1, <4>2
      <4>4. w <= p
        BY <2>0, <4>2, <4>3 DEF Next
      <4> QED
        BY <1>1, <1>2, <4>2, <4>4
    <3>3. l.prev[c] # w
      <4> SUFFICES ASSUME l.prev[c] = w PROVE FALSE
        OBVIOUS
      <4>1. w < c /\ c \in Nat
        BY <1>1, <2>0 DEF Prev
      <4>2. n # 0 /\ n <= c /\ n \in S /\ w < n
        BY <1>6, <2>0, <4>1 DEF Next
      <4>3. n < c
        BY <1>2, <2>3, <4>1, <4>2
      <4>4. n <= w
        BY <2>0, <4>2, <4>3 DEF Prev
      <4> QED
        BY <1>1, <1>2, <4>2, <4>4
    <3>4. Next(T, c, l.next[c])
      BY <2>0, <3>2 DEF Next
    <3>5. Prev(T, c, l.prev[c])
      BY <2>0, <3>3 DEF Prev
    <3> QED
      BY <3>1, <3>4, <3>5
  <2> QED
    BY <2>1, <2>2, <2>3
<1>10. Resets(m, T)
  <2> SUFFICES ASSUME NEW c \in Children \ T PROVE m.next[c] = 0 /\ m.prev[c] = 0
    BY DEF Resets
  <2>1. CASE c = w
    BY <1>5, <2>1
  <2>2. CASE c # w
    <3>1. c \notin S /\ l.next[c] = 0 /\ l.prev[c] = 0
      BY <2>2 DEF Resets
    <3>2. c # p /\ c # n
      BY <1>1, <1>6, <3>1 DEF Next, Prev
    <3> QED
      BY <1>5, <2>2, <3>1, <3>2
  <2> QED
    BY <2>1, <2>2
<1> QED
  BY <1>4, <1>7, <1>8, <1>9, <1>10 DEF Links, m

-----------------------------------------------------------------------------
(* The walk. *)

Walking(p, l, n) ==
  p = [k \in 0..n |-> IF k = 0 THEN l.head
                      ELSE IF p[k - 1] = 0 THEN 0 ELSE l.next[p[k - 1]]]

LEMMA WalkingExists ==
  ASSUME NEW l, NEW n \in Nat
  PROVE  \E p : Walking(p, l, n)
<1> DEFINE e(p, i) == IF i = 0 THEN l.head ELSE IF p[i - 1] = 0 THEN 0 ELSE l.next[p[i - 1]]
           S == {k \in Nat : \E p : Walking(p, l, k)}
<1>1. 0 \in S
  <2> DEFINE p == [i \in 0..0 |-> l.head]
  <2>1. \A i \in 0..0 : e(p, i) = l.head
    OBVIOUS
  <2>2. p = [i \in 0..0 |-> e(p, i)]
    BY <2>1
  <2>3. Walking(p, l, 0)
    BY <2>2 DEF Walking
  <2> QED
    BY <2>3
<1>2. ASSUME NEW k \in Nat, k \in S PROVE k + 1 \in S
  <2>1. PICK p : Walking(p, l, k)
    BY <1>2
  <2> DEFINE w == [i \in 0..(k + 1) |-> IF i <= k THEN p[i] ELSE e(p, i)]
  <2>2. \A i \in 0..k : p[i] = e(p, i)
    BY <2>1, Zenon DEF Walking
  <2>3. ASSUME NEW i \in 0..(k + 1) PROVE w[i] = e(w, i)
    <3>1. i = 0 \/ (i - 1 \in 0..k /\ i - 1 \in 0..(k + 1))
      OBVIOUS
    <3>2. i # 0 => w[i - 1] = p[i - 1]
      BY <3>1
    <3>3. e(w, i) = e(p, i)
      BY <3>2
    <3>4. w[i] = e(p, i)
      BY <2>2
    <3> QED
      BY <3>3, <3>4
  <2> HIDE DEF e
  <2>4. w = [i \in 0..(k + 1) |-> e(w, i)]
    BY <2>3
  <2>5. Walking(w, l, k + 1)
    BY <2>4 DEF Walking, e
  <2> QED
    BY <2>5
<1> HIDE DEF S
<1>3. n \in S
  BY <1>1, <1>2, Induction
<1> QED
  BY <1>3 DEF S

LEMMA WalkIs ==
  ASSUME NEW l, NEW n \in Nat
  PROVE  Walking(walk(l, n), l, n)
BY WalkingExists, Zenon DEF walk, Walking

(* A step of the walk goes to the next child, until there is none. *)
Steps(p, S) ==
  /\ Next(S, 0, p[0])
  /\ \A k \in 0..(MaxAccept - 1) :
       IF p[k] = 0 THEN p[k + 1] = 0 ELSE Next(S, p[k], p[k + 1])

InSet(p, S) == \A k \in 0..MaxAccept : p[k] \in S \cup {0}

LEMMA WalkType ==
  ASSUME NEW p, NEW S \in SUBSET Children, InSet(p, S)
  PROVE  \A k \in 0..MaxAccept : p[k] \in Nat
<1>1. \A x \in S \cup {0} : x \in Nat
  BY DEF Children
<1> QED
  BY <1>1, Zenon DEF InSet

LEMMA WalkSteps ==
  ASSUME NEW l, NEW S \in SUBSET Children, Links(l, S)
  PROVE  Steps(walk(l, MaxAccept), S) /\ InSet(walk(l, MaxAccept), S)
<1> DEFINE p == walk(l, MaxAccept)
<1>1. MaxAccept \in Nat
  BY MaxAcceptAssumption
<1>2. p = [k \in 0..MaxAccept |-> IF k = 0 THEN l.head
                                  ELSE IF p[k - 1] = 0 THEN 0 ELSE l.next[p[k - 1]]]
  BY <1>1, WalkIs, Zenon DEF Walking
<1> HIDE DEF p
<1>3. p[0] = l.head
  BY <1>1, <1>2
<1>4. ASSUME NEW k \in 0..(MaxAccept - 1)
      PROVE  p[k + 1] = IF p[k] = 0 THEN 0 ELSE l.next[p[k]]
  <2>1. k + 1 \in 0..MaxAccept /\ k + 1 # 0 /\ (k + 1) - 1 = k
    BY <1>1
  <2> QED
    BY <1>2, <2>1
<1>5. InSet(p, S)
  <2> DEFINE T == {k \in Nat : k <= MaxAccept => p[k] \in S \cup {0}}
  <2>1. 0 \in T
    BY <1>3 DEF Links, Next
  <2>2. ASSUME NEW k \in Nat, k \in T PROVE k + 1 \in T
    <3>1. SUFFICES ASSUME k + 1 <= MaxAccept PROVE p[k + 1] \in S \cup {0}
      OBVIOUS
    <3>2. k \in 0..(MaxAccept - 1) /\ p[k] \in S \cup {0}
      BY <1>1, <2>2, <3>1
    <3>3. p[k] # 0 => l.next[p[k]] \in S \cup {0}
      BY <3>2 DEF Links, Next
    <3> QED
      BY <1>4, <3>2, <3>3
  <2> HIDE DEF T
  <2>3. \A k \in Nat : k \in T
    BY <2>1, <2>2, Induction
  <2>4. ASSUME NEW k \in 0..MaxAccept PROVE p[k] \in S \cup {0}
    BY <1>1, <2>3 DEF T
  <2> QED
    BY <2>4 DEF InSet
<1>6. Steps(p, S)
  <2>1. Next(S, 0, p[0])
    BY <1>3 DEF Links
  <2>2. ASSUME NEW k \in 0..(MaxAccept - 1)
        PROVE  IF p[k] = 0 THEN p[k + 1] = 0 ELSE Next(S, p[k], p[k + 1])
    <3>1. p[k] \in S \cup {0}
      BY <1>1, <1>5 DEF InSet
    <3> QED
      BY <1>4, <3>1 DEF Links
  <2> QED
    BY <2>1, <2>2 DEF Steps
<1> QED
  BY <1>5, <1>6 DEF p

(* So the walk is at an older child in every earlier step, ... *)
Rises(p) == \A j, k \in 0..MaxAccept : j < k /\ p[k] # 0 => p[j] < p[k]

LEMMA WalkRises ==
  ASSUME NEW p, NEW S \in SUBSET Children, Steps(p, S), InSet(p, S)
  PROVE  Rises(p)
<1> DEFINE T == {k \in Nat : k <= MaxAccept /\ p[k] # 0 =>
                               \A j \in Nat : j < k => p[j] < p[k]}
<1>1. MaxAccept \in Nat /\ S \subseteq Nat /\ 0 \notin S
  BY MaxAcceptAssumption DEF Children
<1>2. 0 \in T
  OBVIOUS
<1>3. ASSUME NEW k \in Nat, k \in T PROVE k + 1 \in T
  <2>1. SUFFICES ASSUME k + 1 <= MaxAccept, p[k + 1] # 0, NEW j \in Nat, j < k + 1
                 PROVE  p[j] < p[k + 1]
    OBVIOUS
  <2>2. k \in 0..(MaxAccept - 1) /\ k \in 0..MaxAccept /\ j \in 0..MaxAccept /\ k + 1 \in 0..MaxAccept
    BY <1>1, <2>1
  <2>3. p[k] \in Nat /\ p[j] \in Nat /\ p[k + 1] \in Nat
    BY <1>1, <2>2, WalkType
  <2>4. p[k] # 0 /\ Next(S, p[k], p[k + 1])
    BY <2>1, <2>2 DEF Steps
  <2>5. p[k] < p[k + 1]
    BY <2>1, <2>4 DEF Next
  <2>6. j < k => p[j] < p[k]
    BY <1>3, <2>2, <2>4
  <2>7. j = k \/ j < k
    BY <2>1
  <2> QED
    BY <2>3, <2>5, <2>6, <2>7
<1> HIDE DEF T
<1>4. \A k \in Nat : k \in T
  BY <1>2, <1>3, Induction
<1>5. ASSUME NEW j \in 0..MaxAccept, NEW k \in 0..MaxAccept, j < k, p[k] # 0
      PROVE  p[j] < p[k]
  BY <1>1, <1>4, <1>5 DEF T
<1> QED
  BY <1>5 DEF Rises

(* ... has made at most as many steps as the child has older ones, ... *)
LEMMA WalkIsFar ==
  ASSUME NEW p, NEW S \in SUBSET Children, Steps(p, S), InSet(p, S)
  PROVE  \A k \in 0..MaxAccept : p[k] # 0 => k < p[k]
<1> DEFINE T == {k \in Nat : k <= MaxAccept /\ p[k] # 0 => k < p[k]}
<1>1. MaxAccept \in Nat /\ S \subseteq Nat /\ 0 \notin S
  BY MaxAcceptAssumption DEF Children
<1>2. 0 \in T
  <2>1. p[0] \in Nat
    BY <1>1, WalkType
  <2> QED
    BY <2>1
<1>3. ASSUME NEW k \in Nat, k \in T PROVE k + 1 \in T
  <2>1. SUFFICES ASSUME k + 1 <= MaxAccept, p[k + 1] # 0 PROVE k + 1 < p[k + 1]
    OBVIOUS
  <2>2. k \in 0..(MaxAccept - 1) /\ k \in 0..MaxAccept /\ k + 1 \in 0..MaxAccept
    BY <1>1, <2>1
  <2>3. p[k] \in Nat /\ p[k + 1] \in Nat
    BY <1>1, <2>2, WalkType
  <2>4. p[k] # 0 /\ Next(S, p[k], p[k + 1])
    BY <2>1, <2>2 DEF Steps
  <2>5. p[k] < p[k + 1]
    BY <2>1, <2>4 DEF Next
  <2>6. k < p[k]
    BY <1>3, <2>2, <2>4
  <2> QED
    BY <2>3, <2>5, <2>6
<1> HIDE DEF T
<1>4. \A k \in Nat : k \in T
  BY <1>2, <1>3, Induction
<1>5. ASSUME NEW k \in 0..MaxAccept, p[k] # 0
      PROVE  k < p[k]
  BY <1>1, <1>4, <1>5 DEF T
<1> QED
  BY <1>5

(* ... and has met every child that is older than where it is. *)
LEMMA WalkMeets ==
  ASSUME NEW p, NEW S \in SUBSET Children, Steps(p, S), InSet(p, S), NEW c \in S
  PROVE  \E k \in 0..MaxAccept : p[k] = c
<1> DEFINE met(k) == \E j \in 0..MaxAccept : j <= k /\ p[j] = c
           T == {k \in Nat : k <= MaxAccept => met(k) \/ (p[k] # 0 /\ p[k] < c)}
<1>1. /\ MaxAccept \in Nat /\ S \subseteq Nat /\ 0 \notin S
      /\ c \in Nat /\ 0 < c /\ c <= MaxAccept
  BY MaxAcceptAssumption DEF Children
<1>2. 0 \in T
  <2>1. p[0] \in Nat
    BY <1>1, WalkType
  <2>2. p[0] # 0 /\ p[0] <= c
    BY <1>1 DEF Steps, Next
  <2>3. 0 \in 0..MaxAccept /\ 0 <= 0
    BY <1>1
  <2>4. p[0] = c => met(0)
    BY <2>3
  <2>5. p[0] # c => p[0] < c
    BY <1>1, <2>1, <2>2
  <2> QED
    BY <2>2, <2>4, <2>5
<1>3. ASSUME NEW k \in Nat, k \in T PROVE k + 1 \in T
  <2>1. SUFFICES ASSUME k + 1 <= MaxAccept
                 PROVE  met(k + 1) \/ (p[k + 1] # 0 /\ p[k + 1] < c)
    OBVIOUS
  <2>2. k \in 0..(MaxAccept - 1) /\ k \in 0..MaxAccept /\ k + 1 \in 0..MaxAccept /\ k <= MaxAccept
    BY <1>1, <2>1
  <2>3. met(k) \/ (p[k] # 0 /\ p[k] < c)
    BY <1>3, <2>2
  <2>4. CASE met(k)
    <3>1. PICK j \in 0..MaxAccept : j <= k /\ p[j] = c
      BY <2>4
    <3>2. j <= k + 1
      BY <3>1
    <3> QED
      BY <3>1, <3>2
  <2>5. CASE p[k] # 0 /\ p[k] < c
    <3>1. Next(S, p[k], p[k + 1])
      BY <2>2, <2>5 DEF Steps
    <3>2. p[k + 1] # 0 /\ p[k + 1] <= c
      BY <2>5, <3>1 DEF Next
    <3>3. p[k + 1] \in Nat
      BY <1>1, <2>2, WalkType
    <3>4. k + 1 <= k + 1
      BY <2>2
    <3>5. p[k + 1] = c => met(k + 1)
      BY <2>2, <3>4
    <3>6. p[k + 1] # c => p[k + 1] < c
      BY <1>1, <3>2, <3>3
    <3> QED
      BY <3>2, <3>5, <3>6
  <2> QED
    BY <2>3, <2>4, <2>5
<1> HIDE DEF T
<1>4. MaxAccept \in T
  BY <1>1, <1>2, <1>3, Induction
<1>5. ~(p[MaxAccept] # 0 /\ p[MaxAccept] < c)
  <2>1. MaxAccept \in 0..MaxAccept
    BY <1>1
  <2>2. p[MaxAccept] # 0 => MaxAccept < p[MaxAccept] /\ p[MaxAccept] \in Nat
    BY <1>1, <2>1, WalkIsFar DEF InSet
  <2> QED
    BY <1>1, <2>2
<1>6. met(MaxAccept)
  BY <1>1, <1>4, <1>5 DEF T
<1> QED
  BY <1>6

LEMMA WalkVisits ==
  ASSUME NEW l, NEW S \in SUBSET Children, Links(l, S)
  PROVE  LET p == walk(l, MaxAccept)
         IN  {p[k] : k \in 0..MaxAccept} \ {0} = S /\ Rises(p)
<1> DEFINE p == walk(l, MaxAccept)
<1>1. Steps(p, S) /\ InSet(p, S) /\ 0 \notin S
  BY WalkSteps DEF Children
<1> HIDE DEF p
<1>2. Rises(p)
  BY <1>1, WalkRises
<1>3. \A c \in S : \E k \in 0..MaxAccept : p[k] = c
  BY <1>1, WalkMeets
<1>4. {p[k] : k \in 0..MaxAccept} \ {0} = S
  BY <1>1, <1>3 DEF InSet
<1> QED
  BY <1>2, <1>4 DEF p

-----------------------------------------------------------------------------
(* The servers.  At most one holds the port; what is queued is for the      *)
(* listen under way; and a server that is made while another one is being   *)
(* closed, which that close could take out of _net_server, is hasty.        *)
Refused == {"EADDRINUSE", "EACCES"}

PortInv ==
  /\ \A s, t \in bound : s = t
  /\ \A s \in Servers : event[s] \in Refused => s \notin bound /\ server \in {0, s}

CallInv ==
  /\ \A s, t \in Servers : event[s] # "none" /\ event[t] # "none" => s = t
  /\ \A s \in Servers : event[s] # "none" => call \in {"once", "retry"} /\ ~sleeping
  /\ sleeping => call = "retry" /\ server = 0

CloseInv == \A s \in Closing : s \notin bound /\ server \in {0, s} \cup hasty

(* Types of the server's part, and of the children's. *)
ServerType ==
  /\ server \in Servers \cup {0} /\ emitting \in Servers \cup {0}
  /\ bound \subseteq Servers /\ hasty \subseteq Servers /\ dropped \subseteq Servers
  /\ closers \in [Servers -> 0..MaxCloses]
  /\ event \in [Servers -> {"none", "listening", "EADDRINUSE", "EACCES"}]
  /\ call \in {"none", "once", "retry", "lost"}
  /\ sleeping \in BOOLEAN /\ closed \in BOOLEAN /\ busy \in BOOLEAN

ChildType ==
  /\ accepted \in 0..MaxAccept /\ live \subseteq 1..accepted
  /\ via \in [Children -> Servers \cup {0}]
  /\ children \in Lists /\ Resets(children, live)

LEMMA TypeParts == ListenerTypeOK <=> ServerType /\ ChildType
BY DEF ListenerTypeOK, ServerType, ChildType, Lists, Resets

ChildInv == ChildType /\ Links(children, live)
LInv == ServerType /\ ChildInv
ServerInv == OwnedServer /\ PortInv /\ CallInv /\ CloseInv

LEMMA ServersAreNumbers == 0 \notin Servers
BY MaxServersAssumption DEF Servers

-----------------------------------------------------------------------------
(* Every step keeps the list ... *)
LEMMA StepChildren ==
  ASSUME LInv, ListenerNext
  PROVE  ChildInv'
<1>0. ChildInv
  BY DEF LInv
<1>1. ASSUME UNCHANGED childVars PROVE ChildInv'
  BY <1>0, <1>1 DEF childVars, ChildInv, ChildType
<1>2. ASSUME NEW s \in Servers, Accept(s) PROVE ChildInv'
  <2> DEFINE o == accepted + 1
  <2>1. /\ o \in Children /\ live \in SUBSET Children /\ \A c \in live : c < o
        /\ o \in 0..MaxAccept /\ live \cup {o} \subseteq 1..o
    BY <1>0, <1>2, MaxAcceptAssumption DEF Accept, ChildInv, ChildType, Children
  <2>2. /\ push(children, o) \in Lists /\ Links(push(children, o), live \cup {o})
        /\ Resets(push(children, o), live \cup {o})
    BY <1>0, <2>1, PushLinks DEF ChildInv, ChildType
  <2>3. via' \in [Children -> Servers \cup {0}]
    BY <1>0, <1>2 DEF Accept, ChildInv, ChildType
  <2> QED
    BY <1>2, <2>1, <2>2, <2>3 DEF Accept, ChildInv, ChildType
<1>3. ASSUME NEW c \in Children, ChildCloses(c) PROVE ChildInv'
  <2>1. c \in live /\ live \in SUBSET Children
    BY <1>0, <1>3, MaxAcceptAssumption DEF ChildCloses, ChildInv, ChildType, Children
  <2>2. /\ remove(children, c) \in Lists /\ Links(remove(children, c), live \ {c})
        /\ Resets(remove(children, c), live \ {c})
    BY <1>0, <2>1, RemoveLinks DEF ChildInv, ChildType
  <2> QED
    BY <1>0, <1>3, <2>1, <2>2 DEF ChildCloses, ChildInv, ChildType
<1> QED
  BY <1>1, <1>2, <1>3, ListenKindsAssumption
  DEF ListenerNext, Listen, Listening, ListenFails, Retry, ServerError, Close, CloseDone,
      OtherProgram

(* ... and the types of the rest. *)
LEMMA StepServerType ==
  ASSUME LInv, ListenerNext
  PROVE  ServerType'
<1>0. ServerType /\ MaxCloses \in Nat
  BY MaxClosesAssumption DEF LInv
<1>1. ASSUME NEW s \in Servers, listen(s),
             call' \in {"none", "once", "retry", "lost"}, sleeping' \in BOOLEAN,
             closed' \in BOOLEAN,
             UNCHANGED <<closers, emitting, dropped, busy>>
      PROVE  ServerType'
  BY <1>0, <1>1 DEF listen, BindEvents, ServerType
<1>2. ASSUME NEW s \in Servers, NEW kind \in ListenKinds, Listen(kind, s) PROVE ServerType'
  BY <1>0, <1>1, <1>2, ListenKindsAssumption DEF Listen, closeVars, ServerType
<1>3. ASSUME NEW s \in Servers, Retry(s) PROVE ServerType'
  BY <1>0, <1>1, <1>3 DEF Retry, closeVars, ServerType
<1>4. ASSUME NEW s \in Servers, Listening(s) \/ ListenFails(s) \/ ServerError(s)
      PROVE  ServerType'
  BY <1>0, <1>4 DEF Listening, ListenFails, ServerError, closeVars, ServerType
<1>5. CASE Close
  <2>1. closers' \in [Servers -> 0..MaxCloses]
    <3>1. CASE server = 0
      BY <1>0, <1>5, <3>1 DEF Close, ServerType
    <3>2. CASE server # 0
      <4>1. server \in Servers /\ closers[server] \in 0..MaxCloses
            /\ closers[server] < MaxCloses
        BY <1>0, <1>5, <3>2 DEF Close, ServerType
      <4>2. closers[server] + 1 \in 0..MaxCloses
        BY <1>0, <4>1
      <4>3. closers' = [closers EXCEPT ![server] = closers[server] + 1]
        BY <1>5, <3>2 DEF Close
      <4> QED
        BY <1>0, <4>2, <4>3 DEF ServerType
    <3> QED
      BY <3>1, <3>2
  <2> QED
    BY <1>0, <1>5, <2>1 DEF Close, ServerType
<1>6. ASSUME NEW s \in Servers, CloseDone(s) PROVE ServerType'
  <2>1. closers[s] \in 0..MaxCloses /\ closers[s] > 0
    BY <1>0, <1>6 DEF CloseDone, ServerType
  <2>2. closers[s] - 1 \in 0..MaxCloses
    BY <1>0, <2>1
  <2>3. closers' = [closers EXCEPT ![s] = closers[s] - 1]
    BY <1>6 DEF CloseDone
  <2>4. closers' \in [Servers -> 0..MaxCloses]
    BY <1>0, <2>2, <2>3 DEF ServerType
  <2> QED
    BY <1>0, <1>6, <2>4 DEF CloseDone, ServerType
<1>7. ASSUME UNCHANGED serverVars, busy' \in BOOLEAN PROVE ServerType'
  BY <1>0, <1>7 DEF serverVars, closeVars, ServerType
<1>8. ASSUME NEW s \in Servers, Accept(s) PROVE ServerType'
  BY <1>0, <1>7, <1>8 DEF Accept, ServerType
<1>9. ASSUME NEW c \in Children, ChildCloses(c) PROVE ServerType'
  BY <1>0, <1>7, <1>9 DEF ChildCloses, ServerType
<1>10. CASE OtherProgram
  BY <1>0, <1>7, <1>10 DEF OtherProgram, ServerType
<1> QED
  BY <1>2, <1>3, <1>4, <1>5, <1>6, <1>8, <1>9, <1>10 DEF ListenerNext

-----------------------------------------------------------------------------
(* The steps of servers. *)

(* A new server: no bound one that should be known is displaced by it. *)
LEMMA ListenKeeps ==
  ASSUME ServerType, ServerInv, server \in Closing \cup {0},
         \A t \in Servers : event[t] = "none",
         NEW s \in Servers, listen(s),
         call' \in {"once", "retry"}, ~sleeping',
         UNCHANGED <<closers, dropped>>
  PROVE  ServerInv'
<1>0. OwnedServer /\ PortInv /\ CallInv /\ CloseInv
  BY DEF ServerInv
<1>1. s \notin bound /\ closers[s] = 0 /\ server' = s
  BY DEF listen, Unused
<1>2. PICK e \in BindEvents :
        /\ event' = [event EXCEPT ![s] = e]
        /\ bound' = IF e = "listening" THEN bound \cup {s} ELSE bound
  BY DEF listen
<1>3. /\ e \in {"listening", "EADDRINUSE", "EACCES"}
      /\ e = "listening" => bound = {}
  BY DEF BindEvents
<1>4. \A t \in Servers : event'[t] = IF t = s THEN e ELSE "none"
  BY <1>2 DEF ServerType
<1>5. Closing' = Closing /\ s \notin Closing /\ bound \subseteq Servers
  BY <1>1 DEF Closing, ServerType
<1>6. hasty' = IF Closing = {} THEN hasty \ {s} ELSE hasty \cup {s}
  BY DEF listen
<1>7. \A t \in bound : ~Known(t) /\ t # s
  <2>1. \A t \in bound : t \notin Closing /\ t # 0
    BY <1>0, <1>5, ServersAreNumbers DEF CloseInv
  <2> QED
    BY <1>0, <1>1, <2>1 DEF OwnedServer
<1>8. OwnedServer'
  BY <1>1, <1>2, <1>6, <1>7 DEF OwnedServer, Known
<1>9. PortInv'
  BY <1>1, <1>2, <1>3, <1>4, <1>0 DEF PortInv, Refused
<1>10. CallInv'
  BY <1>4 DEF CallInv
<1>11. CloseInv'
  BY <1>0, <1>1, <1>2, <1>5, <1>6 DEF CloseInv
<1> QED
  BY <1>8, <1>9, <1>10, <1>11 DEF ServerInv

(* A close of a server. *)
LEMMA CloseKeeps ==
  ASSUME ServerType, ServerInv, server # 0, Close
  PROVE  ServerInv'
<1>0. OwnedServer /\ PortInv /\ CallInv /\ CloseInv
  BY DEF ServerInv
<1>1. /\ server \in Servers /\ bound' = bound \ {server}
      /\ closers' = [closers EXCEPT ![server] = closers[server] + 1]
      /\ UNCHANGED <<server, sleeping, hasty, dropped>>
      /\ IF event[server] = "listening"
           THEN event' = [event EXCEPT ![server] = "none"] /\ call' = "lost"
           ELSE UNCHANGED <<event, call>>
  BY DEF Close, ServerType
<1>2. Closing' \subseteq Closing \cup {server}
  BY <1>1 DEF ServerType, Closing
<1>3. OwnedServer'
  BY <1>0, <1>1 DEF OwnedServer, Known
<1>4. CloseInv'
  BY <1>0, <1>1, <1>2 DEF CloseInv
<1>5. PortInv' /\ CallInv'
  <2>1. CASE event[server] = "listening"
    <3>1. ~sleeping /\ \A t \in Servers : event'[t] = "none"
      BY <1>0, <1>1, <2>1 DEF CallInv, ServerType
    <3> QED
      BY <1>0, <1>1, <3>1 DEF PortInv, CallInv, Refused
  <2>2. CASE event[server] # "listening"
    <3>1. UNCHANGED <<event, call>>
      BY <1>1, <2>2
    <3> QED
      BY <1>0, <1>1, <3>1 DEF PortInv, CallInv, Refused
  <2> QED
    BY <2>1, <2>2
<1> QED
  BY <1>3, <1>4, <1>5 DEF ServerInv

LEMMA StepServers ==
  ASSUME ServerType, ServerInv, ListenerNext
  PROVE  ServerInv'
<1>0. OwnedServer /\ PortInv /\ CallInv /\ CloseInv /\ 0 \notin Servers
  BY ServersAreNumbers DEF ServerInv
<1>1. ASSUME NEW s \in Servers, NEW kind \in ListenKinds, Listen(kind, s)
      PROVE  ServerInv'
  <2>1. server \in Closing \cup {0} /\ call \in {"none", "lost"}
    BY <1>1 DEF Listen, Idle
  <2>2. ~sleeping /\ \A t \in Servers : event[t] = "none"
    BY <1>0, <2>1 DEF CallInv
  <2>3. /\ sleeping' = sleeping /\ call' \in {"once", "retry"} /\ listen(s)
        /\ UNCHANGED <<closers, dropped>>
    BY <1>1, ListenKindsAssumption DEF Listen, closeVars
  <2> QED
    BY <2>1, <2>2, <2>3, ListenKeeps
<1>2. ASSUME NEW s \in Servers, Retry(s) PROVE ServerInv'
  <2>1. server = 0 /\ call = "retry" /\ \A t \in Servers : event[t] = "none"
    BY <1>0, <1>2 DEF Retry, CallInv
  <2>2. /\ ~sleeping' /\ call' \in {"once", "retry"} /\ listen(s)
        /\ UNCHANGED <<closers, dropped>>
    BY <1>2, <2>1 DEF Retry, closeVars
  <2> QED
    BY <2>1, <2>2, ListenKeeps
<1>3. ASSUME NEW s \in Servers, Listening(s) PROVE ServerInv'
  <2>1. /\ event' = [event EXCEPT ![s] = "none"] /\ event[s] = "listening"
        /\ UNCHANGED <<server, bound, sleeping, closers, hasty, dropped>>
    BY <1>3 DEF Listening, closeVars
  <2>2. ~sleeping /\ \A t \in Servers : event'[t] = "none"
    BY <1>0, <2>1 DEF ServerType, CallInv
  <2> QED
    BY <1>0, <2>1, <2>2
    DEF ServerInv, OwnedServer, Known, PortInv, CallInv, CloseInv, Closing, Refused
<1>4. ASSUME NEW s \in Servers, ListenFails(s) PROVE ServerInv'
  <2>1. /\ event' = [event EXCEPT ![s] = "none"] /\ server' = 0
        /\ UNCHANGED <<bound, closers, hasty, dropped>>
        /\ event[s] \in Refused
        /\ \/ call = "retry" /\ sleeping' = TRUE /\ call' = "retry"
           \/ call' = "none" /\ UNCHANGED sleeping
    BY <1>4 DEF ListenFails, closeVars, Refused
  <2>2. ~sleeping /\ \A t \in Servers : event'[t] = "none"
    BY <1>0, <2>1 DEF ServerType, CallInv, Refused
  <2>3. s \notin bound /\ server \in {0, s}
    BY <1>0, <2>1 DEF PortInv
  <2>4. OwnedServer'
    BY <1>0, <2>1, <2>3 DEF OwnedServer, Known, ServerType
  <2>5. PortInv' /\ CallInv'
    BY <1>0, <2>1, <2>2 DEF PortInv, CallInv, Refused
  <2>6. CloseInv'
    BY <1>0, <2>1 DEF CloseInv, Closing
  <2> QED
    BY <2>4, <2>5, <2>6 DEF ServerInv
<1>5. ASSUME NEW s \in Servers, ServerError(s) PROVE ServerInv'
  <2>1. /\ s \in bound /\ server' = 0 /\ dropped' = dropped \cup {s}
        /\ UNCHANGED <<bound, event, call, sleeping, closers, hasty>>
    BY <1>5 DEF ServerError, closeVars
  <2>2. OwnedServer'
    BY <1>0, <2>1 DEF OwnedServer, Known, PortInv
  <2> QED
    BY <1>0, <2>1, <2>2 DEF ServerInv, PortInv, CallInv, CloseInv, Closing
<1>6. ASSUME Close PROVE ServerInv'
  <2>1. CASE server = 0
    <3>1. UNCHANGED <<server, bound, event, call, sleeping, closers, hasty, dropped>>
      BY <1>6, <2>1 DEF Close
    <3> QED
      BY <1>0, <3>1
      DEF ServerInv, OwnedServer, Known, PortInv, CallInv, CloseInv, Closing
  <2> QED
    BY <1>6, <2>1, CloseKeeps
<1>7. ASSUME NEW s \in Servers, CloseDone(s) PROVE ServerInv'
  <2>1. /\ closers[s] > 0 /\ server' = 0
        /\ closers' = [closers EXCEPT ![s] = closers[s] - 1]
        /\ UNCHANGED <<bound, event, call, sleeping, hasty, dropped>>
    BY <1>7 DEF CloseDone
  <2>2. server \in {0, s} \cup hasty /\ s \notin bound
    BY <1>0, <2>1 DEF CloseInv, Closing
  <2>3. Closing' \subseteq Closing
    BY <2>1 DEF ServerType, Closing
  <2>4. OwnedServer'
    BY <1>0, <2>1, <2>2 DEF OwnedServer, Known, ServerType
  <2> QED
    BY <1>0, <2>1, <2>3, <2>4 DEF ServerInv, PortInv, CallInv, CloseInv
<1>8. ASSUME UNCHANGED serverVars PROVE ServerInv'
  BY <1>0, <1>8
  DEF serverVars, closeVars, ServerInv, OwnedServer, Known, PortInv, CallInv, CloseInv,
      Closing
<1> QED
  BY <1>1, <1>2, <1>3, <1>4, <1>5, <1>6, <1>7, <1>8
  DEF ListenerNext, Accept, ChildCloses, OtherProgram

-----------------------------------------------------------------------------
(* The invariants hold of every behaviour. *)

LEMMA InitLInv == ListenerInit => LInv /\ ServerInv
<1> SUFFICES ASSUME ListenerInit PROVE LInv /\ ServerInv
  OBVIOUS
<1>1. children \in Lists /\ live = {} /\ children.head = 0 /\ children.tail = 0
  BY MaxAcceptAssumption DEF ListenerInit, EmptyList, Lists
<1>2. Links(children, live)
  BY <1>1 DEF Links, Next, Prev
<1>3. ChildType
  BY <1>1, MaxAcceptAssumption DEF ListenerInit, EmptyList, ChildType, Resets
<1>4. ServerType
  <2>1. 0 \in 0..MaxCloses
    BY MaxClosesAssumption
  <2>2. closers \in [Servers -> 0..MaxCloses]
    BY <2>1 DEF ListenerInit
  <2> QED
    BY <2>2 DEF ListenerInit, ServerType
<1>5. Closing = {}
  BY DEF ListenerInit, Closing
<1>6. ServerInv
  BY <1>5 DEF ListenerInit, ServerInv, OwnedServer, PortInv, CallInv, CloseInv, Refused
<1> QED
  BY <1>2, <1>3, <1>4, <1>6 DEF LInv, ChildInv

LEMMA StepLInv == LInv /\ [ListenerNext]_listenerVars => LInv'
<1>1. ASSUME LInv, ListenerNext PROVE LInv'
  BY <1>1, StepChildren, StepServerType DEF LInv
<1>2. ASSUME LInv, UNCHANGED listenerVars PROVE LInv'
  BY <1>2 DEF listenerVars, serverVars, closeVars, childVars, LInv, ServerType, ChildInv,
              ChildType
<1> QED
  BY <1>1, <1>2

LEMMA ListenerInvariant == ListenerSpec => []LInv
BY InitLInv, StepLInv, PTL DEF ListenerSpec

(* Types of the variables of listener.js and list.js. *)
THEOREM ListenerType == ListenerSpec => []ListenerTypeOK
<1>1. LInv => ListenerTypeOK
  BY TypeParts DEF LInv, ChildInv
<1> QED
  BY ListenerInvariant, <1>1, PTL

(* The list of children is in order after any pushes and removes (list.js   *)
(* 11-51, listener.js 69-102).                                              *)
THEOREM ListIsOfLive == ListenerSpec => []ListLinksLive
<1>1. LInv => ListLinksLive
  BY LinksAre DEF LInv, ChildInv
<1> QED
  BY ListenerInvariant, <1>1, PTL

(* listen, listen_retry and any number of closes do not lose the server     *)
(* that holds the port (listener.js 134-310), whatever the order in which   *)
(* their callbacks come, unless an accept has failed or the server was made *)
(* while a close had not called back.                                       *)
THEOREM ServerIsOwned == ListenerSpec => []OwnedServer
<1>1. LInv /\ ServerInv /\ [ListenerNext]_listenerVars => ServerInv'
  <2>1. ASSUME ServerInv, UNCHANGED listenerVars PROVE ServerInv'
    BY <2>1 DEF listenerVars, serverVars, closeVars, ServerInv, OwnedServer, Known,
                PortInv, CallInv, CloseInv, Closing
  <2> QED
    BY <2>1, StepServers DEF LInv
<1>2. ServerInv => OwnedServer
  BY DEF ServerInv
<1> QED
  BY InitLInv, ListenerInvariant, <1>1, <1>2, PTL DEF ListenerSpec

(* walk_children comes to every live child once, the oldest first (list.js  *)
(* 23-33, listener.js 53-62 and 96-98).                                     *)
THEOREM WalkIsComplete == ListenerSpec => []WalkVisitsLive
<1>1. ASSUME LInv PROVE WalkVisitsLive
  <2>1. Links(children, live)
    BY <1>1 DEF LInv, ChildInv
  <2>2. live \in SUBSET Children
    BY <1>1, MaxAcceptAssumption DEF LInv, ChildInv, ChildType, Children
  <2> QED
    BY <2>1, <2>2, WalkVisits DEF WalkVisitsLive, Rises
<1> QED
  BY ListenerInvariant, <1>1, PTL
=============================================================================
