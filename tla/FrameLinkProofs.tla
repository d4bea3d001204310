--------------------------- MODULE FrameLinkProofs ---------------------------
(***************************************************************************)
(* Proofs about FrameLink: what one packetizer sends is what another one    *)
(* dispatches, in order, once and whole.                                    *)
(***************************************************************************)
EXTENDS FrameLink, PacketizerProofs

-----------------------------------------------------------------------------
(* A message that is sent can be read. *)

Associates(x, y, z) == (x \o y) \o z = x \o (y \o z)

LEMMA BytesAssociate ==
  ASSUME NEW x \in Seq(Bytes), NEW y \in Seq(Bytes), NEW z \in Seq(Bytes)
  PROVE  Associates(x, y, z)
BY ConcatAssociative DEF Associates

LEMMA NumberTwo ==
  ASSUME NEW a \in Nat, NEW b \in Nat
  PROVE  Number(<<a, b>>) = b
<1> DEFINE s == <<a, b>>
           n == 2
<1>1. s \in Seq(Nat) /\ n \in Nat /\ n = Len(s) /\ n # 1 /\ n = 2 /\ s[2] = b
  OBVIOUS
<1> HIDE DEF s, n
<1>2. PICK v : Valuing(v, s, n) /\ Number(s) = v[n]
  BY <1>1, NumberIs
<1>3. v[1] = 0 /\ v[2] = 256 * v[1] + s[2]
  BY <1>1, <1>2 DEF Valuing
<1>4. Number(s) = b
  BY <1>1, <1>2, <1>3
<1> QED
  BY <1>4 DEF s

LEMMA NumberThree ==
  ASSUME NEW a \in Nat, NEW b \in Nat, NEW c \in Nat
  PROVE  Number(<<a, b, c>>) = 256 * b + c
<1> DEFINE s == <<a, b, c>>
           n == 3
<1>1. s \in Seq(Nat) /\ n \in Nat /\ n = Len(s) /\ n # 1 /\ n = 3 /\ s[2] = b /\ s[3] = c
  OBVIOUS
<1> HIDE DEF s, n
<1>2. PICK v : Valuing(v, s, n) /\ Number(s) = v[n]
  BY <1>1, NumberIs
<1>3. v[1] = 0 /\ v[2] = 256 * v[1] + s[2] /\ v[3] = 256 * v[2] + s[3]
  BY <1>1, <1>2 DEF Valuing
<1>4. Number(s) = 256 * b + c
  BY <1>1, <1>2, <1>3
<1> QED
  BY <1>4 DEF s

LEMMA NumberFive ==
  ASSUME NEW a \in Nat, NEW b \in Nat, NEW c \in Nat, NEW d \in Nat, NEW e \in Nat
  PROVE  Number(<<a, b, c, d, e>>) = 256 * (256 * (256 * b + c) + d) + e
<1> DEFINE s == <<a, b, c, d, e>>
           n == 5
<1>1. /\ s \in Seq(Nat) /\ n \in Nat /\ n = Len(s) /\ n # 1 /\ n = 5
      /\ s[2] = b /\ s[3] = c /\ s[4] = d /\ s[5] = e
  OBVIOUS
<1> HIDE DEF s, n
<1>2. PICK v : Valuing(v, s, n) /\ Number(s) = v[n]
  BY <1>1, NumberIs
<1>3. v[1] = 0 /\ v[2] = 256 * v[1] + s[2] /\ v[3] = 256 * v[2] + s[3]
  BY <1>1, <1>2 DEF Valuing
<1>4. v[4] = 256 * v[3] + s[4]
  BY <1>1, <1>2 DEF Valuing
<1>5. v[5] = 256 * v[4] + s[5]
  BY <1>1, <1>2 DEF Valuing
<1>6. Number(s) = 256 * (256 * (256 * b + c) + d) + e
  BY <1>1, <1>2, <1>3, <1>4, <1>5
<1> QED
  BY <1>6 DEF s

(* The digits of a number are bytes, and make it up. *)
LEMMA LastDigit ==
  ASSUME NEW n \in Nat
  PROVE  /\ n \div 256 \in Nat /\ n % 256 \in 0..255
         /\ 256 * (n \div 256) + (n % 256) = n
         /\ \A k \in Nat : n < 256 * k => n \div 256 < k
BY SMT

AreDigits(n, n1, n2, n3) ==
  /\ n % 256 \in 0..255 /\ n1 % 256 \in 0..255 /\ n2 % 256 \in 0..255 /\ n3 \in 0..255
  /\ n < 256 * 256 => n1 \in 0..255
  /\ 256 * n1 + (n % 256) = n
  /\ 256 * (256 * (256 * n3 + (n2 % 256)) + (n1 % 256)) + (n % 256) = n

LEMMA Digits ==
  ASSUME NEW n \in Nat, n < MaxLength,
         NEW n1, n1 = n \div 256, NEW n2, n2 = n1 \div 256, NEW n3, n3 = n2 \div 256
  PROVE  AreDigits(n, n1, n2, n3)
<1>1. n1 \in Nat /\ n % 256 \in 0..255 /\ 256 * n1 + (n % 256) = n
  BY LastDigit
<1>2. n2 \in Nat /\ n1 % 256 \in 0..255 /\ 256 * n2 + (n1 % 256) = n1
  BY <1>1, LastDigit
<1>3. n3 \in Nat /\ n2 % 256 \in 0..255 /\ 256 * n3 + (n2 % 256) = n2
  BY <1>2, LastDigit
<1>4. n < 256 * 256 => n1 \in 0..255
  BY <1>1
<1>5. n3 \in 0..255
  BY <1>1, <1>2, <1>3 DEF MaxLength
<1> QED
  BY <1>1, <1>2, <1>3, <1>4, <1>5 DEF AreDigits

(* Each form of a number says how long it is. *)
IsHead(head, n) ==
  /\ head \in Seq(Bytes) /\ Len(head) > 0
  /\ msgpack_frame_len(head[1]) = Len(head) /\ Number(head) = n

LEMMA PackedIsHead ==
  ASSUME NEW n \in Nat, n < MaxLength, NEW head \in Packed(n)
  PROVE  IsHead(head, n)
<1> DEFINE n1 == n \div 256
           n2 == n1 \div 256
           a == n2 \div 256
           b == n2 % 256
           c == n1 % 256
           d == n % 256
<1>1. \/ n < 128 /\ head = <<n>>
      \/ n < 256 /\ head = <<204, n>>
      \/ n < 256 * 256 /\ head = <<205, n1, d>>
      \/ head = <<206, a, b, c, d>>
  BY DEF Packed
<1> HIDE DEF n1, n2, a
<1>2. n1 = n \div 256 /\ n2 = n1 \div 256 /\ a = n2 \div 256
  BY DEF n1, n2, a
<1>3. /\ a \in 0..255 /\ b \in 0..255 /\ c \in 0..255 /\ d \in 0..255
      /\ n < 256 * 256 => n1 \in 0..255
      /\ 256 * n1 + d = n
      /\ 256 * (256 * (256 * a + b) + c) + d = n
  <2>1. AreDigits(n, n1, n2, a)
    BY <1>2, Digits
  <2> QED
    BY <2>1 DEF AreDigits
<1> HIDE DEF b, c, d
<1>4. \A x \in 0..255 : x \in Bytes /\ x \in Nat
  <2>1. \A x \in 0..255 : x \in Bytes
    BY MessagesAssumption, Zenon
  <2> QED
    BY <2>1
<1>5. 204 \in 0..255 /\ 205 \in 0..255 /\ 206 \in 0..255 /\ (n < 256 => n \in 0..255)
  OBVIOUS
<1>6. /\ a \in Bytes /\ b \in Bytes /\ c \in Bytes /\ d \in Bytes
      /\ a \in Nat /\ b \in Nat /\ c \in Nat /\ d \in Nat
      /\ 204 \in Bytes /\ 205 \in Bytes /\ 206 \in Bytes /\ (n < 256 => n \in Bytes)
      /\ (n < 256 * 256 => n1 \in Bytes /\ n1 \in Nat)
  BY <1>3, <1>4, <1>5, Zenon
<1>7. CASE n < 128 /\ head = <<n>>
  <2>1. head \in Seq(Bytes) /\ Len(head) = 1 /\ head[1] = n
    BY <1>6, <1>7
  <2>2. msgpack_frame_len(n) = 1
    BY <1>7 DEF msgpack_frame_len
  <2>3. Number(head) = n
    BY <2>1, Zenon DEF Number
  <2> QED
    BY <2>1, <2>2, <2>3 DEF IsHead
<1>8. CASE n < 256 /\ head = <<204, n>>
  <2>1. head \in Seq(Bytes) /\ Len(head) = 2 /\ head[1] = 204
    BY <1>6, <1>8
  <2>2. Number(head) = n
    BY <1>8, NumberTwo
  <2>3. msgpack_frame_len(204) = 2
    BY DEF msgpack_frame_len
  <2> QED
    BY <2>1, <2>2, <2>3 DEF IsHead
<1>9. CASE n < 256 * 256 /\ head = <<205, n1, d>>
  <2>1. head \in Seq(Bytes) /\ Len(head) = 3 /\ head[1] = 205
    BY <1>6, <1>9
  <2>2. Number(head) = 256 * n1 + d
    BY <1>6, <1>9, NumberThree
  <2>3. msgpack_frame_len(205) = 3
    BY DEF msgpack_frame_len
  <2> QED
    BY <1>3, <1>9, <2>1, <2>2, <2>3 DEF IsHead
<1>10. CASE head = <<206, a, b, c, d>>
  <2>1. head \in Seq(Bytes) /\ Len(head) = 5 /\ head[1] = 206
    BY <1>6, <1>10
  <2>2. Number(head) = 256 * (256 * (256 * a + b) + c) + d
    BY <1>6, <1>10, NumberFive
  <2>3. msgpack_frame_len(206) = 5
    BY DEF msgpack_frame_len
  <2> QED
    BY <1>3, <2>1, <2>2, <2>3 DEF IsHead
<1> QED
  BY <1>1, <1>7, <1>8, <1>9, <1>10

(* A head and a message that follow the first q bytes are complete there. *)
LEMMA FrameAt ==
  ASSUME NEW s \in Seq(Bytes), NEW q \in Nat,
         NEW m \in Seq(Bytes), IsArray(m), NEW head, IsHead(head, Len(m)),
         Len(s) = q + Len(head) + Len(m), s[q + 1] = head[1],
         SubSeq(s, q + 1, q + Len(head)) = head, SubSeq(s, q + Len(head) + 1, Len(s)) = m
  PROVE  CompleteAt(s, q) /\ MessageAt(s, q) = m /\ NextAt(s, q) = Len(s)
<1> DEFINE h == Len(head)
<1>1. h \in Nat /\ h > 0 /\ msgpack_frame_len(head[1]) = h /\ Number(head) = Len(m)
      /\ Len(m) \in Nat
  BY DEF IsHead
<1> HIDE DEF h
<1>2. q # Len(s) /\ q + h <= Len(s) /\ Len(s) = q + h + Len(m)
  BY <1>1 DEF h
<1>3. HeadAt(s, q) = h
  BY <1>1, <1>2, Zenon DEF HeadAt
<1>4. SizeAt(s, q) = Len(m)
  BY <1>1, <1>3, Zenon DEF SizeAt, h
<1>5. NextAt(s, q) = Len(s)
  BY <1>2, <1>3, <1>4, Zenon DEF NextAt
<1>6. MessageAt(s, q) = m
  BY <1>3, <1>5, Zenon DEF MessageAt, h
<1>7. HeadAt(s, q) > 0 /\ q + HeadAt(s, q) <= Len(s) /\ NextAt(s, q) <= Len(s)
  BY <1>1, <1>2, <1>3, <1>5
<1>8. CompleteAt(s, q)
  BY <1>6, <1>7, Zenon DEF CompleteAt
<1> QED
  BY <1>5, <1>6, <1>8

LEMMA FrameComplete ==
  ASSUME NEW z \in Seq(Bytes), NEW m \in Seq(Bytes), IsArray(m),
         NEW head, IsHead(head, Len(m))
  PROVE  LET s == z \o (head \o m)
         IN  /\ s \in Seq(Bytes) /\ Len(z) \in 0..Len(s)
             /\ CompleteAt(s, Len(z)) /\ MessageAt(s, Len(z)) = m
             /\ NextAt(s, Len(z)) = Len(s)
<1> DEFINE x == z \o head
           s == x \o m
           q == Len(z)
           h == Len(head)
<1>1. head \in Seq(Bytes) /\ h > 0 /\ h \in Nat /\ q \in Nat /\ Len(m) \in Nat
  BY DEF IsHead
<1>2. z \o (head \o m) = s
  BY <1>1, ConcatAssociative
<1>3. x \in Seq(Bytes) /\ Len(x) = q + h /\ x[q + 1] = head[1] /\ SubSeq(x, q + 1, Len(x)) = head
  <2>1. x \in Seq(Bytes) /\ Len(x) = q + h /\ x[q + 1] = head[1]
    BY <1>1, ConcatProperties
  <2>2. SubSeq(x, q + 1, Len(x)) = head
    BY <1>1, DropConcat
  <2> QED
    BY <2>1, <2>2
<1> HIDE DEF x, q, h
<1>4. s \in Seq(Bytes) /\ Len(s) = q + h + Len(m) /\ s[q + 1] = head[1]
  <2>1. /\ s \in Seq(Bytes) /\ Len(s) = Len(x) + Len(m)
        /\ \A i \in 1..(Len(x) + Len(m)) : s[i] = IF i <= Len(x) THEN x[i] ELSE m[i - Len(x)]
    BY <1>3, ConcatProperties
  <2> HIDE DEF s
  <2>2. q + 1 \in 1..(Len(x) + Len(m)) /\ q + 1 <= Len(x)
    BY <1>1, <1>3
  <2>3. s[q + 1] = x[q + 1]
    BY <2>1, <2>2
  <2> QED
    BY <1>3, <2>1, <2>3
<1>5. SubSeq(s, q + h + 1, Len(s)) = m
  BY <1>3, DropConcat
<1>6. SubSeq(s, q + 1, q + h) = head
  <2>1. q + h \in Nat /\ q + h <= Len(x)
    BY <1>1, <1>3
  <2>2. SubSeq(s, q + 1, q + h) = SubSeq(x, q + 1, q + h)
    BY <1>1, <1>3, <2>1, SubSeqOfConcat
  <2> QED
    BY <1>3, <2>2
<1> HIDE DEF s
<1>7. CompleteAt(s, q) /\ MessageAt(s, q) = m /\ NextAt(s, q) = Len(s)
  BY <1>1, <1>4, <1>5, <1>6, FrameAt DEF h
<1>8. q \in 0..Len(s)
  BY <1>1, <1>4
<1> QED
  BY <1>2, <1>4, <1>7, <1>8, Zenon DEF q

-----------------------------------------------------------------------------
(* The link.  All that was written and not forgotten: its messages are the  *)
(* ones that were sent, whatever is written next.                           *)

Total == received \o wire

WireInv ==
  /\ wire \in Seq(Bytes) /\ sent \in Seq(Seq(Bytes))
  /\ Finds(Total, sent, Len(Total))

LinkInv == PacketizerInv /\ WireInv

LEMMA FindsMore ==
  ASSUME NEW r \in Seq(Bytes), NEW d, NEW q, Finds(r, d, q), NEW b \in Seq(Bytes)
  PROVE  Finds(r \o b, d, q)
<1>1. ASSUME NEW t \in Seq(Bytes)
      PROVE  MessagesAfter((r \o b) \o t)[0] = d \o MessagesAfter((r \o b) \o t)[q]
  <2>1. (r \o b) \o t = r \o (b \o t) /\ b \o t \in Seq(Bytes)
    BY ConcatAssociative, ConcatProperties
  <2>2. MessagesAfter(r \o (b \o t))[0] = d \o MessagesAfter(r \o (b \o t))[q]
    BY <2>1 DEF Finds
  <2> QED
    BY <2>1, <2>2
<1> QED
  BY <1>1 DEF Finds

LEMMA NothingAtEnd ==
  ASSUME NEW r \in Seq(Bytes)
  PROVE  MessagesAfter(r)[Len(r)] = <<>>
<1>1. Len(r) \in 0..Len(r) /\ ~CompleteAt(r, Len(r))
  BY DEF CompleteAt, HeadAt
<1> QED
  BY <1>1, MessagesAfterIs DEF MessagesIn

(* What was found in the first bytes are the first of all messages. *)
LEMMA FoundWasSent ==
  ASSUME NEW r \in Seq(Bytes), NEW w \in Seq(Bytes),
         NEW s \in Seq(Seq(Bytes)), Finds(r \o w, s, Len(r \o w)),
         NEW d \in Seq(Seq(Bytes)), NEW q \in 0..Len(r), Finds(r, d, q)
  PROVE  \E x \in Seq(Seq(Bytes)) : s = d \o x
<1> DEFINE z == r \o w
           x == MessagesAfter(z)[q]
<1>1. z \in Seq(Bytes) /\ q \in 0..Len(z)
  BY ConcatProperties
<1>2. MessagesAfter(z)[0] = d \o x
  BY DEF Finds
<1>3. x \in Seq(Seq(Bytes))
  BY <1>1, MessagesAfterType
<1> HIDE DEF x
<1>4. Finds(z, s, Len(z))
  OBVIOUS
<1> HIDE DEF z
<1>5. MessagesAfter(z)[0] = s
  <2>1. z \o <<>> = z /\ <<>> \in Seq(Bytes) /\ s \o <<>> = s
    BY <1>1, ConcatEmptySeq
  <2>2. MessagesAfter(z \o <<>>)[0] = s \o MessagesAfter(z \o <<>>)[Len(z)]
    BY <1>4, <2>1 DEF Finds
  <2>3. MessagesAfter(z)[0] = s \o MessagesAfter(z)[Len(z)]
    BY <2>1, <2>2, Zenon
  <2> QED
    BY <1>1, <2>1, <2>3, NothingAtEnd, Zenon
<1> QED
  BY <1>2, <1>3, <1>5

(* One more message can be sent, so that the bytes are not wrong anywhere. *)
LEMMA NeverWrong ==
  ASSUME NEW r \in Seq(Bytes), NEW w \in Seq(Bytes),
         NEW s \in Seq(Seq(Bytes)), Finds(r \o w, s, Len(r \o w)),
         NEW d \in Seq(Seq(Bytes)), NEW q \in 0..Len(r), Finds(r, d, q),
         \A t \in Seq(Bytes) : ~CompleteAt(r \o t, q)
  PROVE  FALSE
<1> DEFINE z == r \o w
           m == <<144>>
           h == <<1>>
           b == h \o m
           u == z \o b
<1>1. /\ z \in Seq(Bytes) /\ m \in Seq(Bytes) /\ h \in Seq(Bytes) /\ m \in Seq(Bytes)
      /\ b \in Seq(Bytes)
  <2>1. 1 \in Bytes /\ 144 \in Bytes
    BY MessagesAssumption
  <2> QED
    BY <2>1, ConcatProperties
<1>2. IsArray(m) /\ IsHead(h, Len(m))
  <2>1. IsArray(m)
    BY DEF IsArray
  <2>2. Len(m) \in Nat /\ Len(m) < MaxLength /\ h \in Packed(Len(m))
    BY DEF Packed, MaxLength
  <2> QED
    BY <2>1, <2>2, PackedIsHead
<1>3. \E x \in Seq(Seq(Bytes)) : s = d \o x
  BY FoundWasSent
<1>4. Finds(z, s, Len(z))
  OBVIOUS
<1> HIDE DEF m, h
<1>5. /\ u \in Seq(Bytes) /\ Len(z) \in 0..Len(u)
      /\ CompleteAt(u, Len(z)) /\ MessageAt(u, Len(z)) = m /\ NextAt(u, Len(z)) = Len(u)
  BY <1>1, <1>2, FrameComplete
<1>6. Finds(u, s, Len(z))
  BY <1>1, <1>4, FindsMore
<1> HIDE DEF b
<1> DEFINE y == w \o b
<1>7. y \in Seq(Bytes) /\ u = r \o y
  <2>1. y \in Seq(Bytes)
    BY <1>1, ConcatProperties
  <2>2. Associates(r, w, b)
    BY <1>1, BytesAssociate
  <2> QED
    BY <2>1, <2>2 DEF Associates
<1> HIDE DEF y
<1>8. q \in 0..Len(u) /\ ~CompleteAt(u, q)
  <2>1. Len(r \o y) = Len(r) + Len(y)
    BY <1>7, ConcatProperties
  <2>2. ~CompleteAt(r \o y, q)
    BY <1>7
  <2> HIDE DEF u
  <2>3. Len(u) = Len(r) + Len(y) /\ Len(y) \in Nat /\ Len(r) \in Nat
    BY <1>7, <2>1
  <2>4. q \in 0..Len(u)
    BY <2>3
  <2>5. ~CompleteAt(u, q)
    BY <1>7, <2>2, Zenon
  <2> QED
    BY <2>4, <2>5
<1>9. MessagesAfter(u)[0] = d
  <2>1. MessagesAfter(u)[0] = d \o MessagesAfter(u)[q]
    BY <1>7 DEF Finds
  <2> HIDE DEF u
  <2>2. MessagesAfter(u)[q] = <<>>
    BY <1>5, <1>8, MessagesAfterIs DEF MessagesIn
  <2>3. d \o <<>> = d
    BY ConcatEmptySeq
  <2> QED
    BY <2>1, <2>2, <2>3, Zenon
<1> HIDE DEF u, z
<1>10. MessagesAfter(u)[0] = Append(s, m)
  <2>1. Finds(u, Append(s, m), Len(u))
    BY <1>5, <1>6, FindsNext, Zenon
  <2>2. u \o <<>> = u /\ <<>> \in Seq(Bytes) /\ Append(s, m) \o <<>> = Append(s, m)
    <3>1. Append(s, m) \in Seq(Seq(Bytes))
      BY <1>1
    <3> QED
      BY <1>5, <3>1, ConcatEmptySeq
  <2>3. MessagesAfter(u \o <<>>)[0] = Append(s, m) \o MessagesAfter(u \o <<>>)[Len(u)]
    BY <2>1, <2>2 DEF Finds
  <2>4. MessagesAfter(u)[0] = Append(s, m) \o MessagesAfter(u)[Len(u)]
    BY <2>2, <2>3, Zenon
  <2> QED
    BY <1>5, <2>2, <2>4, NothingAtEnd, Zenon
<1>11. Len(d) = Len(s) + 1 /\ Len(s) \in Nat /\ Len(d) \in Nat
  BY <1>1, <1>9, <1>10, AppendProperties
<1>12. PICK x \in Seq(Seq(Bytes)) : s = d \o x
  BY <1>3
<1>13. Len(s) = Len(d) + Len(x) /\ Len(x) \in Nat
  BY <1>12, ConcatProperties
<1> QED
  BY <1>11, <1>13

(* Where there is no number, or no array, there will never be one. *)
LEMMA StaysWrong ==
  ASSUME NEW st, NEW n, NEW c, NEW r \in Seq(Bytes), NEW d, NEW q,
         AtFrame(st, n, c, r, d, q),
         \/ st # "DATA" /\ c # <<>> /\ msgpack_frame_len(c[1]) = 0
         \/ st = "DATA" /\ n <= Len(c) /\ ~IsArray(SubSeq(c, 1, n)),
         NEW t \in Seq(Bytes)
  PROVE  ~CompleteAt(r \o t, q)
<1> DEFINE z == r \o t
           e == c \o t
<1>1. z \in Seq(Bytes)
  BY ConcatProperties
<1>2. AtFrame(st, n, e, z, d, q)
  BY DataAtFrame
<1>3. CASE st # "DATA" /\ c # <<>> /\ msgpack_frame_len(c[1]) = 0
  <2>1. c \in Seq(Bytes)
    <3>1. q \in 0..Len(r) /\ c = SubSeq(r, q + 1, Len(r))
      BY <1>3 DEF AtFrame
    <3> QED
      BY <3>1, RestIs
  <2>2. Len(c) >= 1 /\ Len(c) \in Nat /\ Len(t) \in Nat
    BY <1>3, <2>1
  <2>3. \A i \in 1..(Len(c) + Len(t)) : e[i] = IF i <= Len(c) THEN c[i] ELSE t[i - Len(c)]
    BY <2>1, ConcatProperties
  <2> HIDE DEF e, z
  <2>4. e[1] = c[1]
    BY <2>2, <2>3
  <2>5. msgpack_frame_len(e[1]) = 0
    BY <1>3, <2>4
  <2>6. st # "DATA"
    BY <1>3
  <2>7. ~CompleteAt(z, q)
    BY <1>1, <1>2, <2>5, <2>6, NoHeadAtFrame, Zenon
  <2> QED
    BY <2>7 DEF z
<1>4. CASE st = "DATA" /\ n <= Len(c) /\ ~IsArray(SubSeq(c, 1, n))
  <2>1. AtFrame("DATA", n, c, r, d, q) /\ AtFrame("DATA", n, e, z, d, q)
    BY <1>2, <1>4
  <2>2. n \in Nat /\ c \in Seq(Bytes)
    BY <2>1, MessageIs
  <2>3. SubSeq(e, 1, n) = SubSeq(c, 1, n)
    <3>1. PICK j \in Nat : j = 0
      OBVIOUS
    <3>2. SubSeq(e, j + 1, n) = SubSeq(c, j + 1, n)
      BY <1>4, <2>2, SubSeqOfConcat
    <3>3. j + 1 = 1
      BY <3>1
    <3> QED
      BY <3>2, <3>3, Zenon
  <2> HIDE DEF e, z
  <2>4. CompleteAt(z, q) => IsArray(SubSeq(e, 1, n))
    BY <1>1, <2>1, MessageIs
  <2>5. ~CompleteAt(z, q)
    BY <1>4, <2>3, <2>4, Zenon
  <2> QED
    BY <2>5 DEF z
<1> QED
  BY <1>3, <1>4

-----------------------------------------------------------------------------
(* The steps of the link. *)

LEMMA LinkFacts ==
  ASSUME LinkInv
  PROVE  /\ PacketizerInv /\ PacketizerTypeOK
         /\ received \in Seq(Bytes) /\ dispatched \in Seq(Seq(Bytes))
         /\ wire \in Seq(Bytes) /\ sent \in Seq(Seq(Bytes))
         /\ Finds(received \o wire, sent, Len(received \o wire))
<1>1. PacketizerInv /\ PacketizerTypeOK
  BY DEF LinkInv, PacketizerInv
<1>2. received \in Seq(Bytes) /\ dispatched \in Seq(Seq(Bytes))
  BY <1>1, TypeFacts
<1> QED
  BY <1>1, <1>2 DEF LinkInv, WireInv, Total

(* What the packetizer reads is never an error. *)
LEMMA NoError ==
  ASSUME LinkInv, NEW q \in Nat,
         AtFrame(state, next_msg_len, Contents, received, dispatched, q)
  PROVE  /\ state # "DATA" /\ Contents # <<>> => msgpack_frame_len(Contents[1]) # 0
         /\ state = "DATA" /\ next_msg_len <= Len(Contents) =>
              IsArray(SubSeq(Contents, 1, next_msg_len))
<1> DEFINE Wrong ==
      \/ state # "DATA" /\ Contents # <<>> /\ msgpack_frame_len(Contents[1]) = 0
      \/ state = "DATA" /\ next_msg_len <= Len(Contents) /\ ~IsArray(SubSeq(Contents, 1, next_msg_len))
<1>1. ASSUME Wrong
      PROVE  FALSE
  <2>1. /\ received \in Seq(Bytes) /\ dispatched \in Seq(Seq(Bytes))
        /\ wire \in Seq(Bytes) /\ sent \in Seq(Seq(Bytes))
        /\ Finds(received \o wire, sent, Len(received \o wire))
    BY LinkFacts
  <2>2. \A t \in Seq(Bytes) : ~CompleteAt(received \o t, q)
    BY <1>1, <2>1, StaysWrong
  <2>3. q \in 0..Len(received) /\ Finds(received, dispatched, q)
    BY DEF AtFrame
  <2> QED
    BY <2>1, <2>2, <2>3, NeverWrong
<1> QED
  BY <1>1

LEMMA LoopReads ==
  ASSUME LinkInv, Loop
  PROVE  /\ received' = received
         /\ dispatched' = dispatched \/ \E m : dispatched' = Append(dispatched, m)
<1>1. PacketizerTypeOK
  BY LinkFacts
<1>2. PICK q \in Nat : AtFrame(state, next_msg_len, Contents, received, dispatched, q)
  BY LinkFacts DEF PacketizerInv
<1>3. /\ state # "DATA" /\ Contents # <<>> => msgpack_frame_len(Contents[1]) # 0
      /\ state = "DATA" /\ next_msg_len <= Len(Contents) =>
           IsArray(SubSeq(Contents, 1, next_msg_len))
  BY <1>2, NoError
<1>4. CASE GetFrame
  <2>1. ~(len > 0 /\ FrameLen = 0)
    <3>1. state # "DATA"
      BY <1>4 DEF GetFrame
    <3> QED
      BY <1>1, <1>3, <3>1, FrameLenIs
  <2> QED
    BY <1>4, <2>1 DEF GetFrame, Wait, historyVars
<1>5. CASE GetMsg
  <2>1. ~(CanGrab(next_msg_len) /\ ~IsArray(Message))
    <3>1. SUFFICES ASSUME CanGrab(next_msg_len) PROVE IsArray(Message)
      OBVIOUS
    <3> DEFINE n == next_msg_len
    <3>2. /\ bufs \in Seq(Buffers) /\ Contents = FlattenSeq(bufs) /\ n \in Nat
          /\ len = Len(Contents)
      BY <1>1, TypeFacts
    <3>3. n <= Len(FlattenSeq(bufs)) /\ n <= Len(Contents)
      BY <3>1, <3>2 DEF CanGrab
    <3>4. IsArray(SubSeq(Contents, 1, n))
      BY <1>3, <1>5, <3>3 DEF GetMsg
    <3>5. n # 0
      <4>1. SubSeq(Contents, 1, 0) = <<>>
        BY SubSeqEmpty
      <4> QED
        BY <3>4, <4>1 DEF IsArray
    <3>6. SubSeq(Grabbed(bufs, n)[1], 1, n) = SubSeq(Contents, 1, n)
      BY <3>2, <3>3, <3>5, TakeBytes
    <3>7. Message = SubSeq(Contents, 1, n)
      BY <3>5, <3>6, Zenon DEF Message
    <3> QED
      BY <3>4, <3>7, Zenon
  <2> QED
    BY <1>5, <2>1 DEF GetMsg, Wait, historyVars
<1> QED
  BY <1>4, <1>5 DEF Loop

Joins(r, v, w, h, m) == r \o v = (r \o w) \o (h \o m)

LEMMA SendConcat ==
  ASSUME NEW r \in Seq(Bytes), NEW w \in Seq(Bytes), NEW h \in Seq(Bytes), NEW m \in Seq(Bytes),
         NEW v, v = w \o h \o m
  PROVE  Joins(r, v, w, h, m)
<1> DEFINE b == h \o m
<1>1. Associates(w, h, m)
  BY BytesAssociate
<1>2. v = w \o b
  BY <1>1, Zenon DEF Associates
<1>3. b \in Seq(Bytes)
  BY ConcatProperties
<1> HIDE DEF b
<1>4. Associates(r, w, b)
  BY <1>3, BytesAssociate
<1>5. r \o v = (r \o w) \o b
  BY <1>2, <1>4, Zenon DEF Associates
<1> QED
  BY <1>5 DEF b, Joins

LEMMA SendFinds ==
  ASSUME NEW r \in Seq(Bytes), NEW w \in Seq(Bytes), NEW s \in Seq(Seq(Bytes)),
         Finds(r \o w, s, Len(r \o w)),
         NEW m \in Seq(Bytes), IsArray(m), NEW head, IsHead(head, Len(m)),
         NEW v, v = w \o head \o m
  PROVE  /\ v \in Seq(Bytes) /\ Append(s, m) \in Seq(Seq(Bytes))
         /\ Finds(r \o v, Append(s, m), Len(r \o v))
<1> DEFINE z == r \o w
           b == head \o m
           u == z \o b
<1>1. head \in Seq(Bytes)
  BY DEF IsHead
<1>2. z \in Seq(Bytes) /\ b \in Seq(Bytes) /\ w \o head \in Seq(Bytes)
  BY <1>1, ConcatProperties
<1>3. v \in Seq(Bytes)
  BY <1>2, ConcatProperties
<1>4. r \o v = u
  <2>1. Joins(r, v, w, head, m)
    BY <1>1, SendConcat
  <2> QED
    BY <2>1, Zenon DEF Joins
<1>5. Finds(z, s, Len(z))
  OBVIOUS
<1>6. u \in Seq(Bytes) /\ Len(z) \in 0..Len(u) /\ CompleteAt(u, Len(z))
      /\ MessageAt(u, Len(z)) = m /\ NextAt(u, Len(z)) = Len(u)
  <2> HIDE DEF z
  <2> QED
    BY <1>2, FrameComplete
<1>7. Finds(u, s, Len(z))
  <2> HIDE DEF z, b
  <2> QED
    BY <1>2, <1>5, FindsMore
<1> HIDE DEF u, z, b
<1>8. Finds(u, Append(s, m), Len(u))
  BY <1>6, <1>7, FindsNext, Zenon
<1>9. Append(s, m) \in Seq(Seq(Bytes))
  BY AppendProperties
<1> QED
  BY <1>3, <1>4, <1>8, <1>9, Zenon

LEMMA MessageFits ==
  ASSUME NEW m \in Messages
  PROVE  m \in Seq(Bytes) /\ IsArray(m) /\ Len(m) \in Nat /\ Len(m) < MaxLength
<1>1. m \in Seq(Bytes) /\ IsArray(m) /\ Len(m) < MaxLength
  BY MessagesAssumption, Zenon
<1> QED
  BY <1>1

LEMMA SendInv ==
  ASSUME LinkInv, NEW m \in Messages, Send(m)
  PROVE  LinkInv'
<1>1. UNCHANGED packetizerVars
  BY DEF Send
<1>2. PacketizerInv'
  <2>1. UNCHANGED <<bufs, len, state, next_msg_len, loop, received, dispatched>>
    BY <1>1 DEF packetizerVars, ringVars, stateVars, historyVars
  <2>2. Contents' = Contents
    BY <2>1 DEF Contents
  <2>3. PacketizerTypeOK'
    BY <2>1, <2>2, LinkFacts DEF PacketizerTypeOK, RingTypeOK
  <2>4. PICK q \in Nat : /\ AtFrame(state, next_msg_len, Contents, received, dispatched, q)
                         /\ loop = "idle" => ~CompleteAt(received, q)
    BY LinkFacts DEF PacketizerInv
  <2>5. /\ AtFrame(state', next_msg_len', Contents', received', dispatched', q)
        /\ loop' = "idle" => ~CompleteAt(received', q)
    BY <2>1, <2>2, <2>4
  <2> QED
    BY <2>3, <2>5 DEF PacketizerInv
<1>3. PICK head \in Packed(Len(m)) : wire' = wire \o head \o m
  BY DEF Send
<1>4. m \in Seq(Bytes) /\ IsArray(m) /\ Len(m) \in Nat /\ Len(m) < MaxLength
  BY MessageFits
<1>5. IsHead(head, Len(m))
  BY <1>4, PackedIsHead
<1>6. /\ wire' \in Seq(Bytes) /\ Append(sent, m) \in Seq(Seq(Bytes))
      /\ Finds(received \o wire', Append(sent, m), Len(received \o wire'))
  <2>1. /\ received \in Seq(Bytes) /\ wire \in Seq(Bytes) /\ sent \in Seq(Seq(Bytes))
        /\ Finds(received \o wire, sent, Len(received \o wire))
    BY LinkFacts
  <2> QED
    BY <1>3, <1>4, <1>5, <2>1, SendFinds
<1>7. received' = received /\ sent' = Append(sent, m)
  BY <1>1 DEF Send, packetizerVars, historyVars
<1>8. WireInv'
  BY <1>6, <1>7 DEF WireInv, Total
<1> QED
  BY <1>2, <1>8 DEF LinkInv

LEMMA ArriveInv ==
  ASSUME LinkInv, Arrive
  PROVE  LinkInv'
<1>1. /\ received \in Seq(Bytes) /\ wire \in Seq(Bytes) /\ sent \in Seq(Seq(Bytes))
      /\ Finds(received \o wire, sent, Len(received \o wire)) /\ PacketizerInv
  BY LinkFacts
<1>2. PICK n \in 1..Len(wire) :
        Data(SubSeq(wire, 1, n)) /\ wire' = SubSeq(wire, n + 1, Len(wire)) /\ sent' = sent
  BY DEF Arrive
<1> DEFINE b == SubSeq(wire, 1, n)
           w == SubSeq(wire, n + 1, Len(wire))
<1>3. n \in Nat /\ n <= Len(wire) /\ n > 0
  BY <1>1
<1>4. b \in Seq(Bytes) /\ b # <<>> /\ w \in Seq(Bytes)
  <2>1. SubSeq(wire, 0 + 1, n) \in Seq(Bytes) /\ Len(SubSeq(wire, 0 + 1, n)) = n
    BY <1>1, <1>3, SubSeqType
  <2>2. Len(wire) \in Nat /\ Len(wire) <= Len(wire)
    BY <1>1
  <2>3. w \in Seq(Bytes)
    BY <1>1, <1>3, <2>2, SubSeqType
  <2> QED
    BY <1>3, <2>1, <2>3
<1>5. wire = b \o w
  BY <1>1, <1>3, TakeDrop
<1>6. Data(b) /\ wire' = w
  BY <1>2
<1> HIDE DEF b, w
<1>7. PacketizerInv'
  BY <1>1, <1>4, <1>6, DataInv
<1>8. received' = received \o b
  BY <1>6 DEF Data
<1>9. (received \o b) \o w = received \o wire
  BY <1>1, <1>4, <1>5, ConcatAssociative
<1>10. received' \o wire' = received \o wire
  BY <1>6, <1>8, <1>9
<1>11. WireInv'
  BY <1>1, <1>2, <1>4, <1>6, <1>10 DEF WireInv, Total
<1> QED
  BY <1>7, <1>11 DEF LinkInv

LEMMA LinkLoopInv ==
  ASSUME LinkInv, Loop, UNCHANGED <<sent, wire>>
  PROVE  LinkInv'
<1>1. PacketizerInv'
  BY LinkFacts, LoopInv
<1>2. received' = received
  BY LoopReads
<1>3. WireInv'
  BY <1>2 DEF LinkInv, WireInv, Total
<1> QED
  BY <1>1, <1>3 DEF LinkInv

LEMMA LinkInitInv == LinkInit => LinkInv
<1> SUFFICES ASSUME LinkInit PROVE LinkInv
  OBVIOUS
<1>1. PacketizerInv
  BY InitInv DEF LinkInit
<1>2. received \o wire = <<>> /\ sent = <<>> /\ wire = <<>> /\ Len(<<>>) = 0
  <2>1. received = <<>> /\ wire = <<>> /\ sent = <<>>
    BY DEF LinkInit, PacketizerInit
  <2> QED
    BY <2>1
<1>3. Finds(<<>>, <<>>, 0)
  BY StartAtFrame DEF AtFrame
<1>4. Finds(Total, sent, Len(Total))
  BY <1>2, <1>3 DEF Total
<1> QED
  BY <1>1, <1>2, <1>4 DEF LinkInv, WireInv

LEMMA LinkStepInv ==
  ASSUME LinkInv, [LinkNext]_linkVars
  PROVE  LinkInv'
<1>1. CASE Arrive
  BY <1>1, ArriveInv
<1>2. CASE Loop /\ UNCHANGED <<sent, wire>>
  BY <1>2, LinkLoopInv
<1>3. CASE \E m \in Messages : Len(sent) < MaxSent /\ Send(m)
  BY <1>3, SendInv
<1>4. CASE UNCHANGED linkVars
  <2>1. UNCHANGED <<bufs, len, state, next_msg_len, loop, received, dispatched, sent, wire>>
    BY <1>4 DEF linkVars, packetizerVars, ringVars, stateVars, historyVars
  <2>2. Contents' = Contents /\ Total' = Total
    BY <2>1 DEF Contents, Total
  <2>3. PacketizerTypeOK'
    BY <2>1, <2>2, LinkFacts DEF PacketizerTypeOK, RingTypeOK
  <2>4. PICK q \in Nat : /\ AtFrame(state, next_msg_len, Contents, received, dispatched, q)
                         /\ loop = "idle" => ~CompleteAt(received, q)
    BY LinkFacts DEF PacketizerInv
  <2>5. /\ AtFrame(state', next_msg_len', Contents', received', dispatched', q)
        /\ loop' = "idle" => ~CompleteAt(received', q)
    BY <2>1, <2>2, <2>4
  <2>6. WireInv'
    BY <2>1, <2>2 DEF LinkInv, WireInv
  <2> QED
    BY <2>3, <2>5, <2>6 DEF LinkInv, PacketizerInv
<1> QED
  BY <1>1, <1>2, <1>3, <1>4 DEF LinkNext

(* The next message that is dispatched is the next of those that were sent. *)
LEMMA NextIsSent ==
  ASSUME NEW M, NEW s \in Seq(M), NEW d \in Seq(M), NEW m, NEW e, e = Append(d, m),
         NEW x \in Seq(M), e \in Seq(M), s = e \o x
  PROVE  Len(d) < Len(s) /\ s[Len(d) + 1] = m
<1>1. Len(e) = Len(d) + 1 /\ e[Len(d) + 1] = m /\ Len(d) \in Nat
  BY AppendProperties
<1>2. /\ Len(s) = Len(e) + Len(x) /\ Len(x) \in Nat
      /\ \A i \in 1..(Len(e) + Len(x)) : s[i] = IF i <= Len(e) THEN e[i] ELSE x[i - Len(e)]
  BY ConcatProperties
<1> QED
  BY <1>1, <1>2

LEMMA LoopDelivers ==
  ASSUME LinkInv, Loop, UNCHANGED <<sent, wire>>
  PROVE  Channel!Deliver \/ UNCHANGED <<sent, dispatched>>
<1>1. CASE dispatched' = dispatched
  BY <1>1
<1>2. ASSUME NEW m, dispatched' = Append(dispatched, m)
      PROVE  Channel!Deliver
  <2>1. LinkInv'
    BY LinkLoopInv
  <2>2. /\ received' \in Seq(Bytes) /\ dispatched' \in Seq(Seq(Bytes))
        /\ wire' \in Seq(Bytes) /\ sent' \in Seq(Seq(Bytes))
        /\ Finds(received' \o wire', sent', Len(received' \o wire'))
    BY <2>1 DEF LinkInv, WireInv, Total, PacketizerInv, PacketizerTypeOK
  <2>3. PICK q \in Nat : AtFrame(state', next_msg_len', Contents', received', dispatched', q)
    BY <2>1 DEF LinkInv, PacketizerInv
  <2>4. q \in 0..Len(received') /\ Finds(received', dispatched', q)
    BY <2>3 DEF AtFrame
  <2>5. \E x \in Seq(Seq(Bytes)) : sent' = dispatched' \o x
    BY <2>2, <2>4, FoundWasSent
  <2>6. dispatched \in Seq(Seq(Bytes)) /\ sent' = sent
    BY LinkFacts
  <2>7. Len(dispatched) < Len(sent') /\ sent'[Len(dispatched) + 1] = m
    BY <1>2, <2>2, <2>5, <2>6, NextIsSent
  <2> QED
    BY <1>2, <2>6, <2>7 DEF Channel!Deliver
<1> QED
  BY <1>1, <1>2, LoopReads

(* Every step of the link is a step of the channel, or leaves it alone. *)
LEMMA LinkStepIsChannelStep ==
  ASSUME LinkInv, [LinkNext]_linkVars
  PROVE  Channel!Next \/ UNCHANGED <<sent, dispatched>>
<1>1. CASE Arrive
  BY <1>1 DEF Arrive, Data
<1>2. CASE Loop /\ UNCHANGED <<sent, wire>>
  BY <1>2, LoopDelivers DEF Channel!Next
<1>3. ASSUME NEW m \in Messages, Send(m)
      PROVE  Channel!Next
  <2>1. Channel!Send(m)
    BY <1>3 DEF Send, Channel!Send, packetizerVars, historyVars
  <2> QED
    BY <2>1 DEF Channel!Next
<1>4. CASE UNCHANGED linkVars
  BY <1>4 DEF linkVars, packetizerVars, historyVars
<1> QED
  BY <1>1, <1>2, <1>3, <1>4 DEF LinkNext

-----------------------------------------------------------------------------
(* What is in flight and what has come are the messages that were sent, one *)
(* frame after the other, and the packetizer is in one of them.             *)
THEOREM LinkInvHolds == LinkSpec => []LinkInv
<1>1. LinkInit => LinkInv
  BY LinkInitInv
<1>2. LinkInv /\ [LinkNext]_linkVars => LinkInv'
  BY LinkStepInv
<1> QED
  BY <1>1, <1>2, PTL DEF LinkSpec

(* Framing implements the channel, but for its fairness: the messages that  *)
(* send was given are dispatched in the same order, each once and whole, in *)
(* whatever form their lengths are packed and wherever the bytes are cut.   *)
THEOREM LinkIsSafeChannel == LinkSpec => Channel!Safe
<1>1. LinkInit => Channel!Init
  BY DEF LinkInit, PacketizerInit, Channel!Init
<1>2. LinkInv /\ [LinkNext]_linkVars => [Channel!Next]_(Channel!channelVars)
  BY LinkStepIsChannelStep DEF Channel!channelVars
<1> QED
  BY <1>1, <1>2, LinkInvHolds, PTL DEF LinkSpec, Channel!Safe
=============================================================================
