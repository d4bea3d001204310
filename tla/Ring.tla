--------------------------------- MODULE Ring ---------------------------------
(***************************************************************************)
(* ring.js: a byte queue kept as a list of buffers, in the sizes they       *)
(* came from the socket.  grab(n) makes sure that the first buffer holds at *)
(* least n bytes, joining as few buffers as it takes, and returns that      *)
(* buffer, which may be longer than n; consume(n) cuts n bytes off it and   *)
(* throws if it is shorter than n, whatever the others hold.                *)
(***************************************************************************)
EXTENDS Integers, Sequences, SequencesExt

CONSTANT Bytes  \* the values of a byte

ASSUME BytesAssumption == Bytes \subseteq 0..255

VARIABLES
  bufs,         \* @_bufs
  len           \* @_len

ringVars == <<bufs, len>>

RingInit == bufs = <<>> /\ len = 0

(* The buffers, put together. *)
Contents == FlattenSeq(bufs)

-----------------------------------------------------------------------------
RingBuffer(b) ==
  /\ bufs' = Append(bufs, b)
  /\ len' = len + Len(b)

(* How many buffers it takes to have n bytes. *)
Needed(bs, n) ==
  CHOOSE k \in 0..Len(bs) :
    /\ Len(FlattenSeq(SubSeq(bs, 1, k))) >= n
    /\ \A j \in 0..(k - 1) : Len(FlattenSeq(SubSeq(bs, 1, j))) < n

(* @_bufs after a grab that has enough bytes: the fast path leaves it alone *)
(* (and so does a grab of no bytes from no buffer).  One mutant leaves the  *)
(* last of the joined buffers in the list, another joins one too few.       *)
GrabbedTwice(bs, n) ==
  IF n = 0 \/ Len(bs[1]) >= n
    THEN bs
    ELSE LET k == Needed(bs, n)
         IN  <<FlattenSeq(SubSeq(bs, 1, k))>> \o SubSeq(bs, k, Len(bs))

GrabbedTooFew(bs, n) ==
  IF n = 0 \/ Len(bs[1]) >= n
    THEN bs
    ELSE LET k == Needed(bs, n) - 1
         IN  <<FlattenSeq(SubSeq(bs, 1, k))>> \o SubSeq(bs, k + 1, Len(bs))

Grabbed(bs, n) ==
  IF n = 0 \/ Len(bs[1]) >= n
    THEN bs
    ELSE LET k == Needed(bs, n)
         IN  <<FlattenSeq(SubSeq(bs, 1, k))>> \o SubSeq(bs, k + 1, Len(bs))

(* grab does not return null. *)
CanGrab(n) == n <= len

(* consume throws ... *)
Underflow(bs, n) == bs = <<>> \/ Len(bs[1]) < n

(* ... or drops the first n bytes. *)
Consumed(bs, n) ==
  IF Len(bs[1]) = n THEN Tail(bs)
                    ELSE <<SubSeq(bs[1], n + 1, Len(bs[1]))>> \o Tail(bs)

-----------------------------------------------------------------------------
(* Types, with the two facts that grab and consume rely on: @_len counts    *)
(* the bytes that are there, and no buffer is empty, so that the first one  *)
(* always has the next byte.                                                *)
RingTypeOK ==
  /\ bufs \in Seq(Seq(Bytes) \ {<<>>})
  /\ len = Len(Contents)

(* The buffers together are a byte queue. *)
Queue == INSTANCE ByteQueue WITH bytes <- Contents
KeepsBytes == Queue!Spec
=============================================================================
