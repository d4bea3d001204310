------------------------------ MODULE ByteQueue ------------------------------
(***************************************************************************)
(* What a ring of buffers promises: the bytes that were put in leave in     *)
(* the same order, none added and none lost.  Ring is shown to implement    *)
(* this module, with no trace of how the bytes are cut into buffers.        *)
(***************************************************************************)
EXTENDS Integers, SequencesExt

VARIABLE bytes          \* what has been put in and not yet taken out

Init == bytes = <<>>

(* Bytes are added at the end ... *)
Put == IsPrefix(bytes, bytes')

(* ... and taken from the front. *)
Take(n) == bytes' = SubSeq(bytes, n + 1, Len(bytes))

Next == Put \/ \E n \in 1..Len(bytes) : Take(n)

Spec == Init /\ [][Next]_bytes
=============================================================================
