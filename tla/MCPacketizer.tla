----------------------------- MODULE MCPacketizer -----------------------------
(* Packetizer on every sequence of a few bytes: lengths 0 and 1, the array  *)
(* that a message of length 1 is, and the heads of longer numbers.          *)
EXTENDS Packetizer

MCBytes == {0, 1, 144, 204, 205}
=============================================================================
