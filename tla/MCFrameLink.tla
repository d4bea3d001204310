----------------------------- MODULE MCFrameLink -----------------------------
(* FrameLink with a message of one byte, [], and one of two, [1]: its second *)
(* byte could be the length of a frame of one byte.                         *)
EXTENDS FrameLink

MCBytes == 0..255
MCMessages == {<<144>>, <<145, 1>>}
=============================================================================
