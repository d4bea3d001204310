---------------------------- MODULE MessageChannel ----------------------------
(***************************************************************************)
(* What framing promises over one stream: the messages that one end sends   *)
(* arrive at the other in the same order, each once and whole.  No bytes,   *)
(* no buffers.  FrameLink is shown to implement it.                         *)
(***************************************************************************)
EXTENDS Integers, Sequences

CONSTANT Messages

VARIABLES sent, delivered

channelVars == <<sent, delivered>>

Init == sent = <<>> /\ delivered = <<>>

Send(m) == sent' = Append(sent, m) /\ UNCHANGED delivered

Deliver ==
  /\ Len(delivered) < Len(sent)
  /\ delivered' = Append(delivered, sent[Len(delivered) + 1])
  /\ UNCHANGED sent

Next == Deliver \/ \E m \in Messages : Send(m)

Safe == Init /\ [][Next]_channelVars

(* What has been sent is delivered. *)
Spec == Safe /\ WF_channelVars(Deliver)
=============================================================================
