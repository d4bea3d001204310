------------------------------ MODULE FrameLink ------------------------------
(***************************************************************************)
(* Both ends of one direction of a stream, while it lives: the `send' of    *)
(* one packetizer, the bytes in flight, and the packetize_data of another.  *)
(* TCP keeps the bytes in order and cuts them as it likes.                  *)
(***************************************************************************)
EXTENDS Packetizer

CONSTANTS
  Messages,     \* what is sent: arrays, packed
  MaxSent       \* bound: messages sent

(* send makes a string of the packed message, toString('binary'), and no    *)
(* string of V8 has 2^30 characters.                                        *)
MaxLength == 64 * 256 * 256 * 256

ASSUME MessagesAssumption ==
  /\ 0..255 \subseteq Bytes
  /\ \A m \in Messages : m \in Seq(Bytes) /\ IsArray(m) /\ Len(m) < MaxLength

VARIABLES
  sent,         \* the messages handed to send
  wire          \* bytes written and not yet received

linkVars == <<packetizerVars, sent, wire>>

LinkInit == PacketizerInit /\ sent = <<>> /\ wire = <<>>

(* pack, of a number: a library may choose any of the forms that fit. *)
Packed(n) ==
  LET Form(bound, head) == IF n < bound THEN {head} ELSE {}
      n1 == n \div 256
      n2 == n1 \div 256
      n3 == n2 \div 256
  IN  Form(128, <<n>>) \cup Form(256, <<204, n>>)
      \cup Form(256 * 256, <<205, n1, n % 256>>)
      \cup {<<206, n3, n2 % 256, n1 % 256, n % 256>>}

(* send: the length, then the message.  The mutant writes them in the wrong *)
(* order when they do not fit one byte.                                     *)
SendSwaps(m) ==
  /\ sent' = Append(sent, m)
  /\ \E head \in Packed(Len(m)) :
       wire' = IF Len(head) = 1 THEN wire \o head \o m ELSE wire \o m \o head
  /\ UNCHANGED packetizerVars

Send(m) ==
  /\ sent' = Append(sent, m)
  /\ \E head \in Packed(Len(m)) : wire' = wire \o head \o m
  /\ UNCHANGED packetizerVars

Arrive ==
  \E n \in 1..Len(wire) :
    /\ n <= MaxChunk
    /\ Data(SubSeq(wire, 1, n))
    /\ wire' = SubSeq(wire, n + 1, Len(wire))
    /\ UNCHANGED sent

LinkNext ==
  \/ Arrive
  \/ Loop /\ UNCHANGED <<sent, wire>>
  \/ \E m \in Messages : Len(sent) < MaxSent /\ Send(m)

(* Turns run to their end, and what was written arrives. *)
LinkSpec ==
  /\ LinkInit /\ [][LinkNext]_linkVars
  /\ WF_linkVars(Loop /\ UNCHANGED <<sent, wire>>)
  /\ WF_linkVars(Arrive)

-----------------------------------------------------------------------------
(* Framing is a message channel: whatever the cuts, every message is        *)
(* dispatched, in order, once and whole, and none is held back.             *)
Channel == INSTANCE MessageChannel WITH delivered <- dispatched
IsMessageChannel == Channel!Spec
=============================================================================
