------------------------------ MODULE Packetizer ------------------------------
(***************************************************************************)
(* packetizer.js: messages on a byte stream.  A frame is the length of a    *)
(* message, packed as a number, and then the message.  packetize_data puts  *)
(* what the socket delivers into the ring and alternates between reading a  *)
(* length (_get_frame) and a message (_get_msg) until it has to wait for    *)
(* more.  The loop runs in one turn, but it calls user code with every      *)
(* message, and user code may close the stream, which resets the packetizer *)
(* under the loop.  An iteration of the loop is an action.                  *)
(***************************************************************************)
EXTENDS Ring

CONSTANTS
  MaxChunk,     \* bound: bytes that come in one event
  MaxBytes      \* bound: bytes that come between two resets

ASSUME MaxChunkAssumption == MaxChunk \in Nat

VARIABLES
  state,        \* @_state
  next_msg_len, \* @_next_msg_len
  loop,         \* "idle", "runs", or "calls": user code runs in _dispatch
  received,     \* the bytes that came since the last reset
  dispatched    \* the messages handed to _dispatch since the last reset

stateVars   == <<state, next_msg_len>>
historyVars == <<received, dispatched>>
packetizerVars == <<ringVars, stateVars, historyVars, loop>>

PacketizerInit ==
  /\ RingInit
  /\ state = "FRAME" /\ next_msg_len = 0 /\ loop = "idle"
  /\ received = <<>> /\ dispatched = <<>>

-----------------------------------------------------------------------------
(* How many bytes a packed number takes, by its first byte; 0 for none that *)
(* starts with this byte.                                                   *)
msgpack_frame_len(b) ==
  CASE b < 128 -> 1 [] b = 204 -> 2 [] b = 205 -> 3 [] b = 206 -> 5 [] OTHER -> 0

(* unpack, of a number: of the bytes after the first, unless it is the only *)
(* one ...                                                                  *)
Number(s) ==
  LET value[i \in 0..Len(s)] == IF i <= 1 THEN 0 ELSE 256 * value[i - 1] + s[i]
  IN  IF Len(s) = 1 THEN s[1] ELSE value[Len(s)]

(* ... and of a message: all that counts is whether it is an array. *)
IsArray(s) == s # <<>> /\ s[1] \in (144..159) \cup {220, 221}

-----------------------------------------------------------------------------
(* _packetizer_reset.  The mutant keeps the state. *)
PacketizerResetKeepsState ==
  /\ bufs' = <<>> /\ len' = 0
  /\ received' = <<>> /\ dispatched' = <<>>
  /\ UNCHANGED stateVars

PacketizerReset ==
  /\ bufs' = <<>> /\ len' = 0 /\ state' = "FRAME"
  /\ received' = <<>> /\ dispatched' = <<>>
  /\ UNCHANGED next_msg_len

(* The subclass closes the stream, which resets the packetizer, unless the  *)
(* stream has been closed before: then nothing is reset.                    *)
PacketizeError(bs) ==
  /\ loop' = "idle"
  /\ \/ PacketizerReset
     \/ bufs' = bs /\ UNCHANGED <<len, stateVars, historyVars>>

(* WAIT ends the loop.  The mutant returns OK. *)
WaitGoesOn == UNCHANGED packetizerVars

Wait == loop' = "idle" /\ UNCHANGED <<ringVars, stateVars, historyVars>>

(* grab and then consume.  The mutant forgets @_len. *)
TakeKeepsLen(n) == bufs' = Consumed(Grabbed(bufs, n), n) /\ UNCHANGED len

Take(n) ==
  /\ bufs' = Consumed(Grabbed(bufs, n), n)
  /\ len' = len - n

FrameLen == msgpack_frame_len(bufs[1][1])

(* _get_frame *)
GetFrame ==
  /\ loop # "idle" /\ state = "FRAME"
  /\ \/ len = 0 /\ Wait
     \/ len > 0 /\ FrameLen = 0 /\ PacketizeError(bufs)
     \/ len > 0 /\ FrameLen > 0 /\ ~CanGrab(FrameLen) /\ Wait
     \/ /\ len > 0 /\ FrameLen > 0 /\ CanGrab(FrameLen)
        /\ Take(FrameLen)
        /\ next_msg_len' = Number(SubSeq(Grabbed(bufs, FrameLen)[1], 1, FrameLen))
        /\ state' = "DATA" /\ loop' = "runs"
        /\ UNCHANGED historyVars

(* The message that _get_msg looks at. *)
Message ==
  IF next_msg_len = 0 THEN <<>>
                      ELSE SubSeq(Grabbed(bufs, next_msg_len)[1], 1, next_msg_len)

(* _get_msg *)
GetMsg ==
  /\ loop # "idle" /\ state = "DATA"
  /\ \/ ~CanGrab(next_msg_len) /\ Wait
     \/ /\ CanGrab(next_msg_len) /\ ~IsArray(Message)
        /\ PacketizeError(Grabbed(bufs, next_msg_len))
     \/ /\ CanGrab(next_msg_len) /\ IsArray(Message)
        /\ Take(next_msg_len)
        /\ state' = "FRAME" /\ loop' = "calls"
        /\ dispatched' = Append(dispatched, Message)
        /\ UNCHANGED <<next_msg_len, received>>

(* packetize_data, up to its loop. *)
Data(b) ==
  /\ loop = "idle"
  /\ RingBuffer(b)
  /\ loop' = "runs"
  /\ received' = received \o b
  /\ UNCHANGED <<stateVars, dispatched>>

(* Users close the stream, between events or in the call of _dispatch. *)
UserCloses ==
  /\ loop # "runs"
  /\ PacketizerReset
  /\ UNCHANGED loop

-----------------------------------------------------------------------------
(* The socket never emits an empty buffer. *)
Chunks == SeqOf(Bytes, MaxChunk) \ {<<>>}

Loop == GetFrame \/ GetMsg

PacketizerNext ==
  \/ Loop
  \/ \E b \in Chunks : Len(received) + Len(b) <= MaxBytes /\ Data(b)
  \/ UserCloses

PacketizerSpec == PacketizerInit /\ [][PacketizerNext]_packetizerVars

(* A turn runs to its end. *)
FairPacketizerSpec == PacketizerSpec /\ WF_packetizerVars(Loop)

-----------------------------------------------------------------------------
(* Types of the variables, the ring's among them. *)
PacketizerTypeOK ==
  /\ RingTypeOK
  /\ state \in {"FRAME", "DATA"} /\ next_msg_len \in Nat
  /\ loop \in {"idle", "runs", "calls"}
  /\ received \in Seq(Bytes) /\ dispatched \in Seq(Seq(Bytes))

(* What a sequence of bytes has after its first p, for a reader that sees   *)
(* all of it: the length of a head, the number in it, and the message.      *)
HeadAt(s, p) == IF p = Len(s) THEN 0 ELSE msgpack_frame_len(s[p + 1])
SizeAt(s, p) == Number(SubSeq(s, p + 1, p + HeadAt(s, p)))
NextAt(s, p) == p + HeadAt(s, p) + SizeAt(s, p)
MessageAt(s, p) == SubSeq(s, p + HeadAt(s, p) + 1, NextAt(s, p))

CompleteAt(s, p) ==
  /\ HeadAt(s, p) > 0 /\ p + HeadAt(s, p) <= Len(s)
  /\ NextAt(s, p) <= Len(s) /\ IsArray(MessageAt(s, p))

(* The messages after the first p bytes, up to the first that is incomplete *)
(* or wrong; all of them are what the packetizer should find.               *)
MessagesAfter(s) ==
  LET after[p \in 0..Len(s)] ==
        IF CompleteAt(s, p) THEN <<MessageAt(s, p)>> \o after[NextAt(s, p)] ELSE <<>>
  IN  after

Parse(s) == MessagesAfter(s)[0]

(* How the socket cuts the bytes makes no difference: what is dispatched is *)
(* determined by the bytes alone, and when the loop ends no complete        *)
(* message is held back.                                                    *)
ChunkingIrrelevant ==
  /\ IsPrefix(dispatched, Parse(received))
  /\ loop = "idle" => dispatched = Parse(received)

(* The consume in _get_frame and _get_msg never throws: the grab before it  *)
(* has put enough bytes into the first buffer.                              *)
NoUnderflow ==
  \A n \in (IF state = "DATA" THEN {next_msg_len} ELSE IF len > 0 THEN {FrameLen} ELSE {}) :
    n > 0 /\ CanGrab(n) => ~Underflow(Grabbed(bufs, n), n)

(* packetize_data returns: every message the loop reads takes bytes away,   *)
(* and an empty message is an error.                                        *)
LoopEnds == loop # "idle" ~> loop = "idle"
=============================================================================
