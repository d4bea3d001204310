--------------------------- MODULE DispatchProofs ---------------------------
(***************************************************************************)
(* Proofs about Dispatch, for any set of calls: the safety of the table of  *)
(* outstanding invocations, and that Dispatch implements CallTable.         *)
(***************************************************************************)
EXTENDS Dispatch, TLAPS

(* A number is given to one message, and a call is sent in one message. *)
NumbersUnique ==
  /\ \A r \in requests : r[2] < seqid
  /\ \A r, q \in requests : r[2] = q[2] \/ r[3] = q[3] => r = q

(* What is in the table or in the sweep was sent under that number, and its *)
(* callback has not fired; nothing is in both.                              *)
Outstanding == invocations \cup resetting

TableMatchesRequests ==
  /\ invocations \cap resetting = {}
  /\ \A e \in Outstanding :
       <<"invoke", e[1], e[2]>> \in requests /\ outcome[e[2]] = <<>>

(* A call without an outcome is outstanding; an outcome is the call's own,  *)
(* the only one, and of a call that was sent.                               *)
OutcomesMatchTable ==
  /\ \A r \in requests :
       r[1] = "invoke" /\ outcome[r[3]] = <<>> => <<r[2], r[3]>> \in Outstanding
  /\ \A c \in Calls : outcome[c] # <<>> =>
       ~Unsent(c) /\ \E o \in Outcome : outcome[c] = <<o>> /\ o.of = c

(* The inductive invariant. *)
IInv ==
  DispatchTypeOK /\ NumbersUnique /\ TableMatchesRequests /\ OutcomesMatchTable

Message == {"invoke", "notify"} \X (Nat \ {0}) \X Calls

-----------------------------------------------------------------------------
(* What Fire does to an empty outcome. *)
LEMMA FireFirst ==
  ASSUME outcome \in [Calls -> Seq(Outcome)],
         NEW c \in Calls, NEW how \in {"reply", "cancelled", "eof"},
         outcome[c] = <<>>, Fire(c, how, c)
  PROVE  /\ outcome' \in [Calls -> Seq(Outcome)]
         /\ outcome'[c] = <<[how |-> how, of |-> c]>>
         /\ [how |-> how, of |-> c] \in Outcome
         /\ \A d \in Calls : d # c => outcome'[d] = outcome[d]
<1> DEFINE o == [how |-> how, of |-> c]
<1>1. o \in Outcome
  BY DEF Outcome
<1>2. outcome' = [outcome EXCEPT ![c] = Append(<<>>, o)]
  BY DEF Fire
<1>3. Append(<<>>, o) = <<o>>
  OBVIOUS
<1>4. <<o>> \in Seq(Outcome)
  BY <1>1
<1> QED
  BY <1>1, <1>2, <1>3, <1>4

(* The invariant holds at the start. *)
LEMMA InitInv == DispatchInit => IInv
<1> SUFFICES ASSUME DispatchInit PROVE IInv
  OBVIOUS
<1> USE DEF DispatchInit
<1>1. <<>> \in Seq(Outcome)
  OBVIOUS
<1>2. DispatchTypeOK
  BY <1>1 DEF DispatchTypeOK, Entry, IsMap
<1>3. NumbersUnique
  BY DEF NumbersUnique
<1>4. TableMatchesRequests
  BY DEF TableMatchesRequests, Outstanding
<1>5. OutcomesMatchTable
  BY DEF OutcomesMatchTable, Outstanding
<1> QED
  BY <1>2, <1>3, <1>4, <1>5 DEF IInv

(* A call that has not been sent has no entry and no outcome. *)
LEMMA UnsentIsIdle ==
  ASSUME IInv, NEW c \in Calls, Unsent(c)
  PROVE  outcome[c] = <<>> /\ \A e \in Outstanding : e[2] # c
BY DEF IInv, OutcomesMatchTable, TableMatchesRequests, Unsent

(* Whatever message is sent next keeps the numbers unique. *)
LEMMA SendKeepsNumbers ==
  ASSUME IInv, NEW c \in Calls, Unsent(c), NEW type \in {"invoke", "notify"},
         seqid' = NextSeqid, requests' = requests \cup {<<type, seqid, c>>}
  PROVE  NumbersUnique' /\ seqid' \in Nat \ {0} /\ requests' \subseteq Message
<1>1. seqid \in Nat \ {0} /\ requests \subseteq Message
  BY DEF IInv, DispatchTypeOK, Message
<1>2. \A r \in requests : r[2] \in Nat /\ r[2] < seqid /\ r[3] # c
  BY <1>1 DEF IInv, NumbersUnique, Unsent, Message
<1>3. seqid' = seqid + 1 /\ seqid < seqid'
  BY <1>1 DEF NextSeqid
<1>4. \A r \in requests' : r[2] < seqid'
  BY <1>1, <1>2, <1>3
<1>5. \A r, q \in requests' : r[2] = q[2] \/ r[3] = q[3] => r = q
  BY <1>1, <1>2 DEF IInv, NumbersUnique
<1> QED
  BY <1>1, <1>3, <1>4, <1>5 DEF NumbersUnique, Message

(* So the next number is free: Register overwrites nothing. *)
LEMMA NextNumberIsFree ==
  ASSUME IInv, NEW c \in Calls
  PROVE  /\ Register(seqid, c) = invocations \cup {<<seqid, c>>}
         /\ \A e \in Outstanding : e[1] # seqid
<1>1. seqid \in Nat /\ invocations \subseteq Entry /\ resetting \subseteq Entry
  BY DEF IInv, DispatchTypeOK
<1>2. ASSUME NEW e \in Outstanding PROVE e[1] # seqid
  <2>1. <<"invoke", e[1], e[2]>> \in requests
    BY DEF IInv, TableMatchesRequests, Outstanding
  <2>2. <<"invoke", e[1], e[2]>>[2] < seqid
    BY <2>1 DEF IInv, NumbersUnique
  <2>3. e[1] \in Nat
    BY <1>1 DEF Entry, Outstanding
  <2> QED
    BY <1>1, <2>2, <2>3
<1> QED
  BY <1>2 DEF Register, Outstanding

(* invoke preserves the invariant. *)
LEMMA InvokeInv ==
  ASSUME IInv, NEW c \in Calls, Unsent(c), DispatchInvoke(c)
  PROVE  IInv'
<1> USE DEF DispatchInvoke
<1>1. NumbersUnique' /\ seqid' \in Nat \ {0} /\ requests' \subseteq Message
  BY SendKeepsNumbers
<1>2. outcome[c] = <<>> /\ \A e \in Outstanding : e[2] # c
  BY UnsentIsIdle
<1>3. seqid \in Nat \ {0} /\ invocations \subseteq Entry /\ resetting \subseteq Entry
  BY DEF IInv, DispatchTypeOK
<1>5. invocations' = invocations \cup {<<seqid, c>>}
  BY NextNumberIsFree
<1>6. Outstanding' = Outstanding \cup {<<seqid, c>>} /\ <<seqid, c>> \notin resetting
  BY <1>2, <1>5 DEF Outstanding
<1>7. DispatchTypeOK'
  <2>1. IsMap(Outstanding) /\ \A e \in Outstanding : e[1] # <<seqid, c>>[1]
    BY NextNumberIsFree DEF IInv, DispatchTypeOK, Outstanding
  <2>2. IsMap(Outstanding')
    BY <1>6, <2>1 DEF IsMap
  <2> QED
    BY <1>1, <1>3, <1>5, <2>2 DEF IInv, DispatchTypeOK, Entry, Message, Outstanding
<1>8. TableMatchesRequests'
  BY <1>2, <1>5, <1>6 DEF IInv, TableMatchesRequests
<1>9. OutcomesMatchTable'
  BY <1>2, <1>6 DEF IInv, OutcomesMatchTable, Unsent
<1> QED
  BY <1>1, <1>7, <1>8, <1>9 DEF IInv

(* So does a notification. *)
LEMMA NotifyInv ==
  ASSUME IInv, NEW c \in Calls, Unsent(c), DispatchNotify(c)
  PROVE  IInv'
<1> USE DEF DispatchNotify
<1>1. NumbersUnique' /\ seqid' \in Nat \ {0} /\ requests' \subseteq Message
  BY SendKeepsNumbers
<1>2. DispatchTypeOK'
  BY <1>1 DEF IInv, DispatchTypeOK, Message
<1>3. Outstanding' = Outstanding
  BY DEF Outstanding
<1>4. TableMatchesRequests'
  BY <1>3 DEF IInv, TableMatchesRequests
<1>5. OutcomesMatchTable'
  BY <1>3 DEF IInv, OutcomesMatchTable, Unsent
<1> QED
  BY <1>1, <1>2, <1>4, <1>5 DEF IInv

(* The entry that a number finds is the one of the message with that number.*)
LEMMA EntryOfNumber ==
  ASSUME IInv, NEW r \in requests, NEW e \in invocations, e[1] = r[2]
  PROVE  e \in Entry /\ e[2] = r[3]
<1>1. e \in Entry /\ <<"invoke", e[1], e[2]>> \in requests
  BY DEF IInv, DispatchTypeOK, TableMatchesRequests, Outstanding
<1>2. <<"invoke", e[1], e[2]>>[2] = r[2]
  OBVIOUS
<1>3. <<"invoke", e[1], e[2]>> = r
  BY <1>1, <1>2 DEF IInv, NumbersUnique
<1> QED
  BY <1>1, <1>3

(* Two entries of one call are one entry. *)
LEMMA EntryOfCall ==
  ASSUME IInv, NEW e \in Outstanding, NEW d \in Outstanding, e[2] = d[2]
  PROVE  e = d
<1> DEFINE M(x) == <<"invoke", x[1], x[2]>>
<1>1. e \in Entry /\ d \in Entry /\ M(e) \in requests /\ M(d) \in requests
  BY DEF IInv, DispatchTypeOK, TableMatchesRequests, Outstanding
<1>2. M(e)[3] = M(d)[3]
  OBVIOUS
<1>3. M(e) = M(d)
  BY <1>1, <1>2 DEF IInv, NumbersUnique
<1>4. e[1] = d[1]
  BY <1>3
<1> QED
  BY <1>1, <1>4 DEF Entry

(* An entry leaves the table or the sweep together with its callback: the   *)
(* step that CallCb and ResetNext share.                                    *)
LEMMA FinishInv ==
  ASSUME IInv, NEW e \in Outstanding, NEW how \in {"reply", "cancelled", "eof"},
         Fire(e[2], how, e[2]), UNCHANGED <<seqid, requests>>,
         Outstanding' = Outstanding \ {e},
         invocations' \subseteq invocations, resetting' \subseteq resetting
  PROVE  IInv'
<1> DEFINE c == e[2]
           o == [how |-> how, of |-> c]
<1>1. outcome \in [Calls -> Seq(Outcome)] /\ invocations \subseteq Entry
      /\ resetting \subseteq Entry /\ requests \subseteq Message
  BY DEF IInv, DispatchTypeOK, Message
<1>2. c \in Calls /\ outcome[c] = <<>> /\ <<"invoke", e[1], c>> \in requests
  BY <1>1 DEF IInv, TableMatchesRequests, Outstanding, Entry
<1>3. /\ outcome' \in [Calls -> Seq(Outcome)] /\ outcome'[c] = <<o>>
      /\ o \in Outcome /\ \A d \in Calls : d # c => outcome'[d] = outcome[d]
  BY <1>1, <1>2, FireFirst
<1>4. \A d \in Outstanding : d[2] = c => d = e
  BY EntryOfCall
<1>5. \A d \in Outstanding' : d \in Outstanding /\ d[2] \in Calls /\ d[2] # c
  BY <1>1, <1>4 DEF Outstanding, Entry
<1>6. DispatchTypeOK'
  <2>1. IsMap(Outstanding')
    BY DEF IInv, DispatchTypeOK, IsMap, Outstanding
  <2> QED
    BY <1>1, <1>3, <2>1 DEF IInv, DispatchTypeOK, Outstanding
<1>7. NumbersUnique'
  BY DEF IInv, NumbersUnique
<1>8. TableMatchesRequests'
  <2>1. (invocations \cap resetting)' = {}
    BY DEF IInv, TableMatchesRequests
  <2>2. ASSUME NEW d \in Outstanding'
        PROVE  <<"invoke", d[1], d[2]>> \in requests' /\ outcome'[d[2]] = <<>>
    BY <1>3, <1>5 DEF IInv, TableMatchesRequests
  <2> QED
    BY <2>1, <2>2 DEF TableMatchesRequests
<1>9. OutcomesMatchTable'
  <2>1. ASSUME NEW r \in requests, r[1] = "invoke", outcome'[r[3]] = <<>>
        PROVE  <<r[2], r[3]>> \in Outstanding'
    <3> HIDE DEF c, o
    <3>1. r[3] \in Calls
      BY <1>1, <2>1 DEF Message
    <3>2. <<o>> # <<>>
      OBVIOUS
    <3>3. r[3] # c /\ outcome[r[3]] = <<>>
      BY <1>3, <2>1, <3>1, <3>2
    <3>4. <<r[2], r[3]>> \in Outstanding
      BY <2>1, <3>3 DEF IInv, OutcomesMatchTable
    <3>5. <<r[2], r[3]>> # e
      BY <3>3 DEF c
    <3> QED
      BY <3>4, <3>5
  <2>2. ASSUME NEW d \in Calls, outcome'[d] # <<>>
        PROVE  ~Unsent(d)' /\ \E p \in Outcome : outcome'[d] = <<p>> /\ p.of = d
    <3>1. CASE d = c
      BY <1>2, <1>3, <3>1 DEF Unsent
    <3>2. CASE d # c
      BY <1>3, <2>2, <3>2 DEF IInv, OutcomesMatchTable, Unsent
    <3> QED
      BY <3>1, <3>2
  <2> QED
    BY <2>1, <2>2 DEF OutcomesMatchTable
<1> QED
  BY <1>6, <1>7, <1>8, <1>9 DEF IInv

(* A callback by number preserves the invariant, when the outcome is that   *)
(* of the message with that number.                                         *)
LEMMA CallCbInv ==
  ASSUME IInv, NEW r \in requests, NEW how \in {"reply", "cancelled", "eof"},
         CallCb(r[2], how, r[3])
  PROVE  IInv'
<1>1. CASE UNCHANGED dispatchVars
  BY <1>1 DEF dispatchVars, IInv, DispatchTypeOK, NumbersUnique, TableMatchesRequests,
              OutcomesMatchTable, Outstanding, Unsent
<1>2. ASSUME NEW e \in invocations, e[1] = r[2],
             invocations' = invocations \ {e}, Fire(e[2], how, r[3]),
             UNCHANGED <<seqid, resetting, requests>>
      PROVE  IInv'
  <2>1. e[2] = r[3] /\ e \in Outstanding /\ e \notin resetting
    BY <1>2, EntryOfNumber DEF Outstanding, IInv, TableMatchesRequests
  <2>2. Outstanding' = Outstanding \ {e}
    BY <1>2, <2>1 DEF Outstanding
  <2> QED
    BY <1>2, <2>1, <2>2, FinishInv
<1> QED
  BY <1>1, <1>2 DEF CallCb, dispatchVars

(* Swapping the table preserves it, when no sweep is going on. *)
LEMMA ResetInv ==
  ASSUME IInv, resetting = {}, DispatchReset
  PROVE  IInv'
<1>1. Outstanding' = Outstanding
  BY DEF DispatchReset, Outstanding
<1>2. DispatchTypeOK'
  BY <1>1 DEF DispatchReset, IInv, DispatchTypeOK, Outstanding
<1> QED
  BY <1>1, <1>2 DEF DispatchReset, IInv, NumbersUnique, TableMatchesRequests,
                    OutcomesMatchTable, Unsent

(* One iteration of the sweep preserves it. *)
LEMMA ResetNextInv ==
  ASSUME IInv, ResetNext
  PROVE  IInv'
<1>1. PICK e \in resetting :
        /\ resetting' = resetting \ {e} /\ Fire(e[2], "eof", e[2])
        /\ UNCHANGED <<seqid, invocations, requests>>
  BY DEF ResetNext
<1>2. e \notin invocations /\ e \in Outstanding
  BY DEF IInv, TableMatchesRequests, Outstanding
<1>3. Outstanding' = Outstanding \ {e}
  BY <1>1, <1>2 DEF Outstanding
<1> QED
  BY <1>1, <1>2, <1>3, FinishInv

(* Every step preserves the invariant. *)
LEMMA NextInv == IInv /\ [DispatchNext]_dispatchVars => IInv'
<1> SUFFICES ASSUME IInv, [DispatchNext]_dispatchVars PROVE IInv'
  OBVIOUS
<1>1. ASSUME NEW c \in Calls, Unsent(c), DispatchInvoke(c) PROVE IInv'
  BY <1>1, InvokeInv
<1>2. ASSUME NEW c \in Calls, Unsent(c), DispatchNotify(c) PROVE IInv'
  BY <1>2, NotifyInv
<1>3. ASSUME NEW r \in requests, HandleResponse(r) PROVE IInv'
  BY <1>3, CallCbInv DEF HandleResponse
<1>4. ASSUME NEW r \in requests, DispatchCancel(r) PROVE IInv'
  BY <1>4, CallCbInv DEF DispatchCancel
<1>5. CASE resetting = {} /\ DispatchReset
  BY <1>5, ResetInv
<1>6. CASE ResetNext
  BY <1>6, ResetNextInv
<1>7. CASE UNCHANGED dispatchVars
  BY <1>7 DEF dispatchVars, IInv, DispatchTypeOK, NumbersUnique, TableMatchesRequests,
              OutcomesMatchTable, Outstanding, Unsent
<1> QED
  BY <1>1, <1>2, <1>3, <1>4, <1>5, <1>6, <1>7 DEF DispatchNext

(* The invariant holds in every reachable state. *)
THEOREM InvAlways == DispatchSpec => []IInv
BY InitInv, NextInv, PTL DEF DispatchSpec

-----------------------------------------------------------------------------
(* The variables of Dispatch keep their types.                              *)
THEOREM TypeCorrect == DispatchSpec => []DispatchTypeOK
<1>1. IInv => DispatchTypeOK
  BY DEF IInv
<1> QED
  BY <1>1, InvAlways, PTL

(* No callback fires twice, in whatever order responses, cancellations and  *)
(* EOF sweeps come.                                                         *)
THEOREM CallbackAtMostOnce == DispatchSpec => []AtMostOnce
<1>1. ASSUME IInv PROVE AtMostOnce
  <2> SUFFICES ASSUME NEW c \in Calls PROVE Len(outcome[c]) <= 1
    BY DEF AtMostOnce
  <2>1. CASE outcome[c] = <<>>
    BY <2>1
  <2>2. CASE outcome[c] # <<>>
    BY <1>1, <2>2 DEF IInv, OutcomesMatchTable
  <2> QED
    BY <2>1, <2>2
<1> QED
  BY <1>1, InvAlways, PTL

(* A callback never gets the outcome of another call. *)
THEOREM CallbackOwnReply == DispatchSpec => []OwnReply
<1>1. ASSUME IInv PROVE OwnReply
  <2> SUFFICES ASSUME NEW c \in Calls, NEW i \in 1..Len(outcome[c])
               PROVE  outcome[c][i].of = c
    BY DEF OwnReply
  <2>1. outcome[c] # <<>>
    OBVIOUS
  <2>2. PICK o \in Outcome : outcome[c] = <<o>> /\ o.of = c
    BY <1>1, <2>1 DEF IInv, OutcomesMatchTable
  <2> QED
    BY <2>2
<1> QED
  BY <1>1, InvAlways, PTL

(* A call that was sent with a callback is in the table or in the sweep     *)
(* until its callback fires.                                                *)
THEOREM CallNotForgotten == DispatchSpec => []NoCallForgotten
<1>1. ASSUME IInv PROVE NoCallForgotten
  <2> SUFFICES ASSUME NEW r \in requests, r[1] = "invoke" PROVE Accounted(r[3])
    BY DEF NoCallForgotten
  <2>1. r[3] \in Calls /\ invocations \subseteq Entry /\ resetting \subseteq Entry
    BY <1>1 DEF IInv, DispatchTypeOK
  <2>2. \A e, d \in Outstanding : e[2] = d[2] => e = d
    BY <1>1, EntryOfCall
  <2>3. r[3] \in CallsOf(invocations) => r[3] \notin CallsOf(resetting)
    BY <1>1, <2>2 DEF IInv, TableMatchesRequests, Outstanding, CallsOf
  <2>4. CallsOf(invocations) \cup CallsOf(resetting) = CallsOf(Outstanding)
    BY DEF CallsOf, Outstanding
  <2>5. r[3] \in CallsOf(Outstanding) <=> outcome[r[3]] = <<>>
    <3>1. ASSUME outcome[r[3]] = <<>> PROVE r[3] \in CallsOf(Outstanding)
      <4>1. <<r[2], r[3]>> \in Outstanding
        BY <1>1, <3>1 DEF IInv, OutcomesMatchTable
      <4>2. <<r[2], r[3]>>[2] = r[3]
        OBVIOUS
      <4> QED
        BY <4>1, <4>2 DEF CallsOf
    <3>2. ASSUME r[3] \in CallsOf(Outstanding) PROVE outcome[r[3]] = <<>>
      BY <1>1, <3>2 DEF IInv, TableMatchesRequests, CallsOf
    <3> QED
      BY <3>1, <3>2
  <2> QED
    BY <2>3, <2>4, <2>5 DEF Accounted
<1> QED
  BY <1>1, InvAlways, PTL

-----------------------------------------------------------------------------
(* The refinement: what each step does to the status of a call.             *)

(* A call in the sweep is doomed, one in the table is pending. *)
LEMMA StatusOfEntry ==
  ASSUME IInv, NEW e \in Outstanding
  PROVE  /\ e[2] \in Calls /\ outcome[e[2]] = <<>>
         /\ statusOf(e[2]) = IF e \in resetting THEN "doomed" ELSE "pending"
<1>1. e[2] \in Calls /\ outcome[e[2]] = <<>> /\ invocations \cap resetting = {}
  BY DEF IInv, DispatchTypeOK, TableMatchesRequests, Outstanding, Entry
<1>2. CASE e \in invocations
  BY <1>1, <1>2 DEF statusOf, CallsOf
<1>3. CASE e \in resetting
  <2>1. e[2] \notin CallsOf(invocations)
    BY <1>1, <1>3, EntryOfCall DEF CallsOf, Outstanding
  <2>2. e[2] \in CallsOf(resetting)
    BY <1>3 DEF CallsOf
  <2> QED
    BY <1>1, <1>3, <2>1, <2>2 DEF statusOf
<1> QED
  BY <1>1, <1>2, <1>3 DEF Outstanding

(* The end of an entry is the end of its call, and of no other. *)
LEMMA FinishStatus ==
  ASSUME IInv, NEW e \in Outstanding, NEW how \in {"reply", "cancelled", "eof"},
         Fire(e[2], how, e[2]),
         \/ invocations' = invocations \ {e} /\ resetting' = resetting
         \/ resetting' = resetting \ {e} /\ invocations' = invocations
  PROVE  Promise!Finish(e[2], how)
<1> DEFINE c == e[2]
           o == [how |-> how, of |-> c]
<1>1. outcome \in [Calls -> Seq(Outcome)]
  BY DEF IInv, DispatchTypeOK
<1>2. c \in Calls /\ outcome[c] = <<>>
  BY StatusOfEntry
<1>3. /\ outcome' \in [Calls -> Seq(Outcome)] /\ outcome'[c] = <<o>>
      /\ \A d \in Calls : d # c => outcome'[d] = outcome[d]
  BY <1>1, <1>2, FireFirst
<1>4. outcome' = [outcome EXCEPT ![c] = <<o>>]
  BY <1>1, <1>2, <1>3
<1>5. statusOf(c)' = "done"
  <2>1. <<o>> # <<>>
    OBVIOUS
  <2> QED
    BY <1>3, <2>1 DEF statusOf
<1>6. ASSUME NEW d \in Calls, d # c PROVE statusOf(d)' = statusOf(d)
  <2>1. d \in CallsOf(invocations)' <=> d \in CallsOf(invocations)
    BY <1>6 DEF CallsOf
  <2>2. d \in CallsOf(resetting)' <=> d \in CallsOf(resetting)
    BY <1>6 DEF CallsOf
  <2> QED
    BY <1>3, <1>6, <2>1, <2>2 DEF statusOf
<1>7. [d \in Calls |-> statusOf(d)]' =
        [[d \in Calls |-> statusOf(d)] EXCEPT ![c] = "done"]
  BY <1>2, <1>5, <1>6
<1> QED
  BY <1>4, <1>7 DEF Promise!Finish

(* A callback by number is a Reply or a Cancel, or nothing happens. *)
LEMMA CallCbStep ==
  ASSUME IInv, NEW r \in requests, NEW how \in {"reply", "cancelled"},
         CallCb(r[2], how, r[3])
  PROVE  \/ \E c \in Calls : /\ [d \in Calls |-> statusOf(d)][c] = "pending"
                             /\ Promise!Finish(c, how)
         \/ UNCHANGED dispatchVars
<1> SUFFICES ASSUME NEW e \in invocations, e[1] = r[2],
                    invocations' = invocations \ {e}, Fire(e[2], how, r[3]),
                    UNCHANGED <<seqid, resetting, requests>>
             PROVE  \E c \in Calls :
                      /\ [d \in Calls |-> statusOf(d)][c] = "pending"
                      /\ Promise!Finish(c, how)
  BY DEF CallCb, dispatchVars
<1>1. e \in Outstanding /\ e \notin resetting /\ r[3] = e[2]
  BY EntryOfNumber DEF Outstanding, IInv, TableMatchesRequests
<1>2. e[2] \in Calls /\ statusOf(e[2]) = "pending"
  BY <1>1, StatusOfEntry
<1>3. Promise!Finish(e[2], how)
  BY <1>1, FinishStatus
<1> QED
  BY <1>2, <1>3

(* invoke is Begin: the status of c alone changes. *)
LEMMA InvokeStep ==
  ASSUME IInv, NEW c \in Calls, Unsent(c), DispatchInvoke(c)
  PROVE  Promise!Begin(c)
<1>1. outcome[c] = <<>> /\ \A e \in Outstanding : e[2] # c
  BY UnsentIsIdle
<1>3. invocations' = invocations \cup {<<seqid, c>>}
  BY NextNumberIsFree DEF DispatchInvoke
<1>4. statusOf(c) = "idle"
  BY <1>1 DEF statusOf, CallsOf, Outstanding
<1>5. statusOf(c)' = "pending"
  <2>1. <<seqid, c>>[2] = c
    OBVIOUS
  <2>2. c \in CallsOf(invocations)'
    BY <1>3, <2>1 DEF CallsOf
  <2> QED
    BY <1>1, <2>2 DEF statusOf, DispatchInvoke
<1>6. ASSUME NEW d \in Calls, d # c PROVE statusOf(d)' = statusOf(d)
  <2>1. d \in CallsOf(invocations)' <=> d \in CallsOf(invocations)
    BY <1>3, <1>6 DEF CallsOf
  <2>2. d \in CallsOf(resetting)' <=> d \in CallsOf(resetting)
    BY DEF CallsOf, DispatchInvoke
  <2> QED
    BY <2>1, <2>2 DEF statusOf, DispatchInvoke
<1> QED
  BY <1>4, <1>5, <1>6 DEF Promise!Begin, DispatchInvoke

(* The swap of the table is Disconnect. *)
LEMMA ResetStep ==
  ASSUME IInv, resetting = {}, DispatchReset
  PROVE  Promise!Disconnect
<1>1. ASSUME NEW c \in Calls
      PROVE  /\ statusOf(c) # "doomed"
             /\ statusOf(c)' = IF statusOf(c) = "pending" THEN "doomed" ELSE statusOf(c)
  <2>1. c \notin CallsOf(resetting) /\ c \notin CallsOf(invocations)'
    BY DEF CallsOf, DispatchReset
  <2>2. c \in CallsOf(resetting)' <=> c \in CallsOf(invocations)
    BY DEF CallsOf, DispatchReset
  <2> QED
    BY <2>1, <2>2 DEF statusOf, DispatchReset
<1> QED
  BY <1>1 DEF Promise!Disconnect, DispatchReset

(* Every behaviour of the table of invocations is one that CallTable allows.*)
THEOREM Refinement == DispatchSpec => KeepsPromise
<1>1. DispatchInit => Promise!Init
  BY DEF DispatchInit, Promise!Init, statusOf, CallsOf
<1>2. IInv /\ [DispatchNext]_dispatchVars => [Promise!Next]_Promise!callTableVars
  <2> SUFFICES ASSUME IInv, [DispatchNext]_dispatchVars
               PROVE  Promise!Next \/ UNCHANGED Promise!callTableVars
    OBVIOUS
  <2>1. ASSUME UNCHANGED dispatchVars PROVE UNCHANGED Promise!callTableVars
    BY <2>1 DEF dispatchVars, Promise!callTableVars, statusOf, CallsOf
  <2>2. ASSUME NEW c \in Calls, Unsent(c), DispatchInvoke(c) PROVE Promise!Next
    BY <2>2, InvokeStep DEF Promise!Next
  <2>3. ASSUME NEW c \in Calls, Unsent(c), DispatchNotify(c)
        PROVE  UNCHANGED Promise!callTableVars
    BY <2>3 DEF DispatchNotify, Promise!callTableVars, statusOf, CallsOf
  <2>4. ASSUME NEW r \in requests, HandleResponse(r)
        PROVE  Promise!Next \/ UNCHANGED Promise!callTableVars
    BY <2>1, <2>4, CallCbStep DEF HandleResponse, Promise!Next, Promise!Reply
  <2>5. ASSUME NEW r \in requests, DispatchCancel(r)
        PROVE  Promise!Next \/ UNCHANGED Promise!callTableVars
    BY <2>1, <2>5, CallCbStep DEF DispatchCancel, Promise!Next, Promise!Cancel
  <2>6. CASE resetting = {} /\ DispatchReset
    BY <2>6, ResetStep DEF Promise!Next
  <2>7. CASE ResetNext
    <3>1. PICK e \in resetting :
            /\ resetting' = resetting \ {e} /\ Fire(e[2], "eof", e[2])
            /\ UNCHANGED <<seqid, invocations, requests>>
      BY <2>7 DEF ResetNext
    <3>2. e \in Outstanding
      BY DEF Outstanding
    <3>3. e[2] \in Calls /\ statusOf(e[2]) = "doomed"
      BY <3>2, StatusOfEntry
    <3>4. Promise!Finish(e[2], "eof")
      BY <3>1, <3>2, FinishStatus
    <3> QED
      BY <3>3, <3>4 DEF Promise!Next, Promise!Eof
  <2> QED
    BY <2>1, <2>2, <2>3, <2>4, <2>5, <2>6, <2>7 DEF DispatchNext
<1> QED
  BY <1>1, <1>2, InvAlways, PTL DEF DispatchSpec, KeepsPromise, Promise!Spec
=============================================================================
