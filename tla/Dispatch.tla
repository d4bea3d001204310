------------------------------- MODULE Dispatch -------------------------------
(***************************************************************************)
(* The caller's side of dispatch.js: sequence numbers, the table of         *)
(* outstanding invocations, the three ways a callback fires (a RESPONSE, a  *)
(* local cancel, the EOF sweep of _dispatch_reset) and their races.         *)
(*                                                                          *)
(* The process is single threaded: an action is what runs between two       *)
(* returns to user code.  _dispatch_reset calls user code once per entry,   *)
(* in the middle of its loop, so the loop is one action per iteration and   *)
(* `resetting' is its local variable `inv': while it is not empty no event  *)
(* is handled, but the user code that is running may issue, cancel or       *)
(* notify.                                                                  *)
(***************************************************************************)
EXTENDS Integers, Sequences, FiniteSets

CONSTANT Calls                \* the calls users make, each one identified

VARIABLES
  seqid,        \* @_seqid, the next sequence number
  invocations,  \* @_invocations: pairs <<sequence number, call>>
  resetting,    \* the entries _dispatch_reset has still to fail
  requests,     \* messages handed to send so far: <<type, seqid, call>>
  outcome       \* what the callback of each call has been given, in order

dispatchVars == <<seqid, invocations, resetting, requests, outcome>>

Entry   == (Nat \ {0}) \X Calls
Outcome == [how : {"reply", "cancelled", "eof"}, of : Calls]

(* @_invocations[s] = cb: an entry with the same key is overwritten. *)
Register(s, c) == {e \in invocations : e[1] # s} \cup {<<s, c>>}

(* _next_seqid, and a mutant of it that hands the same number out twice. *)
SeqidStuck == IF seqid = 2 THEN 2 ELSE seqid + 1
NextSeqid  == seqid + 1

(* The callback of c is called with [how, of]. *)
Fire(c, how, of) ==
  outcome' = [outcome EXCEPT ![c] = Append(@, [how |-> how, of |-> of])]

(* c has never been handed to invoke. *)
Unsent(c) == \A r \in requests : r[3] # c

-----------------------------------------------------------------------------
DispatchInit ==
  /\ seqid = 1
  /\ invocations = {}
  /\ resetting = {}
  /\ requests = {}
  /\ outcome = [c \in Calls |-> <<>>]

(* invoke with a callback: a number, the message, then the table entry. *)
DispatchInvoke(c) ==
  /\ seqid' = NextSeqid
  /\ requests' = requests \cup {<<"invoke", seqid, c>>}
  /\ invocations' = Register(seqid, c)
  /\ UNCHANGED <<resetting, outcome>>

(* invoke with notify set and no callback: same number, same message, no   *)
(* table entry, and the peer never answers it.                             *)
DispatchNotify(c) ==
  /\ seqid' = NextSeqid
  /\ requests' = requests \cup {<<"notify", seqid, c>>}
  /\ UNCHANGED <<invocations, resetting, outcome>>

(* _call_cb: look the number up, forget it, call back; a number that is not *)
(* in the table is ignored.  The mutant calls back and keeps the entry.     *)
CallCbKeepsEntry(s, how, of) ==
  /\ \/ \E e \in invocations : e[1] = s /\ Fire(e[2], how, of)
     \/ (\A e \in invocations : e[1] # s) /\ UNCHANGED outcome
  /\ UNCHANGED <<seqid, invocations, resetting, requests>>

CallCb(s, how, of) ==
  /\ \/ \E e \in invocations :
          /\ e[1] = s
          /\ invocations' = invocations \ {e}
          /\ Fire(e[2], how, of)
     \/ /\ \A e \in invocations : e[1] # s
        /\ UNCHANGED <<invocations, outcome>>
  /\ UNCHANGED <<seqid, resetting, requests>>

(* A RESPONSE arrives.  The peer answers what it was sent, and it may do so *)
(* late, twice or never: nothing stops a handler from responding again.     *)
HandleResponse(r) ==
  /\ resetting = {}
  /\ r[1] = "invoke"
  /\ CallCb(r[2], "reply", r[3])

(* cancel: the caller gives up the call that was sent as number s. *)
DispatchCancel(r) ==
  /\ r[1] = "invoke"
  /\ CallCb(r[2], "cancelled", r[3])

(* _dispatch_reset up to its loop: the table is swapped for an empty one.   *)
(* The mutant keeps the table while it goes through its entries.            *)
DispatchResetNoSwap ==
  /\ resetting' = invocations
  /\ UNCHANGED <<seqid, invocations, requests, outcome>>

DispatchReset ==
  /\ resetting' = invocations
  /\ invocations' = {}
  /\ UNCHANGED <<seqid, requests, outcome>>

(* One iteration: integer keys of an object are visited in ascending order. *)
(* The mutant stops after the first callback.                               *)
ResetNextStops ==
  \E e \in resetting :
    /\ resetting' = {}
    /\ Fire(e[2], "eof", e[2])
    /\ UNCHANGED <<seqid, invocations, requests>>

ResetNext ==
  \E e \in resetting :
    /\ \A d \in resetting : e[1] <= d[1]
    /\ resetting' = resetting \ {e}
    /\ Fire(e[2], "eof", e[2])
    /\ UNCHANGED <<seqid, invocations, requests>>

(* Users hand a call to invoke once; one sweep is over before the next.     *)
DispatchNext ==
  \/ \E c \in Calls : Unsent(c) /\ (DispatchInvoke(c) \/ DispatchNotify(c))
  \/ \E r \in requests : HandleResponse(r) \/ DispatchCancel(r)
  \/ resetting = {} /\ DispatchReset
  \/ ResetNext

DispatchSpec == DispatchInit /\ [][DispatchNext]_dispatchVars

(* The loop of _dispatch_reset runs to its end: it has no await in it. *)
FairDispatchSpec == DispatchSpec /\ WF_dispatchVars(ResetNext)

-----------------------------------------------------------------------------
(* The calls of a set of table entries. *)
CallsOf(entries) == {e[2] : e \in entries}

(* One call per number. *)
IsMap(entries) == \A d, e \in entries : d[1] = e[1] => d = e

(* Types of the variables.  No number is in use twice: the table and what   *)
(* the sweep has still to fail are maps, also when they are taken together. *)
DispatchTypeOK ==
  /\ seqid \in Nat \ {0}
  /\ invocations \subseteq Entry
  /\ resetting \subseteq Entry
  /\ IsMap(invocations \cup resetting)
  /\ requests \subseteq {"invoke", "notify"} \X (Nat \ {0}) \X Calls
  /\ outcome \in [Calls -> Seq(Outcome)]

(* A callback fires at most once, whatever the order of responses (late and *)
(* duplicate ones included), cancellations and EOF sweeps.                  *)
AtMostOnce == \A c \in Calls : Len(outcome[c]) <= 1

(* A callback is given the outcome of its own call, never another's: the    *)
(* table never matches a response to a call that did not ask for it.        *)
OwnReply ==
  \A c \in Calls : \A i \in 1..Len(outcome[c]) : outcome[c][i].of = c

(* No call is forgotten: one that was sent with a callback is in the table, *)
(* or in the EOF sweep, or has had its callback, and only one of the three. *)
Accounted(c) ==
  /\ c \in CallsOf(invocations) => c \notin CallsOf(resetting)
  /\ c \in CallsOf(invocations) \cup CallsOf(resetting) <=> outcome[c] = <<>>

NoCallForgotten ==
  \A r \in requests : r[1] = "invoke" => Accounted(r[3])

(* The sweep of _dispatch_reset reaches every call it took from the table,  *)
(* even though the callbacks it runs issue and cancel calls.                *)
SweepCompletes ==
  \A c \in Calls : c \in CallsOf(resetting) ~> outcome[c] # <<>>

(* Dispatch keeps the promise of CallTable. *)
statusOf(c) ==
  IF outcome[c] # <<>> THEN "done"
  ELSE IF c \in CallsOf(invocations) THEN "pending"
  ELSE IF c \in CallsOf(resetting) THEN "doomed" ELSE "idle"

Promise == INSTANCE CallTable WITH status <- [c \in Calls |-> statusOf(c)]

(* Every behaviour of the table is one of CallTable: each callback fires    *)
(* once, with its own reply, and a lost stream dooms what was outstanding.  *)
KeepsPromise == Promise!Spec
=============================================================================
