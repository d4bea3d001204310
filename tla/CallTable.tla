------------------------------ MODULE CallTable ------------------------------
(***************************************************************************)
(* What a caller of Dispatch.invoke is promised, with no sequence numbers,  *)
(* no table and no loop: the callback of a call fires at most once, with    *)
(* the reply to that very call, or with "cancelled", or with "eof"; and     *)
(* once the stream is lost every call that was outstanding at that moment   *)
(* can only end with "eof": neither a late reply nor a cancellation gets to  *)
(* its callback any more.  Dispatch is shown to implement this module.      *)
(***************************************************************************)
EXTENDS Sequences

CONSTANT Calls          \* the calls users make, each one identified

VARIABLES status,       \* where each call stands
          outcome       \* what its callback has been given, in order

callTableVars == <<status, outcome>>

Statuses == {"idle", "pending", "doomed", "done"}

Finish(c, how) ==
  /\ status' = [status EXCEPT ![c] = "done"]
  /\ outcome' = [outcome EXCEPT ![c] = <<[how |-> how, of |-> c]>>]

Init ==
  /\ status = [c \in Calls |-> "idle"]
  /\ outcome = [c \in Calls |-> <<>>]

(* The caller issues c and waits. *)
Begin(c) ==
  /\ status[c] = "idle"
  /\ status' = [status EXCEPT ![c] = "pending"]
  /\ UNCHANGED outcome

(* The reply to c arrives, or the caller gives c up. *)
Reply(c)  == status[c] = "pending" /\ Finish(c, "reply")
Cancel(c) == status[c] = "pending" /\ Finish(c, "cancelled")

(* The stream is lost: what is outstanding now is doomed. *)
Disconnect ==
  /\ \A c \in Calls : status[c] # "doomed"
  /\ status' = [c \in Calls |->
                  IF status[c] = "pending" THEN "doomed" ELSE status[c]]
  /\ UNCHANGED outcome

Eof(c) == status[c] = "doomed" /\ Finish(c, "eof")

Next ==
  \/ Disconnect
  \/ \E c \in Calls : Begin(c) \/ Reply(c) \/ Cancel(c) \/ Eof(c)

Spec == Init /\ [][Next]_callTableVars
=============================================================================
