----------------------------- MODULE MCTransport -----------------------------
(* Transport on a small set of calls. *)
EXTENDS Transport, TLC

CONSTANTS c1, c2, c3

Calls1 == {c1}
Calls2 == {c1, c2}
Calls3 == {c1, c2, c3}
NoCalls == {}
HookCall == {c3}
HookCall2 == {c2}
Symmetry2 == Permutations({c1, c2})
Symmetry3 == Permutations({c1, c2, c3})
=============================================================================
