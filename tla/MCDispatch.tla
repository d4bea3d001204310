----------------------------- MODULE MCDispatch -----------------------------
(* Dispatch on a small set of calls.  No symmetry: a run checks liveness.   *)
EXTENDS Dispatch

CONSTANTS c1, c2, c3, c4

MCCalls == {c1, c2, c3, c4}
=============================================================================
