------------------------------ MODULE MCListener ------------------------------
(* A listener with four connections: the first, one in the middle and the  *)
(* last can go in any order.                                                *)
EXTENDS Listener
=============================================================================
