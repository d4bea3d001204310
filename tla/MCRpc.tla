-------------------------------- MODULE MCRpc ---------------------------------
(* Rpc with two programs that share a method's name, and a call of each     *)
(* kind.                                                                    *)
EXTENDS Rpc, TLC

CONSTANTS c1, c2, c3, s1, s2

(* Two handler classes; setup is a method of the second that is no hook.    *)
MCPrograms ==
  (<<"prog", "1">> :> collect_hooks({<<"h_", <<"add">>>>})) @@
  (<<"prog", "2">> :> collect_hooks({<<"h_", <<"add">>>>, <<"", <<"setup">>>>}))

(* Deflated, to no hook, and a notification; and back by the server. *)
MixedCalls == {c1, c2, c3, s1}
MixedRequests ==
  (c1 :> client_invoke_compressed("client", <<"prog", "1">>, "gzip", <<"add">>)) @@
  (c2 :> client_invoke_compressed("client", <<"prog", "2">>, "none", <<"setup">>)) @@
  (c3 :> transport_notify("client", <<"prog", "1">>, <<"add">>)) @@
  (s1 :> client_invoke("server", <<"prog", "2">>, <<"add">>))

ServerCalls == {s1, s2}
ServerRequests ==
  [c \in ServerCalls |-> client_invoke("server", <<"prog", "1">>, <<"add">>)]
=============================================================================
