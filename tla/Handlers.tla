------------------------------- MODULE Handlers -------------------------------
(***************************************************************************)
(* Which hook serves a method: the names and the table of dispatch.js, and  *)
(* what server.js puts into it.  A name is the sequence of the parts        *)
(* between its dots, so joining two names with a dot is concatenation, and  *)
(* a missing program is the empty name.  A hook is <<its program, the name  *)
(* under which the program lists it>>.  A set of programs is a function     *)
(* from program names to the names of their methods.                        *)
(***************************************************************************)
EXTENDS Integers, Sequences

make_method(prog, meth) == prog \o meth

(* collect_hooks: the properties of a handler class whose name starts with  *)
(* h_ are its methods; the others are not callable from outside.            *)
collect_hooks(properties) ==
  {p[2] : p \in {q \in properties : q[1] = "h_"}}

(* The hooks of all programs, and the name each is registered under. *)
Hooks(programs) ==
  UNION {{<<p, m>> : m \in programs[p]} : p \in DOMAIN programs}

NameOf(hook) == make_method(hook[1], hook[2])

(* @_handlers after add_programs: of two hooks with one name the last one   *)
(* that was added stays, and the order of the properties of an object is    *)
(* the caller's.                                                            *)
add_programs(programs) ==
  [m \in {NameOf(h) : h \in Hooks(programs)} |->
     CHOOSE h \in Hooks(programs) : NameOf(h) = m]

(* The `this' of a hook in a ContextualServer: the object of the program,   *)
(* found by cutting the last part off the method's name.  The mutant cuts   *)
(* at the first dot.                                                        *)
handler_program_first(m) == SubSeq(m, 1, 1)

handler_program(m) == SubSeq(m, 1, Len(m) - 1)
=============================================================================
