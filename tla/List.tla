--------------------------------- MODULE List ----------------------------------
(***************************************************************************)
(* The intrusive doubly linked list of list.js.  Its elements are positive  *)
(* numbers and 0 is null; next and prev are the fields __list_next and      *)
(* __list_prev that the list keeps in its elements.                         *)
(***************************************************************************)
EXTENDS Integers

EmptyList(Elements) ==
  [head |-> 0, tail |-> 0,
   next |-> [o \in Elements |-> 0], prev |-> [o \in Elements |-> 0]]

(* push, and in the mutant without the link from the old tail. *)
push_unlinked(l, o) ==
  [head |-> IF l.head = 0 THEN o ELSE l.head,
   tail |-> o,
   next |-> [l.next EXCEPT ![o] = 0],
   prev |-> [l.prev EXCEPT ![o] = l.tail]]

push(l, o) ==
  [head |-> IF l.head = 0 THEN o ELSE l.head,
   tail |-> o,
   next |-> [x \in DOMAIN l.next |-> IF x = o THEN 0
                                     ELSE IF x = l.tail THEN o ELSE l.next[x]],
   prev |-> [l.prev EXCEPT ![o] = l.tail]]

(* remove, in the mutants with the tail or the fields of w left as they are. *)
remove_not_tail(l, w) ==
  [head |-> IF l.prev[w] = 0 THEN l.next[w] ELSE l.head,
   tail |-> l.tail,
   next |-> [x \in DOMAIN l.next |-> IF x = w THEN 0
               ELSE IF x = l.prev[w] THEN l.next[w] ELSE l.next[x]],
   prev |-> [x \in DOMAIN l.prev |-> IF x = w THEN 0
               ELSE IF x = l.next[w] THEN l.prev[w] ELSE l.prev[x]]]

remove_no_reset(l, w) ==
  [head |-> IF l.prev[w] = 0 THEN l.next[w] ELSE l.head,
   tail |-> IF l.next[w] = 0 THEN l.prev[w] ELSE l.tail,
   next |-> [x \in DOMAIN l.next |-> IF x = l.prev[w] THEN l.next[w] ELSE l.next[x]],
   prev |-> [x \in DOMAIN l.prev |-> IF x = l.next[w] THEN l.prev[w] ELSE l.prev[x]]]

remove(l, w) ==
  [head |-> IF l.prev[w] = 0 THEN l.next[w] ELSE l.head,
   tail |-> IF l.next[w] = 0 THEN l.prev[w] ELSE l.tail,
   next |-> [x \in DOMAIN l.next |-> IF x = w THEN 0
               ELSE IF x = l.prev[w] THEN l.next[w] ELSE l.next[x]],
   prev |-> [x \in DOMAIN l.prev |-> IF x = w THEN 0
               ELSE IF x = l.next[w] THEN l.prev[w] ELSE l.prev[x]]]

(* walk: the element at each of the first n steps, and 0 after the end. *)
walk(l, n) ==
  LET p[k \in 0..n] == IF k = 0 THEN l.head
                       ELSE IF p[k - 1] = 0 THEN 0 ELSE l.next[p[k - 1]]
  IN  p
=============================================================================
