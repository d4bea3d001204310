------------------------------- MODULE Listener -------------------------------
(***************************************************************************)
(* A Listener (listener.js): one port, the net.Server that holds it, the    *)
(* calls listen, listen_retry and close, which share @_net_server, and the  *)
(* list of the transports of its connections.                               *)
(*                                                                          *)
(* The net.Server is external.  listen binds it and queues 'listening' or   *)
(* 'error'; a server that is closed gives its port back at once, emits no   *)
(* 'listening' that is still queued, and calls back when its connections    *)
(* are gone; an error of accept leaves it bound.                            *)
(***************************************************************************)
EXTENDS List, FiniteSets

CONSTANTS
  MaxServers,     \* bound: servers that exist at a time
  MaxAccept,      \* bound: connections
  MaxCloses,      \* bound: closes of one server that have not called back
  AcceptErrors,   \* an accept may fail
  ListenKinds     \* what users call: "once" is listen, "retry" listen_retry

ASSUME MaxServersAssumption == MaxServers \in Nat
ASSUME MaxAcceptAssumption == MaxAccept \in Nat
ASSUME MaxClosesAssumption == MaxCloses \in Nat
ASSUME AcceptErrorsAssumption == AcceptErrors \in BOOLEAN
ASSUME ListenKindsAssumption == ListenKinds \subseteq {"once", "retry"}

Servers  == 1..MaxServers
Children == 1..MaxAccept

VARIABLES
  server,     \* @_net_server, 0 for null
  bound,      \* servers that hold the port
  event,      \* what is queued for each server
  call,       \* the listen that has not called back: "none", "once", "retry",
              \* or "lost" when nothing is left that could call it back
  sleeping,   \* the setTimeout of listen_retry
  closers,    \* the closes of each server that have not called back
  emitting,   \* the server whose 'close' is being emitted, or 0
  closed,     \* history: close has called back, and no listen since; a close
              \* that calls back when a server is hasty promises nothing
  hasty,      \* history: servers made while a close had not called back
  dropped,    \* history: servers that handle_error has taken out of @_net_server
  busy,       \* another program holds the port
  accepted,   \* the number of connections so far
  live,       \* children whose socket has not emitted 'close'
  via,        \* the server that accepted each live child, 0 for the others
  children    \* @_children

closeVars    == <<closers, emitting>>
serverVars   == <<server, bound, event, call, sleeping, closed, hasty, dropped, closeVars>>
childVars    == <<accepted, live, via, children>>
listenerVars == <<serverVars, busy, childVars>>

ListenerInit ==
  /\ server = 0 /\ bound = {} /\ event = [s \in Servers |-> "none"]
  /\ call = "none" /\ sleeping = FALSE /\ closed = FALSE
  /\ closers = [s \in Servers |-> 0] /\ emitting = 0
  /\ hasty = {} /\ dropped = {} /\ busy = FALSE
  /\ accepted = 0 /\ live = {} /\ via = [c \in Children |-> 0]
  /\ children = EmptyList(Children)

-----------------------------------------------------------------------------
(* Listening. *)

ConnectionsOf(s) == {c \in live : via[c] = s}

Unused(s) == s \notin {server, emitting} \cup bound /\ closers[s] = 0
             /\ event[s] = "none" /\ ConnectionsOf(s) = {}

Closing == {s \in Servers : closers[s] > 0}

(* What comes of binding: the port has one holder. *)
BindEvents ==
  IF busy \/ bound # {} THEN {"EADDRINUSE"} ELSE {"listening", "EACCES"}

(* listen: a new server takes the place of @_net_server. *)
listen(s) ==
  /\ Unused(s)
  /\ server' = s
  /\ \E e \in BindEvents :
       /\ event' = [event EXCEPT ![s] = e]
       /\ bound' = IF e = "listening" THEN bound \cup {s} ELSE bound
  /\ hasty' = IF Closing = {} THEN hasty \ {s} ELSE hasty \cup {s}

(* A user calls listen or listen_retry: not while another such call is      *)
(* under way, nor before close has been called for the last server.         *)
Idle == call \in {"none", "lost"} /\ server \in Closing \cup {0}

Listen(kind, s) ==
  /\ Idle /\ listen(s)
  /\ call' = kind /\ closed' = FALSE
  /\ UNCHANGED <<sleeping, dropped, closeVars, busy, childVars>>

(* 'listening': hooks are set, and listen calls back.  If a close has taken *)
(* the server out of @_net_server, setting the hooks throws instead.        *)
Listening(s) ==
  /\ emitting = 0 /\ event[s] = "listening"
  /\ event' = [event EXCEPT ![s] = "none"]
  /\ call' = IF server = 0 THEN "lost" ELSE "none"
  /\ UNCHANGED <<server, bound, sleeping, closed, hasty, dropped, closeVars, busy,
                 childVars>>

(* 'error' while listening: listen calls back with it.  listen_retry sleeps *)
(* if the port was taken; the mutant forgets to.                            *)
ListenFailsNoTimer(s) ==
  /\ emitting = 0 /\ event[s] \in {"EADDRINUSE", "EACCES"}
  /\ event' = [event EXCEPT ![s] = "none"]
  /\ server' = 0
  /\ call' = IF call = "retry" /\ event[s] = "EADDRINUSE" THEN call ELSE "none"
  /\ UNCHANGED <<bound, sleeping, closed, hasty, dropped, closeVars, busy, childVars>>

ListenFails(s) ==
  /\ emitting = 0 /\ event[s] \in {"EADDRINUSE", "EACCES"}
  /\ event' = [event EXCEPT ![s] = "none"]
  /\ server' = 0
  /\ IF call = "retry" /\ event[s] = "EADDRINUSE"
       THEN sleeping' = TRUE /\ UNCHANGED call
       ELSE call' = "none" /\ UNCHANGED sleeping
  /\ UNCHANGED <<bound, closed, hasty, dropped, closeVars, busy, childVars>>

(* The delay of listen_retry is over.  A close that can call back does so   *)
(* before any timer fires.                                                  *)
Retry(s) ==
  /\ emitting = 0 /\ sleeping /\ \A t \in Closing : ConnectionsOf(t) # {}
  /\ listen(s)
  /\ sleeping' = FALSE
  /\ UNCHANGED <<call, closed, dropped, closeVars, busy, childVars>>

-----------------------------------------------------------------------------
(* close: calls back at once without a server; with one, its port is given  *)
(* back, and a listen that waits for 'listening' will never be called back. *)
(* The mutant drops the server without closing it.                          *)
CloseDrops ==
  /\ server # 0
  /\ server' = 0 /\ closed' = TRUE
  /\ UNCHANGED <<bound, event, call, sleeping, hasty, dropped, closeVars, busy,
                 childVars>>

Close ==
  /\ IF server = 0
       THEN closed' = TRUE /\ UNCHANGED <<bound, event, call, closers>>
       ELSE /\ closers[server] < MaxCloses
            /\ closers' = [closers EXCEPT ![server] = @ + 1]
            /\ bound' = bound \ {server}
            /\ IF event[server] = "listening"
                 THEN event' = [event EXCEPT ![server] = "none"] /\ call' = "lost"
                 ELSE UNCHANGED <<event, call>>
            /\ UNCHANGED closed
  /\ UNCHANGED <<server, sleeping, emitting, hasty, dropped, busy, childVars>>

(* The server's last connection is gone: its 'close' calls the closes back, *)
(* one after the other, before any other event is handled.  Each nulls      *)
(* @_net_server, whatever server that is by now.                            *)
CloseDone(s) ==
  /\ closers[s] > 0 /\ ConnectionsOf(s) = {} /\ event[s] = "none"
  /\ emitting \in {0, s}
  /\ server' = 0
  /\ closers' = [closers EXCEPT ![s] = @ - 1]
  /\ emitting' = IF closers[s] > 1 THEN s ELSE 0
  /\ closed' = (closed \/ hasty = {})
  /\ UNCHANGED <<bound, event, call, sleeping, hasty, dropped, busy, childVars>>

(* handle_error: an accept of a server that listens has failed. *)
ServerError(s) ==
  /\ AcceptErrors /\ emitting = 0 /\ s \in bound /\ event[s] = "none"
  /\ server' = 0 /\ dropped' = dropped \cup {s}
  /\ UNCHANGED <<bound, event, call, sleeping, closed, hasty, closeVars, busy, childVars>>

-----------------------------------------------------------------------------
(* Connections. *)

(* _got_new_connection and make_new_transport. *)
Accept(s) ==
  /\ emitting = 0 /\ s \in bound /\ event[s] = "none"
  /\ accepted < MaxAccept
  /\ accepted' = accepted + 1
  /\ live' = live \cup {accepted + 1}
  /\ via' = [via EXCEPT ![accepted + 1] = s]
  /\ children' = push(children, accepted + 1)
  /\ UNCHANGED <<serverVars, busy>>

(* 'close' of the socket of a child: _handle_close, close_child. *)
ChildCloses(c) ==
  /\ emitting = 0 /\ c \in live
  /\ live' = live \ {c}
  /\ via' = [via EXCEPT ![c] = 0]
  /\ children' = remove(children, c)
  /\ UNCHANGED <<serverVars, busy, accepted>>

(* Another program takes the port, or gives it back. *)
OtherProgram ==
  /\ bound = {}
  /\ busy' = ~busy
  /\ UNCHANGED <<serverVars, childVars>>

-----------------------------------------------------------------------------
ListenerNext ==
  \/ \E s \in Servers :
       \/ \E kind \in ListenKinds : Listen(kind, s)
       \/ Listening(s) \/ ListenFails(s) \/ Retry(s) \/ CloseDone(s)
       \/ ServerError(s) \/ Accept(s)
  \/ Close
  \/ \E c \in Children : ChildCloses(c)
  \/ OtherProgram

ListenerSpec == ListenerInit /\ [][ListenerNext]_listenerVars

(* Queued events are delivered and timers fire. *)
FairListenerSpec ==
  ListenerSpec
  /\ WF_listenerVars(\E s \in Servers : CloseDone(s))
  /\ WF_listenerVars(\E s \in Servers : Listening(s) \/ ListenFails(s) \/ Retry(s))

-----------------------------------------------------------------------------
(* Types; the fields of a child that is in no list are null. *)
ListenerTypeOK ==
  /\ server \in Servers \cup {0} /\ emitting \in Servers \cup {0}
  /\ bound \subseteq Servers /\ hasty \subseteq Servers /\ dropped \subseteq Servers
  /\ closers \in [Servers -> 0..MaxCloses]
  /\ event \in [Servers -> {"none", "listening", "EADDRINUSE", "EACCES"}]
  /\ call \in {"none", "once", "retry", "lost"}
  /\ sleeping \in BOOLEAN /\ closed \in BOOLEAN /\ busy \in BOOLEAN
  /\ accepted \in 0..MaxAccept /\ live \subseteq 1..accepted
  /\ via \in [Children -> Servers \cup {0}]
  /\ children \in [head : 0..MaxAccept, tail : 0..MaxAccept,
                   next : [Children -> 0..MaxAccept],
                   prev : [Children -> 0..MaxAccept]]
  /\ \A c \in Children \ live : children.next[c] = 0 /\ children.prev[c] = 0

(* b is the first child that is live after a, or 0; and before a. *)
IsNext(a, b) ==
  /\ b = 0 \/ (b \in live /\ a < b)
  /\ \A c \in live : a < c => b # 0 /\ b <= c

IsPrev(a, b) ==
  /\ b = 0 \/ (b \in live /\ b < a)
  /\ \A c \in live : c < a => b # 0 /\ c <= b

(* The list links exactly the connections whose sockets have not emitted    *)
(* 'close', in the order in which they were accepted, whatever the order in *)
(* which they went.                                                         *)
ListLinksLive ==
  /\ IsNext(0, children.head) /\ IsPrev(MaxAccept + 1, children.tail)
  /\ \A c \in live : IsNext(c, children.next[c]) /\ IsPrev(c, children.prev[c])

(* walk_children comes to each of these once, the oldest first. *)
WalkVisitsLive ==
  LET p == walk(children, MaxAccept) IN
  /\ {p[k] : k \in 0..MaxAccept} \ {0} = live
  /\ \A j, k \in 0..MaxAccept : j < k /\ p[k] # 0 => p[j] < p[k]

(* A server that holds the port is the one that close would close, and the  *)
(* one on which _set_hooks sets its hooks, unless it was made while a close *)
(* had not called back, or an accept has failed: no other late answer of    *)
(* listen, listen_retry or close takes another call's server out of         *)
(* @_net_server.                                                            *)
Known(s) == s \notin hasty \cup dropped

OwnedServer == \A s \in bound : Known(s) => server = s

(* A listen_retry is called back, if the port is free from some time on and *)
(* no server of our own holds it that is not known any more.  Only a close  *)
(* between the binding of its server and 'listening' cuts it off, and then  *)
(* for good: the code never calls it back (README.md:518-520 says it does). *)
RetryEnds ==
  call = "retry" ~> \/ call = "none"
                    \/ call = "lost" /\ Closing # {}
                    \/ busy
                    \/ \E s \in bound : ~Known(s)

-----------------------------------------------------------------------------
(* What the repository says and the code does not do. *)

(* README.md:524: "Close a server, and give back its port to the OS."  Once *)
(* a close has called back no server of ours holds the port, until somebody *)
(* listens again.  But a listen_retry that sleeps goes on after the close,  *)
(* and takes the port; and a close closes nothing if a server of ours is    *)
(* not known any more.                                                      *)
CloseGivesPortBack == closed => bound = {}
=============================================================================
