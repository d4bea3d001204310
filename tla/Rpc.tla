--------------------------------- MODULE Rpc ----------------------------------
(***************************************************************************)
(* Calls in both directions between two programs: the client's transport,   *)
(* one object that outlives its streams (a RobustTransport), and on the     *)
(* other side a Server, which makes a new Transport for every connection.   *)
(* Modelled are both halves of dispatch.js (invoke, _dispatch, _serve,      *)
(* Response), the compression of arguments and results, the handlers of a   *)
(* ContextualServer and the timers of _timed_invoke, over streams that are  *)
(* lost and replaced at any moment.                                         *)
(*                                                                          *)
(* End 0 is the client's transport; end g > 0 is the server's transport for *)
(* the g-th stream.  Each end has its own sequence numbers and table.       *)
(* Framing, the lock, the queue and user code inside an EOF sweep are the   *)
(* subject of FrameLink and Transport; here a message is whole and a sweep  *)
(* is one step.  A stream that one end has closed is half open: it delivers *)
(* what is still under way, in both directions, until it is dead.           *)
(***************************************************************************)
EXTENDS Handlers

CONSTANTS
  Calls,        \* the calls users make, each one identified
  Request,      \* what each call asks for, see RequestAssumption
  Programs,     \* the programs both sides serve
  Timed,        \* the client has an error_threshold
  MaxGen        \* bound: the number of streams

Names  == Seq(STRING)
CTypes == {"absent", "none", "gzip"}

(* What a Client asks of its transport.  Its notify throws (it calls a      *)
(* method it does not have): notifications are asked of the transport.      *)
client_invoke_compressed(from, program, ctype, method) ==
  [from |-> from, program |-> program, ctype |-> ctype, method |-> method,
   notify |-> FALSE]

client_invoke(from, program, method) ==
  client_invoke_compressed(from, program, "absent", method)

transport_notify(from, program, method) ==
  [client_invoke(from, program, method) EXCEPT !.notify = TRUE]

ASSUME RequestAssumption ==
  Request \in [Calls -> [from : {"client", "server"}, notify : BOOLEAN,
                         ctype : CTypes, program : Names, method : Names]]
ASSUME MethodAssumption == \A c \in Calls : Len(Request[c].method) = 1
ASSUME ProgramsAssumption ==
  /\ DOMAIN Programs \subseteq Names
  /\ \A p \in DOMAIN Programs : \A m \in Programs[p] : m \in Names /\ Len(m) = 1
ASSUME HasProgramAssumption ==
  \A p \in DOMAIN Programs : p # <<>>
ASSUME TimedAssumption == Timed \in BOOLEAN
ASSUME MaxGenAssumption == MaxGen \in Nat

VARIABLES
  gen,          \* the number of streams so far; the last is the client's
  up,           \* ends whose StreamWrapper is open
  live,         \* streams that still deliver
  wire,         \* messages under way
  seqid,        \* @_seqid of each end
  invocations,  \* @_invocations of each end: <<sequence number, call>>
  requests,     \* history: <<sequence number, call>> that each end has sent
  serving,      \* hooks that have been called and have not answered yet
  outcome,      \* what the callback of each call has been given, in order
  timer         \* the setTimeout of _timed_invoke, per call

streamVars == <<gen, up, live>>
callVars   == <<seqid, invocations, requests, outcome, timer>>
rpcVars    == <<streamVars, wire, callVars, serving>>

Ends == 0..MaxGen

-----------------------------------------------------------------------------
(* Data is the argument or the result of a call, plain or deflated. *)
Plain(c) == [of |-> c, form |-> "plain"]

compress(ctype, data) ==
  IF ctype = "gzip" THEN [data EXCEPT !.form = "gzip"] ELSE data

(* inflate throws on what is not deflated: no caller goes on with it. *)
uncompress(ctype, data) ==
  IF ctype # "gzip" THEN data
  ELSE [data EXCEPT !.form = IF @ = "gzip" THEN "plain" ELSE "garbage"]

(* The stream an end writes to, and who reads there. *)
StreamOf(e) == IF e = 0 THEN gen ELSE e
PeerOf(e)   == IF e = 0 THEN gen ELSE 0

(* send: what becomes of a message that end e writes.  With its wrapper     *)
(* closed, or the stream dead, it goes nowhere.                             *)
Written(e, msg) ==
  IF e \in up /\ StreamOf(e) \in live
    THEN {[stream |-> StreamOf(e), to |-> PeerOf(e), msg |-> msg]}
    ELSE {}

(* Numbers start here, and one too low in the mutant. *)
FirstSeqidZero == 0
FirstSeqid == 1

-----------------------------------------------------------------------------
RpcInit ==
  /\ gen = 0 /\ up = {} /\ live = {} /\ wire = {}
  /\ seqid = [e \in Ends |-> FirstSeqid]
  /\ invocations = [e \in Ends |-> {}]
  /\ requests = [e \in Ends |-> {}]
  /\ serving = {}
  /\ outcome = [c \in Calls |-> <<>>]
  /\ timer = [c \in Calls |-> "off"]

-----------------------------------------------------------------------------
(* The caller. *)

TypeOf(q) ==
  IF q.notify THEN "NOTIFY"
  ELSE IF q.ctype # "absent" THEN "INVOKE_COMPRESSED" ELSE "INVOKE"

(* The message of Dispatch.invoke: every type carries the number, and the   *)
(* compression only when there is one.                                      *)
RequestMsg(n, c) ==
  LET q == Request[c] IN
  [type |-> TypeOf(q), seqid |-> n, ctype |-> q.ctype,
   method |-> make_method(q.program, q.method),
   data |-> compress(q.ctype, Plain(c))]

Unsent(c) == \A e \in Ends : \A r \in requests[e] : r[2] # c

(* _timed_invoke hands Dispatch.invoke a callback even for a notification.  *)
IsTimed(e) == Timed /\ e = 0
Registers(e, c) == ~Request[c].notify \/ IsTimed(e)

(* invoke and invoke_compressed of Client, or invoke of a transport, on an  *)
(* end that is connected: the timer, the number, the message, the entry.    *)
Invoke(e, c) ==
  /\ e \in up /\ Unsent(c)
  /\ Request[c].from = IF e = 0 THEN "client" ELSE "server"
  /\ seqid' = [seqid EXCEPT ![e] = @ + 1]
  /\ requests' = [requests EXCEPT ![e] = @ \cup {<<seqid[e], c>>}]
  /\ wire' = wire \cup Written(e, RequestMsg(seqid[e], c))
  /\ invocations' = IF Registers(e, c)
       THEN [invocations EXCEPT ![e] = @ \cup {<<seqid[e], c>>}] ELSE invocations
  /\ timer' = IF IsTimed(e) THEN [timer EXCEPT ![c] = "set"] ELSE timer
  /\ UNCHANGED <<streamVars, outcome, serving>>

(* The error threshold passes: it is logged, and the call goes on. *)
TimerFires(c) ==
  /\ timer[c] = "set"
  /\ timer' = [timer EXCEPT ![c] = "fired"]
  /\ UNCHANGED <<streamVars, wire, seqid, invocations, requests, outcome, serving>>

(* The answer clears the timer, if it is still running: the mutant does not. *)
ClearedNot(c) == timer[c]
Cleared(c) == "off"

(* What the callback of c gets: of whom, in which form, or which error. *)
Outcome(how, data) == [how |-> how, data |-> data]

(* Callbacks run; `given' says whose, and with what. *)
CallBack(given) ==
  /\ outcome' = [c \in Calls |-> IF c \in DOMAIN given
                   THEN Append(outcome[c], given[c]) ELSE outcome[c]]
  /\ timer' = [c \in Calls |-> IF c \in DOMAIN given THEN Cleared(c) ELSE timer[c]]

(* _dispatch_handle_response and _call_cb: the entry goes, and the result   *)
(* is inflated unless there is an error.  An unknown number is ignored.     *)
HandleResponse(e, msg) ==
  LET found == {x \in invocations[e] : x[1] = msg.seqid} IN
  /\ invocations' = [invocations EXCEPT ![e] = @ \ found]
  /\ CallBack([c \in {x[2] : x \in found} |-> Outcome(msg.error,
                  IF msg.error = "none" THEN uncompress(Request[c].ctype, msg.data)
                                        ELSE msg.data)])
  /\ UNCHANGED <<seqid, requests>>

-----------------------------------------------------------------------------
(* The server. *)

handlers == add_programs(Programs)

(* get_handler_this: on the client's side the transport itself, of no       *)
(* program; in a ContextualServer the connection's object of the program.   *)
get_handler_this(e, method) ==
  IF e = 0 THEN <<0, <<>>>> ELSE <<e, handler_program(method)>>

(* Response.result and Response.error by way of respond. *)
ResponseMsg(n, error, data) ==
  [type |-> "RESPONSE", seqid |-> n, error |-> error, data |-> data]

(* The answer to a method that has no hook, which the mutant does not give. *)
UnknownMethodSilent(e, n, data) == {}

UnknownMethod(e, n, data) ==
  Written(e, ResponseMsg(n, "unknown method", data))

(* _serve of a request: the hook is called, and its Response remembers what *)
(* to answer; or there is no hook.                                          *)
Serve(p, param, ctype) ==
  /\ IF p.msg.method \in DOMAIN handlers
       THEN /\ serving' = serving \cup
                 {[by |-> p.to, seqid |-> p.msg.seqid, ctype |-> ctype,
                   hook |-> handlers[p.msg.method], data |-> param,
                   this |-> get_handler_this(p.to, p.msg.method)]}
            /\ wire' = wire \ {p}
       ELSE /\ wire' = (wire \ {p}) \cup UnknownMethod(p.to, p.msg.seqid, param)
            /\ UNCHANGED serving
  /\ UNCHANGED callVars

(* _serve of a notification: _dispatch reads it as [method, param], but it  *)
(* was sent as [number, (compression,) method, argument].  What it takes    *)
(* for the method is the number, a name of one part, and every hook has the *)
(* name of its program before its own: no hook is called, and there is no   *)
(* Response to say so.                                                      *)
ServeNotify(p) ==
  /\ wire' = wire \ {p}
  /\ UNCHANGED <<callVars, serving>>

(* A message arrives: _dispatch. *)
Deliver(p) ==
  /\ p.stream \in live
  /\ \/ /\ p.msg.type = "INVOKE"
        /\ Serve(p, p.msg.data, "absent")
     \/ /\ p.msg.type = "INVOKE_COMPRESSED"
        /\ Serve(p, uncompress(p.msg.ctype, p.msg.data), p.msg.ctype)
     \/ /\ p.msg.type = "NOTIFY"
        /\ ServeNotify(p)
     \/ /\ p.msg.type = "RESPONSE"
        /\ HandleResponse(p.to, p.msg)
        /\ wire' = wire \ {p}
        /\ UNCHANGED serving
  /\ UNCHANGED streamVars

(* A hook answers, with a result or an error: the Response belongs to the   *)
(* transport, and the answer goes out on the stream it has by now.          *)
Answer(r, error) ==
  /\ wire' = wire \cup Written(r.by, ResponseMsg(r.seqid, error,
       IF error = "none" THEN compress(r.ctype, r.data) ELSE r.data))
  /\ serving' = serving \ {r}
  /\ UNCHANGED <<streamVars, callVars>>

-----------------------------------------------------------------------------
(* Streams. *)

(* End e is without its stream: an error, the end of it, reset or close.    *)
(* Every call in the table ends, but not in the mutant.                     *)
LostNoSweep(e) ==
  /\ e \in up
  /\ up' = up \ {e}
  /\ UNCHANGED <<gen, live, wire, callVars, serving>>

Lost(e) ==
  /\ e \in up
  /\ up' = up \ {e}
  /\ invocations' = [invocations EXCEPT ![e] = {}]
  /\ CallBack([c \in {x[2] : x \in invocations[e]} |-> Outcome("eof", Plain(c))])
  /\ UNCHANGED <<gen, live, wire, seqid, requests, serving>>

(* A stream is dead, and what was under way on it is gone. *)
Dies(g) ==
  /\ g \in live
  /\ live' = live \ {g}
  /\ wire' = {p \in wire : p.stream # g}
  /\ UNCHANGED <<gen, up, callVars, serving>>

(* The client's transport is connected again, and the server has made a new *)
(* Transport.  The mutant of the first starts its numbers again, too.       *)
RenumberedRedial ==
  /\ 0 \notin up /\ gen < MaxGen
  /\ gen' = gen + 1
  /\ up' = up \cup {0, gen + 1} /\ live' = live \cup {gen + 1}
  /\ seqid' = [seqid EXCEPT ![0] = FirstSeqid]
  /\ UNCHANGED <<wire, invocations, requests, outcome, timer, serving>>

Redial ==
  /\ 0 \notin up /\ gen < MaxGen
  /\ gen' = gen + 1
  /\ up' = up \cup {0, gen + 1} /\ live' = live \cup {gen + 1}
  /\ UNCHANGED <<wire, callVars, serving>>

-----------------------------------------------------------------------------
Errors == {"none", "rejected"}

RpcNext ==
  \/ \E e \in Ends, c \in Calls : Invoke(e, c)
  \/ \E c \in Calls : TimerFires(c)
  \/ \E p \in wire : Deliver(p)
  \/ \E r \in serving, error \in Errors : Answer(r, error)
  \/ \E e \in Ends : Lost(e)
  \/ \E g \in 1..MaxGen : Dies(g)
  \/ Redial

RpcSpec == RpcInit /\ [][RpcNext]_rpcVars

(* One of its ends has closed stream g: the FIN goes round. *)
HalfClosed(g) == g \notin up \/ g < gen \/ 0 \notin up

(* Messages arrive on a stream that lives, hooks answer, a stream that one  *)
(* end has closed dies, and an end of a dead stream notices.                *)
System ==
  \/ \E p \in wire : Deliver(p)
  \/ \E r \in serving, error \in Errors : Answer(r, error)
  \/ \E g \in 1..MaxGen : HalfClosed(g) /\ Dies(g)
  \/ \E e \in Ends : StreamOf(e) \notin live /\ Lost(e)

(* While any of that can happen some of it does.  Nothing is assumed of     *)
(* users and timers, or that a stream that works is lost or one is replaced. *)
FairRpcSpec == RpcSpec /\ WF_rpcVars(System)

-----------------------------------------------------------------------------
Data == [of : Calls, form : {"plain", "gzip", "garbage"}]
Hows == {"none", "rejected", "unknown method", "eof"}
Numbers == Nat \ {0}

RequestMsgs ==
  [type : {"INVOKE", "INVOKE_COMPRESSED", "NOTIFY"}, seqid : Numbers,
   ctype : CTypes, method : Names, data : Data]
ResponseMsgs ==
  [type : {"RESPONSE"}, seqid : Numbers,
   error : {"none", "rejected", "unknown method"}, data : Data]
Packets ==
  [stream : 1..MaxGen, to : Ends, msg : RequestMsgs \cup ResponseMsgs]
Responses ==
  [by : Ends, seqid : Numbers, ctype : CTypes, data : Data,
   hook : Names \X Names, this : Ends \X Names]

(* Types of the variables. *)
RpcTypeOK ==
  /\ gen \in 0..MaxGen /\ up \subseteq 0..gen /\ live \subseteq 1..gen
  /\ wire \subseteq Packets
  /\ seqid \in [Ends -> Numbers]
  /\ invocations \in [Ends -> SUBSET (Numbers \X Calls)]
  /\ requests \in [Ends -> SUBSET (Numbers \X Calls)]
  /\ serving \subseteq Responses
  /\ outcome \in [Calls -> Seq([how : Hows, data : Data])]
  /\ timer \in [Calls -> {"off", "set", "fired"}]

(* What the callback of c may be given: once, the result of c itself, as    *)
(* the hook gave it, or an error about c itself, and "unknown method" only  *)
(* if there is none.                                                        *)
RightAnswer(c, o) ==
  LET q == Request[c] IN
  /\ o.data.of = c
  /\ o.how = "none" => o.data.form = "plain"
  /\ o.how = "unknown method" =>
       make_method(q.program, q.method) \notin DOMAIN handlers

RightOutcome(c) ==
  /\ Len(outcome[c]) <= 1
  /\ \A i \in 1..Len(outcome[c]) : RightAnswer(c, outcome[c][i])

(* The callbacks of the client's calls get that, across all its streams: a  *)
(* response that comes late from a half-closed stream finds no new call     *)
(* under its number, because the numbers go on when the stream is replaced. *)
OwnReplies == \A c \in Calls : Request[c].from = "client" => RightOutcome(c)

(* A request is served by the hook of its own program, however the programs *)
(* name their methods, on the other side of the connection, with its own    *)
(* argument as the caller gave it, and `this' is the object of that program *)
(* and of that connection.                                                  *)
ServedByItsProgram ==
  \A r \in serving :
    LET q == Request[r.data.of] IN
    /\ r.data.form = "plain"
    /\ r.hook = <<q.program, q.method>>
    /\ IF q.from = "client" THEN r.by # 0 /\ r.this = <<r.by, q.program>>
                            ELSE r.by = 0

(* A call that waits can still end: its request or its answer is under way  *)
(* on the stream it was made on, or its hook is at work and will answer on  *)
(* that stream, or the stream is bound to be lost.                          *)
OnItsWay(e, n, c) ==
  \/ StreamOf(e) \notin live \/ HalfClosed(StreamOf(e))
  \/ \E p \in wire :
       /\ p.stream = StreamOf(e) /\ p.msg.seqid = n
       /\ \/ p.to = e /\ p.msg.type = "RESPONSE"
          \/ p.to = PeerOf(e) /\ p.msg.type # "RESPONSE" /\ p.msg.data.of = c
  \/ \E r \in serving : r.by = PeerOf(e) /\ r.seqid = n /\ r.data.of = c

WaitingCallsCanEnd ==
  \A e \in Ends : \A x \in invocations[e] :
    Request[x[2]].notify \/ OnItsWay(e, x[1], x[2])

(* The error threshold is reported only of calls that are still waiting:    *)
(* no timer runs for a call that has ended, whichever way it ended.         *)
TimersOfWaitingCalls ==
  \A c \in Calls :
    timer[c] = "set" => outcome[c] = <<>> /\ \E x \in invocations[0] : x[2] = c

(* Every call gets its callback, with a reply, an error or EOF, if hooks    *)
(* answer and lost streams are noticed: users make finitely many calls, and *)
(* again and again none is waiting.                                         *)
Waiting(c) == ~Request[c].notify /\ ~Unsent(c) /\ outcome[c] = <<>>

EveryCallEnds == []<>(\A c \in Calls : ~Waiting(c))

-----------------------------------------------------------------------------
(* What the repository says and the code does not do. *)

(* README.md:358-360: the callback of invoke is given the reply to the RPC. *)
(* A server that calls its client back gets the answer to an earlier call   *)
(* of another connection, if the client has been connected again since.     *)
OwnRepliesOfServer ==
  \A c \in Calls : Request[c].from = "server" => RightOutcome(c)
=============================================================================
