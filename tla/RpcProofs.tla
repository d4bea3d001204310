------------------------------ MODULE RpcProofs -------------------------------
(***************************************************************************)
(* Proofs about Rpc, for any calls and programs and any number of streams:  *)
(* which hook serves a call, and whose answer a callback is given.          *)
(***************************************************************************)
EXTENDS Rpc, TLAPS, SequenceTheorems

-----------------------------------------------------------------------------
(* Names. *)

(* Joining with a method of one part appends that part. *)
LEMMA JoinAppends ==
  ASSUME NEW p \in Names, NEW m \in Names, Len(m) = 1
  PROVE  make_method(p, m) = Append(p, m[1]) /\ m[1] \in STRING
<1>1. m[1] \in STRING
  BY DEF Names
<1>2. m = <<m[1]>>
  BY SeqEqual DEF Names
<1>3. Append(p, m[1]) = p \o <<m[1]>>
  BY <1>1, AppendIsConcat DEF Names
<1> QED
  BY <1>1, <1>2, <1>3 DEF make_method

(* So no two hooks share a name, even of programs whose names are prefixes  *)
(* of one another.                                                          *)
LEMMA JoinInjective ==
  ASSUME NEW p \in Names, NEW m \in Names, Len(m) = 1,
         NEW q \in Names, NEW n \in Names, Len(n) = 1,
         make_method(p, m) = make_method(q, n)
  PROVE  p = q /\ m = n
<1>1. Append(p, m[1]) = Append(q, n[1]) /\ m[1] \in STRING /\ n[1] \in STRING
  BY JoinAppends
<1>2. p = q /\ m[1] = n[1]
  BY <1>1, AppendInjective DEF Names
<1>3. m = n
  BY <1>2, SeqEqual DEF Names
<1> QED
  BY <1>2, <1>3

(* Cutting the last part off a method's name gives its program. *)
LEMMA ProgramOfMethod ==
  ASSUME NEW p \in Names, NEW m \in Names, Len(m) = 1
  PROVE  handler_program(make_method(p, m)) = p
<1> DEFINE s == make_method(p, m)
           t == SubSeq(s, 1, Len(p))
<1>1. s \in Seq(STRING) /\ Len(s) = Len(p) + 1
      /\ \A i \in 1..Len(p) : s[i] = p[i]
  <2>1. p \in Seq(STRING) /\ m[1] \in STRING /\ s = Append(p, m[1])
    BY JoinAppends DEF Names
  <2> HIDE DEF s
  <2> QED
    BY <2>1
<1>2. Len(p) \in Nat
  BY DEF Names
<1>3. t \in Seq(STRING) /\ Len(t) = Len(p) /\ \A i \in 1..Len(p) : t[i] = s[i]
  <2>1. \A i \in 1..Len(p) : s[i] \in STRING
    BY <1>1, <1>2
  <2>2. /\ t \in Seq(STRING)
        /\ Len(t) = IF 1 <= Len(p) THEN Len(p) - 1 + 1 ELSE 0
        /\ \A i \in 1..(Len(p) - 1 + 1) : t[i] = s[1 + i - 1]
    BY <2>1, <1>2, SubSeqProperties
  <2> QED
    BY <2>2, <1>2
<1>4. t = p
  BY <1>1, <1>3, SeqEqual DEF Names
<1>5. handler_program(s) = t
  BY <1>1, <1>2 DEF handler_program
<1> QED
  BY <1>4, <1>5

(* The table of handlers gives a method of a program the hook of exactly    *)
(* that program and method.                                                 *)
LEMMA HandlerOf ==
  ASSUME NEW p \in Names, NEW m \in Names, Len(m) = 1,
         make_method(p, m) \in DOMAIN handlers
  PROVE  handlers[make_method(p, m)] = <<p, m>>
<1> DEFINE H == Hooks(Programs)
           n == make_method(p, m)
<1>1. n \in {NameOf(h) : h \in H} /\ handlers[n] = CHOOSE h \in H : NameOf(h) = n
  BY DEF handlers, add_programs
<1>2. handlers[n] \in H /\ NameOf(handlers[n]) = n
  BY <1>1
<1>3. PICK q \in DOMAIN Programs : \E k \in Programs[q] : handlers[n] = <<q, k>>
  BY <1>2 DEF Hooks
<1>a. PICK k \in Programs[q] : handlers[n] = <<q, k>>
  BY <1>3
<1>4. q \in Names /\ k \in Names /\ Len(k) = 1
  BY ProgramsAssumption
<1>5. make_method(q, k) = make_method(p, m)
  BY <1>2, <1>a DEF NameOf
<1>6. q = p /\ k = m
  BY <1>4, <1>5, JoinInjective
<1> QED
  BY <1>a, <1>6

-----------------------------------------------------------------------------
(* Data and messages. *)

LEMMA RequestFields ==
  ASSUME NEW c \in Calls
  PROVE  LET q == Request[c] IN
         /\ q.from \in {"client", "server"} /\ q.notify \in BOOLEAN
         /\ q.ctype \in CTypes
         /\ q.program \in Names /\ q.method \in Names /\ Len(q.method) = 1
  BY RequestAssumption, MethodAssumption

(* What is compressed is of the same call, and comes back as it was. *)
LEMMA CompressPlain ==
  ASSUME NEW c \in Calls, NEW ctype \in CTypes
  PROVE  LET d == compress(ctype, Plain(c)) IN
         /\ Plain(c) \in Data /\ Plain(c).of = c
         /\ d \in Data /\ d.of = c
         /\ uncompress(ctype, d) = Plain(c)
<1>1. CASE ctype = "gzip"
  <2>1. compress(ctype, Plain(c)) = [of |-> c, form |-> "gzip"]
    BY <1>1 DEF compress, Plain
  <2>2. uncompress(ctype, [of |-> c, form |-> "gzip"]) = [of |-> c, form |-> "plain"]
    BY <1>1 DEF uncompress
  <2> QED
    BY <2>1, <2>2 DEF Plain, Data
<1>2. CASE ctype # "gzip"
  BY <1>2 DEF compress, uncompress, Plain, Data
<1> QED
  BY <1>1, <1>2

LEMMA RequestMsgShape ==
  ASSUME NEW c \in Calls, NEW n \in Numbers
  PROVE  LET m == RequestMsg(n, c)
             q == Request[c] IN
         /\ m \in RequestMsgs /\ m.type = TypeOf(q) /\ m.seqid = n
         /\ m.ctype = q.ctype /\ m.method = make_method(q.program, q.method)
         /\ m.data = compress(q.ctype, Plain(c)) /\ m.data.of = c
         /\ m.type # "RESPONSE"
         /\ m.type = "INVOKE" => q.ctype = "absent"
<1> DEFINE m == RequestMsg(n, c)
           q == Request[c]
<1>1. m = [type |-> TypeOf(q), seqid |-> n, ctype |-> q.ctype,
           method |-> make_method(q.program, q.method),
           data |-> compress(q.ctype, Plain(c))]
  BY DEF RequestMsg
<1>2. TypeOf(q) \in {"INVOKE", "INVOKE_COMPRESSED", "NOTIFY"}
      /\ (TypeOf(q) = "INVOKE" => q.ctype = "absent")
  BY DEF TypeOf
<1>3. q.ctype \in CTypes /\ compress(q.ctype, Plain(c)) \in Data
      /\ compress(q.ctype, Plain(c)).of = c
  BY RequestFields, CompressPlain
<1>4. make_method(q.program, q.method) \in Names
  BY RequestFields, ConcatProperties DEF make_method, Names
<1> HIDE DEF m, q
<1>5. m \in RequestMsgs
  BY <1>1, <1>2, <1>3, <1>4 DEF RequestMsgs
<1> QED
  BY <1>1, <1>2, <1>3, <1>5 DEF m, q

-----------------------------------------------------------------------------
(* The invariant.  An end gives each number and each call once, to calls    *)
(* of its own users, and its table holds what it has sent.                  *)
NumberInv ==
  \A e \in Ends :
    /\ invocations[e] \subseteq requests[e]
    /\ \A x \in requests[e] :
         x[1] < seqid[e] /\ (Request[x[2]].from = "client" <=> e = 0)
    /\ \A x, y \in requests[e] : x[1] = y[1] \/ x[2] = y[2] => x = y

(* A request under way was sent by the end on the other side, as it is. *)
Asker(p) == IF p.to = 0 THEN p.stream ELSE 0

GoodRequest(p) ==
  \E n \in Numbers, c \in Calls :
    p.msg = RequestMsg(n, c) /\ <<n, c>> \in requests[Asker(p)]

(* A response under way to the client answers a request of the client, and  *)
(* says about it what there is to say.                                      *)
Fits(msg) ==
  LET c == msg.data.of
      q == Request[c] IN
  /\ msg.error = "none" => msg.data = compress(q.ctype, Plain(c))
  /\ msg.error = "unknown method" =>
       make_method(q.program, q.method) \notin DOMAIN handlers

GoodResponse(p) ==
  /\ p.msg \in ResponseMsgs
  /\ p.to = 0 => <<p.msg.seqid, p.msg.data.of>> \in requests[0] /\ Fits(p.msg)

WireInv ==
  \A p \in wire :
    /\ p.to \in {0, p.stream} /\ p.stream # 0
    /\ GoodRequest(p) \/ GoodResponse(p)

(* A hook that is at work was called for a request of the other side. *)
GoodServing(r) ==
  LET c == r.data.of
      q == Request[c] IN
  /\ c \in Calls /\ r.data = Plain(c)
  /\ r.ctype = q.ctype
  /\ r.hook = <<q.program, q.method>>
  /\ IF r.by = 0 THEN q.from = "server"
                 ELSE <<r.seqid, c>> \in requests[0] /\ r.this = <<r.by, q.program>>

ServingInv == \A r \in serving : GoodServing(r)

(* The client's calls that wait have no outcome, nor have those not sent. *)
OutcomeInv ==
  /\ OwnReplies
  /\ \A x \in invocations[0] : outcome[x[2]] = <<>>
  /\ \A c \in Calls : Request[c].from = "client" /\ Unsent(c) => outcome[c] = <<>>

(* The table of an end without a stream is empty. *)
TableInv == \A e \in Ends : e \notin up => invocations[e] = {}

RInv ==
  /\ RpcTypeOK /\ NumberInv /\ WireInv /\ ServingInv /\ OutcomeInv
  /\ TimersOfWaitingCalls /\ TableInv /\ WaitingCallsCanEnd

-----------------------------------------------------------------------------
(* What is known of the steps. *)

LEMMA RequestsGrow ==
  ASSUME RpcTypeOK, RpcNext
  PROVE  \A e \in Ends : requests[e] \subseteq requests'[e]
<1>1. ASSUME NEW e \in Ends, NEW c \in Calls, Invoke(e, c)
      PROVE  \A f \in Ends : requests[f] \subseteq requests'[f]
  BY <1>1 DEF Invoke, RpcTypeOK
<1>2. ASSUME NEW p \in wire, Deliver(p) PROVE UNCHANGED requests
  BY <1>2 DEF Deliver, Serve, ServeNotify, HandleResponse, callVars
<1>3. ASSUME NEW r \in serving, NEW error \in Errors, Answer(r, error)
      PROVE  UNCHANGED requests
  BY <1>3 DEF Answer, callVars
<1>4. ASSUME NEW e \in Ends, Lost(e) PROVE UNCHANGED requests
  BY <1>4 DEF Lost
<1>5. ASSUME NEW g \in 1..MaxGen, Dies(g) PROVE UNCHANGED requests
  BY <1>5 DEF Dies, callVars
<1>6. ASSUME Redial PROVE UNCHANGED requests
  BY <1>6 DEF Redial, callVars
<1>7. ASSUME NEW c \in Calls, TimerFires(c) PROVE UNCHANGED requests
  BY <1>7 DEF TimerFires
<1> QED
  BY <1>1, <1>2, <1>3, <1>4, <1>5, <1>6, <1>7 DEF RpcNext

Outcomes == [how : Hows, data : Data]

(* Callbacks that run: of the calls in the domain of given, with its values. *)
Ran(given) ==
  /\ outcome' \in [Calls -> Seq(Outcomes)]
  /\ timer' \in [Calls -> {"off", "set", "fired"}]
  /\ \A c \in Calls \ DOMAIN given : outcome'[c] = outcome[c] /\ timer'[c] = timer[c]
  /\ \A c \in DOMAIN given : timer'[c] = "off"
  /\ \A c \in DOMAIN given : outcome[c] = <<>> => outcome'[c] = <<given[c]>>

LEMMA CallBackEffect ==
  ASSUME RpcTypeOK, NEW D \in SUBSET Calls, NEW given \in [D -> Outcomes],
         CallBack(given)
  PROVE  Ran(given)
<1>1. outcome \in [Calls -> Seq(Outcomes)] /\ DOMAIN given = D
      /\ timer \in [Calls -> {"off", "set", "fired"}]
  BY DEF RpcTypeOK, Outcomes
<1>2. outcome' = [c \in Calls |-> IF c \in D THEN Append(outcome[c], given[c])
                                             ELSE outcome[c]]
      /\ timer' = [c \in Calls |-> IF c \in D THEN "off" ELSE timer[c]]
  BY <1>1 DEF CallBack, Cleared
<1>3. \A c \in D : given[c] \in Outcomes /\ outcome[c] \in Seq(Outcomes)
  BY <1>1
<1>4. \A c \in D : Append(outcome[c], given[c]) \in Seq(Outcomes)
  BY <1>3, AppendProperties
<1>5. ASSUME NEW c \in D, outcome[c] = <<>> PROVE outcome'[c] = <<given[c]>>
  <2>1. outcome'[c] = Append(<<>>, given[c])
    BY <1>2, <1>5
  <2> QED
    BY <2>1
<1> QED
  BY <1>1, <1>2, <1>4, <1>5 DEF Ran

(* A response: the entries it finds, and what their callbacks are given. *)
Found(e, n) == {x \in invocations[e] : x[1] = n}

Given(msg, c) ==
  Outcome(msg.error,
    IF msg.error = "none" THEN uncompress(Request[c].ctype, msg.data) ELSE msg.data)

GivenTo(e, msg) ==
  [c \in {x[2] : x \in Found(e, msg.seqid)} |-> Given(msg, c)]

LEMMA ResponseTable ==
  ASSUME RpcTypeOK, NEW e \in Ends, NEW msg, HandleResponse(e, msg)
  PROVE  /\ UNCHANGED <<seqid, requests>>
         /\ invocations'[e] = invocations[e] \ Found(e, msg.seqid)
         /\ \A f \in Ends : f # e => invocations'[f] = invocations[f]
         /\ invocations' \in [Ends -> SUBSET (Numbers \X Calls)]
  BY DEF HandleResponse, RpcTypeOK, Found

LEMMA ResponseCallbacks ==
  ASSUME RpcTypeOK, NEW e \in Ends, NEW msg \in ResponseMsgs, HandleResponse(e, msg)
  PROVE  Ran(GivenTo(e, msg))
<1> DEFINE D == {x[2] : x \in Found(e, msg.seqid)}
<1>1. D \in SUBSET Calls
  BY DEF RpcTypeOK, Found
<1>2. msg.error \in Hows /\ msg.data \in Data
  BY DEF ResponseMsgs, Hows
<1>3. ASSUME NEW c \in D PROVE Given(msg, c) \in Outcomes
  <2>1. uncompress(Request[c].ctype, msg.data) \in Data
    <3>1. PICK d \in Calls, f \in {"plain", "gzip", "garbage"} :
            msg.data = [of |-> d, form |-> f]
      BY <1>2 DEF Data
    <3> QED
      BY <3>1 DEF uncompress, Data
  <2> QED
    BY <1>2, <2>1 DEF Given, Outcome, Outcomes
<1>4. GivenTo(e, msg) \in [D -> Outcomes]
  BY <1>3 DEF GivenTo
<1>5. CallBack(GivenTo(e, msg))
  BY DEF HandleResponse, Given, GivenTo, Found
<1> HIDE DEF D
<1> QED
  BY <1>1, <1>4, <1>5, CallBackEffect

(* A stream that is lost, and the calls of its end. *)
EOFTo(e) == [c \in {x[2] : x \in invocations[e]} |-> Outcome("eof", Plain(c))]

LEMMA LostTable ==
  ASSUME RpcTypeOK, NEW e \in Ends, Lost(e)
  PROVE  /\ UNCHANGED <<gen, live, wire, seqid, requests, serving>>
         /\ up' = up \ {e}
         /\ invocations'[e] = {}
         /\ \A f \in Ends : f # e => invocations'[f] = invocations[f]
         /\ invocations' \in [Ends -> SUBSET (Numbers \X Calls)]
  BY DEF Lost, RpcTypeOK

LEMMA LostCallbacks ==
  ASSUME RpcTypeOK, NEW e \in Ends, Lost(e)
  PROVE  Ran(EOFTo(e))
<1> DEFINE D == {x[2] : x \in invocations[e]}
<1>1. D \in SUBSET Calls
  BY DEF RpcTypeOK
<1>2. EOFTo(e) \in [D -> Outcomes]
  BY <1>1 DEF EOFTo, Outcome, Outcomes, Plain, Data, Hows
<1>3. CallBack(EOFTo(e))
  BY DEF Lost, EOFTo
<1> HIDE DEF D
<1> QED
  BY <1>1, <1>2, <1>3, CallBackEffect

(* The steps that serve leave the calls alone. *)
Serves(p) == p.msg.type \in {"INVOKE", "INVOKE_COMPRESSED", "NOTIFY"}

LEMMA ServeEffect ==
  ASSUME NEW p, Deliver(p), Serves(p)
  PROVE  UNCHANGED callVars
  BY DEF Deliver, Serves, Serve, ServeNotify

-----------------------------------------------------------------------------
(* Each part of the invariant is kept by every step. *)

LEMMA StepNumbers ==
  ASSUME RInv, RpcNext
  PROVE  NumberInv'
<1> USE DEF RInv
<1>1. ASSUME NEW e \in Ends, NEW c \in Calls, Invoke(e, c) PROVE NumberInv'
  <2>1. \A f \in Ends : f # e =>
          UNCHANGED <<seqid[f], requests[f], invocations[f]>>
    BY <1>1 DEF Invoke, RpcTypeOK
  <2>2. /\ seqid'[e] = seqid[e] + 1
        /\ requests'[e] = requests[e] \cup {<<seqid[e], c>>}
        /\ invocations'[e] \subseteq invocations[e] \cup {<<seqid[e], c>>}
        /\ seqid[e] \in Nat
    BY <1>1 DEF Invoke, RpcTypeOK, Numbers
  <2>3. \A x \in requests[e] : x[1] < seqid[e] /\ x[2] # c /\ x[1] \in Nat
    BY <1>1 DEF Invoke, Unsent, NumberInv, RpcTypeOK, Numbers
  <2>4. Request[c].from = "client" <=> e = 0
    BY <1>1 DEF Invoke
  <2> SUFFICES ASSUME NEW f \in Ends
               PROVE  /\ invocations'[f] \subseteq requests'[f]
                      /\ \A x \in requests'[f] :
                           /\ x[1] < seqid'[f]
                           /\ Request[x[2]].from = "client" <=> f = 0
                      /\ \A x, y \in requests'[f] :
                           x[1] = y[1] \/ x[2] = y[2] => x = y
    BY DEF NumberInv
  <2>5. CASE f # e
    BY <2>1, <2>5 DEF NumberInv
  <2>6. CASE f = e
    <3>1. invocations'[e] \subseteq requests'[e]
      BY <2>2 DEF NumberInv
    <3>2. \A x \in requests'[e] : x[1] < seqid'[e]
      BY <2>2, <2>3
    <3>3. \A x \in requests'[e] : Request[x[2]].from = "client" <=> e = 0
      BY <2>2, <2>4 DEF NumberInv
    <3>4. \A x, y \in requests'[e] : x[1] = y[1] \/ x[2] = y[2] => x = y
      <4>1. \A x, y \in requests[e] : x[1] = y[1] \/ x[2] = y[2] => x = y
        BY DEF NumberInv
      <4>2. \A x \in requests[e] : x[1] # seqid[e] /\ x[2] # c
        BY <2>2, <2>3
      <4> QED
        BY <2>2, <4>1, <4>2
    <3> QED
      BY <2>6, <3>1, <3>2, <3>3, <3>4
  <2> QED
    BY <2>5, <2>6
<1>2. ASSUME UNCHANGED <<seqid, requests>>,
             \A f \in Ends : invocations'[f] \subseteq invocations[f]
      PROVE  NumberInv'
  BY <1>2 DEF NumberInv
<1>3. ASSUME NEW p \in wire, Deliver(p) PROVE NumberInv'
  <2>1. CASE Serves(p)
    BY <2>1, <1>3, <1>2, ServeEffect DEF callVars
  <2>2. CASE ~Serves(p)
    <3>1. p.msg \in ResponseMsgs /\ p.to \in Ends
      BY <2>2 DEF RpcTypeOK, Packets, RequestMsgs, Serves
    <3>2. HandleResponse(p.to, p.msg)
      BY <1>3, <2>2 DEF Deliver, Serves
    <3>3. UNCHANGED <<seqid, requests>>
          /\ \A f \in Ends : invocations'[f] \subseteq invocations[f]
      BY <3>1, <3>2, ResponseTable
    <3> QED
      BY <3>3, <1>2
  <2> QED
    BY <2>1, <2>2
<1>4. ASSUME NEW e \in Ends, Lost(e) PROVE NumberInv'
  <2>1. UNCHANGED <<seqid, requests>>
        /\ \A f \in Ends : invocations'[f] \subseteq invocations[f]
    BY <1>4, LostTable
  <2> QED
    BY <2>1, <1>2
<1>5. ASSUME UNCHANGED <<seqid, requests, invocations>> PROVE NumberInv'
  BY <1>5 DEF NumberInv
<1>6. ASSUME NEW c \in Calls, TimerFires(c) PROVE NumberInv'
  BY <1>6, <1>5 DEF TimerFires
<1>7. ASSUME NEW r \in serving, NEW error \in Errors, Answer(r, error)
      PROVE  NumberInv'
  BY <1>7, <1>5 DEF Answer, callVars
<1>8. ASSUME NEW g \in 1..MaxGen, Dies(g) PROVE NumberInv'
  BY <1>8, <1>5 DEF Dies, callVars
<1>9. ASSUME Redial PROVE NumberInv'
  BY <1>9, <1>5 DEF Redial, callVars
<1> QED
  BY <1>1, <1>3, <1>4, <1>6, <1>7, <1>8, <1>9 DEF RpcNext

(* Types. *)

LEMMA HooksType ==
  ASSUME NEW n \in DOMAIN handlers
  PROVE  handlers[n] \in Names \X Names
<1> DEFINE H == Hooks(Programs)
<1>1. n \in {NameOf(h) : h \in H} /\ handlers[n] = CHOOSE h \in H : NameOf(h) = n
  BY DEF handlers, add_programs
<1>2. handlers[n] \in H
  BY <1>1
<1>3. PICK q \in DOMAIN Programs : \E k \in Programs[q] : handlers[n] = <<q, k>>
  BY <1>2 DEF Hooks
<1> QED
  BY <1>3, ProgramsAssumption

LEMMA ThisType ==
  ASSUME NEW e \in Ends, NEW m \in Names
  PROVE  get_handler_this(e, m) \in Ends \X Names
<1>1. <<>> \in Names
  BY DEF Names
<1>5. 0 \in Ends
  BY MaxGenAssumption DEF Ends
<1>2. handler_program(m) \in Names
  <2>1. Len(m) \in Nat /\ m \in Seq(STRING)
    BY DEF Names
  <2>2. \A i \in 1..(Len(m) - 1) : m[i] \in STRING
    BY <2>1
  <2> QED
    BY <2>1, <2>2, SubSeqProperties DEF handler_program, Names
<1>3. CASE e = 0
  BY <1>1, <1>5, <1>3 DEF get_handler_this
<1>4. CASE e # 0
  BY <1>2, <1>4 DEF get_handler_this
<1> QED
  BY <1>3, <1>4

LEMMA DataType ==
  ASSUME NEW d \in Data, NEW ctype \in CTypes
  PROVE  /\ compress(ctype, d) \in Data /\ compress(ctype, d).of = d.of
         /\ uncompress(ctype, d) \in Data /\ uncompress(ctype, d).of = d.of
<1>1. PICK c \in Calls, f \in {"plain", "gzip", "garbage"} : d = [of |-> c, form |-> f]
  BY DEF Data
<1> QED
  BY <1>1 DEF compress, uncompress, Data

(* What is written goes to the other side, on a stream that lives. *)
LEMMA WrittenShape ==
  ASSUME RpcTypeOK, NEW e \in Ends, NEW msg, NEW p \in Written(e, msg)
  PROVE  /\ p = [stream |-> StreamOf(e), to |-> PeerOf(e), msg |-> msg]
         /\ e \in up /\ StreamOf(e) \in live
         /\ StreamOf(e) \in 1..MaxGen /\ PeerOf(e) \in Ends
         /\ PeerOf(e) \in {0, StreamOf(e)} /\ (PeerOf(e) = 0 <=> e # 0)
  BY MaxGenAssumption DEF Written, RpcTypeOK, Ends, StreamOf, PeerOf

LEMMA WrittenType ==
  ASSUME RpcTypeOK, NEW e \in Ends, NEW msg \in RequestMsgs \cup ResponseMsgs
  PROVE  Written(e, msg) \subseteq Packets
  BY WrittenShape DEF Packets

(* What _serve is given of a request. *)
Param(p) ==
  IF p.msg.type = "INVOKE" THEN p.msg.data ELSE uncompress(p.msg.ctype, p.msg.data)
CTypeOf(p) == IF p.msg.type = "INVOKE" THEN "absent" ELSE p.msg.ctype
Requests == {"INVOKE", "INVOKE_COMPRESSED"}

LEMMA DeliverCases ==
  ASSUME RpcTypeOK, NEW p \in wire, Deliver(p)
  PROVE  /\ UNCHANGED streamVars /\ p.to \in Ends /\ p.stream \in live
         /\ \/ p.msg \in RequestMsgs /\ p.msg.type \in Requests
               /\ Serve(p, Param(p), CTypeOf(p))
            \/ p.msg.type = "NOTIFY" /\ ServeNotify(p)
            \/ /\ p.msg \in ResponseMsgs /\ HandleResponse(p.to, p.msg)
               /\ wire' = wire \ {p} /\ UNCHANGED serving
<1>1. p \in Packets
  BY DEF RpcTypeOK
<1>2. p.to \in Ends /\ p.msg \in RequestMsgs \cup ResponseMsgs
  BY <1>1 DEF Packets
<1>3. p.msg \in ResponseMsgs => p.msg.type = "RESPONSE"
  BY DEF ResponseMsgs
<1>4. p.msg \in RequestMsgs => p.msg.type # "RESPONSE"
  BY DEF RequestMsgs
<1> QED
  BY <1>2, <1>3, <1>4 DEF Deliver, Param, CTypeOf, Requests

LEMMA ParamType ==
  ASSUME NEW p, p.msg \in RequestMsgs
  PROVE  Param(p) \in Data /\ CTypeOf(p) \in CTypes /\ Param(p).of = p.msg.data.of
<1>1. p.msg.data \in Data /\ p.msg.ctype \in CTypes
  BY DEF RequestMsgs
<1> QED
  BY <1>1, DataType DEF Param, CTypeOf, CTypes

LEMMA StepType ==
  ASSUME RInv, RpcNext
  PROVE  RpcTypeOK'
<1> USE DEF RInv
<1>1. ASSUME NEW e \in Ends, NEW c \in Calls, Invoke(e, c) PROVE RpcTypeOK'
  <2>1. seqid[e] \in Numbers /\ seqid[e] + 1 \in Numbers
    BY DEF RpcTypeOK, Numbers
  <2>2. Written(e, RequestMsg(seqid[e], c)) \subseteq Packets
    BY <2>1, RequestMsgShape, WrittenType
  <2>3. /\ seqid' \in [Ends -> Numbers]
        /\ requests' \in [Ends -> SUBSET (Numbers \X Calls)]
        /\ invocations' \in [Ends -> SUBSET (Numbers \X Calls)]
    BY <1>1, <2>1 DEF Invoke, RpcTypeOK
  <2>4. /\ wire' \subseteq Packets
        /\ timer' \in [Calls -> {"off", "set", "fired"}]
    BY <1>1, <2>2 DEF Invoke, RpcTypeOK
  <2>5. UNCHANGED <<gen, up, live, outcome, serving>>
    BY <1>1 DEF Invoke, streamVars
  <2> QED
    BY <2>3, <2>4, <2>5 DEF RpcTypeOK
<1>2. ASSUME NEW p \in wire, Deliver(p) PROVE RpcTypeOK'
  <2>1. CASE p.msg \in RequestMsgs /\ p.msg.type \in Requests
             /\ Serve(p, Param(p), CTypeOf(p))
    <3>1. Param(p) \in Data /\ CTypeOf(p) \in CTypes
      BY <2>1, ParamType
    <3>2. p.msg.seqid \in Numbers /\ p.msg.method \in Names /\ p.to \in Ends
      BY <2>1, <1>2, DeliverCases DEF RequestMsgs
    <3>3. UnknownMethod(p.to, p.msg.seqid, Param(p)) \subseteq Packets
      <4>1. ResponseMsg(p.msg.seqid, "unknown method", Param(p)) \in ResponseMsgs
        BY <3>1, <3>2 DEF ResponseMsg, ResponseMsgs
      <4> QED
        BY <4>1, <3>2, WrittenType DEF UnknownMethod
    <3>4. ASSUME p.msg.method \in DOMAIN handlers
          PROVE  [by |-> p.to, seqid |-> p.msg.seqid, ctype |-> CTypeOf(p),
                  hook |-> handlers[p.msg.method], data |-> Param(p),
                  this |-> get_handler_this(p.to, p.msg.method)] \in Responses
      BY <3>1, <3>2, <3>4, HooksType, ThisType DEF Responses
    <3>5. wire' \subseteq Packets /\ serving' \subseteq Responses
      BY <2>1, <3>3, <3>4 DEF Serve, RpcTypeOK
    <3> QED
      BY <2>1, <3>5, <1>2, DeliverCases DEF Serve, callVars, streamVars, RpcTypeOK
  <2>2. CASE p.msg.type = "NOTIFY" /\ ServeNotify(p)
    BY <2>2, <1>2, DeliverCases DEF ServeNotify, callVars, streamVars, RpcTypeOK
  <2>3. CASE /\ p.msg \in ResponseMsgs /\ HandleResponse(p.to, p.msg)
             /\ wire' = wire \ {p} /\ UNCHANGED serving
    <3>1. p.to \in Ends /\ UNCHANGED streamVars
      BY <1>2, DeliverCases
    <3>2. Ran(GivenTo(p.to, p.msg))
      BY <2>3, <3>1, ResponseCallbacks
    <3> QED
      BY <2>3, <3>1, <3>2, ResponseTable DEF Ran, Outcomes, streamVars, RpcTypeOK
  <2> QED
    BY <1>2, <2>1, <2>2, <2>3, DeliverCases
<1>3. ASSUME NEW r \in serving, NEW error \in Errors, Answer(r, error)
      PROVE  RpcTypeOK'
  <2> DEFINE data == IF error = "none" THEN compress(r.ctype, r.data) ELSE r.data
  <2>1. r.by \in Ends /\ r.seqid \in Numbers /\ r.ctype \in CTypes /\ r.data \in Data
    BY DEF RpcTypeOK, Responses
  <2>2. data \in Data
    BY <2>1, DataType
  <2>3. ResponseMsg(r.seqid, error, data) \in ResponseMsgs
    BY <2>1, <2>2 DEF ResponseMsg, ResponseMsgs, Errors
  <2>4. Written(r.by, ResponseMsg(r.seqid, error, data)) \subseteq Packets
    BY <2>1, <2>3, WrittenType
  <2> QED
    BY <1>3, <2>4 DEF Answer, callVars, streamVars, RpcTypeOK
<1>4. ASSUME NEW e \in Ends, Lost(e) PROVE RpcTypeOK'
  BY <1>4, LostTable, LostCallbacks DEF Ran, Outcomes, RpcTypeOK
<1>5. ASSUME NEW g \in 1..MaxGen, Dies(g) PROVE RpcTypeOK'
  BY <1>5 DEF Dies, callVars, RpcTypeOK
<1>6. ASSUME Redial PROVE RpcTypeOK'
  <2>1. UNCHANGED <<wire, serving, seqid, invocations, requests, outcome, timer>>
    BY <1>6 DEF Redial, callVars
  <2>2. gen' \in 0..MaxGen /\ up' \subseteq 0..gen' /\ live' \subseteq 1..gen'
    BY <1>6, MaxGenAssumption DEF Redial, RpcTypeOK
  <2> QED
    BY <2>1, <2>2 DEF RpcTypeOK
<1>7. ASSUME NEW c \in Calls, TimerFires(c) PROVE RpcTypeOK'
  BY <1>7 DEF TimerFires, streamVars, RpcTypeOK
<1> QED
  BY <1>1, <1>2, <1>3, <1>4, <1>5, <1>6, <1>7 DEF RpcNext

(* Messages under way. *)

LEMMA WireKept ==
  ASSUME RpcTypeOK, RpcNext, WireInv,
         \A p \in wire' \ wire :
           /\ p.to \in {0, p.stream} /\ p.stream # 0
           /\ GoodRequest(p)' \/ GoodResponse(p)'
  PROVE  WireInv'
<1>1. \A e \in Ends : requests[e] \subseteq requests'[e]
  BY RequestsGrow
<1>2. ASSUME NEW p \in wire PROVE Asker(p) \in Ends /\ 0 \in Ends
  BY MaxGenAssumption DEF RpcTypeOK, Packets, Asker, Ends
<1>3. ASSUME NEW p \in wire, GoodRequest(p) PROVE GoodRequest(p)'
  <2>1. PICK n \in Numbers : \E c \in Calls :
          p.msg = RequestMsg(n, c) /\ <<n, c>> \in requests[Asker(p)]
    BY <1>3 DEF GoodRequest
  <2>2. PICK c \in Calls :
          p.msg = RequestMsg(n, c) /\ <<n, c>> \in requests[Asker(p)]
    BY <2>1
  <2>3. <<n, c>> \in requests'[Asker(p)]
    BY <2>2, <1>1, <1>2
  <2> QED
    BY <2>2, <2>3 DEF GoodRequest
<1>4. ASSUME NEW p \in wire, GoodResponse(p) PROVE GoodResponse(p)'
  BY <1>4, <1>1, <1>2 DEF GoodResponse
<1>5. ASSUME NEW p \in wire
      PROVE  /\ p.to \in {0, p.stream} /\ p.stream # 0
             /\ GoodRequest(p)' \/ GoodResponse(p)'
  BY <1>3, <1>4, <1>5 DEF WireInv
<1> QED
  BY <1>5 DEF WireInv

(* An answer to the client that the invariant allows. *)
LEMMA GoodAnswer ==
  ASSUME RpcTypeOK, NEW e \in Ends, NEW msg \in ResponseMsgs,
         e # 0 => <<msg.seqid, msg.data.of>> \in requests[0] /\ Fits(msg),
         UNCHANGED requests, NEW p \in Written(e, msg)
  PROVE  /\ p.to \in {0, p.stream} /\ p.stream # 0
         /\ GoodResponse(p)'
<1>1. /\ p.stream = StreamOf(e) /\ p.to = PeerOf(e) /\ p.msg = msg
      /\ p.to \in {0, p.stream} /\ p.stream \in 1..MaxGen
      /\ p.to = 0 => e # 0
  BY WrittenShape
<1>2. p.stream # 0
  BY <1>1, MaxGenAssumption
<1> QED
  BY <1>1, <1>2 DEF GoodResponse

(* A request that is being served: whose it is. *)
LEMMA RequestServed ==
  ASSUME RInv, NEW p \in wire, p.msg \in RequestMsgs
  PROVE  \E n \in Numbers, c \in Calls :
           /\ p.msg = RequestMsg(n, c) /\ <<n, c>> \in requests[Asker(p)]
           /\ p.msg.seqid = n /\ p.msg.data.of = c
           /\ p.to \in {0, p.stream} /\ p.stream # 0 /\ Asker(p) \in Ends
           /\ p.to = 0 => Request[c].from = "server"
           /\ p.to # 0 => Asker(p) = 0
<1>1. ~GoodResponse(p)
  BY DEF GoodResponse, RequestMsgs, ResponseMsgs
<1>2. GoodRequest(p) /\ p.to \in {0, p.stream} /\ p.stream # 0
  BY <1>1 DEF RInv, WireInv
<1>3. Asker(p) \in Ends
  BY MaxGenAssumption DEF RInv, RpcTypeOK, Packets, Asker, Ends
<1>4. PICK n \in Numbers : \E c \in Calls :
        p.msg = RequestMsg(n, c) /\ <<n, c>> \in requests[Asker(p)]
  BY <1>2 DEF GoodRequest
<1>5. PICK c \in Calls : p.msg = RequestMsg(n, c) /\ <<n, c>> \in requests[Asker(p)]
  BY <1>4
<1>6. p.msg.seqid = n /\ p.msg.data.of = c
  BY <1>5, RequestMsgShape
<1>7. Request[c].from = "client" <=> Asker(p) = 0
  BY <1>3, <1>5 DEF RInv, NumberInv
<1>8. p.to = 0 => Request[c].from = "server"
  BY <1>2, <1>7, RequestFields DEF Asker
<1>9. p.to # 0 => Asker(p) = 0
  BY DEF Asker
<1> QED
  BY <1>2, <1>3, <1>5, <1>6, <1>8, <1>9

LEMMA StepWire ==
  ASSUME RInv, RpcNext
  PROVE  WireInv'
<1>0. RpcTypeOK /\ WireInv
  BY DEF RInv
<1>1. ASSUME NEW e \in Ends, NEW c \in Calls, Invoke(e, c) PROVE WireInv'
  <2>1. seqid[e] \in Numbers /\ <<seqid[e], c>> \in requests'[e]
    BY <1>0, <1>1 DEF RpcTypeOK, Invoke
  <2>2. ASSUME NEW p \in wire' \ wire
        PROVE  p.to \in {0, p.stream} /\ p.stream # 0 /\ GoodRequest(p)'
    <3>1. p \in Written(e, RequestMsg(seqid[e], c))
      BY <1>1 DEF Invoke
    <3>2. /\ p.msg = RequestMsg(seqid[e], c) /\ p.stream = StreamOf(e)
          /\ p.to = PeerOf(e) /\ p.to \in {0, p.stream} /\ p.stream \in 1..MaxGen
          /\ p.to = 0 <=> e # 0
      BY <1>0, <3>1, WrittenShape
    <3>3. p.stream # 0 /\ Asker(p) = e
      BY <3>2, MaxGenAssumption DEF Asker, StreamOf, PeerOf
    <3> QED
      BY <2>1, <3>2, <3>3 DEF GoodRequest
  <2> QED
    BY <1>0, <2>2, WireKept
<1>2. ASSUME NEW p \in wire, Deliver(p) PROVE WireInv'
  <2>1. CASE p.msg \in RequestMsgs /\ p.msg.type \in Requests
             /\ Serve(p, Param(p), CTypeOf(p))
    <3> DEFINE msg == ResponseMsg(p.msg.seqid, "unknown method", Param(p))
    <3>1. UNCHANGED requests
      BY <2>1 DEF Serve, callVars
    <3>2. p.to \in Ends
      BY <1>0, <1>2, DeliverCases
    <3>3. msg \in ResponseMsgs /\ msg.seqid = p.msg.seqid /\ msg.data = Param(p)
          /\ msg.error = "unknown method" /\ msg.data.of = p.msg.data.of
      BY <2>1, ParamType DEF ResponseMsg, ResponseMsgs, RequestMsgs
    <3>4. ASSUME p.msg.method \notin DOMAIN handlers, p.to # 0
          PROVE  <<msg.seqid, msg.data.of>> \in requests[0] /\ Fits(msg)
      <4>1. PICK n \in Numbers, c \in Calls :
              /\ p.msg = RequestMsg(n, c) /\ <<n, c>> \in requests[0]
              /\ p.msg.seqid = n /\ p.msg.data.of = c
        BY <2>1, <3>4, RequestServed
      <4>2. p.msg.method = make_method(Request[c].program, Request[c].method)
        BY <4>1, RequestMsgShape
      <4> HIDE DEF msg
      <4> QED
        BY <3>3, <3>4, <4>1, <4>2 DEF Fits
    <3>5. ASSUME NEW r \in wire' \ wire
          PROVE  r.to \in {0, r.stream} /\ r.stream # 0 /\ GoodResponse(r)'
      <4>1. p.msg.method \notin DOMAIN handlers /\ r \in Written(p.to, msg)
        BY <2>1 DEF Serve, UnknownMethod
      <4> HIDE DEF msg
      <4> QED
        BY <1>0, <3>1, <3>2, <3>3, <3>4, <4>1, GoodAnswer
    <3> QED
      BY <1>0, <3>5, WireKept
  <2>2. CASE p.msg.type = "NOTIFY" /\ ServeNotify(p)
    BY <1>0, <2>2, WireKept DEF ServeNotify
  <2>3. CASE wire' = wire \ {p}
    BY <1>0, <2>3, WireKept
  <2> QED
    BY <1>0, <1>2, <2>1, <2>2, <2>3, DeliverCases
<1>3. ASSUME NEW r \in serving, NEW error \in Errors, Answer(r, error)
      PROVE  WireInv'
  <2> DEFINE data == IF error = "none" THEN compress(r.ctype, r.data) ELSE r.data
             msg == ResponseMsg(r.seqid, error, data)
  <2>1. r.by \in Ends /\ r.seqid \in Numbers /\ r.ctype \in CTypes /\ r.data \in Data
    BY <1>0 DEF RpcTypeOK, Responses
  <2>2. data \in Data /\ data.of = r.data.of
    BY <2>1, DataType
  <2>3. /\ msg \in ResponseMsgs /\ msg.seqid = r.seqid /\ msg.data = data
        /\ msg.error = error
    BY <2>1, <2>2 DEF ResponseMsg, ResponseMsgs, Errors
  <2>4. ASSUME r.by # 0
        PROVE  <<msg.seqid, msg.data.of>> \in requests[0] /\ Fits(msg)
    <3>1. /\ <<r.seqid, r.data.of>> \in requests[0]
          /\ r.data = Plain(r.data.of) /\ r.ctype = Request[r.data.of].ctype
      BY <2>4 DEF RInv, ServingInv, GoodServing
    <3>2. error = "none" => data = compress(Request[r.data.of].ctype, Plain(r.data.of))
      BY <3>1
    <3> HIDE DEF data, msg
    <3> QED
      BY <2>2, <2>3, <3>1, <3>2 DEF Fits, Errors
  <2>5. wire' = wire \cup Written(r.by, msg) /\ UNCHANGED requests
    BY <1>3 DEF Answer, callVars
  <2> HIDE DEF data, msg
  <2>6. ASSUME NEW p \in wire' \ wire
        PROVE  p.to \in {0, p.stream} /\ p.stream # 0 /\ GoodResponse(p)'
    BY <1>0, <2>1, <2>3, <2>4, <2>5, GoodAnswer
  <2> QED
    BY <1>0, <2>6, WireKept
<1>4. ASSUME NEW e \in Ends, Lost(e) PROVE WireInv'
  BY <1>0, <1>4, WireKept DEF Lost
<1>5. ASSUME NEW g \in 1..MaxGen, Dies(g) PROVE WireInv'
  BY <1>0, <1>5, WireKept DEF Dies
<1>6. ASSUME Redial PROVE WireInv'
  BY <1>0, <1>6, WireKept DEF Redial
<1>7. ASSUME NEW c \in Calls, TimerFires(c) PROVE WireInv'
  BY <1>0, <1>7, WireKept DEF TimerFires
<1> QED
  BY <1>1, <1>2, <1>3, <1>4, <1>5, <1>6, <1>7 DEF RpcNext

(* Hooks at work. *)

LEMMA ServingKept ==
  ASSUME RpcTypeOK, RpcNext, ServingInv,
         \A r \in serving' \ serving : GoodServing(r)'
  PROVE  ServingInv'
<1>1. 0 \in Ends
  BY MaxGenAssumption DEF Ends
<1>2. requests[0] \subseteq requests'[0]
  BY <1>1, RequestsGrow
<1>3. ASSUME NEW r \in serving PROVE GoodServing(r)'
  <2>1. GoodServing(r)
    BY DEF ServingInv
  <2> QED
    BY <1>2, <2>1 DEF GoodServing
<1> QED
  BY <1>3 DEF ServingInv

(* The argument is as the caller gave it, and the hook the one it named. *)
LEMMA HookOfRequest ==
  ASSUME NEW p, NEW n \in Numbers, NEW c \in Calls, p.msg = RequestMsg(n, c),
         p.msg.type \in Requests
  PROVE  LET q == Request[c] IN
         /\ Param(p) = Plain(c) /\ CTypeOf(p) = q.ctype
         /\ p.msg.method \in DOMAIN handlers =>
              handlers[p.msg.method] = <<q.program, q.method>>
         /\ handler_program(p.msg.method) = q.program
<1> DEFINE q == Request[c]
<1>1. /\ p.msg.ctype = q.ctype /\ p.msg.method = make_method(q.program, q.method)
      /\ p.msg.data = compress(q.ctype, Plain(c))
      /\ p.msg.type = "INVOKE" => q.ctype = "absent"
  BY RequestMsgShape
<1>2. uncompress(q.ctype, p.msg.data) = Plain(c)
  BY <1>1, RequestFields, CompressPlain
<1>3. q.ctype = "absent" => p.msg.data = Plain(c)
  BY <1>1 DEF compress
<1>4. Param(p) = Plain(c) /\ CTypeOf(p) = q.ctype
  BY <1>1, <1>2, <1>3 DEF Param, CTypeOf
<1>5. handler_program(p.msg.method) = q.program
  BY <1>1, RequestFields, ProgramOfMethod
<1>6. p.msg.method \in DOMAIN handlers =>
        handlers[p.msg.method] = <<q.program, q.method>>
  BY <1>1, RequestFields, HandlerOf
<1> QED
  BY <1>4, <1>5, <1>6

LEMMA StepServing ==
  ASSUME RInv, RpcNext
  PROVE  ServingInv'
<1>0. RpcTypeOK /\ ServingInv
  BY DEF RInv
<1>1. ASSUME NEW p \in wire, Deliver(p) PROVE ServingInv'
  <2>1. CASE p.msg \in RequestMsgs /\ p.msg.type \in Requests
             /\ Serve(p, Param(p), CTypeOf(p))
    <3>1. ASSUME NEW r \in serving' \ serving PROVE GoodServing(r)'
      <4>1. /\ p.msg.method \in DOMAIN handlers
            /\ r = [by |-> p.to, seqid |-> p.msg.seqid, ctype |-> CTypeOf(p),
                    hook |-> handlers[p.msg.method], data |-> Param(p),
                    this |-> get_handler_this(p.to, p.msg.method)]
            /\ UNCHANGED requests
        BY <2>1 DEF Serve, callVars
      <4>2. PICK n \in Numbers, c \in Calls :
              /\ p.msg = RequestMsg(n, c) /\ <<n, c>> \in requests[Asker(p)]
              /\ p.msg.seqid = n
              /\ p.to = 0 => Request[c].from = "server"
              /\ p.to # 0 => Asker(p) = 0
        BY <2>1, RequestServed
      <4>3. /\ Param(p) = Plain(c) /\ CTypeOf(p) = Request[c].ctype
            /\ handlers[p.msg.method] = <<Request[c].program, Request[c].method>>
            /\ handler_program(p.msg.method) = Request[c].program
        BY <2>1, <4>1, <4>2, HookOfRequest
      <4>4. r.data = Plain(c) /\ r.data.of = c /\ r.by = p.to /\ r.seqid = n
            /\ r.ctype = Request[c].ctype
            /\ r.hook = <<Request[c].program, Request[c].method>>
        BY <4>1, <4>2, <4>3 DEF Plain
      <4>5. p.to # 0 => r.this = <<p.to, Request[c].program>>
        BY <4>1, <4>3 DEF get_handler_this
      <4> QED
        BY <4>1, <4>2, <4>4, <4>5 DEF GoodServing
    <3> QED
      BY <1>0, <3>1, ServingKept
  <2>2. CASE UNCHANGED serving
    BY <1>0, <2>2, ServingKept
  <2> QED
    BY <1>0, <1>1, <2>1, <2>2, DeliverCases DEF ServeNotify
<1>2. ASSUME NEW r \in serving, NEW error \in Errors, Answer(r, error)
      PROVE  ServingInv'
  BY <1>0, <1>2, ServingKept DEF Answer
<1>3. ASSUME UNCHANGED serving PROVE ServingInv'
  BY <1>0, <1>3, ServingKept
<1>4. ASSUME NEW e \in Ends, NEW c \in Calls, Invoke(e, c) PROVE ServingInv'
  BY <1>3, <1>4 DEF Invoke
<1>5. ASSUME NEW e \in Ends, Lost(e) PROVE ServingInv'
  BY <1>3, <1>5 DEF Lost
<1>6. ASSUME NEW g \in 1..MaxGen, Dies(g) PROVE ServingInv'
  BY <1>3, <1>6 DEF Dies
<1>7. ASSUME Redial PROVE ServingInv'
  BY <1>3, <1>7 DEF Redial
<1>8. ASSUME NEW c \in Calls, TimerFires(c) PROVE ServingInv'
  BY <1>3, <1>8 DEF TimerFires
<1> QED
  BY <1>1, <1>2, <1>4, <1>5, <1>6, <1>7, <1>8 DEF RpcNext

(* Callbacks. *)

LEMMA OutcomeKept ==
  ASSUME OutcomeInv, UNCHANGED outcome, NEW S,
         \A e \in Ends : requests[e] \subseteq requests'[e],
         invocations'[0] \subseteq invocations[0] \cup S,
         \A x \in S : outcome[x[2]] = <<>>
  PROVE  OutcomeInv'
<1>1. OwnReplies'
  BY DEF OutcomeInv, OwnReplies, RightOutcome
<1>2. \A x \in invocations'[0] : outcome'[x[2]] = <<>>
  BY DEF OutcomeInv
<1>3. \A c \in Calls : Unsent(c)' => Unsent(c)
  BY DEF Unsent
<1>4. \A c \in Calls : Request[c].from = "client" /\ Unsent(c)' => outcome'[c] = <<>>
  BY <1>3 DEF OutcomeInv
<1> QED
  BY <1>1, <1>2, <1>4 DEF OutcomeInv

LEMMA OutcomeGiven ==
  ASSUME OutcomeInv, UNCHANGED requests, NEW given, Ran(given),
         DOMAIN given \subseteq Calls,
         invocations'[0] \subseteq invocations[0],
         \A x \in invocations'[0] : x[2] \in Calls \ DOMAIN given,
         \A c \in DOMAIN given : ~Unsent(c),
         \A c \in DOMAIN given : Request[c].from = "client" =>
           outcome[c] = <<>> /\ RightAnswer(c, given[c])
  PROVE  OutcomeInv'
<1>1. ASSUME NEW c \in Calls, Request[c].from = "client" PROVE RightOutcome(c)'
  <2>1. CASE c \in DOMAIN given
    <3>1. outcome'[c] = <<given[c]>> /\ RightAnswer(c, given[c])
      BY <1>1, <2>1 DEF Ran
    <3>2. /\ Len(outcome'[c]) = 1 /\ outcome'[c][1] = given[c]
          /\ \A i \in 1..Len(outcome'[c]) : outcome'[c][i] = given[c]
      BY <3>1
    <3>3. \A i \in 1..Len(outcome'[c]) : RightAnswer(c, outcome'[c][i])
      BY <3>1, <3>2
    <3> QED
      BY <3>2, <3>3 DEF RightOutcome
  <2>2. CASE c \notin DOMAIN given
    <3>1. outcome'[c] = outcome[c] /\ RightOutcome(c)
      BY <1>1, <2>2 DEF Ran, OutcomeInv, OwnReplies
    <3> QED
      BY <3>1 DEF RightOutcome
  <2> QED
    BY <2>1, <2>2
<1>2. \A x \in invocations'[0] : outcome'[x[2]] = <<>>
  BY DEF OutcomeInv, Ran
<1>3. \A c \in Calls : Unsent(c)' => Unsent(c)
  BY DEF Unsent
<1>4. \A c \in Calls : Request[c].from = "client" /\ Unsent(c)' => outcome'[c] = <<>>
  BY <1>3 DEF OutcomeInv, Ran
<1> QED
  BY <1>1, <1>2, <1>4 DEF OutcomeInv, OwnReplies

(* The calls of one end, and those of the client's table. *)
LEMMA CalleesOf ==
  ASSUME RInv, NEW e \in Ends, NEW x \in invocations[e]
  PROVE  /\ x \in Numbers \X Calls /\ x = <<x[1], x[2]>> /\ x \in requests[e]
         /\ x[2] \in Calls /\ ~Unsent(x[2])
         /\ (Request[x[2]].from = "client" <=> e = 0)
         /\ \A y \in invocations[0] : y[2] = x[2] => e = 0 /\ x = y
         /\ e = 0 => outcome[x[2]] = <<>>
<1>0. 0 \in Ends
  BY MaxGenAssumption DEF Ends
<1>1. x \in Numbers \X Calls /\ x \in requests[e]
  BY DEF RInv, RpcTypeOK, NumberInv
<1>2. Request[x[2]].from = "client" <=> e = 0
  BY <1>1 DEF RInv, NumberInv
<1>3. ASSUME NEW y \in invocations[0], y[2] = x[2] PROVE e = 0 /\ x = y
  <2>1. y \in requests[0] /\ Request[y[2]].from = "client"
    BY <1>0 DEF RInv, NumberInv
  <2>2. e = 0
    BY <2>1, <1>2, <1>3
  <2> QED
    BY <1>1, <1>3, <2>1, <2>2 DEF RInv, NumberInv
<1>4. e = 0 => outcome[x[2]] = <<>>
  BY DEF RInv, OutcomeInv
<1> QED
  BY <1>1, <1>2, <1>3, <1>4 DEF Unsent

(* A response to the client is about the call it finds. *)
LEMMA ResponseFits ==
  ASSUME RInv, NEW p \in wire, p.msg \in ResponseMsgs, p.to = 0,
         NEW x \in Found(0, p.msg.seqid)
  PROVE  RightAnswer(x[2], Given(p.msg, x[2]))
<1>0. 0 \in Ends
  BY MaxGenAssumption DEF Ends
<1>1. ~GoodRequest(p)
  <2> SUFFICES ASSUME GoodRequest(p) PROVE FALSE
    OBVIOUS
  <2>1. PICK n \in Numbers, c \in Calls : p.msg = RequestMsg(n, c)
    BY DEF GoodRequest
  <2>2. p.msg.type = "RESPONSE"
    BY DEF ResponseMsgs
  <2> QED
    BY <2>1, <2>2, RequestMsgShape
<1>2. <<p.msg.seqid, p.msg.data.of>> \in requests[0] /\ Fits(p.msg)
  BY <1>1 DEF RInv, WireInv, GoodResponse
<1>3. x \in invocations[0] /\ x[1] = p.msg.seqid
  BY DEF Found
<1>4. x \in requests[0] /\ x[2] \in Calls
  BY <1>0, <1>3, CalleesOf
<1>5. x = <<p.msg.seqid, p.msg.data.of>>
  BY <1>0, <1>2, <1>3, <1>4 DEF RInv, NumberInv
<1>6. p.msg.data.of = x[2]
  BY <1>5
<1>7. CASE p.msg.error = "none"
  <2>1. uncompress(Request[x[2]].ctype, p.msg.data) = Plain(x[2])
    BY <1>2, <1>4, <1>6, <1>7, RequestFields, CompressPlain DEF Fits
  <2>2. Given(p.msg, x[2]) = Outcome("none", Plain(x[2]))
    BY <1>7, <2>1 DEF Given
  <2> QED
    BY <2>2 DEF Outcome, Plain, RightAnswer
<1>8. CASE p.msg.error # "none"
  <2>1. Given(p.msg, x[2]) = Outcome(p.msg.error, p.msg.data)
    BY <1>8 DEF Given
  <2>2. /\ Given(p.msg, x[2]).how = p.msg.error
        /\ Given(p.msg, x[2]).data = p.msg.data
    BY <2>1 DEF Outcome
  <2>3. p.msg.error = "unknown method" =>
          make_method(Request[x[2]].program, Request[x[2]].method)
            \notin DOMAIN handlers
    BY <1>2, <1>6 DEF Fits
  <2> QED
    BY <1>6, <1>8, <2>2, <2>3 DEF RightAnswer
<1> QED
  BY <1>7, <1>8

LEMMA StepOutcome ==
  ASSUME RInv, RpcNext
  PROVE  OutcomeInv'
<1>0. RpcTypeOK /\ OutcomeInv /\ 0 \in Ends
  BY MaxGenAssumption DEF RInv, Ends
<1>1. \A e \in Ends : requests[e] \subseteq requests'[e]
  BY <1>0, RequestsGrow
<1>2. ASSUME NEW e \in Ends, NEW c \in Calls, Invoke(e, c) PROVE OutcomeInv'
  <2>1. CASE e = 0
    <3>1. outcome[c] = <<>>
      BY <1>0, <1>2, <2>1 DEF Invoke, OutcomeInv
    <3>2. invocations'[0] \subseteq invocations[0] \cup {<<seqid[0], c>>}
      BY <1>0, <1>2, <2>1 DEF Invoke, RpcTypeOK
    <3>3. UNCHANGED outcome
      BY <1>2 DEF Invoke
    <3> DEFINE S == {<<seqid[0], c>>}
    <3>4. \A x \in S : outcome[x[2]] = <<>>
      BY <3>1
    <3>5. invocations'[0] \subseteq invocations[0] \cup S
      BY <3>2
    <3> HIDE DEF S
    <3> QED
      BY <1>0, <1>1, <3>3, <3>4, <3>5, OutcomeKept
  <2>2. CASE e # 0
    <3>1. invocations'[0] \subseteq invocations[0] \cup {} /\ UNCHANGED outcome
      BY <1>0, <1>2, <2>2 DEF Invoke, RpcTypeOK
    <3> QED
      BY <1>0, <1>1, <3>1, OutcomeKept
  <2> QED
    BY <2>1, <2>2
<1>3. ASSUME UNCHANGED <<outcome, invocations>> PROVE OutcomeInv'
  <2>1. invocations'[0] \subseteq invocations[0] \cup {}
    BY <1>3
  <2> QED
    BY <1>0, <1>1, <1>3, <2>1, OutcomeKept
<1>4. ASSUME NEW p \in wire, Deliver(p) PROVE OutcomeInv'
  <2>1. CASE UNCHANGED callVars
    BY <1>3, <2>1 DEF callVars
  <2>2. CASE p.msg \in ResponseMsgs /\ HandleResponse(p.to, p.msg)
    <3> DEFINE given == GivenTo(p.to, p.msg)
               F == Found(p.to, p.msg.seqid)
    <3>0. p.to \in Ends
      BY <1>0, <1>4, DeliverCases
    <3>1. Ran(given) /\ UNCHANGED requests
      BY <1>0, <2>2, <3>0, ResponseCallbacks, ResponseTable
    <3>2. invocations'[0] \subseteq invocations[0]
          /\ (p.to = 0 => invocations'[0] = invocations[0] \ F)
      BY <1>0, <2>2, <3>0, ResponseTable
    <3>3. /\ DOMAIN given = {x[2] : x \in F} /\ F \subseteq invocations[p.to]
          /\ \A c \in DOMAIN given : given[c] = Given(p.msg, c)
      BY DEF GivenTo, Found
    <3>4. ASSUME NEW c \in DOMAIN given
          PROVE  /\ c \in Calls /\ ~Unsent(c)
                 /\ Request[c].from = "client" =>
                      outcome[c] = <<>> /\ RightAnswer(c, given[c])
      <4>1. PICK x \in F : c = x[2]
        BY <3>3
      <4>2. /\ c \in Calls /\ ~Unsent(c)
            /\ Request[c].from = "client" => p.to = 0 /\ outcome[c] = <<>>
        BY <3>0, <3>3, <4>1, CalleesOf
      <4>3. p.to = 0 => RightAnswer(c, Given(p.msg, c))
        BY <2>2, <4>1, ResponseFits
      <4> QED
        BY <3>3, <4>2, <4>3
    <3>5. ASSUME NEW y \in invocations'[0] PROVE y[2] \in Calls \ DOMAIN given
      <4>1. y \in invocations[0] /\ y[2] \in Calls
        BY <1>0, <3>2, CalleesOf
      <4>2. \A x \in F : y[2] = x[2] => p.to = 0 /\ x = y
        BY <3>0, <3>3, <4>1, CalleesOf
      <4>3. p.to = 0 => y \notin F
        BY <3>2
      <4> QED
        BY <3>3, <4>1, <4>2, <4>3
    <3> HIDE DEF given, F
    <3> QED
      BY <1>0, <3>1, <3>2, <3>4, <3>5, OutcomeGiven
  <2> QED
    BY <1>0, <1>4, <2>1, <2>2, DeliverCases DEF Serve, ServeNotify
<1>5. ASSUME NEW e \in Ends, Lost(e) PROVE OutcomeInv'
  <2> DEFINE given == EOFTo(e)
  <2>1. Ran(given) /\ UNCHANGED requests
    BY <1>0, <1>5, LostCallbacks, LostTable
  <2>2. invocations'[0] \subseteq invocations[0] /\ (e = 0 => invocations'[0] = {})
    BY <1>0, <1>5, LostTable
  <2>3. /\ DOMAIN given = {x[2] : x \in invocations[e]}
        /\ \A c \in DOMAIN given : given[c] = Outcome("eof", Plain(c))
    BY DEF EOFTo
  <2> HIDE DEF given
  <2>4. ASSUME NEW c \in DOMAIN given
        PROVE  /\ c \in Calls /\ ~Unsent(c)
               /\ Request[c].from = "client" =>
                    outcome[c] = <<>> /\ RightAnswer(c, given[c])
    <3>1. PICK x \in invocations[e] : c = x[2]
      BY <2>3
    <3>2. /\ c \in Calls /\ ~Unsent(c)
          /\ Request[c].from = "client" => outcome[c] = <<>>
      BY <3>1, CalleesOf
    <3>3. given[c] = Outcome("eof", Plain(c))
      BY <2>3
    <3>4. RightAnswer(c, given[c])
      BY <3>3 DEF Outcome, Plain, RightAnswer
    <3> QED
      BY <3>2, <3>4
  <2>5. ASSUME NEW y \in invocations'[0] PROVE y[2] \in Calls \ DOMAIN given
    <3>1. y \in invocations[0] /\ y[2] \in Calls /\ e # 0
      BY <1>0, <2>2, CalleesOf
    <3>2. \A x \in invocations[e] : y[2] # x[2]
      BY <3>1, CalleesOf
    <3> QED
      BY <2>3, <3>1, <3>2
  <2> QED
    BY <1>0, <2>1, <2>2, <2>4, <2>5, OutcomeGiven
<1>6. ASSUME NEW c \in Calls, TimerFires(c) PROVE OutcomeInv'
  BY <1>3, <1>6 DEF TimerFires
<1>7. ASSUME NEW r \in serving, NEW error \in Errors, Answer(r, error)
      PROVE  OutcomeInv'
  BY <1>3, <1>7 DEF Answer, callVars
<1>8. ASSUME NEW g \in 1..MaxGen, Dies(g) PROVE OutcomeInv'
  BY <1>3, <1>8 DEF Dies, callVars
<1>9. ASSUME Redial PROVE OutcomeInv'
  BY <1>3, <1>9 DEF Redial, callVars
<1> QED
  BY <1>2, <1>4, <1>5, <1>6, <1>7, <1>8, <1>9 DEF RpcNext

(* Timers. *)

LEMMA TimersGiven ==
  ASSUME RpcTypeOK, TimersOfWaitingCalls, NEW given, Ran(given),
         \A x \in invocations[0] : x \in invocations'[0] \/ x[2] \in DOMAIN given
  PROVE  TimersOfWaitingCalls'
<1> SUFFICES ASSUME NEW c \in Calls, timer'[c] = "set"
             PROVE  outcome'[c] = <<>> /\ \E x \in invocations'[0] : x[2] = c
  BY DEF TimersOfWaitingCalls
<1>1. c \notin DOMAIN given
  BY DEF Ran
<1>2. outcome'[c] = outcome[c] /\ timer[c] = "set"
  BY <1>1 DEF Ran
<1>3. outcome[c] = <<>> /\ \E x \in invocations[0] : x[2] = c
  BY <1>2 DEF TimersOfWaitingCalls
<1> QED
  BY <1>1, <1>2, <1>3

LEMMA StepTimers ==
  ASSUME RInv, RpcNext
  PROVE  TimersOfWaitingCalls'
<1>0. RpcTypeOK /\ TimersOfWaitingCalls /\ 0 \in Ends
  BY MaxGenAssumption DEF RInv, Ends
<1>1. ASSUME NEW e \in Ends, NEW c \in Calls, Invoke(e, c)
      PROVE  TimersOfWaitingCalls'
  <2>1. UNCHANGED outcome /\ invocations[0] \subseteq invocations'[0]
    BY <1>0, <1>1 DEF Invoke, RpcTypeOK
  <2>2. CASE ~IsTimed(e)
    BY <1>0, <1>1, <2>1, <2>2 DEF Invoke, TimersOfWaitingCalls
  <2>3. CASE IsTimed(e)
    <3>1. e = 0 /\ <<seqid[0], c>> \in invocations'[0]
          /\ timer' = [timer EXCEPT ![c] = "set"]
      BY <1>0, <1>1, <2>3 DEF Invoke, IsTimed, Registers, RpcTypeOK
    <3>2. outcome[c] = <<>>
      BY <1>1, <3>1 DEF Invoke, RInv, OutcomeInv
    <3> SUFFICES ASSUME NEW d \in Calls, timer'[d] = "set"
                 PROVE  outcome'[d] = <<>> /\ \E x \in invocations'[0] : x[2] = d
      BY DEF TimersOfWaitingCalls
    <3>3. CASE d = c
      <4>1. <<seqid[0], c>>[2] = d
        BY <3>3
      <4> QED
        BY <2>1, <3>1, <3>2, <3>3, <4>1
    <3>4. CASE d # c
      <4>1. timer[d] = "set"
        BY <1>0, <3>1, <3>4 DEF RpcTypeOK
      <4> QED
        BY <1>0, <2>1, <4>1 DEF TimersOfWaitingCalls
    <3> QED
      BY <3>3, <3>4
  <2> QED
    BY <2>2, <2>3
<1>2. ASSUME UNCHANGED <<timer, outcome, invocations>> PROVE TimersOfWaitingCalls'
  BY <1>0, <1>2 DEF TimersOfWaitingCalls
<1>3. ASSUME NEW p \in wire, Deliver(p) PROVE TimersOfWaitingCalls'
  <2>1. CASE UNCHANGED callVars
    BY <1>2, <2>1 DEF callVars
  <2>2. CASE p.msg \in ResponseMsgs /\ HandleResponse(p.to, p.msg)
    <3>1. p.to \in Ends
      BY <1>0, <1>3, DeliverCases
    <3>2. Ran(GivenTo(p.to, p.msg))
      BY <1>0, <2>2, <3>1, ResponseCallbacks
    <3>3. ASSUME NEW x \in invocations[0]
          PROVE  x \in invocations'[0] \/ x[2] \in DOMAIN GivenTo(p.to, p.msg)
      <4>1. x \in invocations'[0] \/ x \in Found(p.to, p.msg.seqid)
        BY <1>0, <2>2, <3>1, ResponseTable
      <4> QED
        BY <4>1 DEF GivenTo
    <3> QED
      BY <1>0, <3>2, <3>3, TimersGiven
  <2> QED
    BY <1>0, <1>3, <2>1, <2>2, DeliverCases DEF Serve, ServeNotify
<1>4. ASSUME NEW e \in Ends, Lost(e) PROVE TimersOfWaitingCalls'
  <2>1. Ran(EOFTo(e))
    BY <1>0, <1>4, LostCallbacks
  <2>2. ASSUME NEW x \in invocations[0]
        PROVE  x \in invocations'[0] \/ x[2] \in DOMAIN EOFTo(e)
    <3>1. x \in invocations'[0] \/ e = 0
      BY <1>0, <1>4, LostTable
    <3> QED
      BY <3>1 DEF EOFTo
  <2> QED
    BY <1>0, <2>1, <2>2, TimersGiven
<1>5. ASSUME NEW c \in Calls, TimerFires(c) PROVE TimersOfWaitingCalls'
  BY <1>0, <1>5 DEF TimerFires, TimersOfWaitingCalls, RpcTypeOK
<1>6. ASSUME NEW r \in serving, NEW error \in Errors, Answer(r, error)
      PROVE  TimersOfWaitingCalls'
  BY <1>2, <1>6 DEF Answer, callVars
<1>7. ASSUME NEW g \in 1..MaxGen, Dies(g) PROVE TimersOfWaitingCalls'
  BY <1>2, <1>7 DEF Dies, callVars
<1>8. ASSUME Redial PROVE TimersOfWaitingCalls'
  BY <1>2, <1>8 DEF Redial, callVars
<1> QED
  BY <1>1, <1>3, <1>4, <1>5, <1>6, <1>7, <1>8 DEF RpcNext

-----------------------------------------------------------------------------
(* Calls that wait. *)

LEMMA StepTable ==
  ASSUME RInv, RpcNext
  PROVE  TableInv'
<1>0. RpcTypeOK /\ TableInv
  BY DEF RInv
<1>1. ASSUME NEW e \in Ends, NEW c \in Calls, Invoke(e, c) PROVE TableInv'
  BY <1>0, <1>1 DEF Invoke, streamVars, TableInv, RpcTypeOK
<1>2. ASSUME up \subseteq up', UNCHANGED invocations PROVE TableInv'
  BY <1>0, <1>2 DEF TableInv
<1>3. ASSUME NEW p \in wire, Deliver(p) PROVE TableInv'
  <2>1. UNCHANGED up /\ p.to \in Ends
    BY <1>0, <1>3, DeliverCases DEF streamVars
  <2>2. CASE UNCHANGED callVars
    BY <1>2, <2>1, <2>2 DEF callVars
  <2>3. CASE p.msg \in ResponseMsgs /\ HandleResponse(p.to, p.msg)
    <3>1. \A f \in Ends : invocations'[f] \subseteq invocations[f]
      BY <1>0, <2>1, <2>3, ResponseTable
    <3> QED
      BY <1>0, <2>1, <3>1 DEF TableInv
  <2> QED
    BY <1>0, <1>3, <2>2, <2>3, DeliverCases DEF Serve, ServeNotify
<1>4. ASSUME NEW e \in Ends, Lost(e) PROVE TableInv'
  BY <1>0, <1>4, LostTable DEF TableInv
<1>5. ASSUME NEW c \in Calls, TimerFires(c) PROVE TableInv'
  BY <1>2, <1>5 DEF TimerFires, streamVars
<1>6. ASSUME NEW r \in serving, NEW error \in Errors, Answer(r, error)
      PROVE  TableInv'
  BY <1>2, <1>6 DEF Answer, callVars, streamVars
<1>7. ASSUME NEW g \in 1..MaxGen, Dies(g) PROVE TableInv'
  BY <1>2, <1>7 DEF Dies, callVars
<1>8. ASSUME Redial PROVE TableInv'
  BY <1>2, <1>8 DEF Redial, callVars
<1> QED
  BY <1>1, <1>3, <1>4, <1>5, <1>6, <1>7, <1>8 DEF RpcNext

(* What carries a call that waits: a message, or a hook. *)
Carries(p, e, n, c) ==
  /\ p.stream = StreamOf(e) /\ p.msg.seqid = n
  /\ \/ p.to = e /\ p.msg.type = "RESPONSE"
     \/ p.to = PeerOf(e) /\ p.msg.type # "RESPONSE" /\ p.msg.data.of = c

Works(r, e, n, c) == r.by = PeerOf(e) /\ r.seqid = n /\ r.data.of = c

LEMMA WayKept ==
  ASSUME UNCHANGED gen, up' \subseteq up, live' \subseteq live,
         NEW e, NEW n, NEW c, OnItsWay(e, n, c),
         \A p \in wire : Carries(p, e, n, c) => p \in wire' \/ OnItsWay(e, n, c)',
         \A r \in serving : Works(r, e, n, c) => r \in serving' \/ OnItsWay(e, n, c)'
  PROVE  OnItsWay(e, n, c)'
BY DEF OnItsWay, Carries, Works, StreamOf, PeerOf, HalfClosed

(* An answer that is written carries the call. *)
LEMMA WrittenBack ==
  ASSUME RpcTypeOK, UNCHANGED streamVars, NEW e \in Ends, NEW n, NEW c, NEW msg,
         msg.type = "RESPONSE", msg.seqid = n, Written(PeerOf(e), msg) \subseteq wire'
  PROVE  OnItsWay(e, n, c)'
<1>0. gen \in Nat /\ up \subseteq 0..gen /\ live \subseteq 1..gen /\ e \in Nat
      /\ gen' = gen /\ up' = up /\ live' = live
  BY MaxGenAssumption DEF RpcTypeOK, streamVars, Ends
<1>1. CASE StreamOf(e) \notin live \/ HalfClosed(StreamOf(e))
  BY <1>0, <1>1 DEF OnItsWay, StreamOf, HalfClosed
<1>2. CASE StreamOf(e) \in live /\ ~HalfClosed(StreamOf(e))
  <2>1. StreamOf(e) = gen /\ gen # 0 /\ gen \in up /\ 0 \in up
    BY <1>0, <1>2 DEF StreamOf, HalfClosed
  <2>2. e = 0 \/ e = gen
    BY <2>1 DEF StreamOf
  <2>3. PeerOf(e) \in up /\ StreamOf(PeerOf(e)) = gen /\ PeerOf(PeerOf(e)) = e
    BY <2>1, <2>2 DEF StreamOf, PeerOf
  <2>4. [stream |-> gen, to |-> e, msg |-> msg] \in wire'
    BY <1>2, <2>1, <2>3 DEF Written
  <2> QED
    BY <1>0, <2>1, <2>4 DEF OnItsWay, StreamOf
<1> QED
  BY <1>1, <1>2

LEMMA StepWaiting ==
  ASSUME RInv, RpcNext
  PROVE  WaitingCallsCanEnd'
<1>0. RpcTypeOK /\ WaitingCallsCanEnd /\ TableInv
  BY DEF RInv
<1>1. ASSUME NEW e \in Ends, NEW x \in invocations[e], ~Request[x[2]].notify
      PROVE  OnItsWay(e, x[1], x[2])
  BY <1>0, <1>1 DEF WaitingCallsCanEnd
<1>2. ASSUME UNCHANGED gen, up' \subseteq up, live' \subseteq live, wire \subseteq wire',
             serving \subseteq serving',
             \A e \in Ends : invocations'[e] \subseteq invocations[e]
      PROVE  WaitingCallsCanEnd'
  BY <1>1, <1>2, WayKept DEF WaitingCallsCanEnd
<1>3. ASSUME NEW f \in Ends, NEW d \in Calls, Invoke(f, d) PROVE WaitingCallsCanEnd'
  <2> SUFFICES ASSUME NEW e \in Ends, NEW x \in invocations'[e], ~Request[x[2]].notify
               PROVE  OnItsWay(e, x[1], x[2])'
    BY DEF WaitingCallsCanEnd
  <2>0. UNCHANGED <<gen, up, live, serving>> /\ wire \subseteq wire'
    BY <1>3 DEF Invoke, streamVars
  <2>1. CASE x \in invocations[e]
    BY <1>1, <2>0, <2>1, WayKept
  <2>2. CASE x \notin invocations[e]
    <3>1. e = f /\ x = <<seqid[f], d>>
      BY <1>0, <1>3, <2>2 DEF Invoke, RpcTypeOK
    <3>2. x[1] = seqid[e] /\ x[2] = d /\ seqid[e] \in Numbers
      BY <1>0, <3>1 DEF RpcTypeOK
    <3> DEFINE msg == RequestMsg(seqid[e], d)
    <3>3. msg.seqid = x[1] /\ msg.data.of = x[2] /\ msg.type # "RESPONSE"
      BY <3>2, RequestMsgShape
    <3>4. e \in up /\ Written(e, msg) \subseteq wire'
      BY <1>3, <3>1 DEF Invoke
    <3> HIDE DEF msg
    <3>5. CASE StreamOf(e) \in live
      <4>1. [stream |-> StreamOf(e), to |-> PeerOf(e), msg |-> msg] \in wire'
        BY <3>4, <3>5 DEF Written
      <4> QED
        BY <2>0, <3>3, <4>1 DEF OnItsWay, StreamOf, PeerOf
    <3>6. CASE StreamOf(e) \notin live
      BY <2>0, <3>6 DEF OnItsWay, StreamOf
    <3> QED
      BY <3>5, <3>6
  <2> QED
    BY <2>1, <2>2
<1>4. ASSUME NEW p \in wire, Deliver(p) PROVE WaitingCallsCanEnd'
  <2>0. UNCHANGED streamVars /\ p.to \in Ends /\ p.stream \in live
        /\ gen' = gen /\ up' = up /\ live' = live
    BY <1>0, <1>4, DeliverCases DEF streamVars
  <2> SUFFICES ASSUME NEW e \in Ends, NEW x \in invocations'[e], ~Request[x[2]].notify
               PROVE  OnItsWay(e, x[1], x[2])'
    BY DEF WaitingCallsCanEnd
  <2>1. CASE p.msg \in RequestMsgs /\ p.msg.type \in Requests
             /\ Serve(p, Param(p), CTypeOf(p))
    <3>1. OnItsWay(e, x[1], x[2]) /\ serving \subseteq serving' /\ wire \ {p} \subseteq wire'
      BY <1>1, <2>1 DEF Serve, callVars
    <3>2. ASSUME Carries(p, e, x[1], x[2]) PROVE OnItsWay(e, x[1], x[2])'
      <4>1. p.to = PeerOf(e) /\ p.msg.seqid = x[1] /\ Param(p).of = x[2]
        BY <2>1, <3>2, ParamType DEF Carries, Requests
      <4>2. CASE p.msg.method \in DOMAIN handlers
        <5> DEFINE r == [by |-> p.to, seqid |-> p.msg.seqid, ctype |-> CTypeOf(p),
                         hook |-> handlers[p.msg.method], data |-> Param(p),
                         this |-> get_handler_this(p.to, p.msg.method)]
        <5>1. r \in serving'
          BY <2>1, <4>2 DEF Serve
        <5>2. r.by = PeerOf(e) /\ r.seqid = x[1] /\ r.data.of = x[2]
          BY <4>1
        <5> HIDE DEF r
        <5> QED
          BY <2>0, <5>1, <5>2 DEF OnItsWay, PeerOf
      <4>3. CASE p.msg.method \notin DOMAIN handlers
        <5> DEFINE msg == ResponseMsg(p.msg.seqid, "unknown method", Param(p))
        <5>1. Written(PeerOf(e), msg) \subseteq wire'
          BY <2>1, <4>1, <4>3 DEF Serve, UnknownMethod
        <5>2. msg.type = "RESPONSE" /\ msg.seqid = x[1]
          BY <4>1 DEF ResponseMsg
        <5> HIDE DEF msg
        <5> QED
          BY <1>0, <2>0, <5>1, <5>2, WrittenBack
      <4> QED
        BY <4>2, <4>3
    <3> QED
      BY <2>0, <3>1, <3>2, WayKept
  <2>2. CASE p.msg.type = "NOTIFY" /\ ServeNotify(p)
    <3>1. /\ OnItsWay(e, x[1], x[2]) /\ serving' = serving /\ wire' = wire \ {p}
          /\ x[2] \in Calls
      BY <1>0, <1>1, <2>2 DEF ServeNotify, callVars, RpcTypeOK
    <3>2. ~Carries(p, e, x[1], x[2])
      <4> SUFFICES ASSUME Carries(p, e, x[1], x[2]) PROVE FALSE
        OBVIOUS
      <4>1. p.msg \in RequestMsgs
        BY <1>0, <2>2 DEF RpcTypeOK, Packets, ResponseMsgs
      <4>2. PICK n \in Numbers, c \in Calls :
              p.msg = RequestMsg(n, c) /\ p.msg.data.of = c
        BY <4>1, RequestServed
      <4>3. c = x[2] /\ TypeOf(Request[c]) = "NOTIFY"
        BY <2>2, <4>2, RequestMsgShape DEF Carries
      <4> QED
        BY <4>3 DEF TypeOf
    <3> QED
      BY <2>0, <3>1, <3>2, WayKept
  <2>3. CASE /\ p.msg \in ResponseMsgs /\ HandleResponse(p.to, p.msg)
             /\ wire' = wire \ {p} /\ UNCHANGED serving
    <3>1. x \in invocations[e] /\ (p.to = e => x \notin Found(e, p.msg.seqid))
      BY <1>0, <2>0, <2>3, ResponseTable
    <3>2. OnItsWay(e, x[1], x[2])
      BY <1>1, <3>1
    <3>3. ~Carries(p, e, x[1], x[2])
      BY <2>3, <3>1 DEF Carries, Found, ResponseMsgs
    <3> QED
      BY <2>0, <2>3, <3>2, <3>3, WayKept
  <2> QED
    BY <1>0, <1>4, <2>1, <2>2, <2>3, DeliverCases
<1>5. ASSUME NEW r \in serving, NEW error \in Errors, Answer(r, error)
      PROVE  WaitingCallsCanEnd'
  <2>0. UNCHANGED streamVars /\ gen' = gen /\ up' = up /\ live' = live
        /\ UNCHANGED invocations /\ wire \subseteq wire' /\ serving \ {r} \subseteq serving'
    BY <1>5 DEF Answer, streamVars, callVars
  <2> SUFFICES ASSUME NEW e \in Ends, NEW x \in invocations[e], ~Request[x[2]].notify
               PROVE  OnItsWay(e, x[1], x[2])'
    BY <2>0 DEF WaitingCallsCanEnd
  <2>1. ASSUME Works(r, e, x[1], x[2]) PROVE OnItsWay(e, x[1], x[2])'
    <3> DEFINE msg == ResponseMsg(r.seqid, error,
                        IF error = "none" THEN compress(r.ctype, r.data) ELSE r.data)
    <3>1. Written(PeerOf(e), msg) \subseteq wire'
      BY <1>5, <2>1 DEF Answer, Works
    <3>2. msg.type = "RESPONSE" /\ msg.seqid = x[1]
      BY <2>1 DEF ResponseMsg, Works
    <3> HIDE DEF msg
    <3> QED
      BY <1>0, <2>0, <3>1, <3>2, WrittenBack
  <2> QED
    BY <1>1, <2>0, <2>1, WayKept
<1>6. ASSUME NEW f \in Ends, Lost(f) PROVE WaitingCallsCanEnd'
  BY <1>0, <1>2, <1>6, LostTable
<1>7. ASSUME NEW g \in 1..MaxGen, Dies(g) PROVE WaitingCallsCanEnd'
  <2> SUFFICES ASSUME NEW e \in Ends, NEW x \in invocations[e], ~Request[x[2]].notify
               PROVE  OnItsWay(e, x[1], x[2])'
    BY <1>7 DEF WaitingCallsCanEnd, Dies, callVars
  <2>1. /\ gen' = gen /\ up' = up /\ live' = live \ {g} /\ serving' = serving
        /\ \A p \in wire : p \in wire' \/ p.stream = g
    BY <1>7 DEF Dies
  <2>2. CASE StreamOf(e) = g
    BY <2>1, <2>2 DEF OnItsWay, StreamOf
  <2>3. CASE StreamOf(e) # g
    BY <1>1, <2>1, <2>3, WayKept DEF Carries
  <2> QED
    BY <2>2, <2>3
<1>8. ASSUME Redial PROVE WaitingCallsCanEnd'
  <2> SUFFICES ASSUME NEW e \in Ends, NEW x \in invocations[e], ~Request[x[2]].notify
               PROVE  OnItsWay(e, x[1], x[2])'
    BY <1>8 DEF WaitingCallsCanEnd, Redial, callVars
  <2>1. e \in up /\ e # 0 /\ e \in 0..gen /\ gen \in Nat /\ gen' = gen + 1
    <3>1. e \in up
      BY <1>0 DEF TableInv
    <3>2. 0 \notin up /\ gen' = gen + 1
      BY <1>8 DEF Redial
    <3>3. gen \in Nat /\ up \subseteq 0..gen
      BY <1>0, MaxGenAssumption DEF RpcTypeOK
    <3> QED
      BY <3>1, <3>2, <3>3
  <2> QED
    BY <2>1 DEF OnItsWay, StreamOf, HalfClosed
<1>9. ASSUME NEW c \in Calls, TimerFires(c) PROVE WaitingCallsCanEnd'
  BY <1>2, <1>9 DEF TimerFires, streamVars
<1> QED
  BY <1>3, <1>4, <1>5, <1>6, <1>7, <1>8, <1>9 DEF RpcNext

-----------------------------------------------------------------------------
(* The invariant holds of every behaviour. *)

LEMMA InitRInv == RpcInit => RInv
<1> SUFFICES ASSUME RpcInit PROVE RInv
  OBVIOUS
<1>1. RpcTypeOK
  <2>1. <<>> \in Seq([how : Hows, data : Data])
    OBVIOUS
  <2> QED
    BY <2>1, MaxGenAssumption DEF RpcInit, RpcTypeOK, FirstSeqid, Numbers
<1>2. NumberInv /\ WireInv /\ ServingInv
  BY DEF RpcInit, NumberInv, WireInv, ServingInv
<1>3. 0 \in Ends
  BY MaxGenAssumption DEF Ends
<1>4. OutcomeInv
  BY <1>3 DEF RpcInit, OutcomeInv, OwnReplies, RightOutcome
<1>5. TimersOfWaitingCalls /\ TableInv /\ WaitingCallsCanEnd
  BY DEF RpcInit, TimersOfWaitingCalls, TableInv, WaitingCallsCanEnd
<1> QED
  BY <1>1, <1>2, <1>4, <1>5 DEF RInv

LEMMA StepRInv == RInv /\ [RpcNext]_rpcVars => RInv'
<1> SUFFICES ASSUME RInv, [RpcNext]_rpcVars PROVE RInv'
  OBVIOUS
<1>1. CASE RpcNext
  <2>1. RpcTypeOK' /\ NumberInv' /\ WireInv' /\ ServingInv' /\ OutcomeInv'
    BY <1>1, StepType, StepNumbers, StepWire, StepServing, StepOutcome
  <2>2. TimersOfWaitingCalls' /\ TableInv' /\ WaitingCallsCanEnd'
    BY <1>1, StepTimers, StepTable, StepWaiting
  <2> QED
    BY <2>1, <2>2 DEF RInv
<1>2. CASE UNCHANGED rpcVars
  <2>1. UNCHANGED <<gen, up, live, wire, seqid, invocations, requests, serving,
                    outcome, timer>>
    BY <1>2 DEF rpcVars, streamVars, callVars
  <2>2. RpcTypeOK' /\ NumberInv' /\ ServingInv' /\ TableInv'
    BY <2>1 DEF RInv, RpcTypeOK, NumberInv, ServingInv, GoodServing, TableInv
  <2>3. WireInv'
    BY <2>1 DEF RInv, WireInv, GoodRequest, GoodResponse
  <2>4. OutcomeInv' /\ TimersOfWaitingCalls'
    BY <2>1 DEF RInv, OutcomeInv, OwnReplies, RightOutcome, Unsent,
                TimersOfWaitingCalls
  <2>5. WaitingCallsCanEnd'
    BY <2>1 DEF RInv, WaitingCallsCanEnd, OnItsWay, StreamOf, PeerOf, HalfClosed
  <2> QED
    BY <2>2, <2>3, <2>4, <2>5 DEF RInv
<1> QED
  BY <1>1, <1>2

LEMMA RpcInvariant == RpcSpec => []RInv
BY InitRInv, StepRInv, PTL DEF RpcSpec

(* Types of the variables of dispatch.js and transport.js, for any calls. *)
THEOREM RpcType == RpcSpec => []RpcTypeOK
<1>1. RInv => RpcTypeOK
  BY DEF RInv
<1> QED
  BY RpcInvariant, <1>1, PTL

(* The callback of a call of the client gets its own reply or an error of   *)
(* its own, once, over any number of reconnects (dispatch.js 169-188,        *)
(* 224-297; transport.js 299-309).                                          *)
THEOREM RepliesAreOwn == RpcSpec => []OwnReplies
<1>1. RInv => OwnReplies
  BY DEF RInv, OutcomeInv
<1> QED
  BY RpcInvariant, <1>1, PTL

(* Every request is served by the hook and with the `this' of its program,  *)
(* for any set of programs and names (dispatch.js 311-353, server.js        *)
(* 134-141).                                                                *)
THEOREM ServedByProgram == RpcSpec => []ServedByItsProgram
<1>1. ASSUME RInv, NEW r \in serving
      PROVE  LET q == Request[r.data.of] IN
             /\ r.data.form = "plain"
             /\ r.hook = <<q.program, q.method>>
             /\ IF q.from = "client" THEN r.by # 0 /\ r.this = <<r.by, q.program>>
                                     ELSE r.by = 0
  <2> DEFINE q == Request[r.data.of]
  <2>1. GoodServing(r)
    BY <1>1 DEF RInv, ServingInv
  <2>2. r.data.form = "plain" /\ r.hook = <<q.program, q.method>> /\ r.data.of \in Calls
    BY <2>1 DEF GoodServing, Plain
  <2>3. r.by # 0 => q.from = "client" /\ r.this = <<r.by, q.program>>
    <3>1. 0 \in Ends
      BY MaxGenAssumption DEF Ends
    <3>2. r.by # 0 => <<r.seqid, r.data.of>> \in requests[0] /\ r.this = <<r.by, q.program>>
      BY <2>1 DEF GoodServing
    <3>3. \A x \in requests[0] : Request[x[2]].from = "client"
      BY <1>1, <3>1 DEF RInv, NumberInv
    <3>4. <<r.seqid, r.data.of>>[2] = r.data.of
      OBVIOUS
    <3> QED
      BY <3>2, <3>3, <3>4
  <2>4. r.by = 0 => q.from = "server"
    BY <2>1 DEF GoodServing
  <2> HIDE DEF q
  <2>5. IF q.from = "client" THEN r.by # 0 /\ r.this = <<r.by, q.program>>
                             ELSE r.by = 0
    BY <2>3, <2>4
  <2> QED
    BY <2>2, <2>5 DEF q
<1>2. RInv => ServedByItsProgram
  BY <1>1 DEF ServedByItsProgram
<1> QED
  BY RpcInvariant, <1>2, PTL

(* No timer of the error threshold runs for a call that has ended           *)
(* (transport.js 732-768).                                                  *)
THEOREM TimersAreOfWaitingCalls == RpcSpec => []TimersOfWaitingCalls
<1>1. RInv => TimersOfWaitingCalls
  BY DEF RInv
<1> QED
  BY RpcInvariant, <1>1, PTL

(* A call in the table can still end: what it waits for is under way, or    *)
(* its stream is bound to be lost (dispatch.js 124-188, 299-309).           *)
THEOREM WaitingCallsEnd == RpcSpec => []WaitingCallsCanEnd
<1>1. RInv => WaitingCallsCanEnd
  BY DEF RInv
<1> QED
  BY RpcInvariant, <1>1, PTL
=============================================================================
