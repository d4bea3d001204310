------------------------------ MODULE Transport ------------------------------
(***************************************************************************)
(* transport.js: a Dispatch on top of a TCP stream.  Both classes are       *)
(* modelled, the base Transport (Robust = FALSE: once it is down it stays   *)
(* down until somebody calls connect) and RobustTransport (Robust = TRUE:   *)
(* it reconnects and it queues calls while it is disconnected).             *)
(*                                                                          *)
(* A stream is its generation number.  @_netw is the generation of the      *)
(* current StreamWrapper, 0 for null; a wrapper outlives its stream, so the *)
(* set `open' says which wrappers still have a non-null @_net_stream and    *)
(* `live' which sockets have still to emit their 'close' event.             *)
(*                                                                          *)
(* The process is single threaded.  What runs without returning to the      *)
(* event loop is cut into steps only where it calls user code (the EOF      *)
(* callbacks, the connected hook, the callback of connect), because user    *)
(* code calls the transport back.  Three variables say how far the current  *)
(* turn has got: the lock holder's pc, `unwinding' (what StreamWrapper.close *)
(* returns to, after its sweep) and `retry' (a failed connect that has      *)
(* still to call _reconnect).  Events are handled when the turn is over.    *)
(***************************************************************************)
EXTENDS Dispatch, Functions

CONSTANTS
  Robust,       \* RobustTransport or Transport
  QueueMax,     \* @queue_max
  Hook,         \* hooks.after_connect: "absent", "works", "fails", "calls"
  HookCalls,    \* the calls that a hook which "calls" makes
  UserOps,      \* what users call besides invoke and connect
  MaxGen,       \* bound: streams from this generation on are not lost
  MaxWaiting    \* bound: users call connect with fewer waiting for the lock

ASSUME RobustAssumption   == Robust \in BOOLEAN
ASSUME QueueMaxAssumption == QueueMax \in Nat
ASSUME HookAssumption     == Hook \in {"absent", "works", "fails", "calls"}
ASSUME HookCallsAssumption == HookCalls \subseteq Calls
ASSUME OpsAssumption      ==
  UserOps \subseteq {"close", "reset", "wrapper close", "cancel"}

VARIABLES
  explicit_close, \* @_explicit_close
  netw,           \* @_netw
  generation,     \* @_generation
  open,           \* wrappers whose @_net_stream is not null
  live,           \* sockets whose 'close' event has not been handled
  holder,         \* who holds @_lock and where it is, or Free
  lockq,          \* who waits for @_lock, first come first served
  waiters,        \* @_waiters
  tmp,            \* the local variable of _flush_queue
  unwinding,      \* what StreamWrapper.close returns to after its sweep
  incallback,     \* that sweep has called user code
  retry,          \* failed connects that have still to call _reconnect
  via,            \* the stream each request was written to, 0 for none
  refused,        \* calls answered "socket was closed"
  dropped,        \* calls lost to a full queue
  handed,         \* history: calls that were handed to invoke
  troubled,       \* history: streams hit by an event of their own socket, by
                  \* data that is no frame or by reset
  loops           \* history: how many loops lost streams have started

streamVars == <<explicit_close, netw, generation, open, live, troubled, loops>>
lockVars   == <<holder, lockq, retry>>
queueVars  == <<waiters, tmp, refused, dropped, handed>>
frameVars  == <<unwinding, incallback>>
vars == <<dispatchVars, streamVars, lockVars, queueVars, frameVars, via>>

-----------------------------------------------------------------------------
(* The lock holder: a call to connect, or a _connect_loop that has still    *)
(* its initial delay before it ("re") or not ("first").                     *)
Kinds == {"connect", "re", "first"}
Points == {"run", "dial", "up", "hook", "await", "flush", "delay", "backoff"}
Free  == [kind |-> "nobody", pc |-> "free"]
At(kind, pc) == [kind |-> kind, pc |-> pc]
Move(pc) == holder' = [holder EXCEPT !.pc = pc] /\ UNCHANGED lockq

Connected == netw \in open

(* Lock.acquire: at once when the lock is free, else at the end of the line.*)
Acquire(kind) ==
  IF holder = Free
    THEN holder' = At(kind, "run") /\ UNCHANGED lockq
    ELSE lockq' = Append(lockq, kind) /\ UNCHANGED holder

(* Lock.release hands the lock to the next in line, which runs at once. *)
Release ==
  IF lockq = <<>>
    THEN holder' = Free /\ UNCHANGED lockq
    ELSE holder' = At(Head(lockq), "run") /\ lockq' = Tail(lockq)

(* User code is running, or may run: between two events, in the connected   *)
(* hook, in the callback of connect and in those of an EOF sweep.           *)
UserTurn ==
  /\ holder.pc \notin {"run", "flush"}
  /\ unwinding = "nothing" \/ incallback

(* The turn is over: the event loop may handle the next event. *)
Idle ==
  /\ holder.pc \notin {"run", "up", "flush"}
  /\ unwinding = "nothing"
  /\ retry = 0

(* A client starts without a stream, a listener's child with the accepted one. *)
TransportInit ==
  /\ DispatchInit
  /\ explicit_close = FALSE
  /\ \/ netw = 0 /\ generation = 1 /\ open = {} /\ live = {}
     \/ netw = 1 /\ generation = 2 /\ open = {1} /\ live = {1}
  /\ holder = Free /\ lockq = <<>> /\ retry = 0
  /\ waiters = <<>> /\ tmp = <<>> /\ refused = {} /\ dropped = {} /\ handed = {}
  /\ troubled = {} /\ loops = 0
  /\ unwinding = "nothing" /\ incallback = FALSE
  /\ via = [c \in Calls |-> 0]

-----------------------------------------------------------------------------
(* Calls. *)

Queued(c) == c \in Range(waiters) \cup Range(tmp)

Fresh(c) == c \notin handed

(* Dispatch.invoke through _raw_write: the write reaches the current stream, *)
(* or nobody when there is none, and the table entry is made all the same.  *)
SendInvoke(c) ==
  /\ DispatchInvoke(c)
  /\ via' = [via EXCEPT ![c] = IF Connected THEN netw ELSE 0]

(* RobustTransport.invoke and Transport.invoke, but for `tmp'. *)
TransportInvoke(c) ==
  \/ /\ Connected \/ ~Robust
     /\ SendInvoke(c)
     /\ UNCHANGED <<waiters, refused, dropped>>
  \/ /\ Robust /\ ~Connected
     /\ \/ /\ explicit_close
           /\ refused' = refused \cup {c}
           /\ UNCHANGED <<waiters, dropped>>
        \/ /\ ~explicit_close /\ Len(waiters) < QueueMax
           /\ waiters' = Append(waiters, c)
           /\ UNCHANGED <<refused, dropped>>
        \/ /\ ~explicit_close /\ Len(waiters) >= QueueMax
           /\ dropped' = dropped \cup {c}
           /\ UNCHANGED <<waiters, refused>>
     /\ UNCHANGED <<dispatchVars, via>>

Invoke(c) ==
  /\ UserTurn
  /\ c \in Calls \ HookCalls /\ Fresh(c)
  /\ TransportInvoke(c) /\ handed' = handed \cup {c}
  /\ UNCHANGED <<streamVars, lockVars, frameVars, tmp>>

(* Only Transport.invoke passes `out' on, so only its calls have a cancel. *)
Cancel(r) ==
  /\ UserTurn /\ ~Robust /\ "cancel" \in UserOps
  /\ DispatchCancel(r)
  /\ UNCHANGED <<streamVars, lockVars, queueVars, frameVars, via>>

(* A RESPONSE on the stream the request was written to.  A stream that was  *)
(* closed locally is only half closed: its data is still dispatched.        *)
Response(r) ==
  /\ Idle
  /\ via[r[3]] \in live
  /\ HandleResponse(r)
  /\ UNCHANGED <<streamVars, lockVars, queueVars, frameVars, via>>

-----------------------------------------------------------------------------
(* Closing. *)

(* StreamWrapper.close: only the first one has any effect.  `after' is what *)
(* the caller does once the EOF sweep is over, if this was the first.  One  *)
(* mutant fails no call, the other can be closed again and again.           *)
WrapperCloseNoSweep(w, after) ==
  IF w \in open
    THEN /\ open' = open \ {w}
         /\ unwinding' = after /\ incallback' = FALSE
         /\ UNCHANGED dispatchVars
    ELSE UNCHANGED <<open, dispatchVars, frameVars>>

WrapperCloseAgain(w, after) ==
  IF w # 0
    THEN /\ open' = open \ {w}
         /\ DispatchReset
         /\ unwinding' = after /\ incallback' = FALSE
    ELSE UNCHANGED <<open, dispatchVars, frameVars>>

WrapperClose(w, after) ==
  IF w \in open
    THEN /\ open' = open \ {w}
         /\ DispatchReset
         /\ unwinding' = after /\ incallback' = FALSE
    ELSE UNCHANGED <<open, dispatchVars, frameVars>>

(* One EOF callback. *)
SweepNext ==
  /\ holder.pc # "run"
  /\ ResetNext
  /\ incallback' = TRUE
  /\ UNCHANGED <<streamVars, lockVars, queueVars, unwinding, via>>

(* _reconnect: nothing in Transport, a _connect_loop in RobustTransport.    *)
(* The mutant leaves it to whoever holds the lock.                          *)
ReconnectIfFree(kind) ==
  IF Robust /\ ~explicit_close /\ holder = Free
    THEN Acquire(kind) ELSE UNCHANGED <<holder, lockq>>

Reconnect(kind) ==
  IF Robust /\ ~explicit_close THEN Acquire(kind) ELSE UNCHANGED <<holder, lockq>>

(* The sweep is over: back to close, to _close, or to the user's w.close(). *)
Unwind ==
  /\ unwinding # "nothing" /\ resetting = {} /\ holder.pc # "run"
  /\ unwinding' = "nothing" /\ incallback' = FALSE
  /\ netw' = IF unwinding = "close" THEN 0 ELSE netw
  /\ IF unwinding = "_close" THEN Reconnect("re") ELSE UNCHANGED <<holder, lockq>>
  /\ loops' = IF UNCHANGED <<holder, lockq>> THEN loops ELSE loops + 1
  /\ UNCHANGED <<dispatchVars, queueVars, explicit_close, generation, open, live,
                 troubled, retry, via>>

(* Transport.close. *)
Close ==
  /\ UserTurn /\ "close" \in UserOps
  /\ netw < MaxGen
  /\ explicit_close' = TRUE
  /\ WrapperClose(netw, "close")
  /\ netw' = IF Connected THEN netw ELSE 0
  /\ UNCHANGED <<lockVars, queueVars, generation, live, troubled, loops, via>>

(* Transport._close(w), of which reset() is the call with the current       *)
(* wrapper.                                                                 *)
CloseAndReconnect(w) ==
  /\ WrapperClose(w, "_close")
  /\ UNCHANGED <<lockVars, queueVars, explicit_close, netw, generation, loops, via>>

Trouble(w) == troubled' = troubled \cup ({w} \ {0})

Reset ==
  /\ UserTurn /\ "reset" \in UserOps
  /\ netw < MaxGen
  /\ CloseAndReconnect(netw) /\ Trouble(netw)
  /\ UNCHANGED live

(* A user closes the wrapper that the connected hook was given. *)
UserWrapperClose ==
  /\ UserTurn /\ "wrapper close" \in UserOps
  /\ netw < MaxGen
  /\ WrapperClose(netw, "w.close")
  /\ UNCHANGED <<lockVars, queueVars, explicit_close, netw, generation, live,
                 troubled, loops, via>>

(* The 'error' event of socket g, for the wrapper it was registered with.   *)
StreamError(g) ==
  /\ Idle /\ g \in live /\ g < MaxGen
  /\ CloseAndReconnect(g) /\ Trouble(g)
  /\ UNCHANGED live

(* The 'close' event of socket g, its last.  The mutant closes the current  *)
(* wrapper instead of the one the event handler was made for.               *)
StreamClosedHitsCurrent(g) ==
  /\ Idle /\ g \in live /\ g < MaxGen
  /\ CloseAndReconnect(netw) /\ Trouble(g)
  /\ live' = live \ {g}

StreamClosed(g) ==
  /\ Idle /\ g \in live /\ (g \in open => g < MaxGen)
  /\ CloseAndReconnect(g) /\ Trouble(g)
  /\ live' = live \ {g}

(* Data of socket g that is no frame: _packetize_error takes the current    *)
(* wrapper, whichever socket the data came from.                            *)
BadFrame(g) ==
  /\ Idle /\ g \in live /\ netw < MaxGen
  /\ CloseAndReconnect(netw) /\ Trouble(netw)
  /\ UNCHANGED live

-----------------------------------------------------------------------------
(* Connecting. *)

Connect ==
  /\ UserTurn /\ Len(lockq) < MaxWaiting
  /\ Acquire("connect")
  /\ UNCHANGED <<dispatchVars, streamVars, queueVars, frameVars, retry, via>>

(* The holder of the lock has just got it, or is back at the top of the     *)
(* loop.  connect looks at the connection only, the loop at explicit_close  *)
(* too; the mutants of the loop forget one or the other.                    *)
GoesOnAfterClose == ~Connected
GoesOnConnected == explicit_close => holder.kind = "connect"

GoesOn == ~Connected /\ (explicit_close => holder.kind = "connect")

LockRuns ==
  /\ holder.pc = "run"
  /\ IF GoesOn THEN Move(IF holder.kind = "re" THEN "delay" ELSE "dial")
               ELSE Release
  /\ UNCHANGED <<dispatchVars, streamVars, queueVars, frameVars, retry, via>>

(* The timers of the loop: the initial delay and the pause after a failure. *)
DelayOver ==
  /\ Idle /\ holder.pc \in {"delay", "backoff"}
  /\ holder' = At("first", "run")
  /\ UNCHANGED <<dispatchVars, streamVars, queueVars, frameVars, lockq, retry, via>>

(* _connect_critical_section has called back with an error: the loop pauses, *)
(* connect releases the lock, calls back and tries _reconnect.  The mutant  *)
(* of the loop gives up.                                                    *)
CriticalSectionFailsOnce ==
  Release /\ retry' = IF holder.kind = "connect" THEN retry + 1 ELSE retry

CriticalSectionFails ==
  IF holder.kind = "connect" THEN Release /\ retry' = retry + 1
                             ELSE Move("backoff") /\ UNCHANGED retry

(* ... without one: RobustTransport flushes its queue first.  The loop is   *)
(* over, and so is connect: both release the lock.  One mutant does not     *)
(* flush, the other goes through the queue without emptying it.             *)
CriticalSectionWorksNoFlush ==
  Release /\ UNCHANGED <<queueVars, retry>>

CriticalSectionWorksKeepsQueue ==
  /\ IF Robust THEN tmp' = waiters /\ Move("flush")
               ELSE Release /\ UNCHANGED tmp
  /\ UNCHANGED <<waiters, retry, refused, dropped, handed>>

CriticalSectionWorks ==
  /\ IF Robust THEN /\ tmp' = waiters /\ waiters' = <<>>
                    /\ Move("flush")
               ELSE Release /\ UNCHANGED <<waiters, tmp>>
  /\ UNCHANGED <<retry, refused, dropped, handed>>

(* ERR, CLS or TMO first. *)
DialFails ==
  /\ Idle /\ holder.pc = "dial"
  /\ CriticalSectionFails
  /\ UNCHANGED <<dispatchVars, streamVars, queueVars, frameVars, via>>

(* next_generation, and a mutant that gives every stream the same number. *)
SameGeneration == generation
NextGeneration == generation + 1

(* CON first: _activate_stream, up to the connected hook. *)
DialWorks ==
  /\ Idle /\ holder.pc = "dial"
  /\ netw' = generation /\ generation' = NextGeneration
  /\ open' = open \cup {generation} /\ live' = live \cup {generation}
  /\ Move("up")
  /\ UNCHANGED <<dispatchVars, queueVars, frameVars, explicit_close, troubled, loops,
                 retry, via>>

(* The connected hook returns: after_connect is called, if there is one. *)
StreamIsUp ==
  /\ holder.pc = "up" /\ unwinding = "nothing"
  /\ \/ Hook = "absent" /\ CriticalSectionWorks
     \/ Hook # "absent" /\ Move("hook") /\ UNCHANGED <<queueVars, retry>>
  /\ UNCHANGED <<dispatchVars, streamVars, frameVars, via>>

(* after_connect makes an RPC of its own and waits for its outcome. *)
HookInvokes(c) ==
  /\ Idle /\ holder.pc = "hook" /\ Hook = "calls"
  /\ c \in HookCalls /\ Fresh(c)
  /\ TransportInvoke(c) /\ handed' = handed \cup {c}
  /\ Move("await")
  /\ UNCHANGED <<streamVars, frameVars, retry, tmp>>

HookMayReturn ==
  \/ holder.pc = "hook" /\ (Hook = "calls" => \A c \in HookCalls : ~Fresh(c))
  \/ holder.pc = "await" /\ \A c \in HookCalls : ~Fresh(c) =>
                              outcome[c] # <<>> \/ c \in refused

HookWorks ==
  /\ Idle /\ HookMayReturn
  /\ CriticalSectionWorks
  /\ UNCHANGED <<dispatchVars, streamVars, frameVars, via>>

HookFails ==
  /\ Idle /\ HookMayReturn /\ Hook \in {"fails", "calls"}
  /\ CriticalSectionFails
  /\ UNCHANGED <<dispatchVars, streamVars, queueVars, frameVars, via>>

(* One iteration of _flush_queue: invoke again, whatever has happened since. *)
(* One mutant starts from the end, the other gives up without a stream.     *)
FlushNextLast ==
  /\ holder.pc = "flush" /\ tmp # <<>>
  /\ TransportInvoke(tmp[Len(tmp)])
  /\ tmp' = SubSeq(tmp, 1, Len(tmp) - 1)
  /\ UNCHANGED <<streamVars, lockVars, frameVars, handed>>

FlushNextGivesUp ==
  /\ holder.pc = "flush" /\ tmp # <<>>
  /\ IF Connected THEN TransportInvoke(Head(tmp)) /\ tmp' = Tail(tmp)
                  ELSE tmp' = <<>>
                       /\ UNCHANGED <<dispatchVars, waiters, refused, dropped, via>>
  /\ UNCHANGED <<streamVars, lockVars, frameVars, handed>>

FlushNext ==
  /\ holder.pc = "flush" /\ tmp # <<>>
  /\ TransportInvoke(Head(tmp))
  /\ tmp' = Tail(tmp)
  /\ UNCHANGED <<streamVars, lockVars, frameVars, handed>>

FlushEnds ==
  /\ holder.pc = "flush" /\ tmp = <<>>
  /\ Release
  /\ UNCHANGED <<dispatchVars, streamVars, queueVars, frameVars, retry, via>>

(* The end of a connect that failed, after its callback. *)
RetryConnect ==
  /\ retry > 0 /\ unwinding = "nothing" /\ holder.pc # "run"
  /\ retry' = retry - 1
  /\ Reconnect("first")
  /\ UNCHANGED <<dispatchVars, streamVars, queueVars, frameVars, via>>

-----------------------------------------------------------------------------
(* What runs to the end of a turn, without the event loop. *)
Turn ==
  LockRuns \/ SweepNext \/ Unwind \/ StreamIsUp \/ FlushNext \/ FlushEnds
  \/ RetryConnect

HookSteps == HookWorks \/ HookFails \/ \E c \in HookCalls : HookInvokes(c)

Network ==
  \/ DialWorks \/ DialFails
  \/ \E g \in live : StreamError(g) \/ StreamClosed(g) \/ BadFrame(g)
  \/ \E r \in requests : Response(r)

User ==
  \/ Connect \/ Close \/ Reset \/ UserWrapperClose
  \/ \E c \in Calls : Invoke(c)
  \/ \E r \in requests : Cancel(r)

Next == Turn \/ DelayOver \/ HookSteps \/ Network \/ User

Spec == TransportInit /\ [][Next]_vars

(* A turn runs to its end, timers fire, an after_connect hook calls back    *)
(* once it can, a dial ends; and a server that is dialled again and again   *)
(* answers in the end.  Nothing is assumed of users, errors and responses.  *)
FairSpec ==
  /\ Spec
  /\ WF_vars(Turn)
  /\ SF_vars(DelayOver)
  /\ SF_vars(HookWorks)
  /\ SF_vars(\E c \in HookCalls : HookInvokes(c))
  /\ SF_vars(DialWorks)

-----------------------------------------------------------------------------
(* Types of the variables. *)
TransportTypeOK ==
  /\ DispatchTypeOK
  /\ explicit_close \in BOOLEAN
  /\ netw \in Nat /\ generation \in Nat \ {0}
  /\ open \subseteq live /\ live \subseteq 1..(generation - 1)
  /\ holder \in {Free} \cup [kind : Kinds, pc : Points]
  /\ lockq \in Seq(Kinds)
  /\ waiters \in Seq(Calls) /\ tmp \in Seq(Calls)
  /\ unwinding \in {"nothing", "close", "_close", "w.close"}
  /\ incallback \in BOOLEAN
  /\ retry \in Nat
  /\ via \in [Calls -> Nat]
  /\ refused \subseteq Calls /\ dropped \subseteq Calls /\ handed \subseteq Calls
  /\ troubled \subseteq 1..(generation - 1) /\ loops \in Nat

(* A queue leaves in the order it was filled: no call is sent while one that *)
(* was queued before it is still queued, not even when the stream is lost   *)
(* before the flush and all are queued again.                               *)
Before(a, b, s) == \E i, j \in 1..Len(s) : i < j /\ s[i] = a /\ s[j] = b

QueueInOrder ==
  [][\A a, b \in Calls : Before(a, b, waiters \o tmp) /\ Queued(a)'
       => Queued(b)' /\ Before(a, b, (waiters \o tmp)')]_vars

(* A call that was accepted into the queue is not lost to overflow later,   *)
(* when a flush finds the stream gone and queues it again.                  *)
AcceptedNotDropped ==
  [][\A c \in Calls : Queued(c) => c \notin dropped']_vars

(* There is never more than one stream in use, and it is the one @_netw     *)
(* wraps: the lock keeps connect and the loops from dialling next to an     *)
(* open stream, and nothing forgets a stream without closing it.            *)
OneLiveStream ==
  /\ open \subseteq {netw}
  /\ holder.pc \in {"dial", "delay"} => open = {}

(* A call in the table waits for an answer that can still come: the stream  *)
(* it was written to is open.  (The base class also registers calls that    *)
(* were written nowhere.)                                                   *)
PendingOnLiveStream ==
  \A e \in invocations : via[e[2]] \in open \cup (IF Robust THEN {} ELSE {0})

(* A call that was handed to invoke is in exactly one place: queued, being  *)
(* flushed, sent, answered "socket was closed" or lost to a full queue; one *)
(* that was not is in none.  So a flush that fails half way loses no call.  *)
(* The queue has no call twice and never more than @queue_max.              *)
CallsConserved ==
  /\ \A c \in Calls :
       c \in handed <=> ~Unsent(c) \/ Queued(c) \/ c \in refused \cup dropped
  /\ Len(waiters) <= QueueMax
  /\ IsInjective(waiters) /\ IsInjective(tmp)
  /\ Range(waiters) \cap Range(tmp) = {}
  /\ \A c \in Calls : Queued(c) => Unsent(c) /\ c \notin refused \cup dropped
  /\ \A r \in requests : r[3] \notin refused \cup dropped
  /\ refused \cap dropped = {}

(* Somebody will look at the connection again. *)
Reconnecting ==
  \/ retry > 0 \/ unwinding = "_close" \/ lockq # <<>>
  \/ holder.pc \in {"run", "dial", "delay", "backoff"}

(* A robust transport that has lost its stream, not by close, has somebody  *)
(* on the way to reconnect it.                                              *)
SomeoneReconnects ==
  Robust /\ netw # 0 /\ ~Connected /\ ~explicit_close => Reconnecting

(* No call is left in the queue of a transport that is connected and has no *)
(* connect or loop at work that could still flush it.                       *)
QueueDrained ==
  Connected /\ holder = Free /\ retry = 0 => waiters = <<>>

(* After a close, with no connect under way, the transport is disconnected  *)
(* and nothing but a call to connect, or a dial that was in flight, can     *)
(* change that.                                                             *)
Closed ==
  /\ explicit_close /\ open = {} /\ holder.pc # "dial"
  /\ "connect" \notin Range(lockq) \cup {holder.kind}

StaysClosed == [][Closed => Closed' \/ Connect]_vars

(* Each stream accounts for one reconnect loop at the most, and only when   *)
(* something has happened to itself: the 'error' and the 'close' of one     *)
(* socket start one loop together, whether the 'close' comes in the turn of *)
(* the 'error' or after the reconnect, and none of an old socket's events   *)
(* closes the stream that has taken its place (src/transport.iced:82-86).   *)
OneLoopPerLoss ==
  loops + (IF unwinding = "_close" THEN 1 ELSE 0) <= Cardinality(troubled)

(* A robust transport that has lost its stream gets another one, unless it  *)
(* is closed.                                                               *)
Reconnects ==
  Robust /\ netw # 0 /\ ~Connected ~> Connected \/ explicit_close

(* A queued call leaves the queue, unless the transport is closed. *)
QueueMovesOn ==
  \A c \in Calls : Queued(c) /\ netw # 0 ~> ~Queued(c) \/ explicit_close

(* The transport uses Dispatch as its own specification says: an EOF sweep  *)
(* is never started inside another one, no call is invoked twice.           *)
UsesDispatch == DispatchSpec

-----------------------------------------------------------------------------
(* What the repository says and the code does not do. *)

(* README.md on close: the transport will not attempt a reconnection.  Here *)
(* in its weakest form: no stream becomes active after close, unless some   *)
(* connect is under way.                                                    *)
CloseIsFinal ==
  [][explicit_close /\ "connect" \notin Range(lockq) \cup {holder.kind}
       => open' \subseteq open]_vars
=============================================================================
