------------------------- MODULE TransportStepProofs -------------------------
(***************************************************************************)
(* Proofs about the steps of Transport, for any calls, queue size, hook and *)
(* bounds: the queue keeps its order and loses nothing it has accepted,     *)
(* through losses of the stream before and in a flush; a closed transport   *)
(* stays closed.                                                            *)
(***************************************************************************)
EXTENDS TransportProofs

-----------------------------------------------------------------------------
(* Sequences. *)

LEMMA RangeConcat ==
  ASSUME NEW S, NEW s \in Seq(S), NEW t \in Seq(S)
  PROVE  /\ s \o t \in Seq(S)
         /\ Range(s \o t) = Range(s) \cup Range(t)
<1> DEFINE u == s \o t
<1>1. /\ u \in Seq(S) /\ DOMAIN u = 1..(Len(s) + Len(t))
      /\ DOMAIN s = 1..Len(s) /\ DOMAIN t = 1..Len(t)
      /\ Len(s) \in Nat /\ Len(t) \in Nat
  OBVIOUS
<1>2. /\ \A i \in 1..Len(s) : u[i] = s[i]
      /\ \A i \in 1..Len(t) : u[Len(s) + i] = t[i]
  OBVIOUS
<1> HIDE DEF u
<1>3. ASSUME NEW i \in DOMAIN u PROVE u[i] \in Range(s) \cup Range(t)
  <2>1. CASE i <= Len(s)
    BY <1>1, <1>2, <2>1 DEF Range
  <2>2. CASE i > Len(s)
    <3>1. i - Len(s) \in 1..Len(t) /\ Len(s) + (i - Len(s)) = i
      BY <1>1, <2>2
    <3> QED
      BY <1>1, <1>2, <3>1 DEF Range
  <2> QED
    BY <1>1, <2>1, <2>2
<1>4. ASSUME NEW i \in DOMAIN s PROVE s[i] \in Range(u)
  BY <1>1, <1>2 DEF Range
<1>5. ASSUME NEW i \in DOMAIN t PROVE t[i] \in Range(u)
  <2>1. Len(s) + i \in DOMAIN u
    BY <1>1
  <2> QED
    BY <1>1, <1>2, <2>1 DEF Range
<1>6. Range(u) = Range(s) \cup Range(t)
  BY <1>3, <1>4, <1>5 DEF Range
<1> QED
  BY <1>1, <1>6 DEF u

LEMMA ConcatInjective ==
  ASSUME NEW S, NEW s \in Seq(S), NEW t \in Seq(S),
         IsInjective(s), IsInjective(t), Range(s) \cap Range(t) = {}
  PROVE  IsInjective(s \o t)
<1> DEFINE u == s \o t
<1>1. /\ DOMAIN u = 1..(Len(s) + Len(t))
      /\ DOMAIN s = 1..Len(s) /\ DOMAIN t = 1..Len(t)
      /\ Len(s) \in Nat /\ Len(t) \in Nat
  OBVIOUS
<1>2. /\ \A i \in 1..Len(s) : u[i] = s[i]
      /\ \A i \in 1..Len(t) : u[Len(s) + i] = t[i]
  OBVIOUS
<1> HIDE DEF u
<1>3. ASSUME NEW i \in DOMAIN u, NEW j \in DOMAIN u, u[i] = u[j], i <= Len(s)
      PROVE  i = j
  <2>1. i \in DOMAIN s /\ u[i] = s[i]
    BY <1>1, <1>2, <1>3
  <2>2. CASE j <= Len(s)
    <3>1. j \in DOMAIN s /\ u[j] = s[j]
      BY <1>1, <1>2, <2>2
    <3> QED
      BY <1>3, <2>1, <3>1 DEF IsInjective
  <2>3. CASE j > Len(s)
    <3>1. j - Len(s) \in DOMAIN t /\ Len(s) + (j - Len(s)) = j
      BY <1>1, <2>3
    <3>2. u[j] = t[j - Len(s)]
      BY <1>1, <1>2, <3>1
    <3> QED
      BY <1>3, <2>1, <3>1, <3>2 DEF Range
  <2> QED
    BY <1>1, <2>2, <2>3
<1>4. ASSUME NEW i \in DOMAIN u, NEW j \in DOMAIN u, u[i] = u[j], i > Len(s), j > Len(s)
      PROVE  i = j
  <2>1. /\ i - Len(s) \in DOMAIN t /\ Len(s) + (i - Len(s)) = i
        /\ j - Len(s) \in DOMAIN t /\ Len(s) + (j - Len(s)) = j
    BY <1>1, <1>4
  <2>2. t[i - Len(s)] = t[j - Len(s)]
    BY <1>1, <1>2, <1>4, <2>1
  <2>3. i - Len(s) = j - Len(s)
    BY <2>1, <2>2 DEF IsInjective
  <2> QED
    BY <1>1, <2>3
<1>5. ASSUME NEW i \in DOMAIN u, NEW j \in DOMAIN u, u[i] = u[j] PROVE i = j
  BY <1>1, <1>3, <1>4, <1>5
<1>6. IsInjective(u)
  BY <1>5 DEF IsInjective
<1> QED
  BY <1>6 DEF u

(* What is still there after an element was put at the end or taken from    *)
(* the front has kept its order, and everything behind it is there, too.    *)
LEMMA OrderKept ==
  ASSUME NEW S, NEW s \in Seq(S), IsInjective(s), NEW t,
         \/ t = s
         \/ \E c \in S : t = Append(s, c)
         \/ s # <<>> /\ t = Tail(s),
         NEW a, NEW b, Before(a, b, s), a \in Range(t)
  PROVE  b \in Range(t) /\ Before(a, b, t)
<1>1. PICK i \in 1..Len(s), j \in 1..Len(s) : i < j /\ s[i] = a /\ s[j] = b
  BY DEF Before
<1>2. SUFFICES ASSUME NEW k \in 1..Len(t), NEW l \in 1..Len(t), k < l, t[k] = a, t[l] = b,
                      DOMAIN t = 1..Len(t)
               PROVE  b \in Range(t) /\ Before(a, b, t)
  <2>1. CASE t = s
    BY <1>1, <1>2, <2>1
  <2>2. ASSUME NEW c \in S, t = Append(s, c) PROVE b \in Range(t) /\ Before(a, b, t)
    <3>1. /\ DOMAIN t = 1..Len(t) /\ i \in 1..Len(t) /\ j \in 1..Len(t)
          /\ t[i] = s[i] /\ t[j] = s[j]
      BY <2>2
    <3> QED
      BY <1>1, <1>2, <3>1
  <2>3. CASE s # <<>> /\ t = Tail(s)
    <3>1. Range(s) = {Head(s)} \cup Range(t) /\ Head(s) \notin Range(t) /\ Head(s) = s[1]
      BY <2>3, RangeTail
    <3>2. i # 1
      BY <1>1, <3>1
    <3>3. /\ DOMAIN t = 1..Len(t) /\ Len(t) = Len(s) - 1
          /\ \A k \in 1..Len(t) : t[k] = s[k + 1]
      BY <2>3
    <3>4. /\ i - 1 \in 1..Len(t) /\ j - 1 \in 1..Len(t)
          /\ (i - 1) + 1 = i /\ (j - 1) + 1 = j
      BY <1>1, <3>2, <3>3
    <3>5. t[i - 1] = a /\ t[j - 1] = b /\ i - 1 < j - 1
      BY <1>1, <3>3, <3>4
    <3> QED
      BY <1>2, <3>3, <3>4, <3>5
  <2> QED
    BY <2>1, <2>2, <2>3
<1> QED
  BY <1>2 DEF Range, Before

-----------------------------------------------------------------------------
(* The flush.  In a flush that finds the stream up, or the transport        *)
(* closed, no call has been queued again; and what a flush may have to      *)
(* queue again has room in the queue.                                       *)
FInv ==
  /\ holder.pc = "flush" /\ (Connected \/ ~Robust \/ explicit_close) => waiters = <<>>
  /\ Len(waiters) + Len(tmp) <= QueueMax

(* The order of the queue as a whole. *)
Line == waiters \o tmp

(* How the line moves in one step, and what a full queue loses. *)
LineMoves ==
  /\ \/ Line' = Line
     \/ \E c \in Calls : Line' = Append(Line, c)
     \/ Line # <<>> /\ Line' = Tail(Line)
  /\ \A c \in Calls : Queued(c) => c \notin dropped'

(* Steps that leave the queue alone. *)
LEMMA QueueRests ==
  ASSUME TInv, FInv, UNCHANGED queueVars,
         holder' = holder \/ (tmp = <<>> /\ holder'.pc # "flush"),
         holder.pc = "flush" => UNCHANGED <<Connected, explicit_close>>
  PROVE  FInv' /\ LineMoves
<1>1. FInv'
  BY DEF FInv, queueVars
<1>2. \A c \in Calls : Queued(c) => c \notin dropped'
  BY DEF queueVars, TInv, CallsConserved
<1>3. Line' = Line
  BY DEF Line, queueVars
<1> QED
  BY <1>1, <1>2, <1>3 DEF LineMoves

(* The queue becomes the local variable of the flush. *)
LEMMA QueueTaken ==
  ASSUME TInv, FInv, CriticalSectionWorks, holder # Free, holder.pc # "flush"
  PROVE  FInv' /\ LineMoves
<1>0. LockTypeOK /\ QueueTypeOK /\ tmp = <<>>
  BY DEF TInv, TmpInv
<1>1. \A c \in Calls : Queued(c) => c \notin dropped'
  BY DEF CriticalSectionWorks, TInv, CallsConserved
<1>2. CASE Robust
  <2>1. tmp' = waiters /\ waiters' = <<>> /\ holder'.pc = "flush"
    BY <1>0, <1>2, MoveHolder DEF CriticalSectionWorks, Points
  <2>2. waiters \o <<>> = waiters /\ <<>> \o waiters = waiters /\ Len(waiters) \in Nat
        /\ Len(<<>>) = 0
    BY <1>0 DEF QueueTypeOK
  <2>3. Line' = Line
    BY <1>0, <2>1, <2>2 DEF Line
  <2>4. FInv'
    BY <1>0, <2>1, <2>2 DEF FInv
  <2> QED
    BY <1>1, <2>3, <2>4 DEF LineMoves
<1>3. CASE ~Robust
  <2>1. Release /\ UNCHANGED <<waiters, tmp>>
    BY <1>3 DEF CriticalSectionWorks
  <2>2. holder'.pc # "flush"
    BY <1>0, <2>1, ReleaseLock DEF Free
  <2> QED
    BY <1>0, <1>1, <2>1, <2>2 DEF FInv, Line, LineMoves
<1> QED
  BY <1>2, <1>3

(* A new call is queued behind all others. *)
LEMMA NewCallQueues ==
  ASSUME TInv, FInv, NEW c \in Calls, Fresh(c), TransportInvoke(c), UNCHANGED tmp,
         holder.pc # "flush", holder'.pc # "flush"
  PROVE  FInv' /\ LineMoves
<1>0. QueueTypeOK /\ tmp = <<>> /\ tmp' = <<>> /\ Len(tmp) = 0 /\ Len(waiters) \in Nat
  BY DEF TInv, TmpInv, QueueTypeOK
<1>1. Line = waiters /\ Line' = waiters'
  <2>1. waiters' \in Seq(Calls)
    BY <1>0 DEF TransportInvoke, QueueTypeOK
  <2> QED
    BY <1>0, <2>1 DEF Line, QueueTypeOK
<1>2. \A d \in Calls : Queued(d) => d \notin dropped'
  <2>1. dropped' \subseteq dropped \cup {c}
    BY DEF TransportInvoke
  <2> QED
    BY <2>1, FreshIsNowhere DEF TInv, CallsConserved
<1>3. CASE UNCHANGED waiters
  BY <1>0, <1>1, <1>2, <1>3 DEF FInv, LineMoves
<1>4. CASE Len(waiters) < QueueMax /\ waiters' = Append(waiters, c)
  <2>1. Len(waiters') = Len(waiters) + 1
    BY <1>0, <1>4 DEF QueueTypeOK
  <2>2. FInv'
    BY <1>0, <1>4, <2>1, QueueMaxAssumption DEF FInv
  <2> QED
    BY <1>1, <1>2, <1>4, <2>2 DEF LineMoves
<1> QED
  BY <1>3, <1>4 DEF TransportInvoke

(* One call of the flush: it leaves the line at its front, or it goes from  *)
(* the front of tmp to the end of the queue, which leaves the line alone.   *)
LEMMA FlushMoves ==
  ASSUME TInv, FInv, FlushNext
  PROVE  FInv' /\ LineMoves
<1> DEFINE c == Head(tmp)
<1>0. /\ QueueTypeOK /\ holder.pc = "flush" /\ tmp # <<>>
      /\ TransportInvoke(c) /\ tmp' = Tail(tmp) /\ holder' = holder
      /\ UNCHANGED <<netw, open, explicit_close>>
  BY DEF FlushNext, TInv, lockVars, streamVars
<1>1. /\ Len(waiters) \in Nat /\ Len(tmp) \in Nat \ {0} /\ c \in Calls
      /\ Tail(tmp) \in Seq(Calls) /\ Len(Tail(tmp)) = Len(tmp) - 1
      /\ tmp = <<c>> \o Tail(tmp)
  BY <1>0 DEF QueueTypeOK
<1> HIDE DEF c
<1>2. Queued(c)
  BY <1>0 DEF Queued, Range, QueueTypeOK, c
<1>3. CASE /\ Connected \/ ~Robust \/ explicit_close
           /\ UNCHANGED <<waiters, dropped>>
  <2>1. waiters = <<>> /\ waiters' = <<>> /\ Len(waiters) = 0
    BY <1>0, <1>3 DEF FInv
  <2>2. Line = tmp /\ Line' = Tail(tmp)
    BY <1>0, <1>1, <2>1 DEF Line, QueueTypeOK
  <2>3. FInv'
    BY <1>0, <1>1, <1>3, <2>1, QueueMaxAssumption DEF FInv, Connected
  <2>4. \A d \in Calls : Queued(d) => d \notin dropped'
    BY <1>3 DEF TInv, CallsConserved
  <2> QED
    BY <1>0, <2>2, <2>3, <2>4 DEF LineMoves
<1>4. CASE /\ Robust /\ ~Connected /\ ~explicit_close
           /\ waiters' = Append(waiters, c)
           /\ UNCHANGED dropped
  <2>1. Len(waiters') = Len(waiters) + 1
    BY <1>0, <1>1, <1>4 DEF QueueTypeOK
  <2>2. Line' = Line
    BY <1>0, <1>1, <1>4 DEF Line, QueueTypeOK
  <2>3. FInv'
    BY <1>0, <1>1, <1>4, <2>1, QueueMaxAssumption DEF FInv, Connected
  <2>4. \A d \in Calls : Queued(d) => d \notin dropped'
    BY <1>4 DEF TInv, CallsConserved
  <2> QED
    BY <2>2, <2>3, <2>4 DEF LineMoves
<1>5. ~(Len(waiters) >= QueueMax)
  BY <1>1, QueueMaxAssumption DEF FInv
<1> QED
  BY <1>0, <1>3, <1>4, <1>5 DEF TransportInvoke

(* The steps of the transport. *)
LEMMA StepLine ==
  ASSUME TInv, FInv, Next
  PROVE  FInv' /\ LineMoves
<1> DEFINE Goal == FInv' /\ LineMoves
<1> SUFFICES Goal
  OBVIOUS
<1>0. LockTypeOK /\ (unwinding # "nothing" => open = {}) /\ (holder.pc # "flush" => tmp = <<>>)
  BY DEF TInv, StreamShape, TmpInv
<1>1. ASSUME UNCHANGED queueVars, holder.pc # "flush", holder' = holder \/ holder'.pc # "flush"
      PROVE  Goal
  BY <1>0, <1>1, QueueRests
<1>2. ASSUME UNCHANGED <<queueVars, holder, explicit_close, open, netw>> PROVE Goal
  BY <1>2, QueueRests DEF Connected
<1> HIDE DEF Goal
<1>3. CASE LockRuns
  <2>1. holder # Free /\ holder.pc # "flush"
    BY <1>3 DEF LockRuns, Free
  <2>2. holder'.pc # "flush"
    BY <1>0, <1>3, <2>1, MoveHolder, ReleaseLock DEF LockRuns, Points, Free
  <2> QED
    BY <1>1, <1>3, <2>1, <2>2 DEF LockRuns
<1>4. CASE SweepNext
  BY <1>2, <1>4 DEF SweepNext, streamVars, lockVars
<1>5. ASSUME NEW kind \in Kinds, Acquire(kind) PROVE holder' = holder \/ holder'.pc # "flush"
  BY <1>0, <1>5, AcquireLock
<1>6. CASE Unwind
  <2>1. holder' = holder \/ (holder.pc # "flush" /\ holder'.pc # "flush")
    BY <1>6 DEF Unwind, Reconnect, Acquire, Free, At
  <2>2. Connected = FALSE /\ Connected' = FALSE /\ explicit_close' = explicit_close
    BY <1>0, <1>6 DEF Unwind, Connected
  <2> QED
    BY <1>0, <1>6, <2>1, <2>2, QueueRests DEF Unwind, Goal
<1>7. CASE RetryConnect
  <2>1. holder' = holder \/ (holder.pc # "flush" /\ holder'.pc # "flush")
    BY <1>7 DEF RetryConnect, Reconnect, Acquire, Free, At
  <2> QED
    BY <1>1, <1>2, <1>7, <2>1 DEF RetryConnect, streamVars
<1>8. CASE FlushNext
  BY <1>8, FlushMoves DEF Goal
<1>9. CASE FlushEnds
  <2>1. tmp = <<>> /\ holder'.pc # "flush"
    BY <1>0, <1>9, ReleaseLock DEF FlushEnds, Free
  <2> QED
    BY <1>9, <2>1, QueueRests DEF FlushEnds, streamVars, Connected, Goal
<1>10. ASSUME CriticalSectionWorks, holder.pc \in {"up", "hook", "await"} PROVE Goal
  BY <1>10, QueueTaken DEF Free, Goal
<1>11. ASSUME CriticalSectionFails, UNCHANGED queueVars, holder.pc \in {"dial", "hook", "await"}
       PROVE  Goal
  <2>1. holder # Free /\ retry \in Nat
    BY <1>11 DEF Free, TInv, StreamTypeOK
  <2> QED
    BY <1>0, <1>1, <1>11, <2>1, FailsLock
<1>12. CASE StreamIsUp
  <2>1. CASE Hook # "absent" /\ Move("hook") /\ UNCHANGED <<queueVars, retry>>
    <3>1. holder # Free /\ holder.pc # "flush"
      BY <1>12 DEF StreamIsUp, Free
    <3>2. holder'.pc # "flush"
      BY <1>0, <2>1, <3>1, MoveHolder DEF Points
    <3> QED
      BY <1>1, <2>1, <3>1, <3>2
  <2> QED
    BY <1>10, <1>12, <2>1 DEF StreamIsUp
<1>13. CASE HookWorks
  BY <1>10, <1>13 DEF HookWorks, HookMayReturn
<1>14. CASE HookFails
  BY <1>11, <1>14 DEF HookFails, HookMayReturn
<1>15. CASE DialFails
  BY <1>11, <1>15 DEF DialFails
<1>16. CASE DialWorks
  <2>1. holder # Free /\ holder.pc # "flush"
    BY <1>16 DEF DialWorks, Free
  <2>2. holder'.pc # "flush"
    BY <1>0, <1>16, <2>1, MoveHolder DEF DialWorks, Points
  <2> QED
    BY <1>1, <1>16, <2>1, <2>2 DEF DialWorks
<1>17. CASE DelayOver
  BY <1>1, <1>17 DEF DelayOver, At
<1>18. CASE Connect
  BY <1>1, <1>5, <1>18 DEF Connect, UserTurn, Kinds
<1>19. ASSUME NEW c \in HookCalls, HookInvokes(c) PROVE Goal
  <2>1. holder # Free /\ holder.pc # "flush"
    BY <1>19 DEF HookInvokes, Free
  <2>2. holder'.pc # "flush"
    BY <1>0, <1>19, <2>1, MoveHolder DEF HookInvokes, Points
  <2> QED
    BY <1>19, <2>1, <2>2, NewCallQueues, HookCallsAssumption DEF HookInvokes, Goal
<1>20. ASSUME NEW c \in Calls, Invoke(c) PROVE Goal
  BY <1>20, NewCallQueues DEF Invoke, UserTurn, lockVars, Goal
<1>21. ASSUME NEW r \in requests, Response(r) \/ Cancel(r) PROVE Goal
  BY <1>2, <1>21 DEF Response, Cancel, streamVars, lockVars
<1>22. ASSUME NEW g \in live, StreamError(g) \/ StreamClosed(g) \/ BadFrame(g) PROVE Goal
  BY <1>1, <1>22 DEF StreamError, StreamClosed, BadFrame, CloseAndReconnect, Idle, lockVars
<1>23. CASE Close \/ Reset \/ UserWrapperClose
  BY <1>1, <1>23 DEF Close, Reset, UserWrapperClose, CloseAndReconnect, UserTurn, lockVars
<1> QED
  BY <1>3, <1>4, <1>6, <1>7, <1>8, <1>9, <1>12, <1>13, <1>14, <1>15, <1>16, <1>17,
     <1>18, <1>19, <1>20, <1>21, <1>22, <1>23
  DEF Next, Turn, HookSteps, Network, User

LEMMA FInvAlways == Spec => [](TInv /\ FInv)
<1>1. TransportInit => FInv
  BY QueueMaxAssumption DEF TransportInit, FInv, Free
<1>2. TInv /\ FInv /\ [Next]_vars => FInv'
  <2>1. ASSUME FInv, UNCHANGED vars PROVE FInv'
    BY <2>1 DEF FInv, Connected, vars, streamVars, lockVars, queueVars
  <2> QED
    BY <2>1, StepLine
<1> QED
  BY <1>1, <1>2, TInvAlways, PTL DEF Spec

-----------------------------------------------------------------------------
(* The queue leaves in the order it was filled, also when the stream is     *)
(* lost before the flush and every call is queued again, or when the        *)
(* transport is closed in between.                                          *)
THEOREM QueueKeepsOrder == Spec => QueueInOrder
<1> DEFINE Step == \A a, b \in Calls : Before(a, b, waiters \o tmp) /\ Queued(a)'
                     => Queued(b)' /\ Before(a, b, (waiters \o tmp)')
<1>1. ASSUME TInv, FInv, Next PROVE Step
  <2>1. /\ waiters \in Seq(Calls) /\ tmp \in Seq(Calls)
        /\ IsInjective(waiters) /\ IsInjective(tmp)
        /\ Range(waiters) \cap Range(tmp) = {}
    BY <1>1 DEF TInv, QueueTypeOK, CallsConserved
  <2>2. Line \in Seq(Calls) /\ IsInjective(Line)
    BY <2>1, RangeConcat, ConcatInjective DEF Line
  <2>3. waiters' \in Seq(Calls) /\ tmp' \in Seq(Calls)
    BY <1>1, StepCalls DEF QueueTypeOK
  <2>4. \A c : Queued(c)' <=> c \in Range(Line')
    BY <2>3, RangeConcat DEF Queued, Line
  <2>5. \/ Line' = Line
        \/ \E c \in Calls : Line' = Append(Line, c)
        \/ Line # <<>> /\ Line' = Tail(Line)
    BY <1>1, StepLine DEF LineMoves
  <2> SUFFICES ASSUME NEW a \in Calls, NEW b \in Calls, Before(a, b, Line), Queued(a)'
               PROVE  Queued(b)' /\ Before(a, b, Line')
    BY DEF Line
  <2> QED
    BY <2>2, <2>4, <2>5, OrderKept
<1>2. TInv /\ FInv /\ [Next]_vars => [Step]_vars
  BY <1>1
<1> QED
  BY <1>2, FInvAlways, PTL DEF Spec, QueueInOrder

(* A call that was accepted into the queue is not lost to overflow when it  *)
(* has to be queued again.                                                  *)
THEOREM AcceptedCallsStay == Spec => AcceptedNotDropped
<1> DEFINE Step == \A c \in Calls : Queued(c) => c \notin dropped'
<1>1. TInv /\ FInv /\ [Next]_vars => [Step]_vars
  BY StepLine DEF LineMoves
<1> QED
  BY <1>1, FInvAlways, PTL DEF Spec, AcceptedNotDropped

-----------------------------------------------------------------------------
(* A transport that is closed, with no connect under way.                   *)

(* The lock goes to loops only, which look at explicit_close. *)
LEMMA ReleaseClosed ==
  ASSUME LockTypeOK, Release, "connect" \notin Range(lockq) \cup {holder.kind}
  PROVE  /\ "connect" \notin Range(lockq') \cup {holder'.kind}
         /\ holder'.pc # "dial"
<1>1. CASE lockq = <<>>
  BY <1>1 DEF Release, Free
<1>2. CASE lockq # <<>>
  <2>1. lockq \in Seq(Kinds)
    BY DEF LockTypeOK
  <2>2. Head(lockq) \in Range(lockq)
    BY <1>2, <2>1 DEF Range
  <2>3. Range(Tail(lockq)) \subseteq Range(lockq)
    <3>1. /\ DOMAIN lockq = 1..Len(lockq) /\ Len(lockq) \in Nat
          /\ DOMAIN Tail(lockq) = 1..(Len(lockq) - 1)
          /\ \A i \in 1..(Len(lockq) - 1) : Tail(lockq)[i] = lockq[i + 1]
      BY <1>2, <2>1
    <3>2. \A i \in DOMAIN Tail(lockq) : Tail(lockq)[i] \in Range(lockq)
      <4>1. ASSUME NEW i \in DOMAIN Tail(lockq) PROVE i + 1 \in DOMAIN lockq
        BY <3>1
      <4> QED
        BY <3>1, <4>1 DEF Range
    <3> QED
      BY <3>2 DEF Range
  <2>4. holder' = [kind |-> Head(lockq), pc |-> "run"]
    BY <1>2 DEF Release, At
  <2>5. holder'.kind = Head(lockq) /\ holder'.pc = "run"
    BY <2>4
  <2>6. "connect" \notin Range(lockq)
    OBVIOUS
  <2>7. lockq' = Tail(lockq)
    BY <1>2 DEF Release
  <2> QED
    BY <2>2, <2>3, <2>5, <2>6, <2>7
<1> QED
  BY <1>1, <1>2

LEMMA StepClosed ==
  ASSUME TInv, Closed, Next
  PROVE  Closed' \/ Connect
<1> DEFINE Goal == Closed'
<1> SUFFICES ASSUME ~Connect PROVE Goal
  OBVIOUS
<1>0. LockTypeOK
  BY DEF TInv
<1>1. ASSUME UNCHANGED <<explicit_close, open, holder, lockq>> PROVE Goal
  BY <1>1 DEF Closed
<1>2. ASSUME Release, UNCHANGED <<explicit_close, open>> PROVE Goal
  BY <1>0, <1>2, ReleaseClosed DEF Closed
<1>3. ASSUME NEW pc \in Points \ {"dial"}, holder # Free, Move(pc), UNCHANGED <<explicit_close, open>>
      PROVE  Goal
  BY <1>0, <1>3, MoveHolder DEF Closed, Move
<1> HIDE DEF Goal
<1>4. CASE LockRuns
  <2>1. ~GoesOn
    BY DEF GoesOn, Closed
  <2> QED
    BY <1>2, <1>4, <2>1 DEF LockRuns, streamVars
<1>5. CASE SweepNext
  BY <1>1, <1>5 DEF SweepNext, streamVars, lockVars
<1>6. ASSUME NEW kind, Reconnect(kind) PROVE UNCHANGED <<holder, lockq>>
  BY <1>6 DEF Reconnect, Closed
<1>7. CASE Unwind \/ RetryConnect
  BY <1>1, <1>6, <1>7 DEF Unwind, RetryConnect, streamVars
<1>8. CASE FlushNext
  BY <1>1, <1>8 DEF FlushNext, streamVars, lockVars
<1>9. CASE FlushEnds
  BY <1>2, <1>9 DEF FlushEnds, streamVars
<1>10. ASSUME CriticalSectionWorks, holder # Free, UNCHANGED streamVars PROVE Goal
  BY <1>2, <1>3, <1>10 DEF CriticalSectionWorks, streamVars, Points
<1>11. ASSUME CriticalSectionFails, holder # Free, UNCHANGED streamVars PROVE Goal
  BY <1>2, <1>3, <1>11 DEF CriticalSectionFails, streamVars, Points
<1>12. CASE StreamIsUp
  BY <1>3, <1>10, <1>12 DEF StreamIsUp, streamVars, Free, Points
<1>13. CASE HookWorks
  BY <1>10, <1>13 DEF HookWorks, HookMayReturn, Free
<1>14. CASE HookFails
  BY <1>11, <1>14 DEF HookFails, HookMayReturn, Free
<1>15. ~DialFails /\ ~DialWorks
  BY DEF DialFails, DialWorks, Closed
<1>16. CASE DelayOver
  BY <1>16 DEF DelayOver, At, Closed, streamVars, Goal
<1>17. ASSUME NEW c \in HookCalls, HookInvokes(c) PROVE Goal
  BY <1>3, <1>17 DEF HookInvokes, streamVars, Free, Points
<1>18. ASSUME NEW c \in Calls, Invoke(c) PROVE Goal
  BY <1>1, <1>18 DEF Invoke, streamVars, lockVars
<1>19. ASSUME NEW r \in requests, Response(r) \/ Cancel(r) PROVE Goal
  BY <1>1, <1>19 DEF Response, Cancel, streamVars, lockVars
<1>20. ASSUME NEW w, CloseAndReconnect(w) PROVE Goal
  BY <1>1, <1>20 DEF CloseAndReconnect, WrapperClose, Closed, lockVars
<1>21. PICK n : n = netw
  OBVIOUS
<1>22. ASSUME NEW g \in live, StreamError(g) \/ StreamClosed(g) \/ BadFrame(g) PROVE Goal
  BY <1>20, <1>21, <1>22 DEF StreamError, StreamClosed, BadFrame
<1>23. CASE Reset
  BY <1>20, <1>21, <1>23 DEF Reset
<1>24. CASE Close \/ UserWrapperClose
  BY <1>1, <1>24 DEF Close, UserWrapperClose, WrapperClose, Closed, lockVars
<1> QED
  BY <1>4, <1>5, <1>7, <1>8, <1>9, <1>12, <1>13, <1>14, <1>15, <1>16, <1>17, <1>18,
     <1>19, <1>22, <1>23, <1>24
  DEF Next, Turn, HookSteps, Network, User, Goal

(* A closed transport stays closed until somebody calls connect: no loop    *)
(* that was waiting for the lock, or sleeping, dials again.                 *)
THEOREM ClosedStaysClosed == Spec => StaysClosed
<1> DEFINE Step == Closed => Closed' \/ Connect
<1>1. TInv /\ [Next]_vars => [Step]_vars
  BY StepClosed
<1> QED
  BY <1>1, TInvAlways, PTL DEF Spec, StaysClosed
=============================================================================
