--------------------------- MODULE TransportProofs ---------------------------
(***************************************************************************)
(* Proofs about Transport, for any calls, queue size, hook and bounds: its  *)
(* types, that one stream is in use at a time, that calls are conserved     *)
(* between the queue and the table, that Dispatch is used as it specifies   *)
(* (so that what DispatchProofs proves holds here), and that a robust       *)
(* transport that has lost its stream is on its way to another one.         *)
(***************************************************************************)
EXTENDS Transport, DispatchProofs, FiniteSetTheorems

-----------------------------------------------------------------------------
(* The lock. *)

LockTypeOK ==
  /\ holder \in {Free} \cup [kind : Kinds, pc : Points]
  /\ lockq \in Seq(Kinds)

LEMMA AcquireLock ==
  ASSUME LockTypeOK, NEW kind \in Kinds, Acquire(kind)
  PROVE  /\ LockTypeOK'
         /\ holder' = holder \/ holder'.pc = "run"
         /\ lockq' # <<>> \/ holder'.pc = "run"
BY DEF LockTypeOK, Acquire, At, Points, Free

LEMMA ReleaseLock ==
  ASSUME LockTypeOK, Release
  PROVE  /\ LockTypeOK'
         /\ holder' = Free \/ holder'.pc = "run"
         /\ lockq # <<>> => holder'.pc = "run"
<1>1. CASE lockq = <<>>
  BY <1>1 DEF LockTypeOK, Release
<1>2. CASE lockq # <<>>
  <2>1. Head(lockq) \in Kinds /\ Tail(lockq) \in Seq(Kinds)
    BY <1>2 DEF LockTypeOK
  <2> QED
    BY <1>2, <2>1 DEF LockTypeOK, Release, At, Points
<1> QED
  BY <1>1, <1>2

LEMMA MoveHolder ==
  ASSUME LockTypeOK, NEW pc \in Points, holder # Free, Move(pc)
  PROVE  LockTypeOK' /\ holder'.pc = pc /\ holder'.kind = holder.kind
BY DEF LockTypeOK, Move

LEMMA HolderNotFree ==
  ASSUME LockTypeOK, holder.pc # "free"
  PROVE  holder # Free /\ holder.kind \in Kinds
BY DEF LockTypeOK, Free

(* _reconnect acquires the lock or does nothing. *)
LEMMA ReconnectLock ==
  ASSUME LockTypeOK, NEW kind \in Kinds, Reconnect(kind)
  PROVE  /\ LockTypeOK'
         /\ holder' = holder \/ holder'.pc = "run"
         /\ Robust /\ ~explicit_close => lockq' # <<>> \/ holder'.pc = "run"
BY AcquireLock DEF Reconnect, LockTypeOK

(* The end of a critical section. *)
LEMMA FailsLock ==
  ASSUME LockTypeOK, retry \in Nat, holder # Free, CriticalSectionFails
  PROVE  /\ LockTypeOK' /\ retry' \in Nat
         /\ holder'.pc \in {"free", "run", "backoff"}
         /\ retry' > 0 \/ holder'.pc = "backoff"
BY ReleaseLock, MoveHolder DEF CriticalSectionFails, Points, Free

LEMMA WorksLock ==
  ASSUME LockTypeOK, holder # Free, CriticalSectionWorks
  PROVE  /\ LockTypeOK'
         /\ holder'.pc \in {"free", "run", "flush"}
         /\ lockq # <<>> => holder'.pc = "run" \/ lockq' # <<>>
BY ReleaseLock, MoveHolder DEF CriticalSectionWorks, Points, Free, Move

-----------------------------------------------------------------------------
(* The queue.                                                               *)

LEMMA RangeAppend ==
  ASSUME NEW S, NEW s \in Seq(S), NEW x \in S, x \notin Range(s), IsInjective(s)
  PROVE  /\ Append(s, x) \in Seq(S) /\ Len(Append(s, x)) = Len(s) + 1
         /\ Range(Append(s, x)) = Range(s) \cup {x}
         /\ IsInjective(Append(s, x))
<1> DEFINE t == Append(s, x)
<1>1. t \in Seq(S) /\ Len(t) = Len(s) + 1 /\ DOMAIN t = 1..(Len(s) + 1)
  OBVIOUS
<1>2. t[Len(s) + 1] = x /\ \A i \in 1..Len(s) : t[i] = s[i]
  OBVIOUS
<1>3. DOMAIN s = 1..Len(s) /\ Len(s) \in Nat
  OBVIOUS
<1> HIDE DEF t
<1>4. Range(t) = Range(s) \cup {x}
  BY <1>1, <1>2, <1>3 DEF Range
<1>5. IsInjective(t)
  BY <1>1, <1>2, <1>3 DEF Range, IsInjective
<1> QED
  BY <1>1, <1>4, <1>5 DEF t

LEMMA RangeTail ==
  ASSUME NEW S, NEW s \in Seq(S), s # <<>>, IsInjective(s)
  PROVE  /\ Head(s) \in S /\ Tail(s) \in Seq(S)
         /\ Range(s) = {Head(s)} \cup Range(Tail(s))
         /\ Head(s) \notin Range(Tail(s))
         /\ IsInjective(Tail(s))
<1> DEFINE t == Tail(s)
<1>1. Len(s) \in Nat \ {0} /\ DOMAIN s = 1..Len(s) /\ Head(s) = s[1] /\ Head(s) \in S
  OBVIOUS
<1>2. t \in Seq(S) /\ DOMAIN t = 1..(Len(s) - 1)
  OBVIOUS
<1>3. \A i \in 1..(Len(s) - 1) : t[i] = s[i + 1]
  OBVIOUS
<1> HIDE DEF t
<1>4. Range(s) = {s[1]} \cup Range(t)
  <2>1. ASSUME NEW i \in 1..Len(s), i # 1 PROVE s[i] \in Range(t)
    <3>1. i - 1 \in 1..(Len(s) - 1) /\ (i - 1) + 1 = i
      BY <1>1, <2>1
    <3> QED
      BY <1>2, <1>3, <3>1 DEF Range
  <2>2. ASSUME NEW i \in 1..(Len(s) - 1) PROVE t[i] \in Range(s)
    <3>1. i + 1 \in 1..Len(s)
      BY <1>1
    <3> QED
      BY <1>1, <1>3, <3>1 DEF Range
  <2> QED
    BY <1>1, <1>2, <2>1, <2>2 DEF Range
<1>5. s[1] \notin Range(t)
  <2>1. ASSUME NEW i \in 1..(Len(s) - 1) PROVE s[i + 1] # s[1]
    BY <1>1 DEF IsInjective
  <2> QED
    BY <1>2, <1>3, <2>1 DEF Range
<1>6. IsInjective(t)
  <2>1. ASSUME NEW i \in 1..(Len(s) - 1), NEW j \in 1..(Len(s) - 1), t[i] = t[j]
        PROVE  i = j
    <3>1. i + 1 \in 1..Len(s) /\ j + 1 \in 1..Len(s) /\ s[i + 1] = s[j + 1]
      BY <1>1, <1>3, <2>1
    <3>2. i + 1 = j + 1
      BY <1>1, <3>1 DEF IsInjective
    <3> QED
      BY <3>2
  <2> QED
    BY <1>2, <2>1 DEF IsInjective
<1> QED
  BY <1>1, <1>2, <1>4, <1>5, <1>6 DEF t

QueueTypeOK ==
  /\ waiters \in Seq(Calls) /\ tmp \in Seq(Calls)
  /\ refused \subseteq Calls /\ dropped \subseteq Calls /\ handed \subseteq Calls

(* Whatever invoke does with a call that is nowhere else, it is conserved.  *)
LEMMA InvokeConserves ==
  ASSUME QueueTypeOK, QueueMax \in Nat, Len(waiters) <= QueueMax,
         NEW t \in Seq(Calls), tmp' = t, NEW c \in Calls,
         IsInjective(waiters), IsInjective(t), Range(waiters) \cap Range(t) = {},
         c \notin Range(waiters) \cup Range(t),
         \A d \in Range(waiters) \cup Range(t) \cup {c} :
           Unsent(d) /\ d \notin refused \cup dropped,
         \A d \in Calls : d \in handed \cup {c} <=>
           \/ ~Unsent(d)
           \/ d \in Range(waiters) \cup Range(t) \cup {c} \cup refused \cup dropped,
         \A r \in requests : r[3] \notin refused \cup dropped,
         refused \cap dropped = {},
         TransportInvoke(c), handed' = handed \cup {c}
  PROVE  CallsConserved' /\ QueueTypeOK'
<1>1. CASE SendInvoke(c) /\ UNCHANGED <<waiters, refused, dropped>>
  <2>1. requests' = requests \cup {<<"invoke", seqid, c>>}
    BY <1>1 DEF SendInvoke, DispatchInvoke
  <2>2. \A r \in requests' : r \in requests \/ r[3] = c
    BY <2>1
  <2>3. \A r \in requests' : r[3] \notin refused \cup dropped
    BY <2>2
  <2>4. \A d \in Range(waiters) \cup Range(t) : Unsent(d)'
    BY <2>2 DEF Unsent
  <2>5. \A d : ~Unsent(d)' <=> ~Unsent(d) \/ d = c
    BY <2>1, <2>2 DEF Unsent
  <2>6. \A d \in Calls : d \in handed' <=>
          ~Unsent(d)' \/ Queued(d)' \/ d \in refused' \cup dropped'
    BY <1>1, <2>5 DEF Queued
  <2> QED
    BY <1>1, <2>3, <2>4, <2>6 DEF CallsConserved, QueueTypeOK, Queued
<1>2. CASE /\ Len(waiters) < QueueMax /\ waiters' = Append(waiters, c)
           /\ UNCHANGED <<refused, dropped, dispatchVars>>
  <2>1. /\ waiters' \in Seq(Calls) /\ Len(waiters') = Len(waiters) + 1
        /\ Range(waiters') = Range(waiters) \cup {c} /\ IsInjective(waiters')
    BY <1>2, RangeAppend DEF QueueTypeOK
  <2>2. Len(waiters') <= QueueMax
    BY <1>2, <2>1 DEF QueueTypeOK
  <2>3. Range(waiters') \cap Range(t) = {}
    BY <2>1
  <2>4. \A d \in Calls : Queued(d)' => Unsent(d)' /\ d \notin refused \cup dropped
    BY <1>2, <2>1 DEF Queued, Unsent, dispatchVars
  <2>5. \A d \in Calls : d \in handed' <=>
          ~Unsent(d)' \/ Queued(d)' \/ d \in refused' \cup dropped'
    BY <1>2, <2>1 DEF Queued, Unsent, dispatchVars
  <2> QED
    BY <1>2, <2>1, <2>2, <2>3, <2>4, <2>5 DEF CallsConserved, QueueTypeOK, dispatchVars
<1>3. CASE /\ UNCHANGED <<waiters, dispatchVars>>
           /\ \/ refused' = refused \cup {c} /\ UNCHANGED dropped
              \/ dropped' = dropped \cup {c} /\ UNCHANGED refused
  <2>1. refused' \cup dropped' = refused \cup dropped \cup {c}
    BY <1>3
  <2>2. refused' \cap dropped' = {}
    BY <1>3
  <2>3. \A r \in requests : r[3] \notin refused' \cup dropped'
    BY <2>1 DEF Unsent
  <2>4. \A d \in Calls : Queued(d)' => Unsent(d)' /\ d \notin refused' \cup dropped'
    BY <1>3, <2>1 DEF Queued, Unsent, dispatchVars
  <2>5. \A d \in Calls : d \in handed' <=>
          ~Unsent(d)' \/ Queued(d)' \/ d \in refused' \cup dropped'
    BY <1>3, <2>1 DEF Queued, Unsent, dispatchVars
  <2> QED
    BY <1>3, <2>2, <2>3, <2>4, <2>5 DEF CallsConserved, QueueTypeOK, dispatchVars
<1> QED
  BY <1>1, <1>2, <1>3 DEF TransportInvoke

-----------------------------------------------------------------------------
(* The inductive invariant.                                                 *)

StreamTypeOK ==
  /\ explicit_close \in BOOLEAN
  /\ netw \in Nat /\ generation \in Nat \ {0}
  /\ open \subseteq live /\ live \subseteq 1..(generation - 1)
  /\ unwinding \in {"nothing", "close", "_close", "w.close"}
  /\ incallback \in BOOLEAN
  /\ retry \in Nat
  /\ via \in [Calls -> Nat]

(* While a close is unwinding no stream is open, so it cannot be nested; an *)
(* EOF sweep runs only inside a close.                                      *)
StreamShape ==
  /\ netw < generation
  /\ OneLiveStream
  /\ unwinding # "nothing" => open = {}
  /\ resetting # {} => unwinding # "nothing"

(* The streams that something has happened to and that are closed account   *)
(* for the loops started so far and the one that _close is about to start.  *)
Owed == IF unwinding = "_close" THEN 1 ELSE 0

LossInv ==
  /\ troubled \subseteq 1..(generation - 1) /\ loops \in Nat
  /\ loops + Owed <= Cardinality(troubled \ open)

(* Outside a flush there is nothing to flush. *)
TmpInv == holder.pc # "flush" => tmp = <<>>

TInv ==
  /\ IInv
  /\ StreamTypeOK /\ LockTypeOK /\ QueueTypeOK
  /\ StreamShape
  /\ TmpInv
  /\ LossInv
  /\ CallsConserved
  /\ PendingOnLiveStream

LEMMA InitTInv == TransportInit => TInv
<1> SUFFICES ASSUME TransportInit PROVE TInv
  OBVIOUS
<1> USE DEF TransportInit
<1>1. IInv
  BY InitInv
<1>2. StreamTypeOK
  <2>1. netw \in Nat /\ generation \in Nat \ {0} /\ open \subseteq live
    OBVIOUS
  <2>2. live \subseteq 1..(generation - 1)
    <3>1. CASE live = {}
      BY <3>1
    <3>2. CASE live = {1} /\ generation = 2
      BY <3>2
    <3> QED
      BY <3>1, <3>2
  <2>3. via \in [Calls -> Nat]
    OBVIOUS
  <2> QED
    BY <2>1, <2>2, <2>3 DEF StreamTypeOK
<1>3. LockTypeOK
  BY DEF LockTypeOK
<1>4. QueueTypeOK
  BY DEF QueueTypeOK
<1>5. StreamShape
  BY DEF StreamShape, OneLiveStream, Free, DispatchInit
<1>6. CallsConserved
  <2>1. DOMAIN <<>> = {} /\ Len(<<>>) = 0
    OBVIOUS
  <2>2. IsInjective(<<>>) /\ Range(<<>>) = {}
    BY <2>1 DEF IsInjective, Range
  <2> QED
    BY <2>1, <2>2, QueueMaxAssumption DEF CallsConserved, Queued, Unsent, DispatchInit
<1>7. PendingOnLiveStream
  BY DEF PendingOnLiveStream, DispatchInit
<1>8. LossInv
  <2>1. troubled \ open = {}
    OBVIOUS
  <2> QED
    BY <2>1, FS_EmptySet DEF LossInv, Owed
<1>9. TmpInv
  BY DEF TmpInv
<1> QED
  BY <1>1, <1>2, <1>3, <1>4, <1>5, <1>6, <1>7, <1>8, <1>9 DEF TInv

-----------------------------------------------------------------------------
(* Streams.                                                                 *)

Frames == {"close", "_close", "w.close"}

(* What StreamWrapper.close may do: nothing, or close the current stream. *)
CloseOutcome ==
  \/ UNCHANGED <<open, dispatchVars, frameVars>>
  \/ /\ netw \in open /\ open' = {}
     /\ DispatchReset
     /\ unwinding' \in Frames /\ incallback' = FALSE

(* A wrapper that still has its stream is the current one; closing it while *)
(* another close unwinds does nothing.                                      *)
LEMMA CloseOfWrapper ==
  ASSUME StreamShape, NEW w, NEW after \in Frames,
         IF w \in open
           THEN /\ open' = open \ {w}
                /\ DispatchReset
                /\ unwinding' = after /\ incallback' = FALSE
           ELSE UNCHANGED <<open, dispatchVars, frameVars>>
  PROVE  CloseOutcome
<1>1. CASE w \in open
  <2>1. w = netw /\ open \ {w} = {}
    BY <1>1 DEF StreamShape, OneLiveStream
  <2> QED
    BY <1>1, <2>1 DEF CloseOutcome
<1>2. CASE w \notin open
  BY <1>2 DEF CloseOutcome
<1> QED
  BY <1>1, <1>2

(* The steps that close. *)
LEMMA CloseSteps ==
  ASSUME StreamShape,
         \/ Close \/ Reset \/ UserWrapperClose
         \/ \E g \in live : StreamError(g) \/ StreamClosed(g) \/ BadFrame(g)
  PROVE  CloseOutcome
<1>1. ASSUME NEW g \in live, StreamError(g) \/ StreamClosed(g) PROVE CloseOutcome
  BY <1>1, CloseOfWrapper
  DEF StreamError, StreamClosed, CloseAndReconnect, WrapperClose, Frames
<1>2. PICK w : w = netw
  OBVIOUS
<1>3. ASSUME \/ Close \/ Reset \/ UserWrapperClose \/ \E g \in live : BadFrame(g)
      PROVE  CloseOutcome
  BY <1>2, <1>3, CloseOfWrapper
  DEF Close, Reset, UserWrapperClose, BadFrame, CloseAndReconnect, WrapperClose, Frames
<1> QED
  BY <1>1, <1>3

(* A step that moves the lock but no stream: it may come to a dial only     *)
(* when nothing is open.                                                    *)
LEMMA LockStepShape ==
  ASSUME StreamTypeOK, StreamShape, UNCHANGED <<streamVars, frameVars, via>>,
         retry' \in Nat, resetting' = resetting,
         \/ holder' = holder
         \/ holder'.pc \notin {"dial", "delay"}
         \/ open = {}
  PROVE  StreamTypeOK' /\ StreamShape'
BY DEF StreamTypeOK, StreamShape, OneLiveStream, streamVars, frameVars

(* A close: open shrinks, the lock stays. *)
LEMMA CloseStepShape ==
  ASSUME StreamTypeOK, StreamShape, CloseOutcome,
         UNCHANGED <<holder, generation, retry, via>>, explicit_close' \in BOOLEAN,
         netw' = netw \/ (netw' = 0 /\ netw \notin open),
         live' \subseteq live, open' \subseteq live'
  PROVE  StreamTypeOK' /\ StreamShape'
<1>1. /\ open' \subseteq open
      /\ unwinding' \in Frames \cup {"nothing"} /\ incallback' \in BOOLEAN
      /\ unwinding' # "nothing" => open' = {}
      /\ resetting' # {} => unwinding' # "nothing"
  BY DEF CloseOutcome, StreamTypeOK, StreamShape, frameVars, dispatchVars, Frames
<1>2. StreamTypeOK'
  BY <1>1 DEF StreamTypeOK, Frames
<1>3. netw' \in Nat /\ netw' < generation'
  BY DEF StreamTypeOK, StreamShape
<1>4. open' \subseteq {netw'}
  BY <1>1 DEF StreamShape, OneLiveStream
<1> QED
  BY <1>1, <1>2, <1>3, <1>4 DEF StreamShape, OneLiveStream

(* Every step keeps the shape of the streams and of the lock. *)
LEMMA StepShape ==
  ASSUME TInv, Next
  PROVE  StreamTypeOK' /\ StreamShape' /\ LockTypeOK'
<1> DEFINE Goal == StreamTypeOK' /\ StreamShape' /\ LockTypeOK'
<1>0. StreamTypeOK /\ StreamShape /\ LockTypeOK /\ retry \in Nat
  BY DEF TInv, StreamTypeOK
<1> SUFFICES Goal
  OBVIOUS
<1> HIDE DEF Goal
<1>1. ASSUME LockTypeOK', UNCHANGED <<streamVars, frameVars, via>>,
             retry' \in Nat, resetting' = resetting,
             \/ holder' = holder
             \/ holder'.pc \notin {"dial", "delay"}
             \/ open = {}
      PROVE  Goal
  BY <1>0, <1>1, LockStepShape DEF Goal
<1>2. ASSUME UNCHANGED <<lockVars, streamVars, frameVars>>, via' \in [Calls -> Nat],
             resetting' = resetting
      PROVE  Goal
  BY <1>0, <1>2 DEF Goal, lockVars, streamVars, frameVars, StreamTypeOK, StreamShape,
                    OneLiveStream, LockTypeOK
<1>3. ASSUME NEW c \in Calls, TransportInvoke(c)
      PROVE  via' \in [Calls -> Nat] /\ resetting' = resetting
  BY <1>0, <1>3 DEF TransportInvoke, SendInvoke, DispatchInvoke, dispatchVars, StreamTypeOK
<1>4. ASSUME CloseOutcome, UNCHANGED <<lockVars, generation, via>>,
             explicit_close' \in BOOLEAN,
             netw' = netw \/ (netw' = 0 /\ netw \notin open),
             live' \subseteq live, open' \subseteq live'
      PROVE  Goal
  BY <1>0, <1>4, CloseStepShape DEF Goal, lockVars, LockTypeOK
<1>5. ASSUME CloseOutcome PROVE open' \subseteq open
  BY <1>5 DEF CloseOutcome
<1>6. CASE LockRuns
  <2>1. holder # Free
    BY <1>6 DEF LockRuns, Free
  <2>2. CASE GoesOn /\ Move(IF holder.kind = "re" THEN "delay" ELSE "dial")
    <3>1. open = {}
      BY <1>0, <2>2 DEF GoesOn, Connected, StreamShape, OneLiveStream
    <3>2. LockTypeOK'
      BY <1>0, <2>1, <2>2, MoveHolder DEF Points
    <3> QED
      BY <1>0, <1>1, <1>6, <3>1, <3>2 DEF LockRuns, dispatchVars
  <2>3. CASE Release
    BY <1>0, <1>1, <1>6, <2>3, ReleaseLock DEF LockRuns, dispatchVars, Free
  <2> QED
    BY <1>6, <2>2, <2>3 DEF LockRuns
<1>7. CASE SweepNext
  <2>1. resetting' \subseteq resetting /\ unwinding' = unwinding /\ incallback' = TRUE
    BY <1>7 DEF SweepNext, ResetNext
  <2> QED
    BY <1>0, <1>7, <2>1 DEF SweepNext, Goal, streamVars, lockVars, StreamTypeOK,
                            StreamShape, OneLiveStream, LockTypeOK
<1>8. CASE Unwind
  <2>1. /\ LockTypeOK' /\ (holder' = holder \/ holder'.pc = "run")
    <3>1. CASE unwinding = "_close"
      BY <1>0, <1>8, <3>1, ReconnectLock DEF Unwind, Kinds
    <3>2. CASE unwinding # "_close"
      BY <1>0, <1>8, <3>2 DEF Unwind, LockTypeOK
    <3> QED
      BY <3>1, <3>2
  <2>2. open = {} /\ netw' \in {netw, 0} /\ unwinding' = "nothing" /\ incallback' = FALSE
        /\ resetting' = {}
    BY <1>0, <1>8 DEF Unwind, StreamShape, dispatchVars
  <2>3. netw' \in Nat /\ netw' < generation
    BY <1>0, <2>2 DEF StreamTypeOK, StreamShape
  <2> QED
    BY <1>0, <1>8, <2>1, <2>2, <2>3 DEF Unwind, Goal, StreamTypeOK, StreamShape,
                                         OneLiveStream
<1>9. CASE StreamIsUp
  <2>1. holder # Free
    BY <1>9 DEF StreamIsUp, Free
  <2>2. CASE CriticalSectionWorks
    BY <1>0, <1>1, <1>9, <2>1, <2>2, WorksLock
    DEF StreamIsUp, dispatchVars, CriticalSectionWorks
  <2>3. CASE Move("hook") /\ UNCHANGED <<queueVars, retry>>
    BY <1>0, <1>1, <1>9, <2>1, <2>3, MoveHolder DEF StreamIsUp, dispatchVars, Points
  <2> QED
    BY <1>9, <2>2, <2>3 DEF StreamIsUp
<1>10. CASE FlushNext
  <2>1. Head(tmp) \in Calls
    BY <1>10 DEF FlushNext, TInv, QueueTypeOK
  <2> QED
    BY <1>2, <1>3, <1>10, <2>1 DEF FlushNext
<1>11. CASE FlushEnds
  BY <1>0, <1>1, <1>11, ReleaseLock DEF FlushEnds, dispatchVars, Free
<1>12. CASE RetryConnect
  <2>1. retry' \in Nat
    BY <1>0, <1>12 DEF RetryConnect
  <2> QED
    BY <1>0, <1>1, <1>12, <2>1, ReconnectLock DEF RetryConnect, dispatchVars, Kinds
<1>13. CASE DelayOver
  <2>1. LockTypeOK' /\ holder'.pc = "run"
    BY <1>0, <1>13 DEF DelayOver, LockTypeOK, At, Kinds, Points
  <2> QED
    BY <1>0, <1>1, <1>13, <2>1 DEF DelayOver, dispatchVars
<1>14. CASE HookWorks
  <2>1. holder # Free
    BY <1>14 DEF HookWorks, HookMayReturn, Free
  <2> QED
    BY <1>0, <1>1, <1>14, <2>1, WorksLock DEF HookWorks, dispatchVars, CriticalSectionWorks
<1>15. CASE HookFails
  <2>1. holder # Free
    BY <1>15 DEF HookFails, HookMayReturn, Free
  <2> QED
    BY <1>0, <1>1, <1>15, <2>1, FailsLock DEF HookFails, dispatchVars
<1>16. ASSUME NEW c \in HookCalls, HookInvokes(c) PROVE Goal
  <2>1. holder # Free /\ c \in Calls
    BY <1>16, HookCallsAssumption DEF HookInvokes, Free
  <2>2. LockTypeOK' /\ holder'.pc = "await"
    BY <1>0, <1>16, <2>1, MoveHolder DEF HookInvokes, Points
  <2> QED
    BY <1>0, <1>3, <1>16, <2>1, <2>2 DEF HookInvokes, Goal, streamVars, frameVars,
       StreamTypeOK, StreamShape, OneLiveStream
<1>17. CASE DialFails
  <2>1. holder # Free
    BY <1>17 DEF DialFails, Free
  <2> QED
    BY <1>0, <1>1, <1>17, <2>1, FailsLock DEF DialFails, dispatchVars
<1>18. CASE DialWorks
  <2>1. holder # Free /\ open = {} /\ unwinding = "nothing"
    BY <1>0, <1>18 DEF DialWorks, Free, Idle, StreamShape, OneLiveStream
  <2>2. LockTypeOK' /\ holder'.pc = "up"
    BY <1>0, <1>18, <2>1, MoveHolder DEF DialWorks, Points
  <2>3. /\ netw' = generation /\ generation' = generation + 1
        /\ open' = {generation} /\ live' = live \cup {generation}
    BY <1>18, <2>1 DEF DialWorks, NextGeneration
  <2>4. live' \subseteq 1..(generation' - 1) /\ netw' \in Nat /\ netw' < generation'
        /\ generation' \in Nat \ {0}
    BY <1>0, <2>3 DEF StreamTypeOK
  <2>5. StreamTypeOK'
    BY <1>0, <1>18, <2>3, <2>4 DEF DialWorks, StreamTypeOK, frameVars
  <2>6. StreamShape'
    BY <1>0, <1>18, <2>1, <2>2, <2>3, <2>4
    DEF DialWorks, StreamShape, OneLiveStream, frameVars, dispatchVars
  <2> QED
    BY <2>2, <2>5, <2>6 DEF Goal
<1>19. ASSUME NEW g \in live, StreamError(g) \/ StreamClosed(g) \/ BadFrame(g) PROVE Goal
  <2>1. CloseOutcome
    BY <1>0, <1>19, CloseSteps
  <2>2. UNCHANGED <<lockVars, generation, via, netw, explicit_close>>
    BY <1>19 DEF StreamError, StreamClosed, BadFrame, CloseAndReconnect
  <2>3. live' \subseteq live /\ open' \subseteq live'
    <3>1. CASE live' = live
      BY <1>0, <1>5, <2>1, <3>1 DEF StreamTypeOK
    <3>2. CASE live' = live \ {g} /\ StreamClosed(g)
      <4>1. open' \subseteq open /\ g \notin open'
        BY <1>5, <2>1, <3>2 DEF StreamClosed, CloseAndReconnect, WrapperClose
      <4> QED
        BY <1>0, <3>2, <4>1 DEF StreamTypeOK
    <3> QED
      BY <1>19, <3>1, <3>2 DEF StreamError, StreamClosed, BadFrame
  <2> QED
    BY <1>0, <1>4, <2>1, <2>2, <2>3 DEF StreamTypeOK
<1>20. ASSUME NEW r \in requests, Response(r) \/ Cancel(r) PROVE Goal
  <2>1. resetting' = resetting /\ UNCHANGED <<lockVars, streamVars, frameVars, via>>
    BY <1>20 DEF Response, HandleResponse, Cancel, DispatchCancel, CallCb
  <2> QED
    BY <1>0, <1>2, <2>1 DEF StreamTypeOK
<1>21. CASE Connect
  BY <1>0, <1>1, <1>21, AcquireLock DEF Connect, Kinds, dispatchVars
<1>22. CASE Close
  <2>1. explicit_close' = TRUE /\ live' = live /\ UNCHANGED <<lockVars, generation, via>>
        /\ (netw' = netw \/ (netw' = 0 /\ netw \notin open))
    BY <1>22 DEF Close, Connected
  <2> QED
    BY <1>0, <1>4, <1>5, <1>22, <2>1, CloseSteps DEF StreamTypeOK
<1>23. CASE Reset
  BY <1>0, <1>4, <1>5, <1>23, CloseSteps DEF Reset, CloseAndReconnect, StreamTypeOK
<1>24. CASE UserWrapperClose
  BY <1>0, <1>4, <1>5, <1>24, CloseSteps DEF UserWrapperClose, StreamTypeOK
<1>25. ASSUME NEW c \in Calls, Invoke(c) PROVE Goal
  BY <1>2, <1>3, <1>25 DEF Invoke
<1> QED
  BY <1>6, <1>7, <1>8, <1>9, <1>10, <1>11, <1>12, <1>13, <1>14, <1>15, <1>16, <1>17,
     <1>18, <1>19, <1>20, <1>21, <1>22, <1>23, <1>24, <1>25
  DEF Goal, Next, Turn, HookSteps, Network, User

-----------------------------------------------------------------------------
(* Losses and loops.                                                        *)

LEMMA StreamsAreFinite ==
  ASSUME NEW n \in Nat, NEW S, S \subseteq 1..(n - 1)
  PROVE  IsFiniteSet(S) /\ Cardinality(S) \in Nat
<1>1. 1 \in Int /\ n - 1 \in Int
  OBVIOUS
<1>2. IsFiniteSet(1..(n - 1))
  BY <1>1, FS_Interval
<1>3. IsFiniteSet(S)
  BY <1>2, FS_Subset
<1> QED
  BY <1>3, FS_CardinalityType

(* A close by the wrapper of a stream that something has happened to: the   *)
(* stream is closed now and owes a loop, or it was closed before.           *)
LEMMA CloseOwes ==
  ASSUME TInv, NEW w \in live \cup {netw}, CloseAndReconnect(w), Trouble(w)
  PROVE  LossInv'
<1>0. /\ troubled \subseteq 1..(generation - 1) /\ generation \in Nat /\ loops \in Nat
      /\ generation' = generation /\ loops' = loops
      /\ loops + Owed <= Cardinality(troubled \ open)
      /\ live \subseteq 1..(generation - 1) /\ netw \in 0..(generation - 1)
  BY DEF TInv, LossInv, StreamTypeOK, StreamShape, CloseAndReconnect
<1>1. troubled' = troubled \cup ({w} \ {0}) /\ troubled' \subseteq 1..(generation - 1)
  BY <1>0 DEF Trouble
<1>2. IsFiniteSet(troubled) /\ IsFiniteSet(troubled')
  BY <1>0, <1>1, StreamsAreFinite
<1>3. CASE w \in open
  <2>1. open' = open \ {w} /\ unwinding' = "_close"
    BY <1>3 DEF CloseAndReconnect, WrapperClose
  <2>2. /\ open \subseteq {netw} /\ (unwinding # "nothing" => open = {})
        /\ open \subseteq 1..(generation - 1)
    BY DEF TInv, StreamShape, OneLiveStream, StreamTypeOK
  <2>3. open = {w} /\ unwinding = "nothing"
    BY <1>3, <2>2
  <2>4. w \in 1..(generation - 1)
    BY <1>3, <2>2
  <2>5. w # 0
    BY <1>0, <2>4
  <2>6. troubled' = (troubled \ {w}) \cup {w}
    BY <1>1, <2>5
  <2>7. IsFiniteSet(troubled \ {w}) /\ w \notin troubled \ {w}
    BY <1>2, FS_Subset
  <2>8. Cardinality(troubled') = Cardinality(troubled \ {w}) + 1
    BY <2>6, <2>7, FS_AddElement
  <2>9. Cardinality(troubled \ {w}) \in Nat
    BY <2>7, FS_CardinalityType
  <2>10. loops + 0 <= Cardinality(troubled \ {w})
    BY <1>0, <2>3 DEF Owed
  <2>11. loops' + 1 <= Cardinality(troubled')
    BY <1>0, <2>8, <2>9, <2>10
  <2>12. troubled' \ open' = troubled' /\ Owed' = 1
    BY <2>1, <2>3 DEF Owed
  <2> QED
    BY <1>0, <1>1, <2>11, <2>12 DEF LossInv
<1>4. CASE w \notin open
  <2>1. open' = open /\ Owed' = Owed
    BY <1>4 DEF CloseAndReconnect, WrapperClose, frameVars, Owed
  <2>2. IsFiniteSet(troubled' \ open) /\ troubled \ open \subseteq troubled' \ open
    BY <1>1, <1>2, FS_Subset
  <2>3. /\ Cardinality(troubled \ open) <= Cardinality(troubled' \ open)
        /\ Cardinality(troubled \ open) \in Nat /\ Cardinality(troubled' \ open) \in Nat
    BY <2>2, FS_Subset, FS_CardinalityType
  <2>4. loops + Owed <= Cardinality(troubled' \ open)
    BY <1>0, <2>3 DEF Owed
  <2> QED
    BY <1>0, <1>1, <2>1, <2>4 DEF LossInv
<1> QED
  BY <1>3, <1>4

(* A close that nothing has happened to the stream before: it owes none.    *)
LEMMA CloseOwesNothing ==
  ASSUME TInv, Close \/ UserWrapperClose
  PROVE  LossInv'
<1>0. /\ troubled \subseteq 1..(generation - 1) /\ generation \in Nat /\ loops \in Nat
      /\ UNCHANGED <<generation, loops, troubled>>
      /\ loops + Owed <= Cardinality(troubled \ open)
  BY DEF TInv, LossInv, StreamTypeOK, Close, UserWrapperClose
<1>1. IsFiniteSet(troubled)
  BY <1>0, StreamsAreFinite
<1>2. open' \subseteq open /\ Owed' \in {0, Owed}
  BY DEF Close, UserWrapperClose, WrapperClose, frameVars, Owed
<1>3. IsFiniteSet(troubled \ open') /\ troubled \ open \subseteq troubled \ open'
  BY <1>1, <1>2, FS_Subset
<1>4. /\ Cardinality(troubled \ open) <= Cardinality(troubled \ open')
      /\ Cardinality(troubled \ open) \in Nat /\ Cardinality(troubled \ open') \in Nat
  BY <1>3, FS_Subset, FS_CardinalityType
<1>5. loops + Owed' <= Cardinality(troubled \ open')
  BY <1>0, <1>2, <1>4 DEF Owed
<1> QED
  BY <1>0, <1>5 DEF LossInv

LEMMA StepLosses ==
  ASSUME TInv, Next
  PROVE  LossInv'
<1>0. LossInv
  BY DEF TInv
<1>1. ASSUME UNCHANGED <<generation, open, troubled, loops, unwinding>> PROVE LossInv'
  BY <1>0, <1>1 DEF LossInv, Owed
<1>2. ASSUME UNCHANGED streamVars, UNCHANGED unwinding PROVE LossInv'
  BY <1>1, <1>2 DEF streamVars
<1>3. CASE Unwind
  <2>1. CASE unwinding = "_close"
    <3>1. loops' \in {loops, loops + 1} /\ Owed = 1 /\ Owed' = 0
          /\ UNCHANGED <<generation, open, troubled>>
      BY <1>3, <2>1 DEF Unwind, Owed
    <3>2. generation \in Nat /\ troubled \ open \subseteq 1..(generation - 1)
      BY <1>0 DEF LossInv, TInv, StreamTypeOK
    <3>3. Cardinality(troubled \ open) \in Nat
      BY <3>2, StreamsAreFinite
    <3> QED
      BY <1>0, <3>1, <3>3 DEF LossInv
  <2>2. CASE unwinding # "_close"
    <3>1. loops' = loops /\ Owed = 0 /\ Owed' = 0 /\ UNCHANGED <<generation, open, troubled>>
      BY <1>3, <2>2 DEF Unwind, Owed
    <3> QED
      BY <1>0, <3>1 DEF LossInv
  <2> QED
    BY <2>1, <2>2
<1>4. CASE DialWorks
  <2>1. open = {} /\ UNCHANGED <<troubled, loops, unwinding>>
    BY <1>4 DEF DialWorks, TInv, StreamShape, OneLiveStream, frameVars
  <2>2. /\ generation \in Nat /\ open' = {generation} /\ generation' = generation + 1
        /\ troubled \subseteq 1..(generation - 1)
    BY <1>0, <1>4, <2>1 DEF DialWorks, NextGeneration, TInv, StreamTypeOK, LossInv
  <2>3. troubled \ open' = troubled \ open /\ troubled \subseteq 1..(generation' - 1)
    BY <2>1, <2>2
  <2> QED
    BY <1>0, <2>1, <2>3 DEF LossInv, Owed
<1>5. ASSUME NEW g \in live, StreamError(g) \/ StreamClosed(g) \/ BadFrame(g) PROVE LossInv'
  BY <1>5, CloseOwes DEF StreamError, StreamClosed, BadFrame
<1>6. CASE Reset
  BY <1>6, CloseOwes DEF Reset
<1>7. CASE Close \/ UserWrapperClose
  BY <1>7, CloseOwesNothing
<1>8. CASE LockRuns \/ SweepNext \/ StreamIsUp \/ FlushNext \/ FlushEnds \/ RetryConnect
  BY <1>2, <1>8
  DEF LockRuns, SweepNext, StreamIsUp, FlushNext, FlushEnds, RetryConnect, frameVars
<1>9. CASE DelayOver \/ HookWorks \/ HookFails \/ DialFails \/ Connect
  BY <1>2, <1>9 DEF DelayOver, HookWorks, HookFails, DialFails, Connect, frameVars
<1>10. ASSUME NEW c \in Calls, Invoke(c) PROVE LossInv'
  BY <1>2, <1>10 DEF Invoke, frameVars
<1>11. ASSUME NEW c \in HookCalls, HookInvokes(c) PROVE LossInv'
  BY <1>2, <1>11 DEF HookInvokes, frameVars
<1>12. ASSUME NEW r \in requests, Response(r) \/ Cancel(r) PROVE LossInv'
  BY <1>2, <1>12 DEF Response, Cancel, frameVars
<1> QED
  BY <1>3, <1>4, <1>5, <1>6, <1>7, <1>8, <1>9, <1>10, <1>11, <1>12
  DEF Next, Turn, HookSteps, Network, User

-----------------------------------------------------------------------------
(* The table of invocations.                                                *)

(* A call that was not handed to invoke is nowhere. *)
LEMMA FreshIsNowhere ==
  ASSUME TInv, NEW c \in Calls, Fresh(c)
  PROVE  Unsent(c) /\ ~Queued(c) /\ c \notin refused \cup dropped
BY DEF TInv, CallsConserved, Fresh

(* A queued call has not been sent. *)
LEMMA QueuedUnsent ==
  ASSUME TInv, tmp # <<>>
  PROVE  Head(tmp) \in Calls /\ Unsent(Head(tmp))
<1>1. Head(tmp) \in Calls /\ Head(tmp) \in Range(tmp)
  BY RangeTail DEF TInv, QueueTypeOK, CallsConserved
<1> QED
  BY <1>1 DEF TInv, CallsConserved, Queued

(* Every step of the transport is a step of Dispatch or leaves it alone.    *)
LEMMA StepDispatch ==
  ASSUME TInv, Next
  PROVE  DispatchNext \/ UNCHANGED dispatchVars
<1>1. ASSUME NEW c \in Calls, Unsent(c), TransportInvoke(c)
      PROVE  DispatchNext \/ UNCHANGED dispatchVars
  BY <1>1 DEF TransportInvoke, SendInvoke, DispatchNext
<1>2. ASSUME CloseOutcome PROVE DispatchNext \/ UNCHANGED dispatchVars
  BY <1>2 DEF CloseOutcome, TInv, StreamShape, DispatchNext
<1>3. ASSUME NEW g \in live, StreamError(g) \/ StreamClosed(g) \/ BadFrame(g)
      PROVE  DispatchNext \/ UNCHANGED dispatchVars
  BY <1>2, <1>3, CloseSteps DEF TInv
<1>4. CASE Close \/ Reset \/ UserWrapperClose
  BY <1>2, <1>4, CloseSteps DEF TInv
<1>5. CASE FlushNext
  <2>1. Head(tmp) \in Calls /\ Unsent(Head(tmp))
    BY <1>5, QueuedUnsent DEF FlushNext
  <2> QED
    BY <1>1, <1>5, <2>1 DEF FlushNext, TransportInvoke, SendInvoke, DispatchNext
<1>6. ASSUME NEW c \in Calls, Invoke(c) PROVE DispatchNext \/ UNCHANGED dispatchVars
  BY <1>1, <1>6, FreshIsNowhere DEF Invoke
<1>7. ASSUME NEW c \in HookCalls, HookInvokes(c)
      PROVE  DispatchNext \/ UNCHANGED dispatchVars
  BY <1>1, <1>7, HookCallsAssumption, FreshIsNowhere DEF HookInvokes
<1>8. ASSUME NEW r \in requests, Response(r) \/ Cancel(r) PROVE DispatchNext
  BY <1>8 DEF Response, Cancel, DispatchNext
<1>9. CASE SweepNext
  BY <1>9 DEF SweepNext, DispatchNext
<1>10. CASE Unwind \/ StreamIsUp \/ LockRuns \/ FlushEnds \/ RetryConnect
  BY <1>10 DEF Unwind, StreamIsUp, LockRuns, FlushEnds, RetryConnect
<1>11. CASE DelayOver \/ HookWorks \/ HookFails \/ DialFails \/ DialWorks \/ Connect
  BY <1>11 DEF DelayOver, HookWorks, HookFails, DialFails, DialWorks, Connect
<1> QED
  BY <1>3, <1>4, <1>5, <1>6, <1>7, <1>8, <1>9, <1>10, <1>11
  DEF Next, Turn, HookSteps, Network, User

-----------------------------------------------------------------------------
(* Calls.                                                                   *)

LEMMA WorksTmp ==
  ASSUME TInv, CriticalSectionWorks, holder.pc \in {"up", "hook", "await"}
  PROVE  TmpInv'
<1>1. holder # Free /\ tmp = <<>> /\ LockTypeOK
  BY DEF Free, TInv, TmpInv
<1>2. CASE Robust
  BY <1>1, <1>2, MoveHolder DEF CriticalSectionWorks, TmpInv, Points
<1>3. CASE ~Robust
  BY <1>1, <1>3 DEF CriticalSectionWorks, TmpInv
<1> QED
  BY <1>2, <1>3

LEMMA StepTmp ==
  ASSUME TInv, Next
  PROVE  TmpInv'
<1>0. TmpInv
  BY DEF TInv
<1>1. ASSUME UNCHANGED tmp, holder.pc # "flush" \/ holder' = holder PROVE TmpInv'
  BY <1>0, <1>1 DEF TmpInv
<1>2. ASSUME NEW kind, Reconnect(kind) PROVE holder.pc # "flush" \/ holder' = holder
  BY <1>2 DEF Reconnect, Acquire, Free
<1>3. CASE StreamIsUp \/ HookWorks
  BY <1>1, <1>3, WorksTmp DEF StreamIsUp, HookWorks, HookMayReturn, queueVars
<1>4. CASE FlushNext
  BY <1>4 DEF FlushNext, TmpInv, lockVars
<1>5. CASE FlushEnds
  BY <1>5 DEF FlushEnds, TmpInv, queueVars
<1>6. CASE Unwind \/ RetryConnect
  BY <1>1, <1>2, <1>6 DEF Unwind, RetryConnect, queueVars
<1>7. CASE LockRuns \/ SweepNext \/ DelayOver \/ HookFails \/ DialFails \/ DialWorks
  BY <1>1, <1>7 DEF LockRuns, SweepNext, DelayOver, HookFails, DialFails, DialWorks,
                    Idle, lockVars, queueVars
<1>8. CASE Connect \/ Close \/ Reset \/ UserWrapperClose
  BY <1>1, <1>8 DEF Connect, Close, Reset, UserWrapperClose, CloseAndReconnect, UserTurn,
                    queueVars
<1>9. ASSUME NEW g \in live, StreamError(g) \/ StreamClosed(g) \/ BadFrame(g) PROVE TmpInv'
  BY <1>1, <1>9 DEF StreamError, StreamClosed, BadFrame, CloseAndReconnect, Idle, queueVars
<1>10. ASSUME NEW c \in Calls, Invoke(c) PROVE TmpInv'
  BY <1>1, <1>10 DEF Invoke, lockVars
<1>11. ASSUME NEW c \in HookCalls, HookInvokes(c) PROVE TmpInv'
  BY <1>1, <1>11 DEF HookInvokes
<1>12. ASSUME NEW r \in requests, Response(r) \/ Cancel(r) PROVE TmpInv'
  BY <1>1, <1>12 DEF Response, Cancel, lockVars, queueVars
<1> QED
  BY <1>3, <1>4, <1>5, <1>6, <1>7, <1>8, <1>9, <1>10, <1>11, <1>12
  DEF Next, Turn, HookSteps, Network, User

(* A call that has not been handed to invoke is conserved by it. *)
LEMMA InvokeFresh ==
  ASSUME TInv, NEW c \in Calls, Fresh(c), TransportInvoke(c), tmp' = tmp,
         handed' = handed \cup {c}
  PROVE  CallsConserved' /\ QueueTypeOK'
<1>1. \A d \in Range(waiters) \cup Range(tmp) : d \in Calls
  BY DEF TInv, QueueTypeOK, Range
<1>2. \A d \in Range(waiters) \cup Range(tmp) \cup {c} :
        Unsent(d) /\ d \notin refused \cup dropped
  BY <1>1, FreshIsNowhere DEF TInv, CallsConserved, Queued
<1>3. c \notin Range(waiters) \cup Range(tmp)
  BY FreshIsNowhere DEF Queued
<1>4. \A d \in Calls : d \in handed \cup {c} <=>
        \/ ~Unsent(d)
        \/ d \in Range(waiters) \cup Range(tmp) \cup {c} \cup refused \cup dropped
  BY DEF TInv, CallsConserved, Queued
<1> QED
  BY <1>2, <1>3, <1>4, QueueMaxAssumption, InvokeConserves
  DEF TInv, QueueTypeOK, CallsConserved

(* The first of the flush is conserved, and is no longer in the flush. *)
LEMMA InvokeFirst ==
  ASSUME TInv, FlushNext
  PROVE  CallsConserved' /\ QueueTypeOK'
<1>1. tmp \in Seq(Calls) /\ tmp # <<>> /\ IsInjective(tmp)
  BY DEF FlushNext, TInv, QueueTypeOK, CallsConserved
<1>2. /\ Head(tmp) \in Calls /\ Tail(tmp) \in Seq(Calls)
      /\ Range(tmp) = {Head(tmp)} \cup Range(Tail(tmp))
      /\ Head(tmp) \notin Range(Tail(tmp)) /\ IsInjective(Tail(tmp))
  BY <1>1, RangeTail
<1>3. \A d \in Range(waiters) \cup Range(tmp) : d \in Calls
  BY DEF TInv, QueueTypeOK, Range
<1>4. PICK c, t : c = Head(tmp) /\ t = Tail(tmp)
  OBVIOUS
<1>5. \A d \in Range(waiters) \cup Range(t) \cup {c} :
        Unsent(d) /\ d \notin refused \cup dropped
  BY <1>2, <1>3, <1>4 DEF TInv, CallsConserved, Queued
<1>6. c \notin Range(waiters) \cup Range(t) /\ Range(waiters) \cap Range(t) = {}
  BY <1>2, <1>4 DEF TInv, CallsConserved
<1>7. TransportInvoke(c) /\ tmp' = t
  BY <1>4 DEF FlushNext, TransportInvoke, SendInvoke, DispatchInvoke
<1>8. \A d \in Calls : d \in handed <=>
        \/ ~Unsent(d)
        \/ d \in Range(waiters) \cup Range(t) \cup {c} \cup refused \cup dropped
  BY <1>2, <1>4 DEF TInv, CallsConserved, Queued
<1>9. c \in Calls /\ handed \cup {c} = handed /\ handed' = handed
  BY <1>2, <1>4, <1>8 DEF FlushNext
<1> QED
  BY <1>2, <1>4, <1>5, <1>6, <1>7, <1>8, <1>9, QueueMaxAssumption, InvokeConserves
  DEF TInv, QueueTypeOK, CallsConserved

(* No call is sent in any other step, and the queue moves as a whole. *)
LEMMA QueueAsAWhole ==
  ASSUME TInv, UNCHANGED <<requests, refused, dropped, handed>>,
         \/ UNCHANGED <<waiters, tmp>>
         \/ tmp = <<>> /\ tmp' = waiters /\ waiters' = <<>>
  PROVE  CallsConserved' /\ QueueTypeOK'
<1>1. CASE UNCHANGED <<waiters, tmp>>
  BY <1>1 DEF TInv, CallsConserved, QueueTypeOK, Queued, Unsent
<1>2. CASE tmp = <<>> /\ tmp' = waiters /\ waiters' = <<>>
  <2>1. waiters' \in Seq(Calls) /\ DOMAIN waiters' = {} /\ Len(waiters') = 0
    BY <1>2
  <2>2. IsInjective(waiters') /\ Range(waiters') = {}
    BY <2>1 DEF IsInjective, Range
  <2>3. Len(waiters') <= QueueMax
    BY <2>1, QueueMaxAssumption
  <2>4. Range(tmp) = {} /\ Range(tmp') = Range(waiters)
    BY <1>2, <2>2
  <2>5. \A c \in Calls : Queued(c)' <=> Queued(c)
    BY <2>2, <2>4 DEF Queued
  <2>6. \A c \in Calls : Unsent(c)' <=> Unsent(c)
    BY DEF Unsent
  <2>7. QueueTypeOK'
    BY <1>2, <2>1 DEF TInv, QueueTypeOK
  <2>8. \A c \in Calls :
          c \in handed' <=> ~Unsent(c)' \/ Queued(c)' \/ c \in refused' \cup dropped'
    BY <2>5, <2>6 DEF TInv, CallsConserved
  <2>9. \A c \in Calls : Queued(c)' => Unsent(c)' /\ c \notin refused' \cup dropped'
    BY <2>5, <2>6 DEF TInv, CallsConserved
  <2>10. IsInjective(tmp') /\ Range(waiters') \cap Range(tmp') = {}
    BY <1>2, <2>2 DEF TInv, CallsConserved
  <2>11. (\A r \in requests' : r[3] \notin refused' \cup dropped') /\ refused' \cap dropped' = {}
    BY DEF TInv, CallsConserved
  <2> QED
    BY <2>2, <2>3, <2>7, <2>8, <2>9, <2>10, <2>11 DEF CallsConserved
<1> QED
  BY <1>1, <1>2

LEMMA StepCalls ==
  ASSUME TInv, Next
  PROVE  CallsConserved' /\ QueueTypeOK'
<1> DEFINE Goal == CallsConserved' /\ QueueTypeOK'
<1> SUFFICES Goal
  OBVIOUS
<1>1. ASSUME UNCHANGED <<requests, queueVars>> PROVE Goal
  BY <1>1, QueueAsAWhole DEF queueVars
<1>2. ASSUME UNCHANGED requests, CriticalSectionWorks, holder.pc # "flush" PROVE Goal
  BY <1>2, QueueAsAWhole DEF CriticalSectionWorks, TInv, TmpInv
<1> HIDE DEF Goal
<1>3. ASSUME CloseOutcome, UNCHANGED queueVars PROVE Goal
  BY <1>1, <1>3 DEF CloseOutcome, DispatchReset, dispatchVars
<1>4. ASSUME NEW g \in live, StreamError(g) \/ StreamClosed(g) \/ BadFrame(g) PROVE Goal
  BY <1>3, <1>4, CloseSteps
  DEF TInv, StreamError, StreamClosed, BadFrame, CloseAndReconnect
<1>5. CASE Close \/ Reset \/ UserWrapperClose
  BY <1>3, <1>5, CloseSteps DEF TInv, Close, Reset, UserWrapperClose, CloseAndReconnect
<1>6. CASE FlushNext
  BY <1>6, InvokeFirst DEF Goal
<1>7. ASSUME NEW c \in Calls, Invoke(c) PROVE Goal
  BY <1>7, InvokeFresh DEF Invoke, Goal
<1>8. ASSUME NEW c \in HookCalls, HookInvokes(c) PROVE Goal
  BY <1>8, InvokeFresh, HookCallsAssumption DEF HookInvokes, Goal
<1>9. ASSUME NEW r \in requests, Response(r) \/ Cancel(r) PROVE Goal
  BY <1>1, <1>9 DEF Response, HandleResponse, Cancel, DispatchCancel, CallCb
<1>10. CASE SweepNext
  BY <1>1, <1>10 DEF SweepNext, ResetNext
<1>11. CASE Unwind \/ LockRuns \/ FlushEnds \/ RetryConnect
  BY <1>1, <1>11 DEF Unwind, LockRuns, FlushEnds, RetryConnect, dispatchVars
<1>12. CASE DelayOver \/ HookFails \/ DialFails \/ DialWorks \/ Connect
  BY <1>1, <1>12 DEF DelayOver, HookFails, DialFails, DialWorks, Connect, dispatchVars
<1>13. CASE HookWorks \/ StreamIsUp
  BY <1>1, <1>2, <1>13 DEF HookWorks, HookMayReturn, StreamIsUp, dispatchVars
<1> QED
  BY <1>4, <1>5, <1>6, <1>7, <1>8, <1>9, <1>10, <1>11, <1>12, <1>13
  DEF Next, Turn, HookSteps, Network, User

-----------------------------------------------------------------------------
(* Pending calls.                                                           *)

(* A send on the open stream, or of the base class, keeps every pending     *)
(* call on an open stream.                                                  *)
LEMMA InvokePending ==
  ASSUME TInv, NEW c \in Calls, Unsent(c), TransportInvoke(c), open' = open
  PROVE  PendingOnLiveStream'
<1> DEFINE streams == open \cup (IF Robust THEN {} ELSE {0})
<1>1. CASE SendInvoke(c) /\ (Connected \/ ~Robust)
  <2>1. invocations' = invocations \cup {<<seqid, c>>}
    BY <1>1, NextNumberIsFree DEF SendInvoke, DispatchInvoke, TInv
  <2>2. via'[c] \in streams
    BY <1>1 DEF SendInvoke, Connected, TInv, StreamTypeOK
  <2>3. \A e \in invocations : e[2] \in Calls /\ e[2] # c
    BY UnsentIsIdle DEF TInv, IInv, DispatchTypeOK, Entry, Outstanding
  <2>4. \A e \in invocations : via'[e[2]] = via[e[2]]
    BY <1>1, <2>3 DEF SendInvoke, TInv, StreamTypeOK
  <2>5. \A e \in invocations : via'[e[2]] \in streams
    BY <2>4 DEF TInv, PendingOnLiveStream
  <2> QED
    BY <2>1, <2>2, <2>5 DEF PendingOnLiveStream
<1>2. CASE UNCHANGED <<dispatchVars, via>>
  BY <1>2 DEF TInv, PendingOnLiveStream, dispatchVars
<1> QED
  BY <1>1, <1>2 DEF TransportInvoke

LEMMA StepPending ==
  ASSUME TInv, Next
  PROVE  PendingOnLiveStream'
<1>1. ASSUME via' = via, open \subseteq open', invocations' \subseteq invocations
      PROVE  PendingOnLiveStream'
  BY <1>1 DEF TInv, PendingOnLiveStream
<1>2. ASSUME CloseOutcome, via' = via PROVE PendingOnLiveStream'
  BY <1>1, <1>2 DEF CloseOutcome, DispatchReset, dispatchVars, PendingOnLiveStream
<1>3. ASSUME NEW g \in live, StreamError(g) \/ StreamClosed(g) \/ BadFrame(g)
      PROVE  PendingOnLiveStream'
  BY <1>2, <1>3, CloseSteps
  DEF TInv, StreamError, StreamClosed, BadFrame, CloseAndReconnect
<1>4. CASE Close \/ Reset \/ UserWrapperClose
  BY <1>2, <1>4, CloseSteps DEF TInv, Close, Reset, UserWrapperClose, CloseAndReconnect
<1>5. CASE FlushNext
  <2>1. PICK c : c = Head(tmp)
    OBVIOUS
  <2>2. c \in Calls /\ Unsent(c)
    BY <1>5, <2>1, QueuedUnsent DEF FlushNext, Unsent
  <2>3. TransportInvoke(c) /\ open' = open
    BY <1>5, <2>1 DEF FlushNext, TransportInvoke, SendInvoke, DispatchInvoke, streamVars
  <2> QED
    BY <2>2, <2>3, InvokePending
<1>6. ASSUME NEW c \in Calls, Invoke(c) PROVE PendingOnLiveStream'
  BY <1>6, InvokePending, FreshIsNowhere DEF Invoke, streamVars
<1>7. ASSUME NEW c \in HookCalls, HookInvokes(c) PROVE PendingOnLiveStream'
  BY <1>7, InvokePending, HookCallsAssumption, FreshIsNowhere DEF HookInvokes, streamVars
<1>8. ASSUME NEW r \in requests, Response(r) \/ Cancel(r) PROVE PendingOnLiveStream'
  BY <1>1, <1>8
  DEF Response, HandleResponse, Cancel, DispatchCancel, CallCb, streamVars
<1>9. CASE SweepNext
  BY <1>1, <1>9 DEF SweepNext, ResetNext, streamVars
<1>10. CASE LockRuns \/ FlushEnds \/ RetryConnect \/ StreamIsUp
  BY <1>1, <1>10
  DEF LockRuns, FlushEnds, RetryConnect, StreamIsUp, dispatchVars, streamVars
<1>11. CASE DelayOver \/ HookWorks \/ HookFails \/ DialFails \/ Connect
  BY <1>1, <1>11
  DEF DelayOver, HookWorks, HookFails, DialFails, Connect, dispatchVars, streamVars
<1>12. CASE Unwind
  BY <1>1, <1>12 DEF Unwind, dispatchVars
<1>13. CASE DialWorks
  BY <1>1, <1>13 DEF DialWorks, dispatchVars
<1> QED
  BY <1>3, <1>4, <1>5, <1>6, <1>7, <1>8, <1>9, <1>10, <1>11, <1>12, <1>13
  DEF Next, Turn, HookSteps, Network, User

-----------------------------------------------------------------------------
(* The invariant is inductive. *)
LEMMA StepTInv == TInv /\ [Next]_vars => TInv'
<1>1. ASSUME TInv, Next PROVE TInv'
  <2>1. IInv'
    BY <1>1, StepDispatch, NextInv DEF TInv
  <2> QED
    BY <1>1, <2>1, StepShape, StepTmp, StepLosses, StepCalls, StepPending DEF TInv
<1>2. ASSUME TInv, UNCHANGED vars PROVE TInv'
  <2>1. IInv'
    BY <1>2, NextInv DEF TInv, vars
  <2> QED
    BY <1>2, <2>1
    DEF TInv, vars, dispatchVars, streamVars, lockVars, queueVars, frameVars,
        StreamTypeOK, LockTypeOK, QueueTypeOK, StreamShape, OneLiveStream,
        LossInv, Owed, TmpInv, CallsConserved, PendingOnLiveStream, Queued, Unsent
<1> QED
  BY <1>1, <1>2

THEOREM TInvAlways == Spec => []TInv
BY InitTInv, StepTInv, PTL DEF Spec

(* The variables of the transport keep their types. *)
THEOREM TransportTypeCorrect == Spec => []TransportTypeOK
<1>1. TInv => TransportTypeOK
  BY DEF TInv, IInv, StreamTypeOK, LockTypeOK, QueueTypeOK, LossInv, TransportTypeOK
<1> QED
  BY <1>1, TInvAlways, PTL

(* One stream at a time: connect and the loops never dial next to an open   *)
(* stream, and none is dropped without being closed.                        *)
THEOREM OneStreamAtATime == Spec => []OneLiveStream
<1>1. TInv => OneLiveStream
  BY DEF TInv, StreamShape
<1> QED
  BY <1>1, TInvAlways, PTL

(* A pending call of a RobustTransport was written to the stream that is    *)
(* open now, so the loss of that stream ends it.                            *)
THEOREM PendingCallsCanEnd == Spec => []PendingOnLiveStream
<1>1. TInv => PendingOnLiveStream
  BY DEF TInv
<1> QED
  BY <1>1, TInvAlways, PTL

(* A call that was handed to invoke is in exactly one place, whatever flush *)
(* failed half way, and one that was not is in none.  The first half is why *)
(* nothing is lost, and needs that the local variable of _flush_queue is    *)
(* empty whenever a flush starts.                                           *)
THEOREM QueueConservesCalls == Spec => []CallsConserved
<1>1. TInv => CallsConserved
  BY DEF TInv
<1> QED
  BY <1>1, TInvAlways, PTL

(* A stream starts one reconnect loop at the most, and none unless          *)
(* something has happened to itself: what a late event of an old socket     *)
(* finds is closed, and it closes nothing else.  The streams that are       *)
(* closed and have been hit pay for the loops, since nothing hits a closed  *)
(* stream into closing again.                                               *)
THEOREM LossStartsOneLoop == Spec => []OneLoopPerLoss
<1>1. TInv => OneLoopPerLoss
  <2> SUFFICES ASSUME TInv PROVE OneLoopPerLoss
    OBVIOUS
  <2>1. /\ troubled \subseteq 1..(generation - 1) /\ generation \in Nat
        /\ loops \in Nat /\ Owed \in Nat
        /\ loops + Owed <= Cardinality(troubled \ open)
    BY DEF TInv, LossInv, StreamTypeOK, Owed
  <2>2. /\ IsFiniteSet(troubled) /\ Cardinality(troubled) \in Nat
        /\ Cardinality(troubled \ open) \in Nat
    BY <2>1, StreamsAreFinite
  <2>3. Cardinality(troubled \ open) <= Cardinality(troubled)
    BY <2>2, FS_Subset
  <2>4. loops + Owed <= Cardinality(troubled)
    BY <2>1, <2>2, <2>3
  <2> QED
    BY <2>4 DEF OneLoopPerLoss, Owed
<1> QED
  BY <1>1, TInvAlways, PTL

(* Both transports use Dispatch as it specifies. *)
THEOREM TransportRefinesDispatch == Spec => UsesDispatch
<1>1. TransportInit => DispatchInit
  BY DEF TransportInit
<1>2. TInv /\ [Next]_vars => [DispatchNext]_dispatchVars
  BY StepDispatch DEF vars
<1> QED
  BY <1>1, <1>2, TInvAlways, PTL DEF Spec, UsesDispatch, DispatchSpec

(* Hence what is proved of Dispatch: across reconnections, with the queue   *)
(* and its flush in between, a callback fires at most once, with the        *)
(* outcome of its own call.                                                 *)
THEOREM TransportCallbacks == Spec => [](AtMostOnce /\ OwnReply /\ NoCallForgotten)
BY TransportRefinesDispatch, CallbackAtMostOnce, CallbackOwnReply, CallNotForgotten, PTL
   DEF UsesDispatch

-----------------------------------------------------------------------------
(* Reconnection.                                                            *)

(* When users do not close wrappers, only close and _close unwind, and      *)
(* close leaves explicit_close set.                                         *)
RInv ==
  /\ SomeoneReconnects
  /\ unwinding \in {"nothing", "close", "_close"}
  /\ unwinding = "close" => explicit_close

LEMMA StepReconnects ==
  ASSUME TInv, RInv, "wrapper close" \notin UserOps, Next
  PROVE  RInv'
<1> DEFINE Lost == Robust /\ netw # 0 /\ netw \notin open /\ ~explicit_close
<1> USE DEF RInv, SomeoneReconnects, Connected
<1>0. LockTypeOK /\ retry \in Nat /\ OneLiveStream /\ StreamTypeOK
  BY DEF TInv, StreamTypeOK, StreamShape
<1>1. ASSUME UNCHANGED <<streamVars, frameVars>>, Lost => Reconnecting' PROVE RInv'
  BY <1>1 DEF streamVars, frameVars
<1>2. ASSUME UNCHANGED <<streamVars, frameVars, lockVars>> PROVE RInv'
  BY <1>2 DEF streamVars, frameVars, lockVars, Reconnecting
<1>3. CASE LockRuns
  <2>1. CASE GoesOn /\ Move(IF holder.kind = "re" THEN "delay" ELSE "dial")
    <3>0. holder # Free
      BY <1>0, <1>3, HolderNotFree DEF LockRuns
    <3>1. holder'.pc \in {"delay", "dial"}
      BY <1>0, <2>1, <3>0, MoveHolder DEF Points
    <3> QED
      BY <1>1, <1>3, <3>1 DEF LockRuns, Reconnecting
  <2>2. CASE ~GoesOn /\ Release
    BY <1>1, <1>3, <2>2 DEF LockRuns, GoesOn
  <2> QED
    BY <1>3, <2>1, <2>2 DEF LockRuns
<1>4. CASE SweepNext
  BY <1>4 DEF SweepNext, streamVars, lockVars, Reconnecting
<1>5. CASE Unwind
  <2>1. CASE unwinding = "_close"
    <3>1. Robust /\ ~explicit_close => lockq' # <<>> \/ holder'.pc = "run"
      BY <1>0, <1>5, <2>1, ReconnectLock DEF Unwind, Kinds
    <3> QED
      BY <1>5, <2>1, <3>1 DEF Unwind, Reconnecting
  <2>2. CASE unwinding = "close"
    BY <1>5, <2>2 DEF Unwind
  <2> QED
    BY <1>5, <2>1, <2>2 DEF Unwind
<1>6. CASE StreamIsUp \/ HookWorks
  <2>0. holder.pc \in {"up", "hook", "await"} /\ unwinding = "nothing"
    BY <1>6 DEF StreamIsUp, HookWorks, HookMayReturn, Idle
  <2>1. holder # Free /\ UNCHANGED <<streamVars, frameVars>>
    BY <1>0, <1>6, <2>0, HolderNotFree DEF StreamIsUp, HookWorks
  <2>2. CASE CriticalSectionWorks
    <3>1. lockq # <<>> => holder'.pc = "run" \/ lockq' # <<>>
      BY <1>0, <2>1, <2>2, WorksLock
    <3> QED
      BY <1>1, <2>0, <2>1, <2>2, <3>1 DEF Reconnecting, CriticalSectionWorks
  <2>3. CASE Move("hook") /\ UNCHANGED retry
    BY <1>1, <2>0, <2>1, <2>3 DEF Move, Reconnecting
  <2> QED
    BY <1>6, <2>2, <2>3 DEF StreamIsUp, HookWorks
<1>7. CASE FlushNext
  BY <1>2, <1>7 DEF FlushNext
<1>8. CASE FlushEnds
  <2>1. lockq # <<>> => holder'.pc = "run"
    BY <1>0, <1>8, ReleaseLock DEF FlushEnds
  <2> QED
    BY <1>1, <1>8, <2>1 DEF FlushEnds, Reconnecting, frameVars
<1>9. CASE RetryConnect
  <2>1. Robust /\ ~explicit_close => lockq' # <<>> \/ holder'.pc = "run"
    BY <1>0, <1>9, ReconnectLock DEF RetryConnect, Kinds
  <2> QED
    BY <1>1, <1>9, <2>1 DEF RetryConnect, Reconnecting
<1>10. CASE DelayOver
  BY <1>1, <1>10 DEF DelayOver, At, Reconnecting
<1>11. CASE HookFails \/ DialFails
  <2>0. holder # Free
    BY <1>0, <1>11, HolderNotFree DEF HookFails, HookMayReturn, DialFails
  <2>1. retry' > 0 \/ holder'.pc = "backoff"
    BY <1>0, <1>11, <2>0, FailsLock DEF HookFails, DialFails
  <2> QED
    BY <1>1, <1>11, <2>1 DEF HookFails, DialFails, Reconnecting
<1>12. CASE DialWorks
  BY <1>12 DEF DialWorks, frameVars
<1>13. ASSUME NEW c \in HookCalls, HookInvokes(c) PROVE RInv'
  BY <1>1, <1>13 DEF HookInvokes, Move, Idle, Reconnecting, frameVars
<1>14. CASE Connect
  <2>1. lockq' # <<>> \/ holder'.pc = "run"
    BY <1>0, <1>14, AcquireLock DEF Connect, Kinds
  <2> QED
    BY <1>1, <1>14, <2>1 DEF Connect, Reconnecting
<1>15. ASSUME NEW c \in Calls, Invoke(c) PROVE RInv'
  BY <1>2, <1>15 DEF Invoke
<1>16. ASSUME NEW r \in requests, Response(r) \/ Cancel(r) PROVE RInv'
  BY <1>2, <1>16 DEF Response, Cancel
<1>17. ASSUME NEW w, w \in {netw} \cup live,
              IF w \in open
                THEN open' = open \ {w} /\ unwinding' = "_close"
                ELSE UNCHANGED <<open, unwinding>>,
              UNCHANGED <<lockVars, explicit_close, netw>>
       PROVE  RInv'
  BY <1>17 DEF lockVars, Reconnecting
<1>18. ASSUME NEW g \in live, StreamError(g) \/ StreamClosed(g) PROVE RInv'
  BY <1>17, <1>18
  DEF StreamError, StreamClosed, CloseAndReconnect, WrapperClose, frameVars
<1>19. PICK w : w = netw
  OBVIOUS
<1>20. ASSUME NEW g \in live, BadFrame(g) PROVE RInv'
  BY <1>17, <1>19, <1>20 DEF BadFrame, CloseAndReconnect, WrapperClose, frameVars
<1>21. CASE Reset
  BY <1>17, <1>19, <1>21 DEF Reset, CloseAndReconnect, WrapperClose, frameVars
<1>22. CASE Close
  BY <1>22 DEF Close, WrapperClose, frameVars
<1>23. CASE UserWrapperClose
  BY <1>23 DEF UserWrapperClose
<1> QED
  BY <1>3, <1>4, <1>5, <1>6, <1>7, <1>8, <1>9, <1>10, <1>11, <1>12, <1>13, <1>14,
     <1>15, <1>16, <1>18, <1>20, <1>21, <1>22, <1>23
  DEF Next, Turn, HookSteps, Network, User

(* A robust transport that has lost its stream, and has not been closed, is *)
(* on its way to another one: a loop or a connect is at work, waits for the *)
(* lock or is about to start.  The hypothesis excludes the one way to lose  *)
(* a stream for good, w.close() on the wrapper given to the connected hook. *)
THEOREM LostStreamIsReplaced ==
  ASSUME "wrapper close" \notin UserOps
  PROVE  Spec => []SomeoneReconnects
<1>1. TransportInit => RInv
  BY DEF TransportInit, RInv, SomeoneReconnects, Connected
<1>2. TInv /\ RInv /\ [Next]_vars => RInv'
  <2>1. ASSUME TInv, RInv, UNCHANGED vars PROVE RInv'
    BY <2>1 DEF RInv, SomeoneReconnects, Reconnecting, Connected, vars, streamVars,
                lockVars, frameVars
  <2> QED
    BY <2>1, StepReconnects
<1>3. RInv => SomeoneReconnects
  BY DEF RInv
<1> QED
  BY <1>1, <1>2, <1>3, TInvAlways, PTL DEF Spec

-----------------------------------------------------------------------------
(* The queue of a connected transport.  While calls wait in it, the holder  *)
(* of the lock is between the dial and the flush.                           *)
QInv ==
  /\ ~Robust => waiters = <<>>
  /\ Connected /\ waiters # <<>> => holder.pc \in {"up", "hook", "await"}

LEMMA InvokeDrains ==
  ASSUME QInv, NEW c, TransportInvoke(c), UNCHANGED <<open, netw>>,
         holder.pc \in {"up", "hook", "await"} => holder'.pc \in {"up", "hook", "await"}
  PROVE  QInv'
<1>1. CASE UNCHANGED waiters
  BY <1>1 DEF QInv, Connected
<1>2. CASE Robust /\ ~Connected
  BY <1>2 DEF QInv, Connected
<1> QED
  BY <1>1, <1>2 DEF TransportInvoke

LEMMA StepDrains ==
  ASSUME TInv, QInv, Hook \in {"absent", "works"}, Next
  PROVE  QInv'
<1> USE DEF QInv, Connected
<1>0. /\ LockTypeOK /\ open \subseteq {netw} /\ (unwinding # "nothing" => open = {})
      /\ 0 \notin open
  BY DEF TInv, StreamShape, OneLiveStream, StreamTypeOK
<1>1. ASSUME UNCHANGED <<streamVars, waiters>>,
             holder.pc \notin {"up", "hook", "await"} \/ holder' = holder
      PROVE  QInv'
  BY <1>1 DEF streamVars
<1>2. ASSUME open' \subseteq {}, UNCHANGED waiters PROVE QInv'
  BY <1>2
<1>3. CASE LockRuns
  BY <1>1, <1>3 DEF LockRuns, queueVars
<1>4. CASE SweepNext
  BY <1>1, <1>4 DEF SweepNext, lockVars, queueVars
<1>5. CASE Unwind
  BY <1>0, <1>2, <1>5 DEF Unwind, queueVars
<1>6. ASSUME CriticalSectionWorks, UNCHANGED streamVars PROVE QInv'
  BY <1>6 DEF CriticalSectionWorks
<1>7. CASE StreamIsUp
  <2>1. CASE Hook # "absent" /\ Move("hook") /\ UNCHANGED <<queueVars, retry>>
    <3>1. holder # Free
      BY <1>0, <1>7, HolderNotFree DEF StreamIsUp
    <3>2. holder'.pc = "hook"
      BY <1>0, <2>1, <3>1, MoveHolder DEF Points
    <3> QED
      BY <1>7, <2>1, <3>2 DEF StreamIsUp, queueVars, streamVars
  <2> QED
    BY <1>6, <1>7, <2>1 DEF StreamIsUp
<1>8. CASE HookWorks
  BY <1>6, <1>8 DEF HookWorks
<1>9. CASE FlushNext
  BY <1>9, InvokeDrains DEF FlushNext, streamVars, lockVars
<1>10. CASE FlushEnds
  BY <1>1, <1>10 DEF FlushEnds, queueVars
<1>11. ASSUME NEW kind, Acquire(kind), UNCHANGED <<streamVars, waiters>> PROVE QInv'
  BY <1>1, <1>11 DEF Acquire, Free
<1>12. CASE RetryConnect
  BY <1>1, <1>11, <1>12 DEF RetryConnect, Reconnect, queueVars
<1>13. CASE Connect
  BY <1>11, <1>13 DEF Connect, queueVars
<1>14. CASE DelayOver \/ DialFails
  BY <1>1, <1>14 DEF DelayOver, DialFails, queueVars
<1>15. CASE DialWorks
  <2>1. holder # Free
    BY <1>0, <1>15, HolderNotFree DEF DialWorks
  <2>2. holder'.pc = "up"
    BY <1>0, <1>15, <2>1, MoveHolder DEF DialWorks, Points
  <2> QED
    BY <1>15, <2>2 DEF DialWorks, queueVars
<1>16. ASSUME NEW c \in HookCalls, HookInvokes(c) PROVE QInv'
  BY <1>16 DEF HookInvokes
<1>17. ASSUME NEW c \in Calls, Invoke(c) PROVE QInv'
  BY <1>17, InvokeDrains DEF Invoke, streamVars, lockVars
<1>18. ASSUME NEW r \in requests, Response(r) \/ Cancel(r) PROVE QInv'
  BY <1>1, <1>18 DEF Response, Cancel, lockVars, queueVars
<1>19. ASSUME open' = open \/ open' \subseteq {}, netw' = netw, UNCHANGED <<lockVars, queueVars>>
       PROVE  QInv'
  BY <1>19 DEF lockVars, queueVars
<1>20. ASSUME NEW w, WrapperClose(w, "_close") \/ WrapperClose(w, "close")
                     \/ WrapperClose(w, "w.close")
       PROVE  open' = open \/ open' \subseteq {}
  BY <1>0, <1>20 DEF WrapperClose
<1>21. ASSUME NEW w, CloseAndReconnect(w) PROVE QInv'
  BY <1>19, <1>20, <1>21 DEF CloseAndReconnect
<1>22. PICK w : w = netw
  OBVIOUS
<1>23. ASSUME NEW g \in live, StreamError(g) \/ StreamClosed(g) \/ BadFrame(g)
       PROVE  QInv'
  BY <1>21, <1>22, <1>23 DEF StreamError, StreamClosed, BadFrame
<1>24. CASE Reset
  BY <1>21, <1>22, <1>24 DEF Reset
<1>25. CASE Close
  <2>1. open' = open \/ open' \subseteq {}
    BY <1>20, <1>22, <1>25 DEF Close
  <2>2. Connected' => netw' = netw
    BY <1>0, <1>25, <2>1 DEF Close
  <2> QED
    BY <1>0, <1>25, <2>1, <2>2 DEF Close, lockVars, queueVars
<1>26. CASE UserWrapperClose
  BY <1>19, <1>20, <1>22, <1>26 DEF UserWrapperClose
<1>27. ~HookFails
  BY DEF HookFails
<1> QED
  BY <1>3, <1>4, <1>5, <1>7, <1>8, <1>9, <1>10, <1>12, <1>13, <1>14, <1>15, <1>16,
     <1>17, <1>18, <1>23, <1>24, <1>25, <1>26, <1>27
  DEF Next, Turn, HookSteps, Network, User

(* No call is stranded in the queue of a connected transport.  The          *)
(* hypothesis excludes the hook whose failure skips the flush.              *)
THEOREM ConnectedQueueIsFlushed ==
  ASSUME Hook \in {"absent", "works"}
  PROVE  Spec => []QueueDrained
<1>1. TransportInit => QInv
  BY DEF TransportInit, QInv
<1>2. TInv /\ QInv /\ [Next]_vars => QInv'
  <2>1. ASSUME QInv, UNCHANGED vars PROVE QInv'
    BY <2>1 DEF QInv, Connected, vars, streamVars, lockVars, queueVars
  <2> QED
    BY <2>1, StepDrains
<1>3. QInv => QueueDrained
  BY DEF QInv, QueueDrained, Free
<1> QED
  BY <1>1, <1>2, <1>3, TInvAlways, PTL DEF Spec
=============================================================================
