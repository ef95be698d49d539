-------------------------- MODULE TickQueueProofs --------------------------
(***************************************************************************)
(* Proofs about the tick pipeline: every timer, capacity and number of     *)
(* updates.                                                                *)
(***************************************************************************)
EXTENDS TickQueue, SharedLemmas

(* The end of a session restores the timers of a fresh one. *)
LEMMA ReconnectKeeps ==
    ASSUME WsTypeOK, NEW connected \in BOOLEAN, Reconnect(connected)
    PROVE  WsTypeOK' /\ WatchdogInv'
<1> USE WsAssumption
<1>1. backoff' \in ReconnectBase..ReconnectMax /\ sleepIn' \in 0..ReconnectMax
  BY DEF WsTypeOK, Reconnect
<1>2. streak' \in 0..MaxStreak
  BY DEF WsTypeOK, Reconnect, Least
<1>. QED
  BY <1>1, <1>2 DEF WsTypeOK, WatchdogInv, Reconnect, ClosedConnection

LEMMA StoppedKeeps ==
    ASSUME WsTypeOK, Stopped
    PROVE  WsTypeOK' /\ WatchdogInv'
BY WsAssumption DEF WsTypeOK, WatchdogInv, Stopped, ClosedConnection

(* Every step of the session keeps the watchdog's bound. *)
LEMMA SessionStep ==
    ASSUME WsTypeOK, WatchdogInv, [WsNext]_wsVars
    PROVE  WsTypeOK' /\ WatchdogInv'
<1> USE WsAssumption
<1>1. CASE Connected
  BY <1>1 DEF Connected, WsTypeOK, WatchdogInv, ToVerdict, wsHistory
<1>2. CASE ConnectFails
  BY <1>2, ReconnectKeeps DEF ConnectFails
<1>3. CASE SubscribeFails
  BY <1>3, ReconnectKeeps DEF SubscribeFails
<1>4. CASE TryConnect
  BY <1>4 DEF TryConnect, WsTypeOK, WatchdogInv, ToVerdict, wsHistory
<1>5. CASE ShutdownArm \/ BackoffInterrupted
  BY <1>5, StoppedKeeps DEF ShutdownArm, BackoffInterrupted
<1>6. CASE PongTimedOut \/ SendPingFails \/ ReadEnds
  BY <1>6, ReconnectKeeps DEF PongTimedOut, SendPingFails, ReadEnds
<1>7. CASE SendPing
  BY <1>7 DEF SendPing, PingArm, WsTypeOK, WatchdogInv, ToVerdict
<1>8. CASE BackoffOver
  BY <1>8 DEF BackoffOver, WsTypeOK, WatchdogInv, ToVerdict, Least, wsHistory
<1>9. CASE ReadPong
  BY <1>9 DEF ReadPong, CanRead, WsTypeOK, WatchdogInv, ToVerdict
<1>10. CASE ReadNotification \/ UNCHANGED wsVars
  BY <1>10 DEF ReadNotification, wsVars, wsState, wsHistory, WsTypeOK, WatchdogInv, ToVerdict
<1>11. CASE CtrlC
  BY <1>11 DEF CtrlC, wsState, wsHistory, WsTypeOK, WatchdogInv, ToVerdict
<1>12. CASE LinkDies
  BY <1>12 DEF LinkDies, wsHistory, WsTypeOK, WatchdogInv, ToVerdict
<1>13. CASE WsElapse
  <2>1. WsTypeOK'
    BY <1>13 DEF WsElapse, ArmDue, Earlier, Least, WsTypeOK, WatchdogInv
  <2>2. WatchdogInv'
    BY <1>13 DEF WsElapse, ArmDue, Earlier, WsTypeOK, WatchdogInv, ToVerdict
  <2>. QED
    BY <2>1, <2>2
<1>. QED
  BY <1>1, <1>2, <1>3, <1>4, <1>5, <1>6, <1>7, <1>8, <1>9, <1>10, <1>11, <1>12, <1>13
     DEF WsNext, ConnectReturns, TakeArm

LEMMA SessionInit == WsInit => WsTypeOK /\ WatchdogInv
<1> SUFFICES ASSUME WsInit PROVE WsTypeOK /\ WatchdogInv
  OBVIOUS
<1>1. /\ backoff \in ReconnectBase..ReconnectMax /\ sleepIn \in 0..ReconnectMax
      /\ age \in 0..MinHealthySession /\ pingIn \in 0..PingInterval
      /\ streak \in 0..MaxStreak /\ silent \in Nat
  BY WsAssumption DEF WsInit
<1>2. WsTypeOK
  BY <1>1 DEF WsInit, WsTypeOK
<1>. QED
  BY <1>2 DEF WsInit, WatchdogInv

-----------------------------------------------------------------------------
(* The pace of the reconnects. *)

LEMMA Waits ==
    /\ WaitAfter(1) = ReconnectBase
    /\ \A n \in Nat \ {0} :
          WaitAfter(n) \in Nat /\ Least(WaitAfter(n) * 2, ReconnectMax) = WaitAfter(n + 1)
<1>1. /\ WaitAfter(1) = ReconnectBase
      /\ \A n \in Nat \ {0} :
            /\ WaitAfter(n) \in ReconnectBase..ReconnectMax
            /\ WaitAfter(n + 1) = IF 2 * WaitAfter(n) < ReconnectMax
                                  THEN 2 * WaitAfter(n) ELSE ReconnectMax
  BY WsAssumption, WaitsDouble DEF WaitAfter
<1>. QED
  BY <1>1, WsAssumption DEF Least

(* Every step of the session keeps the pace: a failure waits what was due,   *)
(* the end of the sleep doubles it, a healthy session starts over.           *)
LEMMA PaceStep ==
    ASSUME WsTypeOK, BackoffInv, [WsNext]_wsVars
    PROVE  BackoffInv'
<1> USE WsAssumption
<1>1. ASSUME NEW connected \in BOOLEAN, Reconnect(connected), ws \in {"connecting", "open"}
      PROVE  BackoffInv'
  <2>1. streak \in 0..MaxStreak /\ ws' = "backoff" /\ 1 < MaxStreak + 1
    BY <1>1 DEF WsTypeOK, Reconnect
  <2>2. CASE CountsAsHealthy(connected)
    <3>1. streak' = 1 /\ backoff' = ReconnectBase
      BY <1>1, <2>2 DEF Reconnect, CountsAsHealthy
    <3>. QED
      BY <2>1, <3>1, Waits DEF BackoffInv, WaitAfter
  <2>3. CASE ~CountsAsHealthy(connected)
    <3>1. streak' = Least(streak + 1, MaxStreak) /\ backoff' = backoff
      BY <1>1, <2>3 DEF Reconnect, CountsAsHealthy
    <3>2. streak' > 0 /\ (streak' < MaxStreak => streak < MaxStreak /\ streak' = streak + 1)
      BY <2>1, <3>1 DEF Least
    <3>. QED
      BY <1>1, <2>1, <3>1, <3>2 DEF BackoffInv, WaitAfter
  <2>. QED
    BY <2>2, <2>3
<1>2. ASSUME UNCHANGED <<backoff, streak>>,
             ws' # "backoff" \/ ws = "backoff",
             ws' \in {"retry", "connecting", "open"} => ws \in {"retry", "connecting", "open"}
      PROVE  BackoffInv'
  BY <1>2 DEF BackoffInv, WaitAfter
<1>3. CASE BackoffOver
  <2>1. /\ streak \in 1..MaxStreak /\ streak' = streak /\ ws' = "retry"
        /\ backoff' = Least(backoff * 2, ReconnectMax)
        /\ streak < MaxStreak => backoff = WaitAfter(streak)
    BY <1>3 DEF BackoffOver, BackoffInv, WsTypeOK, wsHistory
  <2>2. streak < MaxStreak => backoff' = WaitAfter(streak + 1)
    BY <2>1, Waits
  <2>. QED
    BY <2>1, <2>2 DEF BackoffInv, WaitAfter
<1>4. CASE TryConnect \/ Connected
  BY <1>2, <1>4 DEF TryConnect, Connected, wsHistory
<1>5. CASE ConnectFails \/ SubscribeFails
  BY <1>1, <1>5 DEF ConnectFails, SubscribeFails
<1>6. CASE PongTimedOut \/ SendPingFails \/ ReadEnds
  BY <1>1, <1>6 DEF PongTimedOut, SendPingFails, PingArm, ReadEnds, CanRead
<1>7. CASE ShutdownArm \/ BackoffInterrupted
  BY <1>2, <1>7 DEF ShutdownArm, BackoffInterrupted, Stopped
<1>8. CASE SendPing \/ ReadPong
  BY <1>2, <1>8 DEF SendPing, ReadPong
<1>9. CASE ReadNotification \/ UNCHANGED wsVars
  BY <1>2, <1>9 DEF ReadNotification, wsVars, wsState, wsHistory
<1>10. CASE CtrlC \/ LinkDies \/ WsElapse
  BY <1>2, <1>10 DEF CtrlC, LinkDies, WsElapse, wsState, wsHistory
<1>. QED
  BY <1>3, <1>4, <1>5, <1>6, <1>7, <1>8, <1>9, <1>10 DEF WsNext, ConnectReturns, TakeArm

LEMMA PaceInit ==
    ASSUME WsInit PROVE BackoffInv
<1>1. 0 + 1 = 1
  OBVIOUS
<1>. QED
  BY <1>1, Waits DEF WsInit, BackoffInv

(* Every step of the pipeline is a step of the session or leaves it alone. *)
LEMMA StepIsSessionStep ==
    ASSUME [Next]_pipeVars PROVE [WsNext]_wsVars
<1>1. CASE Session
  BY <1>1 DEF Session, WsNext
<1>2. CASE Notify
  BY <1>2 DEF Notify, WsNext
<1>3. CASE AccountChanges \/ TakeTick \/ FinishTick
  BY <1>3 DEF AccountChanges, TakeTick, FinishTick
<1>4. CASE Shutdown
  BY <1>4 DEF Shutdown, StopWatching, Drained, GraceOver, GraceElapse, Exit
<1>5. CASE UNCHANGED pipeVars
  BY <1>5 DEF pipeVars
<1>. QED
  BY <1>1, <1>2, <1>3, <1>4, <1>5 DEF Next

(* A session that has stopped stays stopped. *)
LEMMA StoppedForGood ==
    ASSUME ws = "stopped", [WsNext]_wsVars PROVE ws' = "stopped"
<1>1. CASE UNCHANGED wsVars
  BY <1>1 DEF wsVars, wsState
<1>. QED
  BY <1>1 DEF WsNext, ConnectReturns, TakeArm, TryConnect, Connected, ConnectFails,
     SubscribeFails, ShutdownArm, PongTimedOut, SendPing, SendPingFails, PingArm,
     BackoffOver, BackoffInterrupted, ReadPong, ReadNotification, ReadEnds, CanRead,
     CtrlC, LinkDies, WsElapse, ArmDue, wsState

-----------------------------------------------------------------------------
(* The channel. *)

QueueTypeOK ==
    /\ version \in 0..MaxUpdates
    /\ queue \in Seq(Updates) /\ Len(queue) <= QueueCapacity
    /\ tick \in 0..MaxUpdates
    /\ stage \in {"watching", "draining", "joining", "down"}
    /\ graceIn \in 0..DrainGrace
    /\ received \subseteq Updates /\ processed \subseteq Updates
    /\ dropped \subseteq Updates /\ abandoned \subseteq Updates

QueueInv == QueueTypeOK /\ Accounted /\ ChainOrder /\ ShutdownInv

LEMMA QueueInit == Init => QueueInv
BY QueueAssumption
   DEF Init, QueueInv, QueueTypeOK, Accounted, ChainOrder, ShutdownInv,
       Pending, Queued, InHand

(* What the two ends of the channel do to its set of updates. *)
LEMMA AppendedRange ==
    ASSUME NEW v \in Updates, queue \in Seq(Updates), queue' = Append(queue, v)
    PROVE  Queued' = Queued \cup {v}
<1>1. /\ DOMAIN queue = 1..Len(queue) /\ DOMAIN queue' = 1..(Len(queue) + 1)
      /\ Len(queue) \in Nat
      /\ \A i \in 1..Len(queue) : queue'[i] = queue[i]
      /\ queue'[Len(queue) + 1] = v
  OBVIOUS
<1>2. \A i \in DOMAIN queue' : i \in DOMAIN queue \/ i = Len(queue) + 1
  BY <1>1
<1>3. Queued' \subseteq Queued \cup {v}
  BY <1>1, <1>2 DEF Queued
<1>4. Queued \subseteq Queued'
  BY <1>1 DEF Queued
<1>5. v \in Queued'
  BY <1>1 DEF Queued
<1>. QED
  BY <1>3, <1>4, <1>5

LEMMA TakenRange ==
    ASSUME queue \in Seq(Updates), queue # <<>>, queue' = Tail(queue)
    PROVE  Queued = Queued' \cup {Head(queue)}
<1>1. /\ DOMAIN queue = 1..Len(queue) /\ DOMAIN queue' = 1..(Len(queue) - 1)
      /\ Len(queue) \in Nat \ {0}
      /\ \A i \in 1..(Len(queue) - 1) : queue'[i] = queue[i + 1]
      /\ Head(queue) = queue[1]
  OBVIOUS
<1>2. Queued' \subseteq Queued
  BY <1>1 DEF Queued
<1>3. Head(queue) \in Queued
  BY <1>1 DEF Queued
<1>4. ASSUME NEW i \in DOMAIN queue, i # 1 PROVE queue[i] \in Queued'
  <2>1. i - 1 \in DOMAIN queue' /\ queue'[i - 1] = queue[i]
    BY <1>1, <1>4
  <2>. QED
    BY <2>1 DEF Queued
<1>. QED
  BY <1>1, <1>2, <1>3, <1>4 DEF Queued

LEMMA QueueStep ==
    ASSUME QueueInv, [Next]_pipeVars
    PROVE  QueueInv'
<1> USE QueueAssumption DEF QueueInv
<1>1. CASE Session \/ UNCHANGED pipeVars
  <2>1. UNCHANGED queueVars
    BY <1>1 DEF Session, pipeVars
  <2>2. stage # "watching" => ws' = "stopped"
    BY StepIsSessionStep, StoppedForGood DEF ShutdownInv
  <2>. QED
    BY <2>1, <2>2 DEF queueVars, QueueTypeOK, Accounted, ChainOrder, ShutdownInv,
       Pending, Queued, InHand
<1>2. CASE AccountChanges
  <2>1. UNCHANGED <<queue, tick, stage, graceIn, received, processed, dropped, abandoned, ws>>
    BY <1>2 DEF AccountChanges, wsVars, wsState
  <2>2. QueueTypeOK'
    BY <1>2, <2>1 DEF AccountChanges, QueueTypeOK
  <2>3. UNCHANGED <<Queued, InHand, Pending>>
    BY <2>1 DEF Pending, Queued, InHand
  <2>. QED
    BY <2>1, <2>2, <2>3 DEF Accounted, ChainOrder, ShutdownInv
<1>3. CASE Notify
  <2>1. PICK v \in 1..version :
          (\A r \in received : v > r) /\ Enqueue(v) /\ received' = received \cup {v}
    BY <1>3 DEF Notify
  <2>2. v \in Updates /\ v \notin received
    BY <2>1 DEF QueueTypeOK, Updates
  <2>3. UNCHANGED <<version, tick, stage, graceIn, processed, abandoned>> /\ UNCHANGED ws
    BY <1>3 DEF Notify, ReadNotification, wsVars, wsState
  <2>4. stage = "watching"
    BY <1>3 DEF Notify, ReadNotification, CanRead, ShutdownInv
  <2>5. CASE Len(queue) < QueueCapacity
    <3>1. queue' = Append(queue, v) /\ UNCHANGED dropped
      BY <2>1, <2>5 DEF Enqueue
    <3>2. Queued' = Queued \cup {v}
      BY <2>2, <3>1, AppendedRange DEF QueueTypeOK
    <3>3. Pending' = Pending \cup {v} /\ UNCHANGED InHand
      BY <2>3, <3>2 DEF Pending, InHand
    <3>4. QueueTypeOK'
      BY <2>1, <2>2, <2>3, <2>5, <3>1 DEF QueueTypeOK
    <3>5. Accounted'
      BY <2>1, <2>2, <2>3, <3>1, <3>2, <3>3 DEF Accounted, Pending
    <3>6. ChainOrder'
      <4>1. \A i, j \in DOMAIN queue' : i < j => queue'[i] < queue'[j]
        <5>1. /\ \A i \in DOMAIN queue : queue[i] \in received
              /\ \A i \in DOMAIN queue' : i # Len(queue) + 1 => i \in DOMAIN queue
          BY <3>1 DEF Accounted, Pending, Queued, QueueTypeOK
        <5>2. /\ DOMAIN queue = 1..Len(queue) /\ DOMAIN queue' = 1..(Len(queue) + 1)
              /\ Len(queue) \in Nat
              /\ \A i \in DOMAIN queue : queue'[i] = queue[i]
              /\ queue'[Len(queue) + 1] = v
          BY <2>2, <3>1 DEF QueueTypeOK
        <5>3. TAKE i, j \in DOMAIN queue'
        <5>4. HAVE i < j
        <5>5. i \in DOMAIN queue /\ (j \in DOMAIN queue \/ j = Len(queue) + 1)
          BY <5>2, <5>4
        <5>6. queue[i] < v
          BY <2>1, <5>1, <5>5 DEF QueueTypeOK, Updates
        <5>. QED
          BY <5>2, <5>4, <5>5, <5>6 DEF ChainOrder
      <4>2. \A d \in processed : d < v
        BY <2>1, <2>2 DEF Accounted, QueueTypeOK, Updates
      <4>3. \A t \in InHand : t < v
        BY <2>1, <2>2 DEF Accounted, Pending, QueueTypeOK, Updates, InHand
      <4>. QED
        BY <2>3, <3>2, <3>3, <4>1, <4>2, <4>3 DEF ChainOrder
    <3>. QED
      BY <2>3, <2>4, <3>4, <3>5, <3>6 DEF ShutdownInv
  <2>6. CASE ~(Len(queue) < QueueCapacity)
    <3>1. dropped' = dropped \cup {v} /\ UNCHANGED queue
      BY <2>1, <2>6 DEF Enqueue
    <3>2. UNCHANGED <<Queued, InHand, Pending>>
      BY <2>3, <3>1 DEF Pending, Queued, InHand
    <3>. QED
      BY <2>1, <2>2, <2>3, <2>4, <3>1, <3>2 DEF QueueTypeOK, Accounted, ChainOrder, ShutdownInv
  <2>. QED
    BY <2>5, <2>6
<1>4. CASE TakeTick
  <2>1. Queued = Queued' \cup {tick'} /\ tick' = queue[1] /\ tick = 0
    BY <1>4, TakenRange DEF TakeTick, QueueTypeOK
  <2>2. tick' \in Updates /\ tick' # 0 /\ queue' \in Seq(Updates) /\ Len(queue') <= QueueCapacity
    BY <1>4 DEF TakeTick, QueueTypeOK, Updates
  <2>3. \A i \in DOMAIN queue' : queue'[i] = queue[i + 1] /\ i + 1 \in DOMAIN queue /\ 1 < i + 1
    BY <1>4 DEF TakeTick, QueueTypeOK
  <2>4. 1 \in DOMAIN queue /\ \A i \in DOMAIN queue' : i \in Nat
    BY <1>4 DEF TakeTick, QueueTypeOK
  <2>5. \A q \in Queued' : tick' < q
    BY <2>1, <2>3, <2>4 DEF ChainOrder, Queued
  <2>6. \A i, j \in DOMAIN queue' : i < j => queue'[i] < queue'[j]
    BY <2>3, <2>4 DEF ChainOrder
  <2>7. InHand = {} /\ InHand' = {tick'}
    BY <2>1, <2>2 DEF InHand
  <2>8. Pending' = Pending
    BY <2>1, <2>7 DEF Pending
  <2>9. Queued' \cap InHand' = {}
    BY <2>2, <2>5, <2>7 DEF Updates
  <2>10. UNCHANGED <<version, stage, graceIn, received, processed, dropped, abandoned>> /\ UNCHANGED ws
    BY <1>4 DEF TakeTick, wsVars, wsState
  <2>11. QueueTypeOK'
    BY <2>2, <2>10 DEF QueueTypeOK, Updates
  <2>12. Accounted' /\ ChainOrder'
    BY <2>5, <2>6, <2>7, <2>8, <2>9, <2>10 DEF Accounted, ChainOrder
  <2>. QED
    BY <2>8, <2>10, <2>11, <2>12 DEF ShutdownInv
<1>5. CASE FinishTick
  <2>1. InHand = {tick} /\ InHand' = {} /\ UNCHANGED Queued
    BY <1>5 DEF FinishTick, InHand, Queued
  <2>2. Pending = Queued \cup {tick} /\ Pending' = Queued
    BY <2>1 DEF Pending
  <2>. QED
    BY <1>5, <2>1, <2>2 DEF FinishTick, QueueTypeOK, Updates, Accounted, ChainOrder,
       ShutdownInv, wsVars, wsState
<1>6. CASE StopWatching \/ Drained \/ GraceOver \/ GraceElapse
  <2>1. UNCHANGED <<version, queue, tick, received, processed, dropped, abandoned, ws>>
    BY <1>6 DEF StopWatching, Drained, GraceOver, GraceElapse, wsVars, wsState
  <2>2. UNCHANGED <<Queued, InHand, Pending>>
    BY <2>1 DEF Queued, InHand, Pending
  <2>3. Accounted' /\ ChainOrder'
    BY <2>1, <2>2 DEF Accounted, ChainOrder
  <2>4. Drained => Pending = {}
    BY DEF Drained, Pending, Queued, InHand
  <2>5. QueueTypeOK' /\ ShutdownInv'
    BY <1>6, <2>1, <2>2, <2>4 DEF StopWatching, Drained, GraceOver, GraceElapse,
       QueueTypeOK, ShutdownInv
  <2>. QED
    BY <2>3, <2>5
<1>7. CASE Exit
  <2>1. Queued' = {} /\ InHand' = {} /\ Pending' = {}
    BY <1>7 DEF Exit, Queued, InHand, Pending
  <2>2. Pending \subseteq Updates
    BY DEF Pending, Queued, InHand, QueueTypeOK, Updates
  <2>. QED
    BY <1>7, <2>1, <2>2 DEF Exit, QueueTypeOK, Accounted, ChainOrder, ShutdownInv,
       wsVars, wsState
<1>. QED
  BY <1>1, <1>2, <1>3, <1>4, <1>5, <1>6, <1>7 DEF Next, Shutdown

-----------------------------------------------------------------------------
(* The theorems. *)

SplitTypeOK == TypeOK <=> WsTypeOK /\ QueueTypeOK

LEMMA TypeOKSplits == SplitTypeOK
BY DEF SplitTypeOK, TypeOK, QueueTypeOK

(* The inductive invariant, with the order and the accounting of updates. *)
THEOREM PipelineInvariant == Spec => [](PipelineInv /\ Accounted /\ ChainOrder)
<1>1. Init => WsTypeOK /\ WatchdogInv /\ BackoffInv /\ QueueInv
  BY SessionInit, PaceInit, QueueInit DEF Init
<1>2. WsTypeOK /\ WatchdogInv /\ BackoffInv /\ QueueInv /\ [Next]_pipeVars
         => (WsTypeOK /\ WatchdogInv /\ BackoffInv /\ QueueInv)'
  BY QueueStep, SessionStep, PaceStep, StepIsSessionStep
<1>3. WsTypeOK /\ WatchdogInv /\ BackoffInv /\ QueueInv => PipelineInv /\ Accounted /\ ChainOrder
  BY TypeOKSplits DEF SplitTypeOK, QueueInv, PipelineInv
<1>. QED
  BY <1>1, <1>2, <1>3, PTL DEF Spec

(* A connection that went silent is given up within one ping interval and   *)
(* one pong timeout (ws.rs 144-147), for all lengths of the two.             *)
THEOREM DeadLinkIsFound == Spec => []SilenceBounded
<1>1. PipelineInv => SilenceBounded
  BY WsAssumption DEF PipelineInv, TypeOK, WsTypeOK, WatchdogInv, ToVerdict, SilenceBounded
<1>. QED
  BY <1>1, PipelineInvariant, PTL

(* The watchdog ends a session only over a ping that had its whole timeout   *)
(* and no pong after it.                                                     *)
THEOREM AnsweredSessionsStay == Spec => NoFalsePongTimeout
<1>1. ASSUME PipelineInv, PongTimedOut PROVE awaited # NoTimer /\ awaited >= PongTimeout
  <2>1. awaited # NoTimer /\ awaited + 0 = PongTimeout
    BY <1>1, WsAssumption DEF PipelineInv, WatchdogInv, PongTimedOut
  <2>2. awaited \in Nat
    BY <1>1, <2>1 DEF PipelineInv, TypeOK, WsTypeOK
  <2>. QED
    BY <2>1, <2>2, WsAssumption
<1>2. PipelineInv => [PongTimedOut => awaited # NoTimer /\ awaited >= PongTimeout]_wsVars
  BY <1>1
<1>. QED
  BY <1>2, PipelineInvariant, PTL DEF NoFalsePongTimeout

(* The wait after the n-th session in a row that did not last is the base    *)
(* doubled n - 1 times, up to the maximum, for every base and maximum, and   *)
(* only a session of MinHealthySession starts the count over (ws.rs 11-15,   *)
(* 54-58).                                                                   *)
THEOREM ReconnectsArePaced == Spec => []BackoffGrows
<1>1. PipelineInv => BackoffGrows
  BY DEF PipelineInv, BackoffInv, BackoffGrows
<1>. QED
  BY <1>1, PipelineInvariant, PTL

(* No update is lost without a trace: it is processed, pending, refused at a *)
(* full channel or cut off at the end, and only one of these.                *)
THEOREM NothingLostSilently == Spec => []Accounted
BY PipelineInvariant, PTL

(* Ticks run in the order of the chain, over drops and reconnects. *)
THEOREM TicksInChainOrder == Spec => []ChainOrder
BY PipelineInvariant, PTL

(* Main cuts off an accepted update only after the whole of DrainGrace. *)
THEOREM CutOffIsLate == Spec => []CutOffOnlyLate
<1>1. PipelineInv /\ CutOffOnlyLate /\ [Next]_pipeVars => CutOffOnlyLate'
  <2> SUFFICES ASSUME PipelineInv, CutOffOnlyLate, [Next]_pipeVars PROVE CutOffOnlyLate'
    OBVIOUS
  <2>1. CASE Exit
    BY <2>1, QueueAssumption DEF Exit, PipelineInv, TypeOK, ShutdownInv, CutOffOnlyLate
  <2>2. CASE GraceElapse
    BY <2>2 DEF GraceElapse, PipelineInv, ShutdownInv, CutOffOnlyLate
  <2>3. CASE UNCHANGED <<abandoned, graceIn>>
    BY <2>3 DEF CutOffOnlyLate
  <2>4. CASE Session \/ AccountChanges \/ Notify \/ TakeTick \/ FinishTick
    BY <2>3, <2>4 DEF Session, queueVars, AccountChanges, Notify, TakeTick, FinishTick
  <2>5. CASE StopWatching \/ Drained \/ GraceOver \/ UNCHANGED pipeVars
    BY <2>3, <2>5 DEF StopWatching, Drained, GraceOver, pipeVars, queueVars
  <2>. QED
    BY <2>1, <2>2, <2>4, <2>5 DEF Next, Shutdown
<1>2. Init => CutOffOnlyLate
  BY DEF Init, CutOffOnlyLate
<1>. QED
  BY <1>1, <1>2, PipelineInvariant, PTL DEF Spec

=============================================================================
