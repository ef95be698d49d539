----------------------------- MODULE TickQueue -----------------------------
(***************************************************************************)
(* The tick pipeline of the watch command (main.rs 1040-1058, 1676-1722):  *)
(* the WebSocket callback puts account updates into a bounded channel, one *)
(* processor task handles them in turn, and after the WebSocket loop has   *)
(* ended main waits a bounded time for the processor.  An update is the    *)
(* version of the pool account it carries.                                 *)
(***************************************************************************)
EXTENDS WsSession, Sequences

CONSTANTS
    QueueCapacity,  \* the capacity of the channel (64)
    DrainGrace,     \* the time main waits for the processor (5 s)
    MaxUpdates      \* bound: versions of the pool account

ASSUME QueueAssumption ==
    /\ QueueCapacity \in Nat \ {0}
    /\ DrainGrace \in Nat \ {0}
    /\ MaxUpdates \in Nat \ {0}

VARIABLES
    version,    \* the pool account on chain
    queue,      \* the channel's updates, oldest first
    tick,       \* the update the processor works on, or 0
    stage,      \* where main stands
    graceIn,    \* time left of the wait for the processor
    received,   \* history: updates the callback was called with
    processed,  \* history: updates whose tick ran to its end
    dropped,    \* history: updates try_send refused
    abandoned   \* history: updates the end of the runtime cut off

queueVars == <<version, queue, tick, stage, graceIn, received, processed, dropped, abandoned>>
pipeVars == <<queueVars, wsVars>>

Updates == 1..MaxUpdates

Queued == {queue[i] : i \in DOMAIN queue}
InHand == IF tick = 0 THEN {} ELSE {tick}
Pending == Queued \cup InHand

TypeOK ==
    /\ WsTypeOK
    /\ version \in 0..MaxUpdates
    /\ queue \in Seq(Updates) /\ Len(queue) <= QueueCapacity
    /\ tick \in 0..MaxUpdates
    /\ stage \in {"watching", "draining", "joining", "down"}
    /\ graceIn \in 0..DrainGrace
    /\ received \subseteq Updates /\ processed \subseteq Updates
    /\ dropped \subseteq Updates /\ abandoned \subseteq Updates

Init ==
    /\ WsInit
    /\ version = 0
    /\ queue = <<>>
    /\ tick = 0
    /\ stage = "watching"
    /\ graceIn = DrainGrace
    /\ received = {} /\ processed = {} /\ dropped = {} /\ abandoned = {}

-----------------------------------------------------------------------------
(* The pool account changes on chain. *)
AccountChanges ==
    /\ version < MaxUpdates
    /\ version' = version + 1
    /\ UNCHANGED <<queue, tick, stage, graceIn, received, processed, dropped,
                   abandoned, wsVars>>

\* A mutant of Enqueue: a full channel makes room by forgetting its head.
EnqueueOverwrites(v) ==
    /\ queue' = Append(IF Len(queue) < QueueCapacity THEN queue ELSE Tail(queue), v)
    /\ UNCHANGED dropped

(* try_send: refused when the channel is full. *)
Enqueue(v) ==
    IF Len(queue) < QueueCapacity
    THEN queue' = Append(queue, v) /\ UNCHANGED dropped
    ELSE dropped' = dropped \cup {v} /\ UNCHANGED queue

(* An accountNotification arrives and the callback is called with it.  The   *)
(* server sends newer and newer versions, perhaps not each of them.          *)
Notify ==
    /\ ReadNotification
    /\ \E v \in 1..version :
          /\ \A r \in received : v > r
          /\ Enqueue(v)
          /\ received' = received \cup {v}
    /\ UNCHANGED <<version, tick, stage, graceIn, processed, abandoned>>

-----------------------------------------------------------------------------
(* The processor: until the runtime ends, whatever main is doing. *)

\* A mutant of TakeTick: the newest update is taken first.
TakeTickNewest ==
    /\ stage # "down" /\ tick = 0 /\ queue # <<>>
    /\ tick' = queue[Len(queue)]
    /\ queue' = SubSeq(queue, 1, Len(queue) - 1)
    /\ UNCHANGED <<version, stage, graceIn, received, processed, dropped, abandoned, wsVars>>

TakeTick ==
    /\ stage # "down" /\ tick = 0 /\ queue # <<>>
    /\ tick' = Head(queue)
    /\ queue' = Tail(queue)
    /\ UNCHANGED <<version, stage, graceIn, received, processed, dropped, abandoned, wsVars>>

FinishTick ==
    /\ stage # "down" /\ tick # 0
    /\ processed' = processed \cup {tick}
    /\ tick' = 0
    /\ UNCHANGED <<version, queue, stage, graceIn, received, dropped, abandoned, wsVars>>

-----------------------------------------------------------------------------
(* The end of main. *)

(* watch_account returned and dropped the callback with the sender. *)
StopWatching ==
    /\ stage = "watching" /\ ws = "stopped"
    /\ stage' = "draining"
    /\ UNCHANGED <<version, queue, tick, graceIn, received, processed, dropped,
                   abandoned, wsVars>>

\* A mutant of Drained: main goes on as soon as the channel is closed.
DrainedUnread ==
    /\ stage = "draining"
    /\ stage' = "joining"
    /\ UNCHANGED <<version, queue, tick, graceIn, received, processed, dropped,
                   abandoned, wsVars>>

(* The processor's task has ended: recv() found the channel closed and empty. *)
Drained ==
    /\ stage = "draining" /\ queue = <<>> /\ tick = 0
    /\ stage' = "joining"
    /\ UNCHANGED <<version, queue, tick, graceIn, received, processed, dropped,
                   abandoned, wsVars>>

\* A mutant of GraceOver: main waits for the processor without a timeout.
GraceNever == FALSE /\ UNCHANGED pipeVars

GraceOver ==
    /\ stage = "draining" /\ graceIn = 0
    /\ stage' = "joining"
    /\ UNCHANGED <<version, queue, tick, graceIn, received, processed, dropped,
                   abandoned, wsVars>>

GraceElapse ==
    /\ stage = "draining" /\ graceIn > 0
    /\ graceIn' = graceIn - 1
    /\ UNCHANGED <<version, queue, tick, stage, received, processed, dropped,
                   abandoned, wsVars>>

(* The feeds are joined, the bot aborted, and the runtime cut off. *)
Exit ==
    /\ stage = "joining"
    /\ stage' = "down"
    /\ abandoned' = Pending
    /\ queue' = <<>> /\ tick' = 0
    /\ UNCHANGED <<version, graceIn, received, processed, dropped, wsVars>>

-----------------------------------------------------------------------------
Shutdown ==
    \/ StopWatching
    \/ Drained
    \/ GraceOver
    \/ GraceElapse
    \/ Exit

Session ==
    /\ ConnectReturns \/ TakeArm \/ ReadPong \/ ReadEnds \/ CtrlC \/ LinkDies \/ WsElapse
    /\ UNCHANGED queueVars

Next ==
    \/ Session
    \/ AccountChanges
    \/ Notify
    \/ TakeTick
    \/ FinishTick
    \/ Shutdown

(* Connection attempts return, the tasks that are due are polled, and time    *)
(* passes.  A tick need not end: it may wait for the operator.               *)
Fairness ==
    /\ WF_pipeVars(ConnectReturns /\ UNCHANGED queueVars)
    /\ WF_pipeVars(TakeArm /\ UNCHANGED queueVars)
    /\ WF_pipeVars(WsElapse /\ UNCHANGED queueVars)
    /\ WF_pipeVars(Shutdown)

Spec == Init /\ [][Next]_pipeVars /\ Fairness

-----------------------------------------------------------------------------
(* Properties. *)

(* Every update the callback got is processed, pending, dropped at a full    *)
(* channel or cut off at the end, and only one of these.                     *)
Accounted ==
    /\ received = processed \cup Pending \cup dropped \cup abandoned
    /\ processed \cap Pending = {} /\ Queued \cap InHand = {}
    /\ dropped \cap (processed \cup Pending \cup abandoned) = {}
    /\ abandoned \cap processed = {}

(* Ticks are processed in the order of the chain, so the fee baseline and    *)
(* the peak of a later tick never meet an earlier pool state.                *)
ChainOrder ==
    /\ \A i, j \in DOMAIN queue : i < j => queue[i] < queue[j]
    /\ \A d \in processed, p \in Pending : d < p
    /\ \A t \in InHand, q \in Queued : t < q

(* An accepted update is cut off only after the processor had all of         *)
(* DrainGrace to get to it (main.rs 1690-1693).                              *)
CutOffOnlyLate == abandoned # {} => graceIn = 0

(* Ctrl+C ends the process, even if the tick in hand never ends. *)
ShutdownEnds == shutdown ~> (stage = "down")

(* The update that is skipped is older than those that are kept (main.rs     *)
(* 1044-1045: "the oldest pending update is the one we skip").               *)
SkippedAreOldest == \A d \in dropped, p \in Pending : d < p

(* The inductive invariant, with Accounted and ChainOrder: main leaves the    *)
(* watch only after the session, and the wait only drained or late.          *)
ShutdownInv ==
    /\ stage # "watching" => ws = "stopped"
    /\ stage \in {"joining", "down"} /\ graceIn > 0 => Pending = {}
    /\ stage # "down" => abandoned = {}

PipelineInv == TypeOK /\ WatchdogInv /\ BackoffInv /\ ShutdownInv

=============================================================================
