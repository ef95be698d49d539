------------------------------ MODULE Approval ------------------------------
(***************************************************************************)
(* The approval protocol between the tick processor and the Telegram bot:  *)
(* send_proposal, clear_pending and await_approval of bot/proposal.rs,     *)
(* handle_approve of bot/commands.rs and the processor's side of the gate  *)
(* in main.rs 1556-1607.  The two tasks share one slot (PendingApproval)   *)
(* under a mutex and, per proposal, a oneshot channel; each lock section   *)
(* and each channel operation is a step of its own.                        *)
(*                                                                         *)
(* The Telegram chat outlives the process: the messages of earlier runs    *)
(* stay readable, and a command typed under any of them may be delivered   *)
(* at any later time.                                                      *)
(***************************************************************************)
EXTENDS Integers

CONSTANTS
    NoId,       \* Option::None where a proposal id is expected
    MaxBurst,   \* proposals the processor can issue within one second
    MaxClock,   \* bound: the last second of the clock
    MaxRuns     \* bound: process runs

ASSUME ApprovalAssumption ==
    /\ NoId \notin Int
    /\ MaxBurst \in Nat \ {0}
    /\ MaxClock \in Nat \ {0}
    /\ MaxRuns \in Nat \ {0}

VARIABLES
    clock,     \* SystemTime::now() in whole seconds since the epoch, from 1
    burst,     \* proposals issued in the current second
    run,       \* number of the process run
    nextId,    \* NEXT_PROPOSAL_ID, NoId until it is first used
    slot,      \* id in the PendingApprovalSlot, or NoId
    phase,     \* where the processor stands in the gate
    proposal,  \* the id send_proposal returned or is about to return
    rx,        \* id whose oneshot Receiver the processor still holds, or NoId
    sent,      \* a `true` sits in that channel
    taken,     \* id of the PendingApproval handle_approve took out, or NoId
    shown,     \* history: proposals whose message reached the chat
    asked,     \* history: proposals the operator typed /approve for
    granted,   \* history: proposals await_approval returned true for
    refused,   \* history: proposals that ended otherwise
    confirmed, \* history: proposals answered "Executing rebalance."
    denied     \* history: proposals answered "Rebalance NOT executed."

approvalVars ==
    <<clock, burst, run, nextId, slot, phase, proposal, rx, sent, taken,
      shown, asked, granted, refused, confirmed, denied>>

gateState == <<slot, phase, proposal, rx, sent>>
approvalHistory == <<shown, asked, granted, refused, confirmed, denied>>

Phases ==
    {"idle", "sending", "failed", "awaiting", "elapsed", "expired", "approved"}

(* A proposal is known by the run that issued it and the id it was given. *)
Proposal == [run: Nat, id: Nat]

ApprovalTypeOK ==
    /\ clock \in 1..MaxClock
    /\ burst \in 0..MaxBurst
    /\ run \in 1..MaxRuns
    /\ nextId \in Nat \cup {NoId}
    /\ slot \in Nat \cup {NoId}
    /\ phase \in Phases
    /\ proposal \in Nat \cup {NoId}
    /\ rx \in Nat \cup {NoId}
    /\ sent \in BOOLEAN
    /\ taken \in Nat \cup {NoId}
    /\ shown \subseteq Proposal
    /\ asked \subseteq Proposal
    /\ granted \subseteq Proposal
    /\ refused \subseteq Proposal
    /\ confirmed \subseteq Proposal
    /\ denied \subseteq Proposal

Current == [run |-> run, id |-> proposal]

(* The proposal's receiver is alive, or its fate is not yet recorded. *)
Unsettled == phase \in {"sending", "failed", "awaiting", "elapsed"}

ApprovalInit ==
    /\ clock = 1
    /\ burst = 0
    /\ run = 1
    /\ nextId = NoId
    /\ slot = NoId
    /\ phase = "idle"
    /\ proposal = NoId
    /\ rx = NoId
    /\ sent = FALSE
    /\ taken = NoId
    /\ shown = {} /\ asked = {} /\ granted = {} /\ refused = {}
    /\ confirmed = {} /\ denied = {}

-----------------------------------------------------------------------------
(* The processor's side. *)

(* The id counter starts from the clock the first time it is used in a run. *)
FreshId == IF nextId = NoId THEN clock ELSE nextId

\* A mutant of SendProposal: the slot is filled after the message is sent.
SendProposalUninstalled ==
    /\ phase = "idle"
    /\ burst < MaxBurst
    /\ burst' = burst + 1
    /\ nextId' = FreshId + 1
    /\ proposal' = FreshId
    /\ rx' = FreshId
    /\ sent' = FALSE
    /\ phase' = "sending"
    /\ UNCHANGED <<clock, run, slot, taken, approvalHistory>>

(* send_proposal up to bot.send_message: a new id, a new channel, and the   *)
(* sender installed before the message leaves.                              *)
SendProposal ==
    /\ phase = "idle"
    /\ burst < MaxBurst
    /\ burst' = burst + 1
    /\ nextId' = FreshId + 1
    /\ proposal' = FreshId
    /\ slot' = FreshId
    /\ rx' = FreshId
    /\ sent' = FALSE
    /\ phase' = "sending"
    /\ UNCHANGED <<clock, run, taken, approvalHistory>>

(* Telegram puts the message in the chat; the processor does not know yet. *)
MessageShown ==
    /\ phase = "sending"
    /\ shown' = shown \cup {Current}
    /\ UNCHANGED <<clock, burst, run, nextId, gateState, taken,
                   asked, granted, refused, confirmed, denied>>

SendSucceeded ==
    /\ phase = "sending"
    /\ Current \in shown
    /\ phase' = "awaiting"
    /\ UNCHANGED <<clock, burst, run, nextId, slot, proposal, rx, sent, taken, approvalHistory>>

(* clear_pending: the slot is emptied only if it still holds this proposal. *)
ClearedSlot == IF slot = proposal THEN NoId ELSE slot

(* send_message returned an error, whether or not the message was shown. *)
SendFailed ==
    /\ phase = "sending"
    /\ slot' = ClearedSlot
    /\ phase' = "failed"
    /\ UNCHANGED <<clock, burst, run, nextId, proposal, rx, sent, taken, approvalHistory>>

(* The receiver goes out of scope as send_proposal returns Err. *)
AbandonFailed ==
    /\ phase = "failed"
    /\ rx' = NoId
    /\ sent' = FALSE
    /\ refused' = refused \cup {Current}
    /\ phase' = "idle"
    /\ UNCHANGED <<clock, burst, run, nextId, slot, proposal, taken,
                   shown, asked, granted, confirmed, denied>>

\* A mutant of Elapse: the receiver is awaited without a timeout.
ElapseNever == FALSE /\ UNCHANGED approvalVars

(* tokio::time::timeout polls the receiver first and the timer second: the   *)
(* timeout is decided only when no value is there, and it is decided before  *)
(* the receiver is dropped.                                                  *)
Elapse ==
    /\ phase = "awaiting"
    /\ ~sent
    /\ phase' = "elapsed"
    /\ UNCHANGED <<clock, burst, run, nextId, slot, proposal, rx, sent, taken, approvalHistory>>

DropReceiver ==
    /\ phase = "elapsed"
    /\ rx' = NoId
    /\ sent' = FALSE
    /\ refused' = refused \cup {Current}
    /\ phase' = "expired"
    /\ UNCHANGED <<clock, burst, run, nextId, slot, proposal, taken,
                   shown, asked, granted, confirmed, denied>>

(* await_approval returns true. *)
ApprovalReceived ==
    /\ phase = "awaiting"
    /\ sent
    /\ rx' = NoId
    /\ sent' = FALSE
    /\ granted' = granted \cup {Current}
    /\ phase' = "approved"
    /\ UNCHANGED <<clock, burst, run, nextId, slot, proposal, taken,
                   shown, asked, refused, confirmed, denied>>

\* A mutant of ClearPending: the dead sender stays in the slot.
ClearPendingForgotten ==
    /\ phase \in {"expired", "approved"}
    /\ phase' = "idle"
    /\ UNCHANGED <<clock, burst, run, nextId, slot, proposal, rx, sent, taken, approvalHistory>>

(* main.rs 1573, after either answer of await_approval. *)
ClearPending ==
    /\ phase \in {"expired", "approved"}
    /\ slot' = ClearedSlot
    /\ phase' = "idle"
    /\ UNCHANGED <<clock, burst, run, nextId, proposal, rx, sent, taken, approvalHistory>>

-----------------------------------------------------------------------------
(* The bot's side.  Commands of one chat are handled one after another, so   *)
(* there is at most one taken sender.                                        *)

\* A mutant of ApproveCommand: whatever is pending is taken, ids unread.
ApproveAnyPending(p) ==
    /\ p \in shown
    /\ taken = NoId
    /\ asked' = asked \cup {p}
    /\ taken' = slot
    /\ slot' = NoId
    /\ UNCHANGED <<clock, burst, run, nextId, phase, proposal, rx, sent,
                   shown, granted, refused, confirmed, denied>>

(* handle_approve, the lock section, for `/approve p.id` typed under the     *)
(* message of p: take the sender if the slot holds that id, else only reply. *)
ApproveCommand(p) ==
    /\ p \in shown
    /\ taken = NoId
    /\ asked' = asked \cup {p}
    /\ IF slot = p.id
       THEN taken' = slot /\ slot' = NoId
       ELSE UNCHANGED <<taken, slot>>
    /\ UNCHANGED <<clock, burst, run, nextId, phase, proposal, rx, sent,
                   shown, granted, refused, confirmed, denied>>

\* A mutant of SendTrue: the outcome of send() is not looked at.
SendTrueUnchecked ==
    /\ taken # NoId
    /\ sent' = (sent \/ rx = taken)
    /\ denied' = denied \cup {[run |-> run, id |-> taken]}
    /\ taken' = NoId
    /\ UNCHANGED <<clock, burst, run, nextId, slot, phase, proposal, rx,
                   shown, asked, granted, refused, confirmed>>

(* pending.tx.send(true) and the reply that depends on its result: it        *)
(* succeeds exactly while the receiver of that channel is alive.             *)
SendTrue ==
    /\ taken # NoId
    /\ IF rx = taken
       THEN /\ sent' = TRUE
            /\ confirmed' = confirmed \cup {[run |-> run, id |-> taken]}
            /\ UNCHANGED denied
       ELSE /\ denied' = denied \cup {[run |-> run, id |-> taken]}
            /\ UNCHANGED <<sent, confirmed>>
    /\ taken' = NoId
    /\ UNCHANGED <<clock, burst, run, nextId, slot, phase, proposal, rx,
                   shown, asked, granted, refused>>

-----------------------------------------------------------------------------
(* The clock, and the process dying and being started again. *)

ClockTick ==
    /\ clock < MaxClock
    /\ clock' = clock + 1
    /\ burst' = 0
    /\ UNCHANGED <<run, nextId, gateState, taken, approvalHistory>>

\* A mutant of Restart: the counter starts from 1 again, whatever the clock.
RestartCountsFromOne ==
    /\ run < MaxRuns
    /\ run' = run + 1
    /\ nextId' = 1
    /\ slot' = NoId /\ proposal' = NoId /\ rx' = NoId /\ taken' = NoId
    /\ sent' = FALSE
    /\ phase' = "idle"
    /\ refused' = IF Unsettled THEN refused \cup {Current} ELSE refused
    /\ UNCHANGED <<clock, burst, shown, asked, granted, confirmed, denied>>

(* Slot, channel, counter and handlers die with the process; the chat stays. *)
Restart ==
    /\ run < MaxRuns
    /\ run' = run + 1
    /\ nextId' = NoId
    /\ slot' = NoId /\ proposal' = NoId /\ rx' = NoId /\ taken' = NoId
    /\ sent' = FALSE
    /\ phase' = "idle"
    /\ refused' = IF Unsettled THEN refused \cup {Current} ELSE refused
    /\ UNCHANGED <<clock, burst, shown, asked, granted, confirmed, denied>>

-----------------------------------------------------------------------------
(* What the code schedules once a proposal is out: the HTTP call returns,   *)
(* the timer fires, the receiver is dropped, the slot cleared.  Nobody has   *)
(* to propose again or to approve.                                           *)
Settle ==
    \/ SendSucceeded
    \/ SendFailed
    \/ AbandonFailed
    \/ Elapse
    \/ DropReceiver
    \/ ApprovalReceived
    \/ ClearPending

ApprovalNext ==
    \/ SendProposal
    \/ Settle
    \/ MessageShown
    \/ \E p \in shown : ApproveCommand(p)
    \/ SendTrue
    \/ ClockTick
    \/ Restart

ApprovalSpec == ApprovalInit /\ [][ApprovalNext]_approvalVars /\ WF_approvalVars(Settle)

-----------------------------------------------------------------------------
(* Properties. *)

(* An approval authorises only the proposal the operator typed it for: not  *)
(* a newer one and not one of another run (bot/mod.rs 15-16, proposal.rs    *)
(* 14-17).                                                                   *)
ApprovalBindsProposal == granted \subseteq asked

(* While the processor waits, the sender is in the slot, in the hands of    *)
(* the handler, or used up: the wait always ends by answer or by timeout,   *)
(* never by a closed channel.                                                *)
AwaitedSenderAlive ==
    phase = "awaiting" => sent \/ slot = proposal \/ taken = proposal

(* Between two proposals no dead sender lingers in the slot (main.rs        *)
(* 1570-1573), so a late /approve is told that nothing is pending.           *)
NoLingeringSender == phase = "idle" => slot = NoId

(* A proposal answered "already expired. Rebalance NOT executed." is never  *)
(* granted, before or after.                                                 *)
DeniedNeverGranted == denied \cap granted = {}

(* The inductive invariant behind these, for at most one proposal a second.  *)
(* Ids follow the clock, so a later run starts above every id of an earlier *)
(* one; and whoever holds a sender holds it for a proposal that was asked.  *)
IdsFollowClock ==
    /\ nextId # NoId => nextId <= clock + burst
    /\ \A p \in shown : /\ p.id < clock + burst
                        /\ p.run <= run
                        /\ p.run = run => nextId # NoId
                        /\ nextId # NoId => p.id < nextId
    /\ proposal # NoId => nextId # NoId /\ proposal < nextId
    /\ proposal # NoId =>
          \A p \in shown : /\ p.run < run => p.id < proposal
                           /\ p.run = run => p.id <= proposal
    /\ \A p, q \in shown : p.run < q.run => p.id < q.id

SenderAndReceiver ==
    /\ slot \in {NoId, proposal}
    /\ rx = IF Unsettled THEN proposal ELSE NoId
    /\ phase # "idle" => proposal # NoId
    /\ phase \in {"idle", "failed"} => slot = NoId
    /\ phase \in {"sending", "awaiting", "elapsed"} =>
          sent \/ slot = proposal \/ taken = proposal
    /\ sent => Unsettled

ConsentInv ==
    /\ sent => Current \in asked
    /\ taken # NoId => [run |-> run, id |-> taken] \in asked
    /\ phase = "approved" => Current \in granted
    /\ granted \subseteq asked

ApprovalInv ==
    ApprovalTypeOK /\ IdsFollowClock /\ SenderAndReceiver /\ ConsentInv

(* No two messages of the chat carry the same id, across restarts. *)
IdsUnique == \A p, q \in shown : p.id = q.id => p = q

(* A proposal that timed out was never answered "Executing rebalance."       *)
(* (commands.rs 261-262: "send() fails when the watch loop already timed out *)
(* and dropped the receiver").  Not an invariant: the timeout is decided     *)
(* before the receiver is dropped, and in between send() succeeds.           *)
TimedOutNeverConfirmed == phase = "expired" => Current \notin confirmed

(* A proposal whose send_message failed is not confirmed to anyone: "The     *)
(* operator never saw this proposal - nobody may approve it." (proposal.rs   *)
(* 89).  Not an invariant: the call may fail after Telegram has shown the    *)
(* message, and the receiver lives until send_proposal returns.              *)
FailedSendNeverApproved == phase = "failed" => Current \notin confirmed

(* Every proposal comes to an end: the processor returns to its ticks. *)
ProposalSettles == (phase # "idle") ~> (phase = "idle")

(* The abstract gate, with the proposal open until its fate is recorded. *)
Gate == INSTANCE ApprovalGate WITH
    Proposals <- [run: 1..MaxRuns, id: 1..(MaxClock + MaxBurst * MaxClock)],
    NoProposal <- NoId,
    open <- IF Unsettled THEN Current ELSE NoId

ImplementsGate == Gate!GateSpec

=============================================================================
