-------------------------- MODULE WatchLoopProofs --------------------------
(***************************************************************************)
(* Proofs about the watch loop and the approval protocol that it drives.   *)
(*                                                                         *)
(* Approval: every clock, every number of runs and every NoId, when the    *)
(* processor issues at most one proposal a second.  That bound is needed:  *)
(* with two proposals in the second before a restart the counter is ahead  *)
(* of the clock, and the next run issues an id again.                      *)
(*                                                                         *)
(* Watch loop: every limit, snapshot, initial row and mode, any number of  *)
(* ticks, commands and restarts; theorems that speak of approvals have the *)
(* same bound on proposals.                                                *)
(***************************************************************************)
EXTENDS WatchLoop, RiskMonitorProofs

-----------------------------------------------------------------------------
(* The approval protocol.                                                   *)

(* The parts of the invariant hold at the start. *)
LEMMA ApprovalInitInv == ApprovalInit => ApprovalInv
<1> SUFFICES ASSUME ApprovalInit PROVE ApprovalInv
  OBVIOUS
<1>1. ApprovalTypeOK
  <2>1. clock \in 1..MaxClock /\ burst \in 0..MaxBurst /\ run \in 1..MaxRuns
    BY ApprovalAssumption DEF ApprovalInit
  <2>. QED
    BY <2>1 DEF ApprovalInit, ApprovalTypeOK, Phases
<1>2. IdsFollowClock
  BY DEF ApprovalInit, IdsFollowClock
<1>3. SenderAndReceiver
  BY DEF ApprovalInit, SenderAndReceiver, Unsettled
<1>4. ConsentInv
  BY DEF ApprovalInit, ConsentInv
<1>. QED
  BY <1>1, <1>2, <1>3, <1>4 DEF ApprovalInv

(* Every step keeps the variables in their ranges. *)
LEMMA ApprovalTypeStep ==
    ASSUME ApprovalTypeOK, SenderAndReceiver, [ApprovalNext]_approvalVars
    PROVE  ApprovalTypeOK'
<1> USE ApprovalAssumption
<1> USE DEF ApprovalTypeOK
<1>1. CASE SendProposal
  <2>1. burst' \in 0..MaxBurst
    BY <1>1 DEF SendProposal
  <2>2. FreshId \in Nat /\ FreshId + 1 \in Nat
    BY DEF FreshId
  <2>. QED
    BY <1>1, <2>1, <2>2 DEF SendProposal, approvalHistory, Phases
<1>2. ASSUME phase # "idle" PROVE Current \in Proposal
  BY <1>2 DEF Current, Proposal, SenderAndReceiver
<1>3. CASE MessageShown
  BY <1>2, <1>3 DEF MessageShown, gateState
<1>4. CASE SendSucceeded
  BY <1>4 DEF SendSucceeded, approvalHistory, Phases
<1>5. CASE SendFailed
  BY <1>5 DEF SendFailed, ClearedSlot, approvalHistory, Phases
<1>6. CASE AbandonFailed
  BY <1>2, <1>6 DEF AbandonFailed, Phases
<1>7. CASE Elapse
  BY <1>7 DEF Elapse, approvalHistory, Phases
<1>8. CASE DropReceiver
  BY <1>2, <1>8 DEF DropReceiver, Phases
<1>9. CASE ApprovalReceived
  BY <1>2, <1>9 DEF ApprovalReceived, Phases
<1>10. CASE ClearPending
  BY <1>10 DEF ClearPending, ClearedSlot, approvalHistory, Phases
<1>11. ASSUME NEW p \in shown, ApproveCommand(p) PROVE ApprovalTypeOK'
  BY <1>11 DEF ApproveCommand
<1>12. CASE SendTrue
  <2>1. [run |-> run, id |-> taken] \in Proposal
    BY <1>12 DEF SendTrue, Proposal
  <2>. QED
    BY <1>12, <2>1 DEF SendTrue
<1>13. CASE ClockTick
  BY <1>13 DEF ClockTick, gateState, approvalHistory
<1>14. CASE Restart
  <2>1. run' \in 1..MaxRuns
    BY <1>14 DEF Restart
  <2>2. refused' \subseteq Proposal
    BY <1>2, <1>14 DEF Restart, Unsettled
  <2>. QED
    BY <1>14, <2>1, <2>2 DEF Restart, Phases
<1>15. CASE UNCHANGED approvalVars
  BY <1>15 DEF approvalVars
<1>. QED
  BY <1>1, <1>3, <1>4, <1>5, <1>6, <1>7, <1>8, <1>9, <1>10, <1>11, <1>12,
     <1>13, <1>14, <1>15 DEF ApprovalNext, Settle

(* Every step keeps the slot, the channel and the phase in agreement. *)
LEMMA SenderAndReceiverStep ==
    ASSUME ApprovalTypeOK, SenderAndReceiver, [ApprovalNext]_approvalVars
    PROVE  SenderAndReceiver'
<1> USE ApprovalAssumption
<1> USE DEF SenderAndReceiver, Unsettled
<1>1. CASE SendProposal
  <2>1. FreshId # NoId
    BY DEF FreshId, ApprovalTypeOK
  <2>. QED
    BY <1>1, <2>1 DEF SendProposal
<1>2. CASE MessageShown
  BY <1>2 DEF MessageShown, gateState
<1>3. CASE SendSucceeded
  BY <1>3 DEF SendSucceeded
<1>4. CASE SendFailed
  BY <1>4 DEF SendFailed, ClearedSlot
<1>5. CASE AbandonFailed
  BY <1>5 DEF AbandonFailed
<1>6. CASE Elapse
  BY <1>6 DEF Elapse
<1>7. CASE DropReceiver
  BY <1>7 DEF DropReceiver
<1>8. CASE ApprovalReceived
  BY <1>8 DEF ApprovalReceived
<1>9. CASE ClearPending
  BY <1>9 DEF ClearPending, ClearedSlot
<1>10. ASSUME NEW p \in shown, ApproveCommand(p) PROVE SenderAndReceiver'
  <2>1. p.id # NoId
    BY DEF ApprovalTypeOK, Proposal
  <2>. QED
    BY <1>10, <2>1 DEF ApproveCommand
<1>11. CASE SendTrue
  BY <1>11 DEF SendTrue
<1>12. CASE ClockTick
  BY <1>12 DEF ClockTick, gateState
<1>13. CASE Restart
  BY <1>13 DEF Restart
<1>14. CASE UNCHANGED approvalVars
  BY <1>14 DEF approvalVars
<1>. QED
  BY <1>1, <1>2, <1>3, <1>4, <1>5, <1>6, <1>7, <1>8, <1>9, <1>10, <1>11,
     <1>12, <1>13, <1>14 DEF ApprovalNext, Settle

(* With at most one proposal a second, every step keeps the ids below the    *)
(* clock and in the order of the runs.                                       *)
LEMMA IdsFollowClockStep ==
    ASSUME MaxBurst = 1, ApprovalTypeOK, SenderAndReceiver, IdsFollowClock,
           [ApprovalNext]_approvalVars
    PROVE  IdsFollowClock'
<1> USE ApprovalAssumption DEF ApprovalTypeOK
<1> DEFINE Ids == <<clock, burst, run, nextId, proposal, shown>>
<1>1. ASSUME UNCHANGED Ids PROVE IdsFollowClock'
  BY <1>1 DEF IdsFollowClock
<1>2. \A p \in shown : p.id \in Nat /\ p.run \in Nat
  BY DEF Proposal
<1>3. CASE SendProposal
  <2>1. FreshId \in Nat /\ FreshId <= clock /\ FreshId # NoId /\ burst = 0
    BY <1>3 DEF SendProposal, FreshId, IdsFollowClock
  <2>2. \A p \in shown : p.id < FreshId
    BY <1>2, <1>3 DEF SendProposal, FreshId, IdsFollowClock
  <2>3. /\ burst' = 1 /\ clock' = clock /\ run' = run /\ shown' = shown
        /\ nextId' = FreshId + 1 /\ proposal' = FreshId
    BY <1>3, <2>1 DEF SendProposal, approvalHistory
  <2>. QED
    BY <1>2, <2>1, <2>2, <2>3 DEF IdsFollowClock
<1>4. CASE MessageShown
  <2>1. proposal \in Nat /\ proposal # NoId
    BY <1>4 DEF MessageShown, SenderAndReceiver
  <2>2. nextId \in Nat /\ nextId # NoId /\ proposal < nextId /\ nextId <= clock + burst
    BY <2>1 DEF IdsFollowClock
  <2>3. \A p \in shown' : p \in shown \/ (p.run = run /\ p.id = proposal)
    BY <1>4 DEF MessageShown, Current
  <2>4. \A p \in shown' : /\ p.id < clock + burst /\ p.run <= run
                          /\ p.id < nextId
                          /\ p.run < run => p.id < proposal
                          /\ p.run = run => p.id <= proposal
    BY <1>2, <2>1, <2>2, <2>3 DEF IdsFollowClock
  <2>5. \A p, q \in shown' : p.run < q.run => p.id < q.id
    BY <1>2, <2>1, <2>3, <2>4 DEF IdsFollowClock
  <2>6. UNCHANGED <<clock, burst, run, nextId, proposal>>
    BY <1>4 DEF MessageShown, gateState
  <2>. QED
    BY <2>1, <2>2, <2>4, <2>5, <2>6 DEF IdsFollowClock
<1>5. CASE SendSucceeded
  BY <1>1, <1>5 DEF SendSucceeded, approvalHistory
<1>6. CASE SendFailed
  BY <1>1, <1>6 DEF SendFailed, approvalHistory
<1>7. CASE AbandonFailed
  BY <1>1, <1>7 DEF AbandonFailed
<1>8. CASE Elapse
  BY <1>1, <1>8 DEF Elapse, approvalHistory
<1>9. CASE DropReceiver
  BY <1>1, <1>9 DEF DropReceiver
<1>10. CASE ApprovalReceived
  BY <1>1, <1>10 DEF ApprovalReceived
<1>11. CASE ClearPending
  BY <1>1, <1>11 DEF ClearPending, approvalHistory
<1>12. ASSUME NEW p \in shown, ApproveCommand(p) PROVE IdsFollowClock'
  BY <1>1, <1>12 DEF ApproveCommand
<1>13. CASE SendTrue
  BY <1>1, <1>13 DEF SendTrue
<1>14. CASE ClockTick
  <2>1. /\ clock' = clock + 1 /\ burst' = 0 /\ clock + burst <= clock'
        /\ UNCHANGED <<run, nextId, proposal, shown>>
    BY <1>14 DEF ClockTick, gateState, approvalHistory
  <2>. QED
    BY <1>2, <2>1 DEF IdsFollowClock
<1>15. CASE Restart
  <2>1. /\ run' = run + 1 /\ nextId' = NoId /\ proposal' = NoId
        /\ UNCHANGED <<clock, burst, shown>>
    BY <1>15 DEF Restart
  <2>. QED
    BY <1>2, <2>1 DEF IdsFollowClock
<1>16. CASE UNCHANGED approvalVars
  BY <1>1, <1>16 DEF approvalVars
<1>. QED
  BY <1>3, <1>4, <1>5, <1>6, <1>7, <1>8, <1>9, <1>10, <1>11, <1>12, <1>13,
     <1>14, <1>15, <1>16 DEF ApprovalNext, Settle

(* Two messages with the same id belong to the same proposal. *)
LEMMA SameIdSameProposal ==
    ASSUME ApprovalTypeOK, IdsFollowClock, NEW p \in shown, NEW q \in shown,
           p.id = q.id
    PROVE  p = q
<1>1. p \in Proposal /\ q \in Proposal
  BY DEF ApprovalTypeOK
<1>2. p.run \in Nat /\ q.run \in Nat /\ p.id \in Nat
  BY <1>1 DEF Proposal
<1>3. p.run = q.run
  BY <1>2 DEF IdsFollowClock
<1>. QED
  BY <1>1, <1>3 DEF Proposal

(* Every step keeps a value in the channel, a taken sender and a grant tied *)
(* to what the operator asked for.                                          *)
LEMMA ConsentStep ==
    ASSUME ApprovalTypeOK, SenderAndReceiver, IdsFollowClock, ConsentInv,
           [ApprovalNext]_approvalVars
    PROVE  ConsentInv'
<1> USE ApprovalAssumption
<1> USE DEF ConsentInv, Current
<1>1. CASE SendProposal
  BY <1>1 DEF SendProposal, approvalHistory, SenderAndReceiver
<1>2. CASE MessageShown
  BY <1>2 DEF MessageShown, gateState
<1>3. CASE SendSucceeded
  BY <1>3 DEF SendSucceeded, approvalHistory
<1>4. CASE SendFailed
  BY <1>4 DEF SendFailed, approvalHistory
<1>5. CASE AbandonFailed
  BY <1>5 DEF AbandonFailed
<1>6. CASE Elapse
  BY <1>6 DEF Elapse, approvalHistory
<1>7. CASE DropReceiver
  BY <1>7 DEF DropReceiver
<1>8. CASE ApprovalReceived
  BY <1>8 DEF ApprovalReceived
<1>9. CASE ClearPending
  BY <1>9 DEF ClearPending, approvalHistory
<1>10. ASSUME NEW p \in shown, ApproveCommand(p) PROVE ConsentInv'
  <2>1. CASE slot = p.id
    <3>1. p \in Proposal /\ p.id \in Nat /\ p.run \in Nat /\ run \in Nat
      BY DEF ApprovalTypeOK, Proposal
    <3>2. slot = proposal /\ proposal # NoId
      BY <2>1, <3>1 DEF SenderAndReceiver
    <3>3. p.run = run
      <4>1. p.run <= run /\ (p.run < run => p.id < proposal)
        BY <3>2 DEF IdsFollowClock
      <4>. QED
        BY <2>1, <3>1, <3>2, <4>1
    <3>4. p = [run |-> run, id |-> slot]
      BY <2>1, <3>1, <3>3 DEF Proposal
    <3>. QED
      BY <1>10, <2>1, <3>4 DEF ApproveCommand
  <2>2. CASE slot # p.id
    BY <1>10, <2>2 DEF ApproveCommand
  <2>. QED
    BY <2>1, <2>2
<1>11. CASE SendTrue
  BY <1>11 DEF SendTrue, SenderAndReceiver
<1>12. CASE ClockTick
  BY <1>12 DEF ClockTick, gateState, approvalHistory
<1>13. CASE Restart
  BY <1>13 DEF Restart
<1>14. CASE UNCHANGED approvalVars
  BY <1>14 DEF approvalVars, approvalHistory
<1>. QED
  BY <1>1, <1>2, <1>3, <1>4, <1>5, <1>6, <1>7, <1>8, <1>9, <1>10, <1>11,
     <1>12, <1>13, <1>14 DEF ApprovalNext, Settle

(* The whole invariant is inductive. *)
LEMMA ApprovalInvStep ==
    ASSUME MaxBurst = 1, ApprovalInv, [ApprovalNext]_approvalVars
    PROVE  ApprovalInv'
BY ApprovalTypeStep, SenderAndReceiverStep, IdsFollowClockStep, ConsentStep
   DEF ApprovalInv

-----------------------------------------------------------------------------
(* The slot, the channel, the ids and the operator's consent stay in         *)
(* agreement in every interleaving of processor, bot, clock and restarts.    *)
THEOREM ApprovalInvariant == ASSUME MaxBurst = 1 PROVE ApprovalSpec => []ApprovalInv
<1>1. ApprovalInit => ApprovalInv
  BY ApprovalInitInv
<1>2. ApprovalInv /\ [ApprovalNext]_approvalVars => ApprovalInv'
  BY ApprovalInvStep
<1>. QED
  BY <1>1, <1>2, PTL DEF ApprovalSpec

(* An approval authorises only the proposal it was typed for (proposal.rs    *)
(* 14-17, bot/mod.rs 15-16): for every number of runs.                       *)
THEOREM ApprovalBinds ==
    ASSUME MaxBurst = 1 PROVE ApprovalSpec => []ApprovalBindsProposal
<1>1. ApprovalInv => ApprovalBindsProposal
  BY DEF ApprovalInv, ConsentInv, ApprovalBindsProposal
<1>. QED
  BY <1>1, ApprovalInvariant, PTL

(* No two messages of the chat carry the same id, across all restarts. *)
THEOREM IdsAreUnique == ASSUME MaxBurst = 1 PROVE ApprovalSpec => []IdsUnique
<1>1. ApprovalInv => IdsUnique
  BY SameIdSameProposal DEF ApprovalInv, IdsUnique
<1>. QED
  BY <1>1, ApprovalInvariant, PTL

(* The slot, the channel and the phase agree, whatever the rate of proposals:*)
(* the sender of a proposal that is waited for is never lost (proposal.rs    *)
(* 111-131), and none is left in the slot afterwards (main.rs 1570-1573).    *)
THEOREM SenderInvariant == ApprovalSpec => [](ApprovalTypeOK /\ SenderAndReceiver)
<1>1. ApprovalInit => ApprovalTypeOK /\ SenderAndReceiver
  BY ApprovalInitInv DEF ApprovalInv
<1>2. ApprovalTypeOK /\ SenderAndReceiver /\ [ApprovalNext]_approvalVars
         => (ApprovalTypeOK /\ SenderAndReceiver)'
  BY ApprovalTypeStep, SenderAndReceiverStep
<1>. QED
  BY <1>1, <1>2, PTL DEF ApprovalSpec

THEOREM SenderStaysAlive == ApprovalSpec => []AwaitedSenderAlive
<1>1. SenderAndReceiver => AwaitedSenderAlive
  BY DEF SenderAndReceiver, AwaitedSenderAlive
<1>. QED
  BY <1>1, SenderInvariant, PTL

THEOREM NoSenderLingers == ApprovalSpec => []NoLingeringSender
<1>1. SenderAndReceiver => NoLingeringSender
  BY DEF SenderAndReceiver, NoLingeringSender
<1>. QED
  BY <1>1, SenderInvariant, PTL

-----------------------------------------------------------------------------
(* A proposal whose sender was used up in vain is never granted: its ids     *)
(* grow within a run, its sender is taken once, and its receiver is gone.    *)
Answered == denied \cup granted

AnswerInv ==
    /\ proposal # NoId => nextId # NoId /\ proposal < nextId
    /\ taken # NoId => proposal # NoId /\ taken <= proposal
                       /\ [run |-> run, id |-> taken] \notin granted
    /\ \A p \in Answered :
           p.run <= run /\ (p.run = run => proposal # NoId /\ p.id <= proposal)
    /\ slot # NoId => taken # proposal /\ ~sent /\ Current \notin granted
    /\ rx # NoId => rx = proposal /\ Current \notin Answered
    /\ sent => rx # NoId /\ taken # proposal
    /\ DeniedNeverGranted

LEMMA AnswerStep ==
    ASSUME ApprovalTypeOK, SenderAndReceiver, AnswerInv, [ApprovalNext]_approvalVars
    PROVE  AnswerInv'
<1> USE ApprovalAssumption
<1>0. /\ run \in Nat /\ NoId \notin Nat
      /\ \A p \in Answered : p.run \in Nat /\ p.id \in Nat
  BY DEF ApprovalTypeOK, Answered, Proposal
<1>1. CASE SendProposal
  <2>1. /\ proposal' = FreshId /\ nextId' = FreshId + 1 /\ FreshId \in Nat
        /\ slot' = FreshId /\ rx' = FreshId /\ ~sent'
        /\ UNCHANGED <<run, taken, granted, denied>>
    BY <1>1 DEF SendProposal, FreshId, ApprovalTypeOK, approvalHistory
  <2>2. proposal # NoId => proposal < FreshId /\ proposal \in Nat
    BY DEF FreshId, AnswerInv, ApprovalTypeOK
  <2>3. taken \in Nat \cup {NoId}
    BY DEF ApprovalTypeOK
  <2>4. [run |-> run, id |-> FreshId] \notin Answered
    BY <1>0, <2>1, <2>2 DEF AnswerInv
  <2>5. taken # FreshId
    BY <1>0, <2>1, <2>2, <2>3 DEF AnswerInv
  <2>. QED
    BY <1>0, <2>1, <2>2, <2>3, <2>4, <2>5
    DEF AnswerInv, Answered, Current, DeniedNeverGranted
<1>2. CASE ApprovalReceived
  <2>1. /\ granted' = granted \cup {Current} /\ rx' = NoId /\ ~sent'
        /\ UNCHANGED <<run, nextId, proposal, slot, taken, denied>>
        /\ sent /\ phase = "awaiting"
    BY <1>2 DEF ApprovalReceived
  <2>2. slot = NoId /\ taken # proposal /\ Current \notin denied /\ rx # NoId /\ proposal # NoId
    BY <2>1 DEF AnswerInv, Answered
  <2>3. Current.run = run /\ Current.id = proposal
    BY DEF Current
  <2>4. \A t : [run |-> run, id |-> t] = Current => t = proposal
    BY DEF Current
  <2>5. proposal \in Nat
    BY <2>2 DEF ApprovalTypeOK
  <2>6. \A p \in Answered' : p = Current \/ p \in Answered
    BY <2>1 DEF Answered
  <2>. QED
    BY <1>0, <2>1, <2>2, <2>3, <2>4, <2>5, <2>6
    DEF AnswerInv, Answered, DeniedNeverGranted
<1>3. ASSUME NEW p \in shown, ApproveCommand(p) PROVE AnswerInv'
  <2>1. UNCHANGED <<run, nextId, proposal, rx, sent, granted, denied>>
    BY <1>3 DEF ApproveCommand
  <2>2. p.id # NoId
    BY <1>0 DEF ApprovalTypeOK, Proposal
  <2>3. CASE slot = p.id
    <3>1. slot = proposal /\ slot # NoId /\ taken' = slot /\ slot' = NoId /\ slot \in Nat
      BY <1>3, <2>2, <2>3 DEF ApproveCommand, SenderAndReceiver, ApprovalTypeOK
    <3>2. ~sent /\ Current \notin granted
      BY <3>1 DEF AnswerInv
    <3>. QED
      BY <2>1, <3>1, <3>2 DEF AnswerInv, Answered, Current, DeniedNeverGranted
  <2>4. CASE slot # p.id
    <3>1. taken' = taken /\ slot' = slot
      BY <1>3, <2>4 DEF ApproveCommand
    <3>. QED
      BY <2>1, <3>1 DEF AnswerInv, Answered, Current, DeniedNeverGranted
  <2>. QED
    BY <2>3, <2>4
<1>4. CASE SendTrue
  <2> DEFINE P == [run |-> run, id |-> taken]
  <2>1. /\ taken # NoId /\ taken' = NoId
        /\ UNCHANGED <<run, nextId, slot, proposal, rx, granted>>
    BY <1>4 DEF SendTrue
  <2>2. taken \in Nat /\ proposal \in Nat /\ proposal # NoId /\ taken <= proposal /\ P \notin granted
    BY <2>1 DEF AnswerInv, ApprovalTypeOK
  <2>3. CASE rx = taken
    <3>1. sent' /\ denied' = denied
      BY <1>4, <2>3 DEF SendTrue
    <3>2. rx = proposal /\ taken = proposal /\ slot = NoId
      BY <2>1, <2>3 DEF AnswerInv
    <3>. QED
      BY <1>0, <2>1, <2>2, <2>3, <3>1, <3>2 DEF AnswerInv, Answered, Current, DeniedNeverGranted
  <2>4. CASE rx # taken
    <3>1. denied' = denied \cup {P} /\ sent' = sent
      BY <1>4, <2>4 DEF SendTrue
    <3>2. rx # NoId => P # Current
      BY <2>4 DEF AnswerInv, Current
    <3>3. \A p \in Answered' : p \in Answered \/ p = P
      BY <2>1, <3>1 DEF Answered
    <3>4. P.run = run /\ P.id = taken
      OBVIOUS
    <3> HIDE DEF P
    <3>. QED
      BY <1>0, <2>1, <2>2, <3>1, <3>2, <3>3, <3>4
      DEF AnswerInv, Answered, Current, DeniedNeverGranted
  <2>. QED
    BY <2>3, <2>4
<1>5. CASE AbandonFailed \/ DropReceiver
  <2>1. /\ rx' = NoId /\ ~sent'
        /\ UNCHANGED <<run, nextId, proposal, slot, taken, granted, denied>>
    BY <1>5 DEF AbandonFailed, DropReceiver
  <2>. QED
    BY <2>1 DEF AnswerInv, Answered, Current, DeniedNeverGranted
<1>6. CASE SendFailed \/ ClearPending
  <2>1. /\ slot' \in {slot, NoId}
        /\ UNCHANGED <<run, nextId, proposal, rx, sent, taken, granted, denied>>
    BY <1>6 DEF SendFailed, ClearPending, ClearedSlot, approvalHistory
  <2>. QED
    BY <2>1 DEF AnswerInv, Answered, Current, DeniedNeverGranted
<1>7. CASE Restart
  <2>1. /\ run' = run + 1 /\ slot' = NoId /\ proposal' = NoId /\ rx' = NoId /\ taken' = NoId
        /\ ~sent' /\ UNCHANGED <<granted, denied>>
    BY <1>7 DEF Restart
  <2>. QED
    BY <1>0, <2>1 DEF AnswerInv, Answered, DeniedNeverGranted
<1>8. CASE MessageShown \/ SendSucceeded \/ Elapse \/ ClockTick \/ UNCHANGED approvalVars
  <2>1. UNCHANGED <<run, nextId, proposal, slot, rx, sent, taken, granted, denied>>
    BY <1>8 DEF MessageShown, SendSucceeded, Elapse, ClockTick, approvalVars, gateState,
                approvalHistory
  <2>. QED
    BY <2>1 DEF AnswerInv, Answered, Current, DeniedNeverGranted
<1>. QED
  BY <1>1, <1>2, <1>3, <1>4, <1>5, <1>6, <1>7, <1>8 DEF ApprovalNext, Settle

(* "Rebalance NOT executed." is never said of a proposal that is granted     *)
(* (commands.rs 273), whatever the rate of proposals and the restarts.        *)
THEOREM DenialIsFinal == ApprovalSpec => []DeniedNeverGranted
<1>1. ApprovalInit => AnswerInv
  BY DEF ApprovalInit, AnswerInv, Answered, DeniedNeverGranted
<1>2. ApprovalTypeOK /\ SenderAndReceiver /\ AnswerInv /\ [ApprovalNext]_approvalVars => AnswerInv'
  BY AnswerStep
<1>3. AnswerInv => DeniedNeverGranted
  BY DEF AnswerInv
<1>. QED
  BY <1>1, <1>2, <1>3, SenderInvariant, PTL DEF ApprovalSpec

-----------------------------------------------------------------------------
(* The gate is implemented: what a proposal needs to be opened, asked for    *)
(* and closed in the abstract gate.                                          *)
EndedInv ==
    /\ nextId # NoId => nextId >= 1
    /\ proposal # NoId => nextId # NoId /\ proposal < nextId /\ proposal >= 1
    /\ \A p \in granted \cup refused :
           p.run <= run /\ (p.run = run => proposal # NoId /\ p.id <= proposal)
    /\ \A p \in shown : /\ p.run >= 1 /\ p.id >= 1
                        /\ p \in granted \cup refused \/ (Unsettled /\ p = Current)

(* Every step keeps what is shown, open and ended in agreement. *)
LEMMA EndedStep ==
    ASSUME ApprovalTypeOK, SenderAndReceiver, EndedInv, [ApprovalNext]_approvalVars
    PROVE  EndedInv'
<1> USE ApprovalAssumption
<1>0. /\ run \in Nat /\ run >= 1 /\ NoId \notin Nat
      /\ \A p \in granted \cup refused \cup shown : p.run \in Nat /\ p.id \in Nat
      /\ Current.run = run /\ Current.id = proposal
      /\ proposal \in Nat \cup {NoId} /\ nextId \in Nat \cup {NoId}
  BY DEF ApprovalTypeOK, Proposal, Current
<1>1. CASE SendProposal
  <2>1. /\ proposal' = FreshId /\ nextId' = FreshId + 1 /\ FreshId \in Nat /\ FreshId >= 1
        /\ UNCHANGED <<run, granted, refused, shown>> /\ phase = "idle"
    BY <1>1 DEF SendProposal, FreshId, ApprovalTypeOK, approvalHistory, EndedInv
  <2>2. proposal # NoId => proposal < FreshId
    BY <1>0 DEF FreshId, EndedInv
  <2>. QED
    BY <1>0, <2>1, <2>2 DEF EndedInv, Unsettled
<1>2. CASE MessageShown
  <2>1. /\ shown' = shown \cup {Current} /\ phase = "sending"
        /\ UNCHANGED <<run, nextId, proposal, phase, granted, refused>>
    BY <1>2 DEF MessageShown, gateState
  <2>2. proposal # NoId /\ Current' = Current
    BY <2>1 DEF SenderAndReceiver, Current
  <2>. QED
    BY <1>0, <2>1, <2>2 DEF EndedInv, Unsettled
<1>3. CASE AbandonFailed \/ DropReceiver \/ ApprovalReceived
  <2>1. /\ granted' \cup refused' = granted \cup refused \cup {Current}
        /\ UNCHANGED <<run, nextId, proposal, shown>> /\ phase # "idle"
    BY <1>3 DEF AbandonFailed, DropReceiver, ApprovalReceived
  <2>2. proposal # NoId
    BY <2>1 DEF SenderAndReceiver
  <2>. QED
    BY <1>0, <2>1, <2>2 DEF EndedInv
<1>4. CASE SendSucceeded \/ SendFailed \/ Elapse
  <2>1. UNCHANGED <<run, nextId, proposal, shown, granted, refused>> /\ Unsettled /\ Unsettled'
    BY <1>4 DEF SendSucceeded, SendFailed, Elapse, approvalHistory, Unsettled
  <2>. QED
    BY <2>1 DEF EndedInv, Current
<1>5. CASE ClearPending
  <2>1. UNCHANGED <<run, nextId, proposal, shown, granted, refused>> /\ ~Unsettled
    BY <1>5 DEF ClearPending, approvalHistory, Unsettled
  <2>. QED
    BY <2>1 DEF EndedInv
<1>6. CASE Restart
  <2>1. /\ run' = run + 1 /\ nextId' = NoId /\ proposal' = NoId
        /\ UNCHANGED <<shown, granted>>
        /\ refused' = IF Unsettled THEN refused \cup {Current} ELSE refused
    BY <1>6 DEF Restart
  <2>. QED
    BY <1>0, <2>1 DEF EndedInv
<1>7. CASE (\E p \in shown : ApproveCommand(p)) \/ SendTrue \/ ClockTick \/ UNCHANGED approvalVars
  <2>1. UNCHANGED <<run, nextId, proposal, phase, shown, granted, refused>>
    BY <1>7 DEF ApproveCommand, SendTrue, ClockTick, approvalVars, gateState, approvalHistory
  <2>. QED
    BY <2>1 DEF EndedInv, Current, Unsettled
<1>. QED
  BY <1>1, <1>2, <1>3, <1>4, <1>5, <1>6, <1>7 DEF ApprovalNext, Settle

(* The proposals of the gate. *)
GateProposals == [run : 1..MaxRuns, id : 1..(MaxClock + MaxBurst * MaxClock)]

(* The proposal that waits for the operator in the abstract gate. *)
OpenProposal == IF Unsettled THEN Current ELSE NoId

(* Every step is one of the abstract gate, or leaves it alone. *)
LEMMA GateStep ==
    ASSUME MaxBurst = 1, NoId \notin Proposal, ApprovalInv, EndedInv,
           [ApprovalNext]_approvalVars
    PROVE  [Gate!GateNext]_(Gate!gateVars)
<1> USE ApprovalAssumption
<1>0. /\ run \in 1..MaxRuns /\ NoId \notin Nat /\ MaxClock \in Nat /\ clock \in 1..MaxClock
      /\ \A p \in shown : p \in Proposal /\ p.run \in Nat /\ p.id \in Nat
      /\ phase # "idle" => Current \in Proposal /\ Current # NoId
      /\ ApprovalTypeOK /\ SenderAndReceiver /\ IdsFollowClock /\ ConsentInv
  <2>1. phase # "idle" => Current \in Proposal
    BY DEF ApprovalInv, ApprovalTypeOK, SenderAndReceiver, Current, Proposal
  <2>. QED
    BY <2>1 DEF ApprovalInv, ApprovalTypeOK, Proposal
<1> HIDE DEF ApprovalInv
<1>1. ASSUME UNCHANGED <<asked, granted, refused>>, OpenProposal' = OpenProposal
      PROVE  UNCHANGED Gate!gateVars
  BY <1>1 DEF Gate!gateVars, OpenProposal
<1>2. CASE SendProposal
  <2>1. /\ proposal' = FreshId /\ phase = "idle" /\ phase' = "sending" /\ burst < MaxBurst
        /\ UNCHANGED <<run, asked, granted, refused>>
    BY <1>2 DEF SendProposal, approvalHistory
  <2> DEFINE new == [run |-> run, id |-> FreshId]
  <2>2. FreshId \in 1..MaxClock
    BY <1>0, <2>1 DEF FreshId, IdsFollowClock, EndedInv, ApprovalTypeOK
  <2>3. proposal # NoId => proposal < FreshId /\ proposal \in Nat
    BY <1>0 DEF FreshId, EndedInv, ApprovalTypeOK
  <2>4. new \notin granted \cup refused
    BY <1>0, <2>2, <2>3 DEF EndedInv
  <2>5. new \in GateProposals
    <3>1. 1..MaxClock \subseteq 1..(MaxClock + MaxBurst * MaxClock)
      BY <1>0
    <3>. QED
      BY <1>0, <2>2, <3>1 DEF GateProposals
  <2>6. OpenProposal = NoId /\ OpenProposal' = new
    BY <2>1 DEF OpenProposal, Unsettled, Current
  <2>7. Gate!Open(new)
    BY <2>1, <2>4, <2>6 DEF Gate!Open, OpenProposal
  <2>. QED
    BY <2>5, <2>7 DEF Gate!GateNext, GateProposals
<1>3. CASE ApprovalReceived
  <2>1. /\ granted' = granted \cup {Current} /\ phase = "awaiting" /\ phase' = "approved" /\ sent
        /\ UNCHANGED <<asked, refused>>
    BY <1>3 DEF ApprovalReceived
  <2>2. OpenProposal = Current /\ OpenProposal' = NoId /\ Current \in asked
    BY <1>0, <2>1 DEF OpenProposal, Unsettled, ConsentInv
  <2>3. Gate!Grant
    BY <2>1, <2>2 DEF Gate!Grant, OpenProposal
  <2>. QED
    BY <2>3 DEF Gate!GateNext
<1>4. CASE AbandonFailed \/ DropReceiver \/ (Restart /\ Unsettled)
  <2>1. /\ refused' = refused \cup {Current} /\ Unsettled /\ phase # "idle"
        /\ phase' \in {"idle", "expired"}
        /\ UNCHANGED <<asked, granted>>
    BY <1>4 DEF AbandonFailed, DropReceiver, Restart, Unsettled
  <2>2. OpenProposal = Current /\ OpenProposal' = NoId /\ Current # NoId
    BY <1>0, <2>1 DEF OpenProposal, Unsettled
  <2>3. Gate!Refuse
    BY <2>1, <2>2 DEF Gate!Refuse, OpenProposal
  <2>. QED
    BY <2>3 DEF Gate!GateNext
<1>5. ASSUME NEW p \in shown, ApproveCommand(p)
      PROVE  Gate!GateNext
  <2>1. asked' = asked \cup {p} /\ UNCHANGED <<run, proposal, phase, granted, refused>>
    BY <1>5 DEF ApproveCommand
  <2>2. OpenProposal' = OpenProposal
    BY <2>1 DEF OpenProposal, Unsettled, Current
  <2>3. p = OpenProposal \/ p \in granted \cup refused
    BY DEF EndedInv, OpenProposal
  <2>4. Gate!Ask(p)
    BY <2>1, <2>2, <2>3 DEF Gate!Ask, OpenProposal
  <2>5. p \in GateProposals
    <3>1. p.run \in 1..MaxRuns /\ p.id \in 1..(MaxClock + MaxBurst * MaxClock)
      <4>1. p.run <= run /\ p.id < clock + burst /\ burst <= 1 /\ burst \in Nat
        BY <1>0 DEF IdsFollowClock, ApprovalTypeOK
      <4>2. p.run >= 1 /\ p.id >= 1
        BY DEF EndedInv
      <4>. QED
        BY <1>0, <4>1, <4>2
    <3>. QED
      BY <1>0, <3>1 DEF GateProposals, Proposal
  <2>. QED
    BY <2>4, <2>5 DEF Gate!GateNext, GateProposals
<1>6. CASE SendSucceeded \/ SendFailed \/ Elapse \/ ClearPending \/ MessageShown \/ SendTrue
           \/ ClockTick \/ UNCHANGED approvalVars
  <2>1. UNCHANGED <<run, proposal, asked, granted, refused>> /\ (Unsettled' <=> Unsettled)
    BY <1>6 DEF SendSucceeded, SendFailed, Elapse, ClearPending, MessageShown, SendTrue, ClockTick,
                approvalVars, approvalHistory, gateState, Unsettled
  <2>. QED
    BY <1>1, <2>1 DEF OpenProposal, Current
<1>7. CASE Restart /\ ~Unsettled
  <2>1. UNCHANGED <<asked, granted, refused>> /\ phase' = "idle"
    BY <1>7 DEF Restart
  <2>. QED
    BY <1>1, <1>7, <2>1 DEF OpenProposal, Unsettled
<1>. QED
  BY <1>2, <1>3, <1>4, <1>5, <1>6, <1>7 DEF ApprovalNext, Settle

(* Slot, channel, timer and ids implement the abstract gate (bot/mod.rs      *)
(* 13-16), for every number of runs at one proposal a second: a proposal is  *)
(* opened once, ends once, and is granted only if the operator asked for it. *)
THEOREM GateIsImplemented ==
    ASSUME MaxBurst = 1, NoId \notin Proposal
    PROVE  ApprovalSpec => ImplementsGate
<1>1. ApprovalInit => Gate!GateInit /\ EndedInv
  BY DEF ApprovalInit, Gate!GateInit, EndedInv, Unsettled
<1>2. ApprovalInv /\ EndedInv /\ [ApprovalNext]_approvalVars => EndedInv'
  BY EndedStep DEF ApprovalInv
<1>3. ApprovalInv /\ EndedInv /\ [ApprovalNext]_approvalVars
          => [Gate!GateNext]_(Gate!gateVars)
  BY GateStep
<1>. QED
  BY <1>1, <1>2, <1>3, ApprovalInvariant, PTL DEF ApprovalSpec, ImplementsGate, Gate!GateSpec

-----------------------------------------------------------------------------
(* The watch loop.                                                          *)

(* The watch loop drives the approval protocol only by its own steps. *)
LEMMA StepIsApprovalStep ==
    ASSUME [Next]_watchVars PROVE [ApprovalNext]_approvalVars
<1> USE DEF ApprovalNext, Settle
<1>1. CASE StartUp BY <1>1 DEF StartUp
<1>2. CASE StartAborted BY <1>2 DEF StartAborted
<1>3. CASE Stop BY <1>3 DEF Stop
<1>4. CASE BeginTick BY <1>4 DEF BeginTick
<1>5. CASE EvaluateTick BY <1>5 DEF EvaluateTick
<1>6. CASE SnapshotState BY <1>6 DEF SnapshotState
<1>7. CASE Persist BY <1>7 DEF Persist
<1>8. CASE PauseGate BY <1>8 DEF PauseGate
<1>9. CASE Propose BY <1>9 DEF Propose
<1>10. CASE AwaitApproval BY <1>10 DEF AwaitApproval
<1>11. CASE SkipFailed BY <1>11 DEF SkipFailed
<1>12. CASE LeaveApproval BY <1>12 DEF LeaveApproval
<1>13. CASE Submit BY <1>13 DEF Submit
<1>14. ASSUME NEW c, CommandUpdate(c) PROVE UNCHANGED approvalVars
  BY <1>14 DEF CommandUpdate
<1>15. CASE CommandMemory BY <1>15 DEF CommandMemory
<1>16. CASE CommandFailed BY <1>16 DEF CommandFailed
<1>17. CASE Approve BY <1>17 DEF Approve
<1>18. CASE SqlClearHalt BY <1>18 DEF SqlClearHalt
<1>19. CASE Background BY <1>19 DEF Background
<1>20. CASE UNCHANGED watchVars BY <1>20 DEF watchVars
<1>. QED
  BY <1>1, <1>2, <1>3, <1>4, <1>5, <1>6, <1>7, <1>8, <1>9, <1>10, <1>11, <1>12,
     <1>13, <1>14, <1>15, <1>16, <1>17, <1>18, <1>19, <1>20 DEF Next, Work, Operate

(* The two ways a state of the monitor comes out of the row. *)
LEMMA LoadedState ==
    ASSUME NEW row \in RiskState \cup {NoRow}
    PROVE  /\ DefaultState \in RiskState
           /\ LoadOrInit(row) \in RiskState
           /\ ResetSession(LoadOrInit(row)) \in RiskState
           /\ ResetSession(LoadOrInit(row)).halt_flag = LoadOrInit(row).halt_flag
           /\ ResetSession(LoadOrInit(row)).operator_pause = LoadOrInit(row).operator_pause
<1>1. DefaultState \in RiskState
  BY DEF DefaultState, RiskState
<1>2. LoadOrInit(row) \in RiskState
  BY <1>1 DEF LoadOrInit
<1>. QED
  BY <1>1, <1>2 DEF ResetSession, RiskState

(* Every step keeps the variables of the watch loop in their ranges. *)
LEMMA TypeStep ==
    ASSUME TypeOK, RiskInv, RowInv, [Next]_watchVars, ApprovalTypeOK'
    PROVE  TypeOK'
<1> USE DEF TypeOK
<1>0. DefaultState \in RiskState
  BY LoadedState
<1>1. CASE StartUp
  BY <1>1, LoadedState, WatchLoopAssumption DEF StartUp, pauseVars, PC
<1>2. CASE StartAborted
  BY <1>2, LoadedState DEF StartAborted, pauseVars
<1>3. CASE Stop
  BY <1>0, <1>3 DEF Stop, PC
<1>4. CASE BeginTick
  BY <1>4 DEF BeginTick, PC
<1>5. CASE EvaluateTick
  <2>1. PICK snap \in Snapshots, ratio \in Ratios :
           LET result == Evaluate(mem, snap, ratio)
           IN  /\ mem' = result.state
               /\ haltTick' = (result.action \in {"HaltAll", "PauseRebalancing"})
    BY <1>5 DEF EvaluateTick
  <2>2. snap \in PnlSnapshot
    BY WatchLoopAssumption
  <2>3. mem' \in RiskState /\ haltTick' \in BOOLEAN
    BY <2>1, <2>2, EvaluateType
  <2>. QED
    BY <1>5, <2>3 DEF EvaluateTick, pauseVars, PC
<1>6. CASE SnapshotState
  <2>1. CASE DurableChange
    BY <1>6, <2>1 DEF SnapshotState, pauseVars, PC
  <2>2. CASE ~DurableChange
    BY <1>6, <2>2 DEF SnapshotState, AfterRiskGate, pauseVars, PC
  <2>. QED
    BY <2>1, <2>2
<1>7. CASE Persist
  <2>1. clone \in RiskState /\ clone.halt_flag \in BOOLEAN
    BY <1>7 DEF Persist, RowInv, RiskState
  <2>2. haltOwed' \in BOOLEAN
    BY <1>7 DEF Persist
  <2>. QED
    BY <1>7, <2>1, <2>2 DEF Persist, AfterRiskGate, pauseVars, PC
<1>8. CASE PauseGate
  BY <1>8 DEF PauseGate, riskVars, pauseVars, PC
<1>9. CASE Propose
  BY <1>9 DEF Propose, riskVars, pauseVars, PC
<1>10. CASE AwaitApproval
  BY <1>10 DEF AwaitApproval, riskVars, pauseVars
<1>11. CASE SkipFailed
  BY <1>11 DEF SkipFailed, riskVars, pauseVars, PC
<1>12. CASE LeaveApproval
  BY <1>12 DEF LeaveApproval, riskVars, pauseVars, PC
<1>13. CASE Submit
  <2>1. [proposal |-> Current, telegram |-> mode.telegram] \in Submission
    BY DEF Submission, Current, ApprovalTypeOK
  <2>. QED
    BY <1>13, <2>1 DEF Submit, riskVars, pauseVars, PC
<1>14. ASSUME NEW c \in {"pause", "resume"}, CommandUpdate(c) PROVE TypeOK'
  <2>1. db \in RiskState
    BY <1>14 DEF CommandUpdate, BotListens, RiskInv
  <2>2. db' \in RiskState
    BY <1>14, <2>1 DEF CommandUpdate, RiskState
  <2>. QED
    BY <1>14, <2>2 DEF CommandUpdate
<1>15. CASE CommandMemory
  <2>1. mem' \in RiskState
    BY <1>15 DEF CommandMemory, RiskState
  <2>. QED
    BY <1>15, <2>1 DEF CommandMemory
<1>16. CASE CommandFailed
  BY <1>16 DEF CommandFailed, riskVars
<1>17. CASE Approve
  BY <1>17 DEF Approve, riskVars, pauseVars
<1>18. CASE SqlClearHalt
  <2>1. db' \in RiskState
    BY <1>18 DEF SqlClearHalt, HaltInRow, RiskState
  <2>. QED
    BY <1>18, <2>1 DEF SqlClearHalt, pauseVars
<1>19. CASE Background
  BY <1>19 DEF Background, riskVars, pauseVars
<1>20. CASE UNCHANGED watchVars
  BY <1>20 DEF watchVars, riskVars, pauseVars
<1>. QED
  BY <1>1, <1>2, <1>3, <1>4, <1>5, <1>6, <1>7, <1>8, <1>9, <1>10, <1>11, <1>12,
     <1>13, <1>14, <1>15, <1>16, <1>17, <1>18, <1>19, <1>20 DEF Next, Work, Operate

(* No step lets a halted, or with an IL limit an IL-paused, monitor past the *)
(* risk gate, and none loses the halt of the row from memory.                *)
LEMMA RiskStep ==
    ASSUME TypeOK, RiskInv, RowInv, PlaceInv, [Next]_watchVars
    PROVE  RiskInv'
<1> USE DEF RiskInv, HaltInRow, PastRiskGate
<1>1. ASSUME UNCHANGED <<db, mem, haltTick>>,
             \/ pc' = pc
             \/ pc \in PastRiskGate /\ pc' \in PastRiskGate \cup {"idle"}
      PROVE  RiskInv'
  BY <1>1
<1>2. CASE StartUp
  <2>1. db \in RiskState \cup {NoRow}
    BY DEF TypeOK
  <2>2. db' \in RiskState /\ mem' = db' /\ pc' = "idle"
    BY <1>2, <2>1, LoadedState DEF StartUp
  <2>. QED
    BY <2>2, NoRowAssumption
<1>3. CASE StartAborted
  BY <1>3 DEF StartAborted
<1>4. CASE Stop
  BY <1>4 DEF Stop
<1>5. CASE BeginTick
  BY <1>5 DEF BeginTick
<1>6. CASE EvaluateTick
  <2>1. PICK snap \in Snapshots, ratio \in Ratios :
           /\ mem' = Evaluate(mem, snap, ratio).state
           /\ haltTick' = (Evaluate(mem, snap, ratio).action
                             \in {"HaltAll", "PauseRebalancing"})
    BY <1>6 DEF EvaluateTick
  <2>2. mem \in RiskState /\ snap \in PnlSnapshot
    BY WatchLoopAssumption DEF TypeOK
  <2>3. /\ mem.halt_flag => mem' = mem
        /\ ~haltTick' => ~mem'.halt_flag
    <3>1. /\ mem.halt_flag => Evaluate(mem, snap, ratio).state = mem
          /\ Evaluate(mem, snap, ratio).state.halt_flag
                => Evaluate(mem, snap, ratio).action = "HaltAll"
      BY <2>2, EvaluateFlags
    <3>. QED
      BY <2>1, <3>1
  <2>4. MaxIlPct # NoLimit /\ ~haltTick' => ~mem'.pause_flag
    BY <2>1, <2>2, EvaluateUnpauses
  <2>. QED
    BY <1>6, <2>3, <2>4 DEF EvaluateTick
<1>7. CASE SnapshotState
  BY <1>7 DEF SnapshotState, AfterRiskGate
<1>8. CASE Persist
  <2>1. clone \in RiskState /\ clone # NoRow /\ clone.halt_flag = mem.halt_flag
    BY <1>8, NoRowAssumption DEF Persist, RowInv, SameRisk
  <2>2. pc' \in {"idle", "gate"} /\ (pc' = "gate" => ~haltTick)
    BY <1>8 DEF Persist, AfterRiskGate
  <2>. QED
    BY <1>8, <2>1, <2>2 DEF Persist
<1>9. CASE PauseGate
  BY <1>1, <1>9 DEF PauseGate, riskVars
<1>10. CASE Propose
  BY <1>1, <1>10 DEF Propose, riskVars
<1>11. CASE AwaitApproval
  BY <1>1, <1>11 DEF AwaitApproval, riskVars
<1>12. CASE SkipFailed
  <2>1. pc = "approval"
    BY <1>12 DEF SkipFailed, AbandonFailed, PlaceInv
  <2>. QED
    BY <1>1, <1>12, <2>1 DEF SkipFailed, riskVars
<1>13. CASE LeaveApproval
  <2>1. pc = "approval"
    BY <1>13 DEF LeaveApproval, ClearPending, PlaceInv
  <2>. QED
    BY <1>1, <1>13, <2>1 DEF LeaveApproval, riskVars
<1>14. CASE Submit
  BY <1>1, <1>14 DEF Submit, riskVars
<1>15. ASSUME NEW c, CommandUpdate(c) PROVE RiskInv'
  <2>1. db \in RiskState /\ db' \in RiskState /\ db'.halt_flag = db.halt_flag
    BY <1>15 DEF CommandUpdate, BotListens, TypeOK, RiskState
  <2>. QED
    BY <1>15, <2>1, NoRowAssumption DEF CommandUpdate, BotListens
<1>16. CASE CommandMemory
  BY <1>16 DEF CommandMemory, TypeOK, RiskState
<1>17. CASE CommandFailed
  BY <1>1, <1>17 DEF CommandFailed, riskVars
<1>18. CASE Approve
  BY <1>1, <1>18 DEF Approve, riskVars
<1>19. CASE SqlClearHalt
  <2>1. db' \in RiskState /\ ~db'.halt_flag
    BY <1>19 DEF SqlClearHalt, TypeOK, RiskState
  <2>. QED
    BY <1>19, <2>1, NoRowAssumption DEF SqlClearHalt
<1>20. CASE Background
  BY <1>1, <1>20 DEF Background, riskVars
<1>21. CASE UNCHANGED watchVars
  BY <1>1, <1>21 DEF watchVars, riskVars
<1>. QED
  BY <1>2, <1>3, <1>4, <1>5, <1>6, <1>7, <1>8, <1>9, <1>10, <1>11, <1>12,
     <1>13, <1>14, <1>15, <1>16, <1>17, <1>18, <1>19, <1>20, <1>21
     DEF Next, Work, Operate

(* No step but a failed upsert or the operator's SQL lets the row and the    *)
(* memory drift apart while the tick is past its upsert.                     *)
LEMMA RowStep ==
    ASSUME TypeOK, RiskInv, RowInv, PlaceInv, [Next]_watchVars
    PROVE  RowInv'
<1> USE DEF RowInv, SameRisk, PastRiskGate
<1>1. ASSUME UNCHANGED riskVars,
             \/ pc' = pc
             \/ pc \in PastRiskGate /\ pc' \in PastRiskGate \cup {"idle"}
      PROVE  RowInv'
  BY <1>1 DEF riskVars
<1>2. CASE StartUp
  BY <1>2 DEF StartUp
<1>3. CASE StartAborted
  BY <1>3 DEF StartAborted
<1>4. CASE Stop
  BY <1>4 DEF Stop
<1>5. CASE BeginTick
  <2>1. before' = <<mem.peak_pnl, mem.pause_flag, mem.halt_flag, mem.operator_pause>>
    BY <1>5 DEF BeginTick, Durable
  <2>2. /\ before'[1] = mem.peak_pnl
        /\ before'[2] = mem.pause_flag
        /\ before'[3] = mem.halt_flag
    BY <2>1
  <2>3. pc = "idle" /\ pc' = "evaluate" /\ UNCHANGED <<mem, db, clone, rowStale>>
    BY <1>5 DEF BeginTick
  <2>. QED
    BY <2>2, <2>3
<1>6. CASE EvaluateTick
  BY <1>6 DEF EvaluateTick
<1>7. CASE SnapshotState
  <2>1. CASE DurableChange
    BY <1>7, <2>1 DEF SnapshotState, TypeOK
  <2>2. CASE ~DurableChange
    <3>1. before = <<mem.peak_pnl, mem.pause_flag, mem.halt_flag, mem.operator_pause>>
      BY <2>2 DEF DurableChange, Durable
    <3>2. before[1] = mem.peak_pnl /\ before[2] = mem.pause_flag /\ before[3] = mem.halt_flag
      BY <3>1
    <3>3. /\ pc = "snapshot" /\ pc' \in {"idle", "gate"}
          /\ UNCHANGED <<mem, db, clone, rowStale>>
      BY <1>7, <2>2 DEF SnapshotState, AfterRiskGate
    <3>. QED
      BY <3>2, <3>3
  <2>. QED
    BY <2>1, <2>2
<1>8. CASE Persist
  <2>1. pc' \in {"idle", "gate"}
    BY <1>8 DEF Persist, AfterRiskGate
  <2>. QED
    BY <1>8, <2>1 DEF Persist
<1>9. CASE PauseGate
  BY <1>1, <1>9 DEF PauseGate
<1>10. CASE Propose
  BY <1>1, <1>10 DEF Propose
<1>11. CASE AwaitApproval
  BY <1>1, <1>11 DEF AwaitApproval
<1>12. CASE SkipFailed
  <2>1. pc = "approval"
    BY <1>12 DEF SkipFailed, AbandonFailed, PlaceInv
  <2>. QED
    BY <1>1, <1>12, <2>1 DEF SkipFailed
<1>13. CASE LeaveApproval
  <2>1. pc = "approval"
    BY <1>13 DEF LeaveApproval, ClearPending, PlaceInv
  <2>. QED
    BY <1>1, <1>13, <2>1 DEF LeaveApproval
<1>14. CASE Submit
  BY <1>1, <1>14 DEF Submit
<1>15. ASSUME NEW c, CommandUpdate(c) PROVE RowInv'
  <2>1. db \in RiskState
    BY <1>15 DEF CommandUpdate, BotListens, TypeOK, RiskInv
  <2>2. SameRisk(db', db)
    BY <1>15, <2>1 DEF CommandUpdate, RiskState
  <2>. QED
    BY <1>15, <2>2 DEF CommandUpdate
<1>16. CASE CommandMemory
  <2>1. SameRisk(mem', mem)
    BY <1>16 DEF CommandMemory, TypeOK, RiskState
  <2>. QED
    BY <1>16, <2>1 DEF CommandMemory
<1>17. CASE CommandFailed
  BY <1>1, <1>17 DEF CommandFailed
<1>18. CASE Approve
  BY <1>1, <1>18 DEF Approve
<1>19. CASE SqlClearHalt
  BY <1>19 DEF SqlClearHalt
<1>20. CASE Background
  BY <1>1, <1>20 DEF Background
<1>21. CASE UNCHANGED watchVars
  BY <1>1, <1>21 DEF watchVars
<1>. QED
  BY <1>2, <1>3, <1>4, <1>5, <1>6, <1>7, <1>8, <1>9, <1>10, <1>11, <1>12,
     <1>13, <1>14, <1>15, <1>16, <1>17, <1>18, <1>19, <1>20, <1>21
     DEF Next, Work, Operate

(* No step takes an answered pause out of the memory of its run, and none    *)
(* carries a tick that began under it past the pause gate.                   *)
LEMMA PauseStep ==
    ASSUME TypeOK, PauseInv, PlaceInv, [Next]_watchVars
    PROVE  PauseInv'
<1> USE DEF PauseInv
<1>1. ASSUME UNCHANGED <<mem, cmd, pauseAcked, tickPaused>>, pc # "down",
             pc' = "down" => pc = "down",
             pc' \in {"propose", "approval", "submit"} =>
                 ~tickPaused \/ pc \in {"propose", "approval", "submit"}
      PROVE  PauseInv'
  BY <1>1
<1>2. CASE StartUp
  BY <1>2 DEF StartUp, pauseVars
<1>3. CASE StartAborted
  BY <1>3 DEF StartAborted, pauseVars
<1>4. CASE Stop
  BY <1>4 DEF Stop
<1>5. CASE BeginTick
  BY <1>5 DEF BeginTick
<1>6. CASE EvaluateTick
  <2>1. PICK snap \in Snapshots, ratio \in Ratios :
           mem' = Evaluate(mem, snap, ratio).state
    BY <1>6 DEF EvaluateTick
  <2>2. mem \in RiskState /\ snap \in PnlSnapshot
    BY WatchLoopAssumption DEF TypeOK
  <2>3. mem'.operator_pause = mem.operator_pause
    BY <2>1, <2>2, EvaluateFlags
  <2>. QED
    BY <1>6, <2>3 DEF EvaluateTick, pauseVars
<1>7. CASE SnapshotState
  BY <1>1, <1>7 DEF SnapshotState, AfterRiskGate, pauseVars
<1>8. CASE Persist
  BY <1>1, <1>8 DEF Persist, AfterRiskGate, pauseVars
<1>9. CASE PauseGate
  BY <1>1, <1>9 DEF PauseGate, riskVars, pauseVars
<1>10. CASE Propose
  BY <1>1, <1>10 DEF Propose, riskVars, pauseVars
<1>11. CASE AwaitApproval
  BY <1>11 DEF AwaitApproval, riskVars, pauseVars
<1>12. CASE SkipFailed
  <2>1. pc = "approval"
    BY <1>12 DEF SkipFailed, AbandonFailed, PlaceInv
  <2>. QED
    BY <1>1, <1>12, <2>1 DEF SkipFailed, riskVars, pauseVars
<1>13. CASE LeaveApproval
  <2>1. pc = "approval"
    BY <1>13 DEF LeaveApproval, ClearPending, PlaceInv
  <2>. QED
    BY <1>1, <1>13, <2>1 DEF LeaveApproval, riskVars, pauseVars
<1>14. CASE Submit
  BY <1>1, <1>14 DEF Submit, riskVars, pauseVars
<1>15. ASSUME NEW c \in {"pause", "resume"}, CommandUpdate(c) PROVE PauseInv'
  BY <1>15 DEF CommandUpdate, BotListens
<1>16. CASE CommandMemory
  <2>1. mem'.operator_pause = (cmd = "pause")
    BY <1>16 DEF CommandMemory, TypeOK, RiskState
  <2>. QED
    BY <1>16, <2>1 DEF CommandMemory, TypeOK
<1>17. CASE CommandFailed
  BY <1>17 DEF CommandFailed, riskVars
<1>18. CASE Approve
  BY <1>18 DEF Approve, riskVars, pauseVars
<1>19. CASE SqlClearHalt
  BY <1>19 DEF SqlClearHalt, pauseVars
<1>20. CASE Background
  BY <1>20 DEF Background, riskVars, pauseVars
<1>21. CASE UNCHANGED watchVars
  BY <1>21 DEF watchVars, riskVars, pauseVars
<1>. QED
  BY <1>2, <1>3, <1>4, <1>5, <1>6, <1>7, <1>8, <1>9, <1>10, <1>11, <1>12,
     <1>13, <1>14, <1>15, <1>16, <1>17, <1>18, <1>19, <1>20, <1>21
     DEF Next, Work, Operate

(* The processor stays in the gate exactly while a proposal is out. *)
LEMMA PlaceStep ==
    ASSUME PlaceInv, [Next]_watchVars PROVE PlaceInv'
<1> USE DEF PlaceInv
<1>1. CASE StartUp
  BY <1>1 DEF StartUp, approvalVars
<1>2. CASE StartAborted
  BY <1>2 DEF StartAborted, approvalVars
<1>3. CASE Stop
  BY <1>3 DEF Stop, Restart
<1>4. CASE BeginTick
  BY <1>4 DEF BeginTick, approvalVars
<1>5. CASE EvaluateTick
  BY <1>5 DEF EvaluateTick, approvalVars
<1>6. CASE SnapshotState
  BY <1>6 DEF SnapshotState, AfterRiskGate, approvalVars
<1>7. CASE Persist
  BY <1>7 DEF Persist, AfterRiskGate, approvalVars
<1>8. CASE PauseGate
  BY <1>8 DEF PauseGate, approvalVars
<1>9. CASE Propose
  BY <1>9 DEF Propose, SendProposal
<1>10. CASE AwaitApproval
  BY <1>10 DEF AwaitApproval, SendSucceeded, SendFailed, Elapse, DropReceiver,
               ApprovalReceived
<1>11. CASE SkipFailed
  BY <1>11 DEF SkipFailed, AbandonFailed
<1>12. CASE LeaveApproval
  BY <1>12 DEF LeaveApproval, ClearPending
<1>13. CASE Submit
  BY <1>13 DEF Submit, approvalVars
<1>14. ASSUME NEW c, CommandUpdate(c) PROVE PlaceInv'
  BY <1>14 DEF CommandUpdate, approvalVars
<1>15. CASE CommandMemory
  BY <1>15 DEF CommandMemory, approvalVars
<1>16. CASE CommandFailed
  BY <1>16 DEF CommandFailed, approvalVars
<1>17. CASE Approve
  BY <1>17 DEF Approve, ApproveCommand, BotListens
<1>18. CASE SqlClearHalt
  BY <1>18 DEF SqlClearHalt, approvalVars
<1>19. CASE Background
  BY <1>19 DEF Background, MessageShown, SendTrue, ClockTick, gateState
<1>20. CASE UNCHANGED watchVars
  BY <1>20 DEF watchVars, approvalVars
<1>. QED
  BY <1>1, <1>2, <1>3, <1>4, <1>5, <1>6, <1>7, <1>8, <1>9, <1>10, <1>11, <1>12,
     <1>13, <1>14, <1>15, <1>16, <1>17, <1>18, <1>19, <1>20 DEF Next, Work, Operate

(* Every submission stays granted, and no grant is spent a second time. *)
LEMMA SubmissionStep ==
    ASSUME TypeOK, ApprovalInv, PlaceInv, SubmissionInv, [Next]_watchVars
    PROVE  SubmissionInv'
<1> USE ApprovalAssumption DEF SubmissionInv, PlaceInv
<1> DEFINE Known == <<mode, phase, taken, proposal, run, nextId, granted, submissions>>
<1>1. ASSUME UNCHANGED Known,
             \/ pc' = pc
             \/ pc' \notin {"propose", "approval", "submit"} /\ pc # "approval" /\ pc' # "down"
      PROVE  SubmissionInv'
  BY <1>1 DEF Current
<1>2. CASE StartUp
  <2>1. \A s \in submissions : s.proposal \in [run: Nat, id: Nat \cup {NoId}]
    BY DEF TypeOK, Submission
  <2>. QED
    BY <1>2, <2>1 DEF StartUp, approvalVars, approvalHistory, Current
<1>3. CASE StartAborted
  BY <1>1, <1>3 DEF StartAborted, approvalVars
<1>4. CASE Stop
  <2>1. \A s \in submissions : s.proposal.run < run + 1 /\ s.proposal.run # run + 1
    BY DEF TypeOK, ApprovalTypeOK, Submission
  <2>2. /\ pc' = "down" /\ phase' = "idle" /\ run' = run + 1
        /\ taken' = NoId /\ proposal' = NoId
        /\ UNCHANGED <<granted, submissions>>
    BY <1>4 DEF Stop, Restart
  <2>. QED
    BY <2>1, <2>2 DEF TypeOK, ApprovalTypeOK, Submission
<1>5. CASE BeginTick
  BY <1>1, <1>5 DEF BeginTick, approvalVars
<1>6. CASE EvaluateTick
  BY <1>1, <1>6 DEF EvaluateTick, approvalVars
<1>7. CASE SnapshotState
  BY <1>1, <1>7 DEF SnapshotState, AfterRiskGate, approvalVars
<1>8. CASE Persist
  BY <1>1, <1>8 DEF Persist, AfterRiskGate, approvalVars
<1>9. CASE PauseGate
  BY <1>9 DEF PauseGate, approvalVars, Current
<1>10. CASE Propose
  <2>1. FreshId \in Nat /\ (nextId # NoId => FreshId = nextId)
    BY DEF FreshId, TypeOK, ApprovalTypeOK
  <2>2. /\ pc = "propose" /\ pc' = "approval" /\ phase' = "sending"
        /\ proposal' = FreshId /\ nextId' = FreshId + 1 /\ run' = run
        /\ UNCHANGED <<mode, taken, granted, submissions>>
    BY <1>10 DEF Propose, SendProposal, approvalHistory
  <2>3. \A s \in submissions : s.proposal \in [run: Nat, id: Nat \cup {NoId}]
    BY DEF TypeOK, Submission
  <2>4. \A s \in submissions :
           s.proposal.run = run /\ s.proposal.id # NoId =>
               s.proposal.id < FreshId /\ s.proposal.id < FreshId + 1
    BY <2>1, <2>3 DEF TypeOK, ApprovalTypeOK
  <2>5. \A s \in submissions : s.proposal # [run |-> run, id |-> FreshId]
    BY <2>1, <2>3, <2>4
  <2>. QED
    BY <2>1, <2>2, <2>4, <2>5 DEF Current
<1>11. CASE AwaitApproval
  BY <1>11 DEF AwaitApproval, SendSucceeded, SendFailed, Elapse, DropReceiver,
               ApprovalReceived, approvalHistory, Current
<1>12. CASE SkipFailed
  BY <1>12 DEF SkipFailed, AbandonFailed, Current
<1>13. CASE LeaveApproval
  BY <1>13 DEF LeaveApproval, ClearPending, approvalHistory, Current, ApprovalInv, ConsentInv
<1>14. CASE Submit
  <2>1. /\ pc = "submit" /\ pc' = "idle" /\ UNCHANGED <<mode, approvalVars>>
        /\ \A s \in submissions' :
              s \in submissions \/ (s.proposal = Current /\ s.telegram = mode.telegram)
    BY <1>14 DEF Submit
  <2>2. UNCHANGED <<phase, taken, proposal, run, nextId, granted>>
    BY <2>1 DEF approvalVars
  <2>3. /\ Current.run = run /\ Current.id = proposal
        /\ run <= run
        /\ proposal # NoId => nextId # NoId /\ proposal < nextId
    BY DEF Current, ApprovalInv, IdsFollowClock, TypeOK, ApprovalTypeOK
  <2>. QED
    BY <2>1, <2>2, <2>3
<1>15. ASSUME NEW c, CommandUpdate(c) PROVE SubmissionInv'
  BY <1>1, <1>15 DEF CommandUpdate, approvalVars
<1>16. CASE CommandMemory
  BY <1>1, <1>16 DEF CommandMemory, approvalVars
<1>17. CASE CommandFailed
  BY <1>1, <1>17 DEF CommandFailed, approvalVars
<1>18. CASE Approve
  BY <1>18 DEF Approve, ApproveCommand, BotListens, Current
<1>19. CASE SqlClearHalt
  BY <1>1, <1>19 DEF SqlClearHalt, approvalVars
<1>20. CASE Background
  BY <1>20 DEF Background, MessageShown, SendTrue, ClockTick, gateState,
               approvalHistory, Current
<1>21. CASE UNCHANGED watchVars
  BY <1>1, <1>21 DEF watchVars, approvalVars
<1>. QED
  BY <1>2, <1>3, <1>4, <1>5, <1>6, <1>7, <1>8, <1>9, <1>10, <1>11, <1>12,
     <1>13, <1>14, <1>15, <1>16, <1>17, <1>18, <1>19, <1>20, <1>21
     DEF Next, Work, Operate

-----------------------------------------------------------------------------
(* The invariant of the watch loop. *)

LEMMA CoreInit == Init => CoreInv
<1> SUFFICES ASSUME Init PROVE CoreInv
  OBVIOUS
<1>1. ApprovalTypeOK /\ SenderAndReceiver
  BY ApprovalInitInv DEF Init, ApprovalInv
<1>2. DefaultState \in RiskState
  BY DEF DefaultState, RiskState
<1>3. TypeOK
  <2>1. db \in RiskState \cup {NoRow} /\ mode \in [live: BOOLEAN, telegram: BOOLEAN]
    BY WatchLoopAssumption DEF Init
  <2>2. haltOwed \in BOOLEAN
    BY DEF Init, HaltInRow
  <2>. QED
    BY <1>1, <1>2, <2>1, <2>2 DEF Init, TypeOK, PC
<1>4. RiskInv /\ RowInv /\ PauseInv
  BY DEF Init, RiskInv, RowInv, PauseInv, PastRiskGate
<1>5. PlaceInv
  BY DEF Init, ApprovalInit, PlaceInv
<1>. QED
  BY <1>1, <1>3, <1>4, <1>5 DEF CoreInv

LEMMA CoreStep == ASSUME CoreInv, [Next]_watchVars PROVE CoreInv'
<1>1. [ApprovalNext]_approvalVars
  BY StepIsApprovalStep
<1>2. ApprovalTypeOK
  BY DEF CoreInv, TypeOK
<1>3. ApprovalTypeOK' /\ SenderAndReceiver'
  BY <1>1, <1>2, ApprovalTypeStep, SenderAndReceiverStep DEF CoreInv
<1>4. TypeOK'
  BY <1>3, TypeStep DEF CoreInv
<1>. QED
  BY <1>3, <1>4, RiskStep, RowStep, PauseStep, PlaceStep DEF CoreInv

(* The memory, the row, the commands and the tick stay in agreement in every *)
(* interleaving of ticks, commands, SQL, clock and restarts.                 *)
THEOREM CoreInvariant == Spec => []CoreInv
<1>1. Init => CoreInv
  BY CoreInit
<1>2. CoreInv /\ [Next]_watchVars => CoreInv'
  BY CoreStep
<1>. QED
  BY <1>1, <1>2, PTL DEF Spec

(* And so do the approvals and the submissions, at one proposal a second. *)
THEOREM WatchInvariant == ASSUME MaxBurst = 1 PROVE Spec => []WatchInv
<1>1. Init => WatchInv
  <2>1. Init => ApprovalInv
    BY ApprovalInitInv DEF Init
  <2>2. Init => SubmissionInv
    BY DEF Init, SubmissionInv
  <2>. QED
    BY <2>1, <2>2, CoreInit DEF WatchInv
<1>2. WatchInv /\ [Next]_watchVars => WatchInv'
  <2> SUFFICES ASSUME WatchInv, [Next]_watchVars PROVE WatchInv'
    OBVIOUS
  <2>1. CoreInv'
    BY CoreStep DEF WatchInv
  <2>2. ApprovalInv'
    BY StepIsApprovalStep, ApprovalInvStep DEF WatchInv
  <2>3. SubmissionInv'
    BY SubmissionStep DEF WatchInv, CoreInv
  <2>. QED
    BY <2>1, <2>2, <2>3 DEF WatchInv
<1>. QED
  BY <1>1, <1>2, PTL DEF Spec

(* A halted monitor proposes and submits nothing (main.rs 1392-1394). *)
THEOREM HaltStopsRebalancing == Spec => []HaltedNeverSubmits
<1>1. CoreInv => HaltedNeverSubmits
  BY DEF CoreInv, RiskInv, HaltedNeverSubmits
<1>. QED
  BY <1>1, CoreInvariant, PTL

(* With --max-il a monitor under an IL pause proposes and submits nothing    *)
(* (main.rs 863-868); without it a pause that was loaded stops nothing.      *)
THEOREM PauseStopsRebalancing ==
    ASSUME MaxIlPct # NoLimit PROVE Spec => []PauseFlagGates
<1>1. CoreInv => PauseFlagGates
  BY DEF CoreInv, RiskInv, PauseFlagGates
<1>. QED
  BY <1>1, CoreInvariant, PTL

(* A tick that began after /pause was answered never proposes or submits     *)
(* (main.rs 1400-1406).                                                      *)
THEOREM AnsweredPauseHolds == Spec => []PausedTickNeverProposes
<1>1. CoreInv => PausedTickNeverProposes
  BY DEF CoreInv, PauseInv, PausedTickNeverProposes
<1>. QED
  BY <1>1, CoreInvariant, PTL

(* Between ticks the row carries the monitor's flags and peak unless its     *)
(* last write failed or SQL edited it (main.rs 1364-1376).                   *)
THEOREM RowFollowsMemory == Spec => []IdleRowIsCurrent
<1>1. CoreInv => IdleRowIsCurrent
  BY DEF CoreInv, RowInv, SameRisk, IdleRowIsCurrent
<1>. QED
  BY <1>1, CoreInvariant, PTL

(* With --telegram every submission was asked for, and no approval is spent  *)
(* twice (main.rs 1556-1609).                                                *)
THEOREM SubmissionsWereAsked ==
    ASSUME MaxBurst = 1 PROVE Spec => []SubmissionsAuthorised
<1>1. WatchInv => SubmissionsAuthorised
  BY DEF WatchInv, ApprovalInv, ConsentInv, SubmissionInv, SubmissionsAuthorised
<1>. QED
  BY <1>1, WatchInvariant, PTL

(* Restarts, upserts and failed starts leave a stored halt in the row; only  *)
(* the operator's SQL clears it (risk_monitor.rs 174-177).                   *)
THEOREM StoredHaltStands == Spec => OnlySqlClearsHalt
<1>1. ASSUME CoreInv, [Next]_watchVars, HaltInRow, ~SqlClearHalt
      PROVE  HaltInRow'
  <2> USE <1>1, NoRowAssumption DEF CoreInv, HaltInRow
  <2>1. db \in RiskState
    BY DEF TypeOK
  <2>2. ResetSession(db) \in RiskState /\ ResetSession(db).halt_flag = db.halt_flag
    BY <2>1 DEF ResetSession, RiskState
  <2>3. CASE UNCHANGED db
    BY <2>3
  <2>4. CASE StartUp
    <3>1. db' = ResetSession(db)
      BY <2>4 DEF StartUp, LoadOrInit
    <3>. QED
      BY <2>2, <3>1
  <2>5. CASE StartAborted
    <3>1. db' = db \/ db' = ResetSession(db)
      BY <2>5 DEF StartAborted, LoadOrInit
    <3>. QED
      BY <2>2, <3>1
  <2>6. CASE Persist
    BY <2>6 DEF Persist, RiskInv, RowInv, SameRisk
  <2>7. ASSUME NEW c, CommandUpdate(c) PROVE HaltInRow'
    BY <2>1, <2>7 DEF CommandUpdate, RiskState
  <2>8. CASE Stop
    BY <2>3, <2>8 DEF Stop
  <2>9. CASE BeginTick \/ EvaluateTick \/ SnapshotState \/ CommandMemory
    BY <2>3, <2>9 DEF BeginTick, EvaluateTick, SnapshotState, CommandMemory
  <2>10. CASE UNCHANGED riskVars \/ UNCHANGED watchVars
    BY <2>3, <2>10 DEF watchVars, riskVars
  <2>11. CASE PauseGate \/ Propose \/ AwaitApproval \/ SkipFailed \/ LeaveApproval \/ Submit
    BY <2>10, <2>11 DEF PauseGate, Propose, AwaitApproval, SkipFailed, LeaveApproval, Submit
  <2>12. CASE CommandFailed \/ Approve \/ Background
    BY <2>10, <2>12 DEF CommandFailed, Approve, Background
  <2>. QED
    BY <2>4, <2>5, <2>6, <2>7, <2>8, <2>9, <2>10, <2>11, <2>12 DEF Next, Work, Operate
<1>2. CoreInv /\ [Next]_watchVars
         => [HaltInRow => HaltInRow' \/ SqlClearHalt]_watchVars
  BY <1>1
<1>. QED
  BY <1>2, CoreInvariant, PTL DEF Spec, OnlySqlClearsHalt

=============================================================================
