----------------------------- MODULE WatchLoop -----------------------------
(***************************************************************************)
(* The watch command of main.rs with a database: the tick processor        *)
(* (1048-1678), its risk monitor and the risk_state row, the operator      *)
(* commands of the Telegram bot that write the same row and the same       *)
(* memory, the approval gate, and the submission of a rebalance.  Every    *)
(* await, every lock section and every blocking call of the processor ends *)
(* a step, so the bot and the operator's SQL run between any two of them.  *)
(* The process may die at every step and be started again.                 *)
(***************************************************************************)
EXTENDS RiskMonitor, Approval

CONSTANTS
    Snapshots,    \* the P&L snapshots a tick may carry
    Ratios,       \* the answers of the Drift RPC
    InitialRows,  \* what risk_state may hold before the first run
    Modes         \* the combinations of --live and --telegram it is run with

ASSUME WatchLoopAssumption ==
    /\ Snapshots \subseteq PnlSnapshot
    /\ Ratios \subseteq Nat \cup {NoRatio}
    /\ InitialRows \subseteq RiskState \cup {NoRow}
    /\ Modes \subseteq [live: BOOLEAN, telegram: BOOLEAN]
    /\ Modes # {}

VARIABLES
    pc,           \* where the processor stands in the tick; "down": no process
    mem,          \* RiskMonitor::state, shared with the bot under a mutex
    db,           \* the risk_state row of the pool, or NoRow
    before,       \* the durable fields read before evaluate, while in scope
    clone,        \* the copy of mem that persist_state will write, or NoRow
    haltTick,     \* the verdict of this tick's risk gate, while in scope
    mode,         \* live: ShadowGuard lets submissions through;
                  \* telegram: the bot runs and rebalances need approval
    cmd,          \* the pause command between its UPDATE and its memory write
    pauseAcked,   \* history: /pause took effect and no /resume came since
    tickPaused,   \* history: it had, in this run, when the current tick began
    haltOwed,     \* history: a tick that detected a halt got past
                  \* persist_state, and the operator did not clear it since
    rowStale,     \* history: the last upsert failed, or SQL edited the row since
    submissions   \* history: the rebalances that passed ShadowGuard::submit

riskVars == <<mem, db, before, clone, haltTick, haltOwed, rowStale>>
pauseVars == <<cmd, pauseAcked, tickPaused>>
watchVars == <<pc, riskVars, mode, pauseVars, submissions, approvalVars>>

PC == {"down", "idle", "evaluate", "snapshot", "persist",
       "gate", "propose", "approval", "submit"}

(* The steps of a tick that come after its risk gate. *)
PastRiskGate == {"gate", "propose", "approval", "submit"}

Submission == [proposal: [run: Nat, id: Nat \cup {NoId}], telegram: BOOLEAN]

(* What `before` holds while no tick uses it. *)
OutOfScope == Durable(DefaultState)

HaltInRow == db # NoRow /\ db.halt_flag

TypeOK ==
    /\ ApprovalTypeOK
    /\ pc \in PC
    /\ mem \in RiskState
    /\ db \in RiskState \cup {NoRow}
    /\ clone \in RiskState \cup {NoRow}
    /\ haltTick \in BOOLEAN
    /\ mode \in [live: BOOLEAN, telegram: BOOLEAN]
    /\ cmd \in {"none", "pause", "resume"}
    /\ pauseAcked \in {"no", "thisRun", "earlier"}
    /\ tickPaused \in BOOLEAN
    /\ haltOwed \in BOOLEAN
    /\ rowStale \in BOOLEAN
    /\ submissions \subseteq Submission

Init ==
    /\ ApprovalInit
    /\ pc = "down"
    /\ mem = DefaultState
    /\ db \in InitialRows
    /\ before = OutOfScope
    /\ clone = NoRow
    /\ haltTick = FALSE
    /\ mode \in Modes
    /\ cmd = "none" /\ pauseAcked = "no" /\ tickPaused = FALSE
    /\ haltOwed = HaltInRow
    /\ rowStale = FALSE
    /\ submissions = {}

-----------------------------------------------------------------------------
(* The process. *)

\* A mutant of StartUp: the row is reset with a full write of fresh defaults.
StartUpOverwrites ==
    /\ pc = "down"
    /\ mem' = DefaultState
    /\ db' = DefaultState
    /\ rowStale' = FALSE
    /\ pc' = "idle"
    /\ mode' \in Modes
    /\ UNCHANGED <<before, clone, haltTick, haltOwed, pauseVars, submissions, approvalVars>>

(* load_or_init, reset_session, and the same reset of the loaded copy. *)
StartUp ==
    /\ pc = "down"
    /\ mem' = ResetSession(LoadOrInit(db))
    /\ db' = ResetSession(LoadOrInit(db))
    /\ rowStale' = FALSE
    /\ pc' = "idle"
    /\ mode' \in Modes
    /\ UNCHANGED <<before, clone, haltTick, haltOwed, pauseVars, submissions, approvalVars>>

(* A start that fails on its way, after the insert or after the reset. *)
StartAborted ==
    /\ pc = "down"
    /\ db' \in {LoadOrInit(db), ResetSession(LoadOrInit(db))}
    /\ UNCHANGED <<pc, mem, before, clone, haltTick, haltOwed, rowStale,
                   mode, pauseVars, submissions, approvalVars>>

(* A crash or a shutdown: everything but the row and the chat is lost. *)
Stop ==
    /\ pc # "down"
    /\ Restart
    /\ pc' = "down"
    /\ mem' = DefaultState
    /\ before' = OutOfScope
    /\ clone' = NoRow
    /\ haltTick' = FALSE
    /\ cmd' = "none"
    /\ pauseAcked' = IF pauseAcked = "no" THEN "no" ELSE "earlier"
    /\ tickPaused' = FALSE
    /\ UNCHANGED <<db, haltOwed, rowStale, mode, submissions>>

-----------------------------------------------------------------------------
(* One tick of the processor. *)

(* A notification is taken from the queue, and by the time its P&L is        *)
(* written and the Drift RPC has answered, the durable fields are read.  A   *)
(* tick whose pool cannot be read returns earlier and changes nothing.       *)
BeginTick ==
    /\ pc = "idle"
    /\ before' = Durable(mem)
    /\ tickPaused' = (pauseAcked = "thisRun")
    /\ pc' = "evaluate"
    /\ UNCHANGED <<mem, db, clone, haltTick, haltOwed, rowStale, mode,
                   cmd, pauseAcked, submissions, approvalVars>>

\* A mutant of EvaluateTick: an IL pause is logged but does not end the tick.
EvaluateTickIgnoresIl ==
    /\ pc = "evaluate"
    /\ \E snap \in Snapshots, ratio \in Ratios :
          LET result == Evaluate(mem, snap, ratio)
          IN  /\ mem' = result.state
              /\ haltTick' = (result.action = "HaltAll")
    /\ pc' = "snapshot"
    /\ UNCHANGED <<db, before, clone, haltOwed, rowStale, mode, pauseVars,
                   submissions, approvalVars>>

(* evaluate under the lock, on any snapshot and any answer of the RPC. *)
EvaluateTick ==
    /\ pc = "evaluate"
    /\ \E snap \in Snapshots, ratio \in Ratios :
          LET result == Evaluate(mem, snap, ratio)
          IN  /\ mem' = result.state
              /\ haltTick' = (result.action \in {"HaltAll", "PauseRebalancing"})
    /\ pc' = "snapshot"
    /\ UNCHANGED <<db, before, clone, haltOwed, rowStale, mode, pauseVars,
                   submissions, approvalVars>>

\* A mutant of AfterRiskGate: the tick of a halted monitor goes on.
AfterRiskGateAlways == "gate"

(* `if halt_tick { return; }` *)
AfterRiskGate == IF haltTick THEN "idle" ELSE "gate"

\* A mutant of DurableChange: the peak is not among the compared fields.
DurableChangeFlagsOnly ==
    \E field \in 2..4 : Durable(mem)[field] # before[field]

(* `after != before`: the row is written only on a durable change. *)
DurableChange == Durable(mem) # before

(* A second lock section takes the copy that will be written. *)
SnapshotState ==
    /\ pc = "snapshot"
    /\ IF DurableChange
       THEN /\ pc' = "persist"
            /\ clone' = mem
            /\ UNCHANGED <<before, haltTick>>
       ELSE /\ pc' = AfterRiskGate
            /\ before' = OutOfScope
            /\ haltTick' = FALSE
            /\ UNCHANGED clone
    /\ UNCHANGED <<mem, db, haltOwed, rowStale, mode, pauseVars,
                   submissions, approvalVars>>

(* The copy carries a halt that this tick detected. *)
NewlyHalted == clone.halt_flag /\ ~before[3]

(* persist_state: the upsert writes every column of the copy, or fails and   *)
(* is only warned about.                                                     *)
Persist ==
    /\ pc = "persist"
    /\ \/ db' = clone /\ rowStale' = FALSE
       \/ UNCHANGED db /\ rowStale' = TRUE
    /\ haltOwed' = (haltOwed \/ NewlyHalted)
    /\ clone' = NoRow
    /\ before' = OutOfScope
    /\ haltTick' = FALSE
    /\ pc' = AfterRiskGate
    /\ UNCHANGED <<mem, mode, pauseVars, submissions, approvalVars>>

\* A mutant of PauseGate: the IL pause flag is read in place of operator_pause.
PauseGateReadsIlFlag ==
    /\ pc = "gate"
    /\ \/ pc' = "idle"
       \/ ~mem.pause_flag /\ mode.telegram /\ burst < MaxBurst /\ pc' = "propose"
       \/ ~mem.pause_flag /\ ~mode.telegram /\ pc' = "submit"
    /\ UNCHANGED <<riskVars, mode, pauseVars, submissions, approvalVars>>

(* The operator pause gate, then should_rebalance, whose verdict depends on  *)
(* the pool tick and on the P&L: either answer is possible.  Bound: no more  *)
(* than MaxBurst verdicts to propose in a second.                            *)
PauseGate ==
    /\ pc = "gate"
    /\ \/ pc' = "idle"
       \/ ~mem.operator_pause /\ mode.telegram /\ burst < MaxBurst /\ pc' = "propose"
       \/ ~mem.operator_pause /\ ~mode.telegram /\ pc' = "submit"
    /\ UNCHANGED <<riskVars, mode, pauseVars, submissions, approvalVars>>

Propose ==
    /\ pc = "propose"
    /\ SendProposal
    /\ pc' = "approval"
    /\ UNCHANGED <<riskVars, mode, pauseVars, submissions>>

\* A mutant of SkipFailed: a Telegram error lets the rebalance through.
SkipFailedFailsOpen ==
    /\ AbandonFailed
    /\ pc' = "submit"
    /\ UNCHANGED <<riskVars, mode, pauseVars, submissions>>

(* The Err arm fails closed: the rebalance is skipped. *)
SkipFailed ==
    /\ AbandonFailed
    /\ pc' = "idle"
    /\ UNCHANGED <<riskVars, mode, pauseVars, submissions>>

(* clear_pending and `if !approved { return; }`. *)
LeaveApproval ==
    /\ ClearPending
    /\ pc' = IF phase = "approved" THEN "submit" ELSE "idle"
    /\ UNCHANGED <<riskVars, mode, pauseVars, submissions>>

AwaitApproval ==
    /\ SendSucceeded \/ SendFailed \/ Elapse \/ DropReceiver \/ ApprovalReceived
    /\ UNCHANGED <<pc, riskVars, mode, pauseVars, submissions>>

(* ShadowGuard::submit: blocked in shadow mode, let through in live mode. *)
Submit ==
    /\ pc = "submit"
    /\ submissions' = IF mode.live
                      THEN submissions \cup {[proposal |-> Current, telegram |-> mode.telegram]}
                      ELSE submissions
    /\ pc' = "idle"
    /\ UNCHANGED <<riskVars, mode, pauseVars, approvalVars>>

-----------------------------------------------------------------------------
(* The bot, and the operator's SQL. *)

BotListens == pc # "down" /\ mode.telegram

(* handle_pause or handle_resume up to the end of set_operator_pause.  From  *)
(* here on a /resume has withdrawn whatever pause came before it.            *)
CommandUpdate(c) ==
    /\ BotListens
    /\ cmd = "none" /\ taken = NoId
    /\ db' = [db EXCEPT !.operator_pause = (c = "pause")]
    /\ cmd' = c
    /\ IF c = "resume"
       THEN pauseAcked' = "no" /\ tickPaused' = FALSE
       ELSE UNCHANGED <<pauseAcked, tickPaused>>
    /\ UNCHANGED <<pc, mem, before, clone, haltTick, haltOwed, rowStale,
                   mode, submissions, approvalVars>>

(* The UPDATE took effect: the memory follows, and the operator is told. *)
CommandMemory ==
    /\ cmd # "none"
    /\ mem' = [mem EXCEPT !.operator_pause = (cmd = "pause")]
    /\ pauseAcked' = IF cmd = "pause" THEN "thisRun" ELSE pauseAcked
    /\ cmd' = "none"
    /\ UNCHANGED <<pc, db, before, clone, haltTick, haltOwed, rowStale,
                   tickPaused, mode, submissions, approvalVars>>

(* The UPDATE took effect, but the call returned an error. *)
CommandFailed ==
    /\ cmd # "none"
    /\ cmd' = "none"
    /\ UNCHANGED <<pc, riskVars, pauseAcked, tickPaused, mode,
                   submissions, approvalVars>>

Approve ==
    /\ BotListens
    /\ cmd = "none"
    /\ \E p \in shown : ApproveCommand(p)
    /\ UNCHANGED <<pc, riskVars, mode, pauseVars, submissions>>

(* What goes on whatever the processor does. *)
Background ==
    /\ MessageShown \/ SendTrue \/ ClockTick
    /\ UNCHANGED <<pc, riskVars, mode, pauseVars, submissions>>

(* The only way to clear a halt: UPDATE risk_state SET halt_flag = FALSE. *)
SqlClearHalt ==
    /\ HaltInRow
    /\ db' = [db EXCEPT !.halt_flag = FALSE]
    /\ haltOwed' = FALSE
    /\ rowStale' = TRUE
    /\ UNCHANGED <<pc, mem, before, clone, haltTick, mode, pauseVars,
                   submissions, approvalVars>>

-----------------------------------------------------------------------------
(* What the processor does once a tick has begun. *)
Work ==
    \/ EvaluateTick
    \/ SnapshotState
    \/ Persist
    \/ PauseGate
    \/ Propose
    \/ AwaitApproval
    \/ SkipFailed
    \/ LeaveApproval
    \/ Submit

Operate ==
    \/ \E c \in {"pause", "resume"} : CommandUpdate(c)
    \/ CommandMemory
    \/ CommandFailed
    \/ Approve
    \/ SqlClearHalt

Next ==
    \/ StartUp
    \/ StartAborted
    \/ Stop
    \/ BeginTick
    \/ Work
    \/ Operate
    \/ Background

Spec == Init /\ [][Next]_watchVars

-----------------------------------------------------------------------------
(* Properties. *)

(* No tick of a halted monitor gets past the risk gate, so a halt stops      *)
(* every proposal and submission from the tick that detects it on            *)
(* (main.rs 1392-1394), also across the wait for an approval.                *)
HaltedNeverSubmits == pc \in PastRiskGate => ~mem.halt_flag

(* No tick proposes or submits while the IL pause flag is set (main.rs       *)
(* 863-868 tells the operator "rebalancing paused").                         *)
PauseFlagGates == pc \in PastRiskGate => ~mem.pause_flag

(* A tick that began after /pause was answered, with no /resume since, never *)
(* proposes or submits (main.rs 1400-1406).                                  *)
PausedTickNeverProposes ==
    tickPaused => pc \notin {"propose", "approval", "submit"}

(* With --telegram every rebalance that is submitted, or about to be, is one *)
(* the operator typed /approve for, and no approval is spent twice           *)
(* (main.rs 1556-1609).                                                      *)
SubmissionsAuthorised ==
    /\ \A s \in submissions : s.telegram => s.proposal \in asked
    /\ pc = "submit" /\ mode.telegram =>
          /\ Current \in asked
          /\ \A s \in submissions : s.proposal # Current

(* A stored halt is cleared by the operator's SQL and by nothing else: no    *)
(* restart, upsert or failed start takes it out of the row (D-12).           *)
OnlySqlClearsHalt == [][HaltInRow => HaltInRow' \/ SqlClearHalt]_watchVars

(* Between ticks the row carries the flags and the peak the monitor holds,   *)
(* unless its last write failed or SQL edited it: the debounce of            *)
(* main.rs 1364-1376 misses no change.                                       *)
IdleRowIsCurrent ==
    pc = "idle" /\ ~rowStale =>
        /\ db.halt_flag = mem.halt_flag
        /\ db.pause_flag = mem.pause_flag
        /\ db.peak_pnl = mem.peak_pnl

(* The halt is a kill-switch: once the tick that detected it has been        *)
(* through persist_state, it survives restarts until the operator clears it  *)
(* (main.rs 876-880, risk_monitor.rs 174-177).                               *)
HaltSurvivesRestart == haltOwed /\ pc # "down" => mem.halt_flag

(* An operator pause that was answered survives restarts until /resume       *)
(* (risk_monitor.rs 174-177: "exactly like operator_pause").                 *)
PauseSurvivesRestart ==
    pauseAcked # "no" /\ pc # "down" => mem.operator_pause

-----------------------------------------------------------------------------
(* The inductive invariant behind the safety properties; the parts that   *)
(* speak of ids are inductive for MaxBurst = 1.                              *)

(* A halt in the row is a halt in memory, and past the gate nothing is halted *)
(* or, with an IL limit, paused by it.                                       *)
RiskInv ==
    /\ pc # "down" => db # NoRow
    /\ pc # "down" /\ HaltInRow => mem.halt_flag
    /\ pc \in {"snapshot", "persist"} /\ ~haltTick => ~mem.halt_flag
    /\ pc \in PastRiskGate => ~mem.halt_flag
    /\ MaxIlPct # NoLimit =>
          /\ pc \in {"snapshot", "persist"} /\ ~haltTick => ~mem.pause_flag
          /\ pc \in PastRiskGate => ~mem.pause_flag

SameRisk(st, other) ==
    /\ st.peak_pnl = other.peak_pnl
    /\ st.pause_flag = other.pause_flag
    /\ st.halt_flag = other.halt_flag

(* Where the tick stands decides what the row is known to agree with. *)
RowInv ==
    /\ pc = "persist" => clone \in RiskState /\ SameRisk(clone, mem)
    /\ ~rowStale =>
          /\ pc \in {"idle"} \cup PastRiskGate => SameRisk(db, mem)
          /\ pc \in {"evaluate", "snapshot"} =>
                /\ before[1] = db.peak_pnl
                /\ before[2] = db.pause_flag
                /\ before[3] = db.halt_flag

PauseInv ==
    /\ pc = "down" => cmd = "none" /\ pauseAcked # "thisRun"
    /\ pauseAcked = "thisRun" => mem.operator_pause /\ cmd # "resume"
    /\ tickPaused => pauseAcked = "thisRun"
    /\ tickPaused => pc \notin {"propose", "approval", "submit"}

(* The processor is in the gate exactly while a proposal is out. *)
PlaceInv ==
    /\ pc = "approval" <=> phase # "idle"
    /\ pc \in {"propose", "approval"} => mode.telegram
    /\ pc = "down" => taken = NoId /\ proposal = NoId

(* This part needs no bound on the rate of proposals. *)
CoreInv ==
    TypeOK /\ SenderAndReceiver /\ RiskInv /\ RowInv /\ PauseInv /\ PlaceInv

(* A submission was granted, and carries an id below every id still to be    *)
(* issued in its run.                                                        *)
SubmissionInv ==
    /\ pc = "submit" /\ mode.telegram => Current \in granted
    /\ \A s \in submissions :
          /\ s.telegram => s.proposal \in granted
          /\ s.proposal.run <= run
          /\ s.proposal.run = run /\ s.proposal.id # NoId =>
                nextId # NoId /\ s.proposal.id < nextId
          /\ pc \in {"approval", "submit"} /\ mode.telegram => s.proposal # Current

WatchInv == CoreInv /\ ApprovalInv /\ SubmissionInv

=============================================================================
