---------------------------- MODULE RiskMonitor ----------------------------
(***************************************************************************)
(* The risk monitor of src/src/strategy/risk_monitor.rs: the per-pool      *)
(* RiskState, the decision procedure `evaluate`, and what the start of a   *)
(* watch session does to the state kept in the risk_state table.           *)
(*                                                                         *)
(* Amounts of money are integers in one fixed unit; percentages are        *)
(* compared by cross-multiplication, so the comparisons are exact, and     *)
(* the stored drawdown is the whole number of percent.  The pool address   *)
(* is fixed (one process watches one position) and updated_at is left out. *)
(***************************************************************************)
EXTENDS Integers

CONSTANTS
    MaxDrawdownPct,       \* --max-drawdown, or NoLimit when the flag is absent
    MaxIlPct,             \* --max-il, or NoLimit
    DriftMinMarginRatio,  \* --drift-min-margin-ratio, or NoLimit
    MinPeakUsd,           \* peaks below this are too small to measure a drawdown
    NoLimit,              \* Option::None of a limit
    NoRatio,              \* Option::None of a Drift margin ratio (RPC failed)
    NoRow                 \* the pool has no row in risk_state

(* The ranges main.rs accepts for the flags; MIN_PEAK_USD is positive. *)
ASSUME RiskLimitsAssumption ==
    /\ MaxDrawdownPct \in 1..100 \cup {NoLimit}
    /\ MaxIlPct \in 1..100 \cup {NoLimit}
    /\ DriftMinMarginRatio \in (Nat \ {0}) \cup {NoLimit}
    /\ MinPeakUsd \in Nat \ {0}
    /\ NoLimit \notin Int
    /\ NoRatio \notin Int

(* The peak starts at 0 and only rises, so neither number is ever negative. *)
RiskState ==
    [peak_pnl: Nat, current_drawdown_pct: Nat,
     pause_flag: BOOLEAN, halt_flag: BOOLEAN, operator_pause: BOOLEAN]

RiskAction ==
    {"Continue", "PauseRebalancing", "ResumeRebalancing", "HaltAll", "CloseDriftHedge"}

(* The columns of a P&L snapshot that evaluate reads. *)
PnlSnapshot == [net_pnl: Int, il_usd: Int, position_value: Int]

ASSUME NoRowAssumption == NoRow \notin RiskState

-----------------------------------------------------------------------------
(* evaluate, one operator per numbered stage of the function. *)

\* A mutant of HighWater: the latest P&L replaces the peak.
HighWaterLatest(st, snap) == snap.net_pnl

HighWater(st, snap) ==
    IF snap.net_pnl > st.peak_pnl THEN snap.net_pnl ELSE st.peak_pnl

DrawdownMeasured(peak) == MaxDrawdownPct # NoLimit /\ peak >= MinPeakUsd

DrawdownPct(peak, net) == ((peak - net) * 100) \div peak

\* A mutant of DrawdownBreached: >= where the code has >.
DrawdownBreachedAtLimit(peak, net) ==
    DrawdownMeasured(peak) /\ (peak - net) * 100 >= MaxDrawdownPct * peak

DrawdownBreached(peak, net) ==
    DrawdownMeasured(peak) /\ (peak - net) * 100 > MaxDrawdownPct * peak

Magnitude(x) == IF x < 0 THEN -x ELSE x

(* A position of no value counts as 0% IL, and 0 exceeds no accepted limit. *)
IlBreached(snap) ==
    /\ MaxIlPct # NoLimit
    /\ snap.position_value > 0
    /\ Magnitude(snap.il_usd) * 100 > MaxIlPct * snap.position_value

MarginLow(ratio) ==
    /\ DriftMinMarginRatio # NoLimit
    /\ ratio # NoRatio
    /\ ratio < DriftMinMarginRatio

\* A mutant of EvaluateIlAndMargin: a recovered IL never clears the pause.
EvaluateNoResume(st, snap, ratio) ==
    IF IlBreached(snap)
    THEN [state |-> [st EXCEPT !.pause_flag = TRUE], action |-> "PauseRebalancing"]
    ELSE [state |-> st,
          action |-> IF MarginLow(ratio) THEN "CloseDriftHedge" ELSE "Continue"]

\* A mutant of EvaluateIlAndMargin: every good tick announces a resume.
EvaluateAlwaysResumes(st, snap, ratio) ==
    IF IlBreached(snap)
    THEN [state |-> [st EXCEPT !.pause_flag = TRUE], action |-> "PauseRebalancing"]
    ELSE [state |-> [st EXCEPT !.pause_flag = FALSE], action |-> "ResumeRebalancing"]

(* Stages 4 to 6, reached when neither an old nor a new halt stops the tick. *)
EvaluateIlAndMargin(st, snap, ratio) ==
    IF IlBreached(snap)
    THEN [state |-> [st EXCEPT !.pause_flag = TRUE], action |-> "PauseRebalancing"]
    ELSE IF MaxIlPct # NoLimit /\ st.pause_flag
    THEN [state |-> [st EXCEPT !.pause_flag = FALSE], action |-> "ResumeRebalancing"]
    ELSE [state |-> st,
          action |-> IF MarginLow(ratio) THEN "CloseDriftHedge" ELSE "Continue"]

(* Stages 2 and 3, then the rest: the tick of a monitor that is not halted. *)
EvaluateRunning(st, snap, ratio) ==
    LET peak == HighWater(st, snap)
        tracked == [st EXCEPT
            !.peak_pnl = peak,
            !.current_drawdown_pct =
                IF DrawdownMeasured(peak) THEN DrawdownPct(peak, snap.net_pnl) ELSE @]
    IN  IF DrawdownBreached(peak, snap.net_pnl)
        THEN [state |-> [tracked EXCEPT !.halt_flag = TRUE], action |-> "HaltAll"]
        ELSE EvaluateIlAndMargin(tracked, snap, ratio)

\* A mutant of Evaluate: the halt gate at the top is missing.
EvaluateUngated(st, snap, ratio) == EvaluateRunning(st, snap, ratio)

Evaluate(st, snap, ratio) ==
    IF st.halt_flag
    THEN [state |-> st, action |-> "HaltAll"]
    ELSE EvaluateRunning(st, snap, ratio)

-----------------------------------------------------------------------------
(* The start of a session: load_or_init, then reset_session on the row and  *)
(* the same two assignments on the loaded copy.                             *)

DefaultState ==
    [peak_pnl |-> 0, current_drawdown_pct |-> 0,
     pause_flag |-> FALSE, halt_flag |-> FALSE, operator_pause |-> FALSE]

LoadOrInit(row) == IF row = NoRow THEN DefaultState ELSE row

\* A mutant of ResetSession: the peak of the previous session is kept.
ResetSessionKeepsPeak(st) == [st EXCEPT !.current_drawdown_pct = 0]

ResetSession(st) == [st EXCEPT !.peak_pnl = 0, !.current_drawdown_pct = 0]

(* The fields whose change makes the tick handler write the row. *)
Durable(st) == <<st.peak_pnl, st.pause_flag, st.halt_flag, st.operator_pause>>

=============================================================================
