---------------------------- MODULE RiskSession ----------------------------
(***************************************************************************)
(* One watch session seen by its risk monitor alone: the state loaded at   *)
(* start and then one call of evaluate per tick (main.rs 1284-1322), with  *)
(* any P&L snapshot and any answers of the Drift RPC.  The input is        *)
(* remembered, so that each verdict of the step-by-step procedure can be   *)
(* compared with a definition over the session's history.                  *)
(***************************************************************************)
EXTENDS DriftMargin

CONSTANTS
    Snapshots,  \* the P&L snapshots a tick may carry
    Answers,    \* what the attempts of one fetch may be answered
    MaxTicks    \* bound: ticks in the session

ASSUME RiskSessionAssumption ==
    /\ Snapshots \subseteq PnlSnapshot
    /\ Answers \subseteq [1..MarginFetchAttempts -> DriftAccount \cup {RpcError}]
    /\ MaxTicks \in Nat

VARIABLES
    loaded,    \* the state the session started with
    driftUser, \* whether drift_user_pubkey was resolved from the flags
    state,     \* RiskMonitor::state
    history,   \* every tick so far: its snapshot and the action returned
    fetched    \* the answers of the last tick's fetch, or NoDriftUser

vars == <<loaded, driftUser, state, history, fetched>>

Tick == [snap: PnlSnapshot, action: RiskAction]

TypeOK ==
    /\ loaded \in RiskState
    /\ driftUser \in BOOLEAN
    /\ state \in RiskState
    /\ history \in Seq(Tick)
    /\ fetched \in Answers \cup {NoDriftUser}

(* Any row may have been left behind by an earlier session. *)
Init ==
    /\ \E pause, halt, op \in BOOLEAN, peak \in {0, MinPeakUsd} :
          loaded = ResetSession(LoadOrInit(
              [DefaultState EXCEPT !.peak_pnl = peak, !.pause_flag = pause,
                                   !.halt_flag = halt, !.operator_pause = op]))
    /\ driftUser \in {given \in BOOLEAN : AcceptedFlags(given)}
    /\ state = loaded
    /\ history = <<>>
    /\ fetched = NoDriftUser

ReceiveTick(snap, answers) ==
    /\ Len(history) < MaxTicks
    /\ (answers = NoDriftUser) <=> ~driftUser
    /\ LET result == Evaluate(state, snap, DriftMargin(answers))
       IN  /\ state' = result.state
           /\ history' = Append(history, [snap |-> snap, action |-> result.action])
    /\ fetched' = answers
    /\ UNCHANGED <<loaded, driftUser>>

Next ==
    \E snap \in Snapshots, answers \in Answers \cup {NoDriftUser} :
        ReceiveTick(snap, answers)

Spec == Init /\ [][Next]_vars

-----------------------------------------------------------------------------
(* The reference definitions, over the history only. *)

(* The best net P&L of the first n ticks; a session starts from 0. *)
BestPnl(n) == Max({0} \cup {history[i].snap.net_pnl : i \in 1..n})

(* Tick n loses more than --max-drawdown percent of the best P&L so far, and *)
(* that best is worth measuring against.                                     *)
LosesTooMuch(n) ==
    /\ MaxDrawdownPct # NoLimit
    /\ BestPnl(n) >= MinPeakUsd
    /\ (BestPnl(n) - history[n].snap.net_pnl) * 100 > MaxDrawdownPct * BestPnl(n)

HaltedAt(n) == loaded.halt_flag \/ \E i \in 1..n : LosesTooMuch(i)

(* The pause flag after n ticks: the last tick that was not halted decides. *)
IlPausedAfter(n) ==
    LET live == {i \in 1..n : ~HaltedAt(i)}
    IN  IF live = {} \/ MaxIlPct = NoLimit
        THEN loaded.pause_flag
        ELSE IlBreached(history[Max(live)].snap)

(* The sum of the absolute amounts, in unbounded integers, ... *)
ExactTotal(perps, side) ==
    FoldFunction(LAMBDA a, b : a + b, 0,
                 [i \in 1..MaxPerpPositions |-> Magnitude(perps[i][side])])

(* ... and as much of it as an i64 holds. *)
CappedTotal(perps, side) ==
    LET total == ExactTotal(perps, side)
    IN  IF total <= MaxI64 THEN total ELSE MaxI64

(* The sum in which long and short positions offset each other. *)
NetTotal(perps, side) ==
    FoldFunction(LAMBDA a, b : a + b, 0, [i \in 1..MaxPerpPositions |-> perps[i][side]])

(* The account of the last fetch, one or none: the first attempt that was    *)
(* answered, if it was with a Drift User of its full length (the array of    *)
(* eight positions ends at byte 5496).                                      *)
AccountsRead ==
    IF fetched = NoDriftUser
    THEN {}
    ELSE {fetched[i] : i \in
            {k \in 1..MarginFetchAttempts :
                /\ \A j \in 1..(k - 1) : fetched[j] = RpcError
                /\ fetched[k] # RpcError
                /\ fetched[k].owner = "drift" /\ fetched[k].bytes >= 5496}}

(* Its absolute quote amounts, as far as an i64 counts, are worth less than  *)
(* the threshold times its absolute base amounts plus one.                   *)
MarginBelowThreshold ==
    \E account \in AccountsRead :
        CappedTotal(account.perps, "quote") <
            DriftMinMarginRatio * (CappedTotal(account.perps, "base") + 1)

(* The same of the amounts once summed. *)
NetMarginBelowThreshold ==
    \E account \in AccountsRead :
        Magnitude(NetTotal(account.perps, "quote")) <
            DriftMinMarginRatio * (Magnitude(NetTotal(account.perps, "base")) + 1)

(* The last tick closes the hedge exactly when no risk limit decided it      *)
(* before (no halt, no IL breach, no IL pause to end - without --max-il a    *)
(* pause that was loaded stands in no one's way) and the margin is low.      *)
ClosesHedgeIff(low) ==
    LET n == Len(history)
    IN  n > 0 =>
            (history[n].action = "CloseDriftHedge" <=>
                /\ ~HaltedAt(n) /\ ~IlBreached(history[n].snap)
                /\ ~(MaxIlPct # NoLimit /\ IlPausedAfter(n - 1))
                /\ low)

-----------------------------------------------------------------------------
(* Properties. *)

(* The hedge is asked to be closed exactly when the account that answered    *)
(* first - the third attempt included - is a whole Drift account whose       *)
(* margin is below the threshold: every position counted in full, offsetting *)
(* ones too, up to i64::MAX, where both totals stop; a fetch without such an *)
(* account never closes it (risk_monitor.rs 284-423, 487-499).  The formula   *)
(* at 264-266 would net them: MarginWarnedAsDocumented.                      *)
MarginWarnedIffLow == ClosesHedgeIff(MarginBelowThreshold)

(* The same by the formula in the comment of the function,                   *)
(* |sum(quote)| / (|sum(base)| + 1) (risk_monitor.rs 262-266).  Not an       *)
(* invariant: the code sums absolute amounts, so an account whose positions  *)
(* offset each other has no margin by the comment and keeps its hedge.       *)
MarginWarnedAsDocumented == ClosesHedgeIff(NetMarginBelowThreshold)

(* The monitor is halted exactly when it was loaded halted or some tick of   *)
(* this session fell too far below the session's best P&L - a peak of an     *)
(* earlier session never counts - and every tick from the one that halts on  *)
(* answers HaltAll, and none before (risk_monitor.rs 171-180, 434-462).      *)
HaltFollowsHistory ==
    /\ state.halt_flag <=> HaltedAt(Len(history))
    /\ \A n \in 1..Len(history) : history[n].action = "HaltAll" <=> HaltedAt(n)

(* Until a halt, the peak is the best net P&L of this session and no other.  *)
PeakIsSessionBest ==
    ~HaltedAt(Len(history)) => state.peak_pnl = BestPnl(Len(history))

(* The IL pause is in force exactly when the last tick the monitor looked at *)
(* exceeded the limit; a halted tick neither sets nor clears it.             *)
PauseFollowsIl == state.pause_flag <=> IlPausedAfter(Len(history))

(* A resume is announced only while an IL pause is in force, once per pause. *)
ResumeEndsAPause ==
    \A n \in 1..Len(history) :
        history[n].action = "ResumeRebalancing" <=>
            ~HaltedAt(n) /\ IlPausedAfter(n - 1) /\ ~IlPausedAfter(n)

=============================================================================
