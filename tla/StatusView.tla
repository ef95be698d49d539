---------------------------- MODULE StatusView -----------------------------
(***************************************************************************)
(* A watch session as its operator sees it: every tick first stores its    *)
(* P&L row (main.rs 1261-1279), is then judged, and the judged state is    *)
(* stored when a durable field changed (1364-1386); /status reads the      *)
(* latest P&L row and after it the risk_state row (bot/queries.rs 28-74),  *)
(* with any number of ticks in between.  Both writes may fail and are only *)
(* logged.                                                                 *)
(*                                                                         *)
(* The bot reads no memory, so a tick's evaluate and its upsert are one    *)
(* step here; WatchLoop takes them apart, and has the commands that write. *)
(* A P&L row is known by the number of its tick.                           *)
(***************************************************************************)
EXTENDS RiskSession

CONSTANTS
    NoPnl,           \* pnl_history has no row of the pool; and: no tick, no query
    OperatorChat,    \* TELEGRAM_CHAT_ID
    AllowedUsers,    \* TELEGRAM_ALLOWED_USER_IDS
    NoSender,        \* a message without a sender identity
    Messages         \* where a /status may come from

ASSUME StatusViewAssumption == NoPnl \notin Int /\ NoSender \notin AllowedUsers

VARIABLES
    pnlRow,    \* the latest row of pnl_history: 0 is an earlier session's
    incoming,  \* the snapshot whose row was stored and which waits for evaluate
    riskRow,   \* the risk_state row
    missed,    \* history: an upsert of this session failed
    reading    \* the P&L row of a /status that has yet to read risk_state

statusVars == <<vars, pnlRow, incoming, riskRow, missed, reading>>

StatusTypeOK ==
    /\ TypeOK
    /\ pnlRow \in 0..MaxTicks \cup {NoPnl}
    /\ incoming \in Snapshots \cup {NoPnl}
    /\ riskRow \in RiskState
    /\ missed \in BOOLEAN
    /\ reading \in 0..MaxTicks \cup {NoPnl}

StatusInit ==
    /\ Init
    /\ pnlRow \in {NoPnl, 0}
    /\ incoming = NoPnl
    /\ riskRow = state
    /\ missed = FALSE
    /\ reading = NoPnl

(* write_pnl_snapshot of the next tick. *)
StorePnl ==
    /\ incoming = NoPnl /\ Len(history) < MaxTicks
    /\ incoming' \in Snapshots
    /\ pnlRow' \in {pnlRow, Len(history) + 1}
    /\ UNCHANGED <<vars, riskRow, missed, reading>>

\* A mutant of Stored: only a change of a flag is worth a write.
StoredFlagsOnly(st, after) ==
    <<st.pause_flag, st.halt_flag>> # <<after.pause_flag, after.halt_flag>>

(* persist_state is called. *)
Stored(st, after) == Durable(st) # Durable(after)

JudgeTick ==
    /\ incoming # NoPnl
    /\ \E answers \in Answers \cup {NoDriftUser} : ReceiveTick(incoming, answers)
    /\ incoming' = NoPnl
    /\ \/ Stored(state, state') /\ riskRow' = state' /\ UNCHANGED missed
       \/ Stored(state, state') /\ UNCHANGED riskRow /\ missed' = TRUE
       \/ ~Stored(state, state') /\ UNCHANGED <<riskRow, missed>>
    /\ UNCHANGED <<pnlRow, reading>>

(* Membership of the operator's chat alone is no authorization. *)
CheckAuth(msg) ==
    /\ msg.chat = OperatorChat
    /\ msg.from # NoSender
    /\ msg.from \in AllowedUsers

(* The first query of query_status; without a row the answer is "No data     *)
(* yet" and there is no second one.                                          *)
QueryPnl ==
    /\ reading = NoPnl /\ pnlRow # NoPnl
    /\ \E msg \in Messages : CheckAuth(msg)
    /\ reading' = pnlRow
    /\ UNCHANGED <<vars, pnlRow, incoming, riskRow, missed>>

(* The second query, and the message. *)
QueryRisk ==
    /\ reading # NoPnl
    /\ reading' = NoPnl
    /\ UNCHANGED <<vars, pnlRow, incoming, riskRow, missed>>

StatusNext == StorePnl \/ JudgeTick \/ QueryPnl \/ QueryRisk

StatusSpec == StatusInit /\ [][StatusNext]_statusVars

-----------------------------------------------------------------------------
(* The line of handle_status that says what the session does. *)
PauseStatus(row) ==
    CASE row.halt_flag -> "HALTED (drawdown limit)"
      [] ~row.halt_flag /\ row.operator_pause -> "PAUSED (operator)"
      [] ~row.halt_flag /\ ~row.operator_pause /\ row.pause_flag -> "PAUSED (IL limit)"
      [] OTHER -> "ACTIVE"

(* What a /status message says of the risk_state row it read. *)
StatusMessage(row) ==
    [status |-> PauseStatus(row), peak |-> row.peak_pnl, drawdown |-> row.current_drawdown_pct]

(* What the session's history says of the moment after n ticks. *)
TrueStatus(n) ==
    IF HaltedAt(n) THEN "HALTED (drawdown limit)"
    ELSE IF loaded.operator_pause THEN "PAUSED (operator)"
    ELSE IF IlPausedAfter(n) THEN "PAUSED (IL limit)"
    ELSE "ACTIVE"

(* Type correctness, with the Drift verdict of the last tick. *)
SessionInv == StatusTypeOK /\ MarginWarnedIffLow

(* The status and the peak of a /status message are never older than the     *)
(* P&L it shows by more than the tick in progress: they are what the         *)
(* session's history gives after the tick before the shown one, or after a   *)
(* later one, whatever happened between the two queries - as long as no      *)
(* upsert of risk_state has failed (queries.rs 28-60, main.rs 1364-1386).    *)
StatusInTime ==
    reading # NoPnl /\ ~missed =>
        LET message == StatusMessage(riskRow)
        IN  \E n \in Max({0, reading - 1})..Len(history) :
                /\ message.status = TrueStatus(n)
                /\ ~HaltedAt(n) => message.peak = BestPnl(n)

=============================================================================
