---------------------------- MODULE WatchLedger ----------------------------
(***************************************************************************)
(* What the watch command of src/src/main.rs computes and writes down on   *)
(* every tick, between a chain that moves on and a database that may       *)
(* refuse a write: the position refreshed by RPC, the pool taken from the  *)
(* notification, the fees of the session, the pool_ticks row, the signal,  *)
(* and the shadow_rebalances row that the gate of --live reads at a later  *)
(* start.  The risk gate, the pause and the approval are WatchLoop's and   *)
(* Approval's: here they let a tick go on or not.                          *)
(*                                                                         *)
(* The two tokens are treated alike, so one stands for both and the price  *)
(* is 1; impermanent loss is a floating-point formula and an input here.   *)
(* Positions and pools are read through rpc.rs, with its retries.          *)
(***************************************************************************)
EXTENDS FeeMath, RangePlan

CONSTANTS
    Watchable,     \* the positions that may be watched: [lower, upper, spacing]
    Ticks,         \* the ticks a swap may end at
    Growths,       \* what one swap may add to fee_growth_global
    Liquidities,   \* the liquidity the owner may give the position
    FirstLiquidity,    \* the one it has at the beginning
    Losses,        \* the impermanent losses, at most 0
    FirstGrowth,   \* fee_growth_global at the beginning
    MaxAttempts,   \* MAX_ATTEMPTS of rpc.rs
    RequiredDays,  \* SHADOW_GATE_REQUIRED_DAYS
    NearEdge, MinNetPnl,    \* of the default RebalanceConfig
    MaxSwaps, MaxTouches, MaxDay, MaxRuns,    \* bounds of the environment
    None

ASSUME LedgerAssumption ==
    /\ Watchable \subseteq [lower : Int, upper : Int, spacing : Nat]
    /\ \A w \in Watchable : w.lower < w.upper
    /\ Ticks \subseteq Int
    /\ Growths \subseteq Nat
    /\ Liquidities \subseteq U128 /\ FirstLiquidity \in Liquidities
    /\ Losses \subseteq Int
    /\ FirstGrowth \in U128
    /\ MaxAttempts \in Nat \ {0}
    /\ RequiredDays \in Nat /\ NearEdge \in Nat /\ MinNetPnl \in Int
    /\ MaxSwaps \in Nat /\ MaxTouches \in Nat /\ MaxDay \in Nat /\ MaxRuns \in Nat
    /\ None \notin Int

VARIABLES
    watched,    \* the chain: the range of the position and its pool's tick
                \* spacing, which never change
    pool,       \* the chain: slot, fee growth, tick, and as history what the
                \* position has earned since the session began
    pos,        \* the chain: the position's liquidity and fee_owed
    unmoved,    \* the chain: earned since it last moved fees into fee_owed
    swaps,      \* swaps in the pool, up to MaxSwaps
    touches,    \* times the owner touched the position, up to MaxTouches
    day,        \* the calendar
    mode,       \* the process: "down", "starting", "shadow" or "live"
    baseline,   \* fee_growth_baseline
    known,      \* current_pos: the last position read
    note,       \* the notification that waits for the processor, or None
    fees,       \* computed_fees_earned of the last tick, or None
    rows,       \* pool_ticks: growth by slot
    earliest,   \* MIN(created_at) of shadow_rebalances, or None
    planned,    \* the range of the shadow row of the last tick, and its tick
    runs,       \* process runs, up to MaxRuns
    due,        \* history: what the last tick should report, from what the
                \* position earned, or None
    untouched,  \* history: nobody touched the position this session, and it
                \* earned from every growth of the pool
    withdrawn,  \* history: fees or liquidity were taken out this session
    refetched,  \* history: a pool was read by RPC under a notification's slot
    decided     \* history: the day of the first decision to rebalance, or None

chain == <<watched, pool, pos, unmoved, swaps, touches>>
session == <<mode, baseline, known, note, fees, runs>>
database == <<rows, earliest, planned>>
marks == <<due, untouched, withdrawn, refetched, decided>>
vars == <<chain, day, session, database, marks>>

Lower == watched.lower
Upper == watched.upper
TickSpacing == watched.spacing

InitialPosition == [liq |-> FirstLiquidity, owed |-> 0]

Init ==
    /\ watched \in Watchable
    /\ pool = [slot |-> 0, growth |-> FirstGrowth, tick |-> Lower, earned |-> 0]
    /\ pos = InitialPosition
    /\ unmoved = 0 /\ swaps = 0 /\ touches = 0 /\ day = 0
    /\ mode = "down" /\ baseline = 0 /\ known = InitialPosition /\ note = None
    /\ fees = None /\ runs = 0
    /\ rows = [s \in {} |-> 0] /\ earliest = None /\ planned = None
    /\ due = None /\ untouched = TRUE /\ withdrawn = FALSE /\ refetched = FALSE
    /\ decided = None

-----------------------------------------------------------------------------
(* The chain.                                                               *)

(* Only a position in range earns; the pool's global growth grows anyway.   *)
(* A slot may hold several swaps.                                           *)
Swap ==
    /\ swaps < MaxSwaps /\ swaps' = swaps + 1
    /\ \E g \in Growths, t \in Ticks, slot \in {pool.slot, pool.slot + 1} :
        LET earning == InRange(pool.tick, Lower, Upper)
            gain == IF earning THEN g * pos.liq ELSE 0
        IN  /\ pool' = [slot |-> slot, tick |-> t,
                        growth |-> (pool.growth + g) % (Word * Word),
                        earned |-> pool.earned + gain]
            /\ unmoved' = unmoved + gain
            /\ untouched' = (untouched /\ (earning \/ g = 0))
    /\ UNCHANGED <<watched, pos, touches, day, session, database, due, withdrawn, refetched, decided>>

(* Whatever the owner does to the position first moves its fees to fee_owed. *)
Touch(position, takesOut) ==
    /\ touches < MaxTouches
    /\ touches' = touches + 1
    /\ pos' = position
    /\ unmoved' = 0
    /\ untouched' = FALSE
    /\ withdrawn' = (withdrawn \/ takesOut)
    /\ UNCHANGED <<watched, pool, swaps, day, session, database, due, refetched, decided>>

Moved == pos.owed + unmoved \div Word

CollectFees == Touch([pos EXCEPT !.owed = 0], TRUE)

ChangeLiquidity == \E l \in Liquidities :
    Touch([liq |-> l, owed |-> Moved], l < pos.liq)

DayPasses ==
    /\ day < MaxDay /\ day' = day + 1
    /\ UNCHANGED <<chain, session, database, marks>>

-----------------------------------------------------------------------------
(* rpc.rs: up to MaxAttempts requests, the first answer is taken.  A wrong  *)
(* owner is an error that is not retried.                                   *)

Answers == [1..MaxAttempts -> {"account", "foreign", "error"}]

Fetched(answers) ==
    \E k \in 1..MaxAttempts :
        answers[k] = "account" /\ \A j \in 1..k - 1 : answers[j] = "error"

-----------------------------------------------------------------------------
(* Starting and stopping.                                                   *)

\* A mutant of GatePasses: a pool without rows passes.
GatePassesWithoutRows == earliest = None \/ day - earliest >= RequiredDays

(* check_shadow_gate: the age of the oldest row of the pool, of any kind.   *)
(* No row ever has its error_flag set, so ErrorsPresent never happens.      *)
GatePasses == earliest # None /\ day - earliest >= RequiredDays

(* The position is read first: fees are counted from its fee_owed. *)
ReadPosition ==
    /\ mode = "down" /\ runs < MaxRuns
    /\ mode' = "starting"
    /\ known' = pos
    /\ runs' = runs + 1
    /\ untouched' = TRUE /\ withdrawn' = FALSE
    /\ UNCHANGED <<chain, day, baseline, note, fees, database, due, refetched, decided>>

(* Then the pool, whose growth at this moment is the baseline; and --live is *)
(* refused (exit 2) unless the gate passes.                                  *)
ReadPool ==
    /\ mode = "starting"
    /\ \E m \in {"shadow", "live"} :
        /\ m = "live" => GatePasses
        /\ mode' = m
    /\ baseline' = pool.growth
    /\ pool' = [pool EXCEPT !.earned = 0]
    /\ UNCHANGED <<watched, pos, unmoved, swaps, touches, day, known, note, fees, runs, database,
                   marks>>

(* The process ends, or a read or the gate fails at the start. *)
Stop ==
    /\ mode # "down"
    /\ mode' = "down" /\ note' = None /\ fees' = None
    /\ planned' = None /\ due' = None
    /\ UNCHANGED <<chain, day, baseline, known, runs, rows, earliest, untouched, withdrawn,
                   refetched, decided>>

(* The processor takes its notifications in the order of the chain          *)
(* (TickQueue), possibly long after the chain has moved on.                 *)
Notify ==
    /\ mode \in {"shadow", "live"} /\ note = None
    /\ note' = pool /\ planned' = None
    /\ UNCHANGED <<chain, day, mode, baseline, known, fees, runs, rows, earliest, marks>>

-----------------------------------------------------------------------------
(* A tick.                                                                  *)

\* A mutant of PositionAfter: a position that cannot be read counts as empty.
PositionAfterEmpty(answers) == IF Fetched(answers) THEN pos ELSE [liq |-> 0, owed |-> 0]

(* A position that cannot be read is replaced by the last one known. *)
PositionAfter(answers) == IF Fetched(answers) THEN pos ELSE known

PositionsRead == {PositionAfter(answers) : answers \in Answers}

\* A mutant of SessionFees: what was already owed is left out.
SessionFeesAccruedOnly(p, q) == compute_accrued_fees(q.growth, baseline, p.liq)

SessionFees(p, q) == p.owed + compute_accrued_fees(q.growth, baseline, p.liq)

\* A mutant of KeyOf: a missing slot is taken for slot 0.
KeyOfOrZero(slot, present) == IF present THEN slot ELSE 0

(* Without context.slot the row is not written. *)
KeyOf(slot, present) == IF present THEN slot ELSE None

(* INSERT ... ON CONFLICT (pool_address, slot) DO NOTHING *)
WithTick(key, growth) ==
    IF key = None THEN rows
    ELSE [s \in DOMAIN rows \cup {key} |-> IF s \in DOMAIN rows THEN rows[s] ELSE growth]

(* Shadow rows are dated by the database; skip rows count as much as others. *)
RowDated == IF earliest = None THEN day ELSE earliest

(* A payload that does not parse, or an absent one whose fetch fails, ends   *)
(* the tick after the position was refreshed.                               *)
TickSkipped ==
    /\ note # None
    /\ known' \in PositionsRead
    /\ note' = None
    /\ UNCHANGED <<chain, day, mode, baseline, fees, runs, database, marks>>

(* The decision is taken with RebalanceConfig::default(). *)
DefaultConfig == [outOfRange |-> TRUE, nearEdge |-> NearEdge, minNet |-> MinNetPnl]

(* The row of a decision, with the range the plan would move to. *)
ShadowRow(q) ==
    /\ earliest' = RowDated
    /\ planned' = [tick |-> q.tick,
                   range |-> build_rebalance_plan(q.tick, Lower, Upper, TickSpacing)]

(* The row of a decision the operator did not approve. *)
ApprovalSkipRow == earliest' = RowDated /\ UNCHANGED planned

(* The decision and what follows it; without one nothing is written, and a   *)
(* write that fails is only logged.                                          *)
Decide(q, net) ==
    \/ /\ ~should_rebalance(q.tick, Lower, Upper, net, DefaultConfig)
       /\ UNCHANGED <<earliest, planned, decided>>
    \/ /\ should_rebalance(q.tick, Lower, Upper, net, DefaultConfig)
       /\ decided' = IF decided = None THEN day ELSE decided
       /\ UNCHANGED <<earliest, planned>> \/ ApprovalSkipRow \/ ShadowRow(q)

(* The notification carries the account itself; an absent payload, or one    *)
(* that is not base64, is replaced by the pool of now, read by RPC.          *)
PoolRead(payload) == IF payload THEN note ELSE pool

(* The row is keyed by the notification's slot either way, and not written   *)
(* when the slot is missing.  Failed writes are only logged.                 *)
Tick ==
    /\ note # None
    /\ \E p \in PositionsRead, payload \in BOOLEAN :
        LET q == PoolRead(payload)
        IN  /\ known' = p
            /\ fees' = SessionFees(p, q)
            /\ due' = IF untouched THEN pos.owed + q.earned \div Word ELSE None
            /\ refetched' = (refetched \/ ~payload)
            /\ rows' \in {rows} \cup
                   {WithTick(KeyOf(note.slot, present), q.growth) : present \in BOOLEAN}
            /\ \/ UNCHANGED <<earliest, planned, decided>>    \* halted or paused
               \/ \E il \in Losses : Decide(q, fees' + il)
    /\ note' = None
    /\ UNCHANGED <<chain, day, mode, baseline, runs, untouched, withdrawn>>

Next ==
    \/ Swap \/ CollectFees \/ ChangeLiquidity \/ DayPasses
    \/ ReadPosition \/ ReadPool \/ Stop \/ Notify \/ TickSkipped \/ Tick

Spec == Init /\ [][Next]_vars

-----------------------------------------------------------------------------
(* Properties.                                                              *)

TypeOK ==
    /\ watched \in Watchable
    /\ pool \in [slot : Nat, growth : U128, tick : Int, earned : Nat]
    /\ pos \in [liq : U128, owed : Nat] /\ known \in [liq : U128, owed : Nat]
    /\ unmoved \in Nat
    /\ swaps \in 0..MaxSwaps /\ touches \in 0..MaxTouches
    /\ day \in 0..MaxDay /\ runs \in 0..MaxRuns
    /\ mode \in {"down", "starting", "shadow", "live"}
    /\ baseline \in U128
    /\ note = None \/ note \in [slot : Nat, growth : U128, tick : Int, earned : Nat]
    /\ fees = None \/ fees \in Nat
    /\ \A s \in DOMAIN rows : s \in Nat /\ rows[s] \in U128
    /\ earliest \in 0..MaxDay \cup {None} /\ decided \in 0..MaxDay \cup {None}
    /\ (due = None \/ due \in Nat) /\ {untouched, withdrawn, refetched} \subseteq BOOLEAN

(* "Exactly fees earned since watch session started" (main.rs:1171) is true  *)
(* of a position that nobody touched and that was in range whenever the pool *)
(* took fees: what a tick reports is what was owed at the start and what the *)
(* position earned up to the tick's pool state, to the last unit, across the *)
(* wrap of fee_growth_global and however late the position was refreshed.    *)
FeesExactWhileUntouched == due # None => fees = due

(* No drawdown out of thin air (main.rs:1188): within a session the reported *)
(* fees fall only after the owner took fees or liquidity out, or after a     *)
(* pool read by RPC had run ahead of the notifications, although position    *)
(* and pool are read at different moments and a read may fail.               *)
FeesFallOnlyOnWithdrawal ==
    [][fees # None /\ fees' # None /\ fees' < fees => withdrawn \/ refetched']_vars

(* What a replay relies on (writer.rs:34, main.rs:1218): read back by slot,  *)
(* the stored growth never goes backwards, over restarts, lost writes,       *)
(* notifications without a slot and several swaps in one, as long as no row  *)
(* took its pool from RPC.                                                   *)
StoredTicksOrdered ==
    ~refetched => \A s, t \in DOMAIN rows :
        s < t => (rows[t] - FirstGrowth) % (Word * Word) >= (rows[s] - FirstGrowth) % (Word * Word)

(* What the next start and a replay find in the database. *)
LedgerInv == TypeOK /\ StoredTicksOrdered

(* What --live is worth (writer.rs:286): a live session starts at least      *)
(* RequiredDays after a tick of an earlier session decided to rebalance.     *)
LiveAfterShadowDecision ==
    [][mode # "live" /\ mode' = "live" =>
           decided # None /\ day - decided >= RequiredDays]_vars

(* The planned range, exactly (rebalance.rs 28-44): it holds the tick it was *)
(* planned for, which lies less than a spacing above its middle and at most  *)
(* half a tick below; it starts on the grid, and ends there if the old width *)
(* is whole spacings; it has the old width, taken as one spacing if it is    *)
(* less, or, where that could end at or below the tick, two spacings; and    *)
(* it ends the trigger unless the old range is narrow.  The comment at 18-20 *)
(* promises more: PlannedRangeAsDocumented.                                  *)
PlannedRangeSound ==
    planned # None =>
        LET r == planned.range
            tick == planned.tick
            spacing == Wider(TickSpacing, 1)
            width == Wider(Upper - Lower, spacing)
        IN  /\ r.lower <= tick /\ tick < r.upper
            /\ 2 * tick - (r.lower + r.upper) \in -1..(2 * spacing - 2)
            /\ r.lower % spacing = 0
            /\ width % spacing = 0 => r.upper % spacing = 0
            /\ \/ r.upper - r.lower = width
               \/ width < 2 * spacing /\ r.upper - r.lower = 2 * spacing
            /\ Upper - Lower >= 2 * (NearEdge + spacing) =>
                   \A net \in {MinNetPnl - 1, MinNetPnl} :
                       ~should_rebalance(tick, r.lower, r.upper, net, DefaultConfig)

(* "The old range's width is preserved and re-centered on `current_tick`,    *)
(* with both bounds aligned to `tick_spacing`" (rebalance.rs 18-19).  Not so *)
(* for a range of one spacing: where the centred one would end at or below   *)
(* the tick, the plan is two spacings wide.                                  *)
PlannedRangeAsDocumented ==
    planned # None =>
        /\ planned.range.upper - planned.range.lower = Upper - Lower
        /\ planned.range.lower % TickSpacing = 0 /\ planned.range.upper % TickSpacing = 0
=============================================================================
