--------------------------- MODULE CandleHistory ---------------------------
(***************************************************************************)
(* How pool_ticks is filled with history: the pages of candles fetched     *)
(* backwards from GeckoTerminal (src/src/data/geckoterminal.rs), the rows  *)
(* made of them (src/src/backtest/backfill.rs), the transaction of the     *)
(* backfill command that stores them (src/src/storage/writer.rs), and the  *)
(* rows the watch command stored of the same pool.                         *)
(*                                                                         *)
(* Times are seconds of coarse grain: a candle's time is a multiple of     *)
(* Step, a UTC day has DayLength of them.  Slots of the chain are below    *)
(* FirstTime - 1, a candle's slot is its time.                             *)
(***************************************************************************)
EXTENDS FeeMath, FiniteSets, SequencesExt

CONSTANTS
    Step, DayLength, FirstTime, LastTime,
    Closes,           \* the prices a candle may close at
    Volumes,          \* the volumes it may have
    PageLimit,        \* MAX_LIMIT, candles in a page
    MaxPages,         \* MAX_PAGES
    MaxRetries,       \* MAX_RETRIES after HTTP 429
    PoolLiquidity,    \* --pool-liquidity
    WatchGrowths,     \* fee growths of the rows stored by watch
    MaxWatchRows, MaxBackfills,    \* bounds
    None

ASSUME CandleAssumption ==
    /\ Step \in Nat \ {0, 1} /\ DayLength \in Nat \ {0}
    /\ FirstTime \in Nat /\ LastTime \in Nat /\ FirstTime <= LastTime
    /\ FirstTime % Step = 0 /\ LastTime % Step = 0    \* candles lie on a grid
    /\ Closes \subseteq Int /\ Volumes \subseteq Nat
    /\ PageLimit \in Nat \ {0} /\ MaxPages \in Nat \ {0} /\ MaxRetries \in Nat
    /\ PoolLiquidity \in Nat \ {0}
    /\ WatchGrowths \subseteq U128
    /\ MaxWatchRows \in Nat /\ MaxBackfills \in Nat
    /\ MaxWatchRows < FirstTime - 1    \* slots of the chain lie below the times

VARIABLES
    clock,      \* the latest candle time that has passed
    candles,    \* the API's candles by time; a period without a trade has none
    job,        \* the fetch in progress
    db,         \* pool_ticks of the pool, by slot
    backfills,  \* backfills begun, up to MaxBackfills
    firsts      \* history: the first candle of every backfill stored

history == <<clock, candles, job, db, backfills, firsts>>

Day(time) == time \div DayLength

Midnights == {t \in FirstTime..LastTime + DayLength : t % DayLength = 0}

Idle == [phase |-> "idle", command |-> "backfill", from |-> 0, to |-> 0, cursor |-> 0,
         page |-> 0, retries |-> 0, all |-> {}]

HistoryInit ==
    /\ clock = FirstTime - Step
    /\ candles = [t \in {} |-> None]
    /\ job = Idle
    /\ db = [s \in {} |-> None]
    /\ backfills = 0 /\ firsts = {}

-----------------------------------------------------------------------------
(* The outside: time passes, the pool trades or not, watch stores a row.    *)

CandleCloses ==
    /\ clock < LastTime
    /\ clock' = clock + Step
    /\ \/ UNCHANGED candles
       \/ \E close \in Closes, volume \in Volumes :
              candles' = [t \in DOMAIN candles \cup {clock'} |->
                             IF t = clock' THEN [close |-> close, volume |-> volume]
                             ELSE candles[t]]
    /\ UNCHANGED <<job, db, backfills, firsts>>

WatchSlots == {s \in DOMAIN db : s < FirstTime - 1}

WatchStores ==
    /\ clock >= FirstTime
    /\ Cardinality(WatchSlots) < MaxWatchRows
    /\ \E close \in Closes, growth \in WatchGrowths, liquidity \in {0, PoolLiquidity} :
        LET slot == Cardinality(WatchSlots) + 1
        IN  db' = [s \in DOMAIN db \cup {slot} |->
                      IF s = slot
                      THEN [slot |-> slot, time |-> clock + 1, price |-> close,
                            liquidity |-> liquidity, growth |-> growth]
                      ELSE db[s]]
    /\ UNCHANGED <<clock, candles, job, backfills, firsts>>

-----------------------------------------------------------------------------
(* fetch_range                                                              *)

(* A fetch starts at the end of its window and goes backwards. *)
Fetching(command, from, to) ==
    /\ job.phase = "idle"
    /\ backfills < MaxBackfills /\ backfills' = backfills + 1
    /\ job' = [Idle EXCEPT !.phase = "fetching", !.command = command,
                           !.from = from, !.to = to, !.cursor = to]
    /\ UNCHANGED <<clock, candles, db, firsts>>

(* backfill refuses an empty window and a pool without liquidity. *)
StartBackfill(from, to) == from < to /\ PoolLiquidity > 0 /\ Fetching("backfill", from, to)

(* research refuses an empty window and skips a pool without liquidity. *)
StartResearch(from, to) == from < to /\ PoolLiquidity > 0 /\ Fetching("research", from, to)

(* The API: the newest candles before the cursor, PageLimit at most.  It is  *)
(* not said whether one at the cursor itself is among them.                 *)
Page(cursor, inclusive, size) ==
    LET older == {t \in DOMAIN candles : t < cursor \/ (inclusive /\ t = cursor)}
    IN  {t \in older : Cardinality({u \in older : u > t}) < size}

(* HTTP 429 is retried after 2, 4 and 8 seconds; the fourth one, any other   *)
(* status, a failed request and a body that does not parse fail the fetch.   *)
RateLimited ==
    /\ job.phase = "fetching" /\ job.retries < MaxRetries
    /\ job' = [job EXCEPT !.retries = @ + 1]
    /\ UNCHANGED <<clock, candles, db, backfills, firsts>>

(* backfill ends with the error, research skips the pool. *)
FetchFails ==
    /\ job.phase = "fetching"
    /\ job' = Idle
    /\ UNCHANGED <<clock, candles, db, backfills, firsts>>

\* A mutant of CursorBefore: one candle is skipped between two pages.
CursorBeforeSkipping(oldest) == oldest - Step

CursorBefore(oldest) == oldest - 1

(* What is kept of the pages: [from, to); sorted and without duplicates. *)
Kept(all) == {t \in all : job.from <= t /\ t < job.to}

PageArrives ==
    /\ job.phase = "fetching"
    /\ \E inclusive \in BOOLEAN, size \in 1..PageLimit :
        LET batch == Page(job.cursor, inclusive, size)
            all == job.all \cup batch
            over == \/ batch = {}
                    \/ Min(batch) <= job.from
                    \/ job.page = MaxPages - 1
        IN  job' = IF over
                   THEN [job EXCEPT !.phase = "fetched", !.all = Kept(all),
                                    !.page = @ + 1, !.retries = 0, !.cursor = 0]
                   ELSE [job EXCEPT !.all = all, !.page = @ + 1, !.retries = 0,
                                    !.cursor = CursorBefore(Min(batch))]
    /\ UNCHANGED <<clock, candles, db, backfills, firsts>>

-----------------------------------------------------------------------------
(* synthesize_ticks and the end of the backfill command                     *)

VolumeOf(times) ==
    LET traded == [t \in DOMAIN candles |-> candles[t].volume]
    IN  MapThenSumSet(LAMBDA t : traded[t], times)

(* The fee growth a volume makes: the fee rate is 1, and both the decimals   *)
(* and the rounding of the f64 are left out.                                *)
GrowthOf(volume) == volume * (Word \div PoolLiquidity)

\* A mutant of GrowthAt: each row carries its own candle's growth only.
GrowthAtOwn(all, t) == GrowthOf(candles[t].volume)

(* The accumulator, from 0 at the first candle of every fetch, saturating.  *)
GrowthAt(all, t) ==
    LET sum == GrowthOf(VolumeOf({u \in all : u <= t}))
    IN  IF sum >= Word * Word THEN Word * Word - 1 ELSE sum

(* A row for each candle, and before them a baseline row without growth at   *)
(* the first candle's time and price.                                       *)
Synthesized(all) ==
    LET first == Min(all)
        Row(slot, t, growth) == [slot |-> slot, time |-> t, price |-> candles[t].close,
                                 liquidity |-> PoolLiquidity, growth |-> growth]
    IN  {Row(first - 1, first, 0)} \cup {Row(t, t, GrowthAt(all, t)) : t \in all}

(* INSERT ... ON CONFLICT DO NOTHING for each row, in one transaction. *)
Inserted(rows) ==
    [s \in DOMAIN db \cup {r.slot : r \in rows} |->
        IF s \in DOMAIN db THEN db[s] ELSE CHOOSE r \in rows : r.slot = s]

(* No candles, --dry-run, a missing database and a failed transaction all    *)
(* leave the table alone.                                                   *)
BackfillEnds ==
    /\ job.phase = "fetched" /\ job.command = "backfill"
    /\ \/ UNCHANGED <<db, firsts>>
       \/ /\ job.all # {}
          /\ db' = Inserted(Synthesized(job.all))
          /\ firsts' = firsts \cup {Min(job.all)}
    /\ job' = Idle
    /\ UNCHANGED <<clock, candles, backfills>>

(* research: fewer than three candles skip the pool. *)
ResearchSkips ==
    /\ job.phase = "fetched" /\ job.command = "research"
    /\ Cardinality(job.all) < 3
    /\ job' = Idle
    /\ UNCHANGED <<clock, candles, db, backfills, firsts>>

FetchNext ==
    \/ CandleCloses \/ WatchStores
    \/ \E from, to \in Midnights : StartBackfill(from, to) \/ StartResearch(from, to)
    \/ RateLimited \/ FetchFails \/ PageArrives
    \/ BackfillEnds \/ ResearchSkips

-----------------------------------------------------------------------------
(* read_ticks: [from, to), by time and then by slot. *)
Before(r, s) == r.time < s.time \/ (r.time = s.time /\ r.slot < s.slot)

InReadOrder(rows) ==
    [k \in 1..Cardinality(rows) |->
        CHOOSE r \in rows : Cardinality({s \in rows : Before(s, r)}) = k - 1]

read_ticks(from, to) ==
    InReadOrder({db[s] : s \in {x \in DOMAIN db : from <= db[x].time /\ db[x].time < to}})

-----------------------------------------------------------------------------
(* Properties of the fetch.                                                 *)

(* A row of pool_ticks. *)
TickRow == [slot : Nat, time : Nat, price : Closes, liquidity : {0, PoolLiquidity},
            growth : U128]

Job == [phase : {"idle", "fetching", "fetched"}, command : {"backfill", "research"},
        from : Int, to : Int, cursor : Int, page : 0..MaxPages, retries : 0..MaxRetries,
        all : SUBSET Int]

CandleTypeOK ==
    /\ clock \in FirstTime - Step..LastTime /\ clock % Step = 0
    /\ \A t \in DOMAIN candles :
           /\ t \in FirstTime..clock /\ t % Step = 0
           /\ candles[t] \in [close : Closes, volume : Volumes]
    /\ job \in Job /\ job.all \subseteq DOMAIN candles
    /\ backfills \in 0..MaxBackfills
    /\ firsts \subseteq DOMAIN candles
    /\ IsFiniteSet(DOMAIN db)
    /\ \A s \in DOMAIN db : db[s] \in TickRow /\ db[s].slot = s

(* Pages are fetched backwards while new candles appear: what a fetch ends   *)
(* with has no hole, and it starts at the window's start unless MAX_PAGES    *)
(* cut it off (geckoterminal.rs:119).                                       *)
WindowWhole ==
    job.phase = "fetched" =>
        LET window == {t \in DOMAIN candles : job.from <= t /\ t < job.to}
        IN  job.all # {} =>
                /\ job.all = {t \in window : Min(job.all) <= t /\ t <= Max(job.all)}
                /\ job.page < MaxPages => Min(job.all) = Min(window)

(* Behind it: no page leaves a hole, and the next one begins right before.  *)
NoHole(times) ==
    \A t \in DOMAIN candles, u, v \in times : u <= t /\ t <= v => t \in times

PagesMeet ==
    /\ NoHole(job.all)
    /\ job.phase = "fetching" =>
           /\ job.page < MaxPages
           /\ job.all # {} => job.cursor = Min(job.all) - 1

(* A row that a backfill stored: the baseline row at its first candle, or a  *)
(* candle with the growth of all since the first, all of them stored too.   *)
BaselineRow(row, first) ==
    /\ row.slot = first - 1 /\ row.time = first /\ row.growth = 0
    /\ row.liquidity = PoolLiquidity

CandleRow(row, first) ==
    /\ row.slot \in DOMAIN candles /\ first <= row.slot /\ row.time = row.slot
    /\ row.growth = GrowthAt({u \in DOMAIN candles : first <= u}, row.slot)
    /\ row.liquidity = PoolLiquidity

StoredWhole ==
    \A s \in DOMAIN db : s >= FirstTime - 1 =>
        \E first \in firsts :
            /\ BaselineRow(db[s], first) \/ CandleRow(db[s], first)
            /\ \A u \in DOMAIN candles : first <= u /\ u <= db[s].time => u \in DOMAIN db

(* The inductive invariant of the stored history. *)
CandleInv == CandleTypeOK /\ WindowWhole /\ PagesMeet /\ StoredWhole
=============================================================================
