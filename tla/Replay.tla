------------------------------- MODULE Replay -------------------------------
(***************************************************************************)
(* The two loops behind the backtest command: run_db_backtest of           *)
(* src/src/backtest/db_replay.rs over rows read back from pool_ticks, one  *)
(* row a step, and run of src/src/backtest/mod.rs over a random price      *)
(* path, one day a step.  Both keep fees, the impermanent loss locked in   *)
(* by rebalances and the loss of the open range, and write a row a day.    *)
(*                                                                         *)
(* Prices are numbered so that the tick of a price is the price itself,    *)
(* floored to the grid; a factor on a price is then an offset.  Fees are   *)
(* counted in units of one Word-th, where the f64 of the code is exact.    *)
(***************************************************************************)
EXTENDS CandleHistory, RangePlan

CONSTANTS
    Spacing,
    EntryPrice, PriceLower, PriceUpper,    \* of the command line
    FactorLower, FactorUpper,    \* range_factor_*, as offsets
    PositionLiquidity,
    DailyFees,         \* fees of a simulated day in range
    SimulatedDays,     \* --days
    compute_il(_, _, _, _)    \* impermanent loss in USD: entry, price, range

CommandRange == [entry |-> EntryPrice, lower |-> PriceLower, upper |-> PriceUpper]

RangeAround(price, below, above) ==
    [entry |-> price, lower |-> price - below, upper |-> price + above]

HalfWidth == (PriceUpper - PriceLower) \div 2

(* The ranges a position can come to have: a simulation keeps the width of   *)
(* the command line's, a replay moves by the factors.                       *)
SimulatedRanges == {CommandRange} \cup {RangeAround(c, HalfWidth, HalfWidth) : c \in Closes}
Ranges == SimulatedRanges \cup {RangeAround(c, FactorLower, FactorUpper) : c \in Closes}

ASSUME ReplayAssumption ==
    /\ Spacing \in Nat \ {0}
    /\ {EntryPrice, PriceLower, PriceUpper} \subseteq Int /\ PriceLower < PriceUpper
    /\ {FactorLower, FactorUpper} \subseteq Nat
    /\ PositionLiquidity \in Nat /\ DailyFees \in Nat /\ SimulatedDays \in Nat \ {0}
    /\ compute_il(EntryPrice, EntryPrice, PriceLower, PriceUpper) = 0
    /\ \A r \in Ranges, price \in Closes : compute_il(r.entry, price, r.lower, r.upper) \in Int

VARIABLES
    replay,    \* "none", "stored", "fetched" (research), "simulated" or "done"
    stream,    \* the rows replayed, in their order
    config,    \* the RebalanceConfig
    done,      \* rows or days gone through
    range,     \* cur_entry_price, cur_price_lower, cur_price_upper
    fees,      \* cumulative_fees
    realized,      \* realized_il_usd
    unrealized,    \* last_unrealized_il_usd
    today,         \* the day being accumulated: was it in range, its last price
    days,          \* day_results
    rebalances,    \* total_rebalances
    trace          \* history: what each row or day was worth on its own

loop == <<replay, stream, config, done, range, fees, realized, unrealized, today, days,
          rebalances, trace>>

ReplayInit ==
    /\ replay = "none" /\ stream = <<>>
    /\ config = [outOfRange |-> FALSE, nearEdge |-> 0, minNet |-> 0]
    /\ done = 0 /\ range = CommandRange
    /\ fees = 0 /\ realized = 0 /\ unrealized = 0
    /\ today = [inRange |-> FALSE, price |-> EntryPrice]
    /\ days = <<>> /\ rebalances = 0 /\ trace = <<>>

price_to_tick(price) == Align(price, Spacing)

Loss(price) == compute_il(range.entry, price, range.lower, range.upper)

Signal(price, net) ==
    should_rebalance(price_to_tick(price), price_to_tick(range.lower),
                     price_to_tick(range.upper), net, config)

DayRow(price, inRange, feesToDate, il) ==
    [price |-> price, inRange |-> inRange, fees |-> feesToDate, il |-> il,
     net |-> feesToDate + il]

-----------------------------------------------------------------------------
(* run_db_backtest                                                          *)

(* An empty stream is an error. *)
StartReplay(kind, rows, cfg) ==
    /\ replay = "none" /\ rows # <<>>
    /\ replay' = kind /\ stream' = rows /\ config' = cfg
    /\ UNCHANGED <<done, range, fees, realized, unrealized, today, days, rebalances, trace>>

DayOf(row) == Day(row.time)

\* A mutant of Gain: the first row pays from zero.
GainFromZero(k) ==
    IF stream[k].liquidity = 0 THEN 0
    ELSE PositionLiquidity
             * WrappingSub(stream[k].growth, IF k = 1 THEN 0 ELSE stream[k - 1].growth)

(* The first row has nothing before it; a pool without liquidity pays none,  *)
(* and what grew meanwhile is not paid later either.                        *)
Gain(k) ==
    IF k = 1 \/ stream[k].liquidity = 0 THEN 0
    ELSE PositionLiquidity * WrappingSub(stream[k].growth, stream[k - 1].growth)

\* A mutant of FlushedIl: what rebalances locked in is dropped.
FlushedIlOpenOnly == unrealized

FlushedIl == realized + unrealized

(* The completed day, from its own last row. *)
Flushed == Append(days, DayRow(today.price, today.inRange, fees, FlushedIl))

ReplayRow ==
    /\ replay \in {"stored", "fetched"} /\ done < Len(stream)
    /\ LET k == done + 1
           row == stream[k]
           newDay == k > 1 /\ DayOf(row) # DayOf(stream[k - 1])
           inRange == InRange(price_to_tick(row.price), price_to_tick(range.lower),
                              price_to_tick(range.upper))
           il == Loss(row.price)
           moves == Signal(row.price, fees + Gain(k) + realized + il)
       IN  /\ days' = IF newDay THEN Flushed ELSE days
           /\ today' = [inRange |-> inRange \/ (~newDay /\ today.inRange),
                        price |-> row.price]
           /\ fees' = fees + Gain(k)
           /\ realized' = IF moves THEN realized + il ELSE realized
           /\ unrealized' = IF moves THEN 0 ELSE il
           /\ rebalances' = IF moves THEN rebalances + 1 ELSE rebalances
           /\ range' = IF moves THEN RangeAround(row.price, FactorLower, FactorUpper)
                       ELSE range
           /\ done' = k
           /\ trace' = Append(trace, [day |-> DayOf(row), price |-> row.price,
                                      inRange |-> inRange, paid |-> Gain(k),
                                      il |-> il, moved |-> moves])
    /\ UNCHANGED <<replay, stream, config>>

(* The last day is flushed and the totals are taken from the accumulators. *)
FlushLast ==
    /\ replay \in {"stored", "fetched"} /\ done = Len(stream)
    /\ days' = Flushed
    /\ replay' = "done"
    /\ UNCHANGED <<stream, config, done, range, fees, realized, unrealized, today,
                   rebalances, trace>>

-----------------------------------------------------------------------------
(* run: the rebalance signal is asked only under --rebalance, and the width  *)
(* of the range is kept.  In range goes by prices, the signal by ticks.      *)

StartSimulation(rebalance) ==
    /\ replay = "none"
    /\ replay' = "simulated"
    /\ config' = [outOfRange |-> rebalance, nearEdge |-> 0, minNet |-> 0]
    /\ UNCHANGED <<stream, done, range, fees, realized, unrealized, today, days, rebalances,
                   trace>>

SimulatedDay(price) ==
    /\ replay = "simulated" /\ done < SimulatedDays
    /\ LET inRange == range.lower <= price /\ price <= range.upper
           paid == IF inRange THEN DailyFees ELSE 0
           il == Loss(price)
           moves == config.outOfRange /\ Signal(price, fees + paid + realized + il)
           half == (range.upper - range.lower) \div 2
       IN  /\ days' = Append(days, DayRow(price, inRange, fees + paid, realized + il))
           /\ fees' = fees + paid
           /\ realized' = IF moves THEN realized + il ELSE realized
           /\ unrealized' = IF moves THEN 0 ELSE il
           /\ rebalances' = IF moves THEN rebalances + 1 ELSE rebalances
           /\ range' = IF moves THEN RangeAround(price, half, half) ELSE range
           /\ done' = done + 1
           /\ trace' = Append(trace, [day |-> done', price |-> price,
                                      inRange |-> inRange, paid |-> paid,
                                      il |-> il, moved |-> moves])
           /\ replay' = IF done' = SimulatedDays THEN "done" ELSE replay
    /\ UNCHANGED <<stream, config, today>>

-----------------------------------------------------------------------------
(* Properties.                                                              *)

DayRows == [price : Int, inRange : BOOLEAN, fees : Nat, il : Int, net : Int]

TraceEntry ==
    [day : Int, price : Int, inRange : BOOLEAN, paid : Nat, il : Int, moved : BOOLEAN]

ReplayTypeOK ==
    /\ replay \in {"none", "stored", "fetched", "simulated", "done"}
    /\ stream \in Seq(TickRow)
    /\ config \in RebalanceConfig
    /\ done = Len(trace) /\ done <= (IF stream = <<>> THEN SimulatedDays ELSE Len(stream))
    /\ range \in Ranges
    /\ fees \in Nat /\ realized \in Int /\ unrealized \in Int
    /\ today \in [inRange : BOOLEAN, price : Int]
    /\ days \in Seq(DayRows) /\ trace \in Seq(TraceEntry)
    /\ rebalances \in Nat
    /\ replay = "none" => stream = <<>> /\ trace = <<>>
    /\ replay \in {"none", "simulated"} => range \in SimulatedRanges
    /\ replay \in {"stored", "fetched"} => stream # <<>>
    /\ replay = "simulated" => stream = <<>> /\ done < SimulatedDays
    /\ replay = "done" => trace # <<>>

TraceDays == {trace[k].day : k \in DOMAIN trace}

(* The days that have their row: all, or in a replay all but the current.   *)
FlushedDays ==
    IF replay = "done" \/ replay = "simulated" \/ trace = <<>>
    THEN TraceDays ELSE TraceDays \ {trace[Len(trace)].day}

LastOf(day) == Max({k \in DOMAIN trace : trace[k].day = day})

(* What the run was worth after k rows or days, whatever was flushed when:   *)
(* all fees paid, the loss of every range that was left, and the loss of the *)
(* one that is open (left at k, its loss is just that).                      *)
MovedUpto(k) == {j \in 1..k : trace[j].moved}
FeesAfter(k) ==
    LET paid == [j \in DOMAIN trace |-> trace[j].paid]
    IN  MapThenSumSet(LAMBDA j : paid[j], 1..k)
LossOf(moves) ==
    LET loss == [j \in DOMAIN trace |-> trace[j].il]
    IN  MapThenSumSet(LAMBDA j : loss[j], moves)
LossAfter(k) == trace[k].il + LossOf(MovedUpto(k - 1))

(* The row of a day has its last price, is what the run was worth after the  *)
(* day's last row, and in range if any of them was.                         *)
DayRowRight(row, day) ==
    /\ row.price = trace[LastOf(day)].price
    /\ row.fees = FeesAfter(LastOf(day))
    /\ row.il = LossAfter(LastOf(day))
    /\ row.inRange <=> \E k \in DOMAIN trace : trace[k].day = day /\ trace[k].inRange

(* "The day-boundary flush must attribute the COMPLETED day's last price/IL  *)
(* to it" (db_replay.rs:113), and totals survive rebalances (mod.rs:219):    *)
(* there is a row for every day that has rows and for no other, in the order *)
(* of the days, each is right, and the last row is the total.               *)
DayRowsToDate ==
    LET DayBefore(n) ==
            CHOOSE d \in FlushedDays : Cardinality({e \in FlushedDays : e < d}) = n - 1
    IN  /\ Len(days) = Cardinality(FlushedDays)
        /\ \A n \in DOMAIN days : DayRowRight(days[n], DayBefore(n))
        /\ replay = "done" =>
               LET total == days[Len(days)]
               IN  /\ total.fees = fees /\ total.net = fees + realized + unrealized
                   /\ rebalances = Cardinality({k \in DOMAIN trace : trace[k].moved})

(* Behind it: rows and days are in order, the accumulators are what the run  *)
(* is worth, and each flushed day has its row at its place.                 *)
StreamInOrder ==
    /\ \A j, k \in DOMAIN stream : j < k => Before(stream[j], stream[k])
    /\ stream # <<>> => \A k \in DOMAIN trace : trace[k].day = DayOf(stream[k])
    /\ stream = <<>> => \A k \in DOMAIN trace : trace[k].day = k

WorthToDate ==
    /\ fees = FeesAfter(done)
    /\ realized = LossOf(MovedUpto(done))
    /\ rebalances = Cardinality(MovedUpto(done))
    /\ trace # <<>> => realized + unrealized = LossAfter(done)
    /\ trace # <<>> /\ stream # <<>> => today.price = trace[done].price
    /\ today.inRange <=> /\ stream # <<>>
                         /\ \E k \in DOMAIN trace :
                               trace[k].day = trace[done].day /\ trace[k].inRange

RowsInPlace ==
    /\ Len(days) = Cardinality(FlushedDays)
    /\ \A d \in FlushedDays :
           LET n == Cardinality({e \in FlushedDays : e < d}) + 1
           IN  /\ n \in DOMAIN days /\ DayRowRight(days[n], d)
               /\ days[n].net = days[n].fees + days[n].il

ReplayInv == ReplayTypeOK /\ StreamInOrder /\ WorthToDate /\ RowsInPlace
=============================================================================
