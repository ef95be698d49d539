-------------------------- MODULE BacktestHistory --------------------------
(***************************************************************************)
(* The backfill, backtest and research commands together: candles fetched  *)
(* and stored by CandleHistory, replayed by Replay.  Every command is a    *)
(* process of its own and they share pool_ticks; a backtest reads it once  *)
(* and then works on what it read.                                         *)
(***************************************************************************)
EXTENDS Replay

CONSTANTS
    NearEdges,      \* values of --near-edge-ticks
    NEAR_EDGE_OFF   \* research.rs

ASSUME NearEdgeAssumption == NearEdges \subseteq Int /\ NEAR_EDGE_OFF \in Int

VARIABLE window    \* history: the window a backtest read, or None

vars == <<history, loop, window>>

Init == HistoryInit /\ ReplayInit /\ window = None

(* backtest --pool *)
Backtest ==
    /\ job.phase = "idle"    \* bound: a fetch does not disturb what was read
    /\ \E from, to \in Midnights, rebalance \in BOOLEAN, nearEdge \in NearEdges :
        /\ from < to
        /\ window' = [from |-> from, to |-> to]
        /\ StartReplay("stored", read_ticks(from, to),
                       [outOfRange |-> rebalance, nearEdge |-> nearEdge, minNet |-> 0])
    /\ UNCHANGED history

(* research: the rows are replayed from memory.  The range is around the     *)
(* first candle, here the one of the command line.                          *)
Research ==
    /\ job.phase = "fetched" /\ job.command = "research"
    /\ Cardinality(job.all) >= 3
    /\ \E rebalance \in BOOLEAN :
        StartReplay("fetched", InReadOrder(Synthesized(job.all)),
                    [outOfRange |-> rebalance, nearEdge |-> NEAR_EDGE_OFF, minNet |-> 0])
    /\ window' = [from |-> job.from, to |-> job.to]
    /\ job' = Idle
    /\ UNCHANGED <<clock, candles, db, backfills, firsts>>

(* backtest without --pool reads no table; bound: it is run on an empty one. *)
Simulate ==
    /\ job.phase = "idle" /\ DOMAIN db = {} /\ backfills = 0
    /\ \E rebalance \in BOOLEAN : StartSimulation(rebalance)
    /\ UNCHANGED <<history, window>>

(* Bound: one backtest or research cell, after which the outside is at rest. *)
Next ==
    \/ replay = "none" /\ FetchNext /\ UNCHANGED <<loop, window>>
    \/ Backtest \/ Research \/ Simulate
    \/ (ReplayRow \/ FlushLast \/ \E price \in Closes : SimulatedDay(price))
       /\ UNCHANGED <<history, window>>

Spec == Init /\ [][Next]_vars

-----------------------------------------------------------------------------
(* Properties.                                                              *)

(* Rows that come all from backfills with one first candle, and a replay of  *)
(* them: each is one such backfill would make, and there is one for every   *)
(* candle from the first to the last.                                       *)
OneBackfill ==
    /\ stream # <<>> /\ \A k \in DOMAIN stream : stream[k].slot >= FirstTime - 1
    /\ Cardinality(firsts) <= 1

StreamWhole ==
    OneBackfill =>
        \E first \in DOMAIN candles :
            /\ \A k \in DOMAIN stream :
                   BaselineRow(stream[k], first) \/ CandleRow(stream[k], first)
            /\ \A k \in DOMAIN stream, u \in DOMAIN candles :
                   stream[1].time <= u /\ u <= stream[k].time =>
                       \E j \in DOMAIN stream : stream[j].slot = u

(* While growth never falls and the pool has liquidity, fees are what it has *)
(* grown since the first row.                                               *)
Growing ==
    /\ \A k \in DOMAIN stream : stream[k].liquidity # 0
    /\ \A j, k \in DOMAIN stream : j <= k => stream[j].growth <= stream[k].growth

GrowthPaid ==
    /\ stream # <<>> /\ Growing =>
           fees = IF done = 0 THEN 0
                  ELSE PositionLiquidity * (stream[done].growth - stream[1].growth)
    /\ replay = "done" /\ stream # <<>> => done = Len(stream)

(* The inductive invariant: a fetch and what is stored of it have no hole,   *)
(* the loop's accumulators are what its rows were worth, and the rows it    *)
(* goes over are those of the backfills.                                    *)
HistoryInv == CandleInv /\ ReplayInv /\ StreamWhole /\ GrowthPaid

(* The first row of a window pays nothing, unless it is a baseline row. *)
Unpaid == IF stream[1].slot = stream[1].time THEN {stream[1].time} ELSE {}

(* "Yields exactly volume * fee_rate * (position_L / pool_L)"                *)
(* (backfill.rs:19), from the pages of the API to the total of the report:   *)
(* a replay pays each candle it went over once, the first one of a backfill  *)
(* included, and not the first row of a window that starts later.  Backfills *)
(* may repeat and overlap as long as they began at the same candle, and rows *)
(* of watch must not lie among theirs.                                      *)
ReplayPaysVolumeShare ==
    replay = "done" /\ OneBackfill =>
        LET times == {stream[k].time : k \in DOMAIN stream}
        IN  fees * PoolLiquidity = VolumeOf(times \ Unpaid) * Word * PositionLiquidity

(* The growth of all candles there are fits the accumulator of a u128. *)
VolumeFits == GrowthOf(VolumeOf(DOMAIN candles)) < Word * Word
=============================================================================
