----------------------------- MODULE RangePlan -----------------------------
(***************************************************************************)
(* When to rebalance and where to: should_rebalance of                     *)
(* src/src/strategy/signal.rs, and build_rebalance_plan of                 *)
(* src/src/execution/rebalance.rs.  Ticks are far from the bounds of an    *)
(* i32, so nothing saturates.                                              *)
(***************************************************************************)
EXTENDS Integers

(* rebalance_out_of_range, near_edge_ticks, min_net_pnl_usd *)
RebalanceConfig == [outOfRange : BOOLEAN, nearEdge : Int, minNet : Int]

Wider(a, b) == IF a >= b THEN a ELSE b

(* Both bounds belong to the range. *)
InRange(tick, lower, upper) == lower <= tick /\ tick <= upper

NearAnEdge(tick, lower, upper, ticks) == tick - lower <= ticks \/ upper - tick <= ticks

(* Out of range, when it counts, beats the P&L threshold; near an edge does  *)
(* not, and a tick beyond an edge is near it.                                *)
should_rebalance(tick, lower, upper, net, config) ==
    \/ config.outOfRange /\ ~InRange(tick, lower, upper)
    \/ net >= config.minNet /\ NearAnEdge(tick, lower, upper, config.nearEdge)

(* Floor to a multiple of the spacing, for negative ticks too. *)
Align(tick, spacing) == tick - (tick % spacing)

CentredLower(tick, width, spacing) == Align(tick - (width \div 2), spacing)

\* A mutant of build_rebalance_plan: a range that ends at the tick is kept.
PlanEndingAtTick(tick, lower, upper, tickSpacing) ==
    LET spacing == Wider(tickSpacing, 1)
        width == Wider(upper - lower, spacing)
        newLower == CentredLower(tick, width, spacing)
        newUpper == newLower + width
    IN  [lower |-> IF newLower > tick THEN Align(tick, spacing) ELSE newLower,
         upper |-> IF newUpper < tick THEN Align(tick, spacing) + spacing ELSE newUpper]

(* The upper bound is mended where the range would end at or below the tick; *)
(* the lower one never has to be, since nothing saturates.                   *)
build_rebalance_plan(tick, lower, upper, tickSpacing) ==
    LET spacing == Wider(tickSpacing, 1)
        width == Wider(upper - lower, spacing)
        newLower == CentredLower(tick, width, spacing)
        newUpper == newLower + width
    IN  [lower |-> IF newLower > tick THEN Align(tick, spacing) ELSE newLower,
         upper |-> IF newUpper <= tick THEN Align(tick, spacing) + spacing ELSE newUpper]
=============================================================================
