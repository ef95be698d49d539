------------------------- MODULE MCBacktestHistory -------------------------
(***************************************************************************)
(* A small instance of BacktestHistory.                                    *)
(***************************************************************************)
EXTENDS BacktestHistory

(* A stand-in for math::il::compute_il: 0 at the entry price, a loss that    *)
(* grows with the distance and with the narrowness of the range elsewhere.  *)
MCLoss(entry, price, lower, upper) ==
    IF upper <= lower THEN 0
    ELSE -((IF price > entry THEN price - entry ELSE entry - price) * (12 \div (upper - lower)))

MCNearEdges == {0}
MCNearEdgeOff == -1000
=============================================================================
