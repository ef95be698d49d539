---------------------------- MODULE MCWatchLoop ----------------------------
(* A small instance of WatchLoop: P&L snapshots that raise the peak, fall   *)
(* past the drawdown limit, and exceed the IL limit without a drawdown.     *)
EXTENDS WatchLoop

MCSnapshots ==
    {[net_pnl |-> 10, il_usd |-> 0, position_value |-> 100],
     [net_pnl |-> 5, il_usd |-> 0, position_value |-> 100],
     [net_pnl |-> 10, il_usd |-> -20, position_value |-> 100]}

(* No row, and the rows an earlier session may have left. *)
MCInitialRows ==
    {NoRow, [DefaultState EXCEPT !.pause_flag = TRUE],
     [DefaultState EXCEPT !.halt_flag = TRUE]}

(* The months of shadow mode without the bot, and live mode with and without *)
(* it; a shadow session with the bot differs only in what Submit records.   *)
MCModes ==
    {[live |-> FALSE, telegram |-> FALSE], [live |-> TRUE, telegram |-> FALSE],
     [live |-> TRUE, telegram |-> TRUE]}

MCRatios == {NoRatio}
=============================================================================
