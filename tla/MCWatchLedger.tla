--------------------------- MODULE MCWatchLedger ---------------------------
(***************************************************************************)
(* A small instance of WatchLedger.                                        *)
(***************************************************************************)
EXTENDS WatchLedger

(* A wide position, and one of a single odd spacing, the narrowest there is. *)
MCWatchable == {[lower |-> 0, upper |-> 8, spacing |-> 2],
                [lower |-> 0, upper |-> 3, spacing |-> 3]}

(* Of the wide range: below it, and near its upper edge off the grid.  Of    *)
(* the narrow one: on the grid below it, and off the grid above it.          *)
MCTicks == {-3, 7}

(* The narrow position is watched for its plans: in one run of the process,  *)
(* without anybody touching it.                                              *)
NarrowIsBrief == TickSpacing = 3 => runs <= 1 /\ touches = 0

(* No loss, and one that no fees make up for. *)
MCLosses == {0, -99}
=============================================================================
