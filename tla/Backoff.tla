------------------------------ MODULE Backoff -------------------------------
(***************************************************************************)
(* What the reconnect loops of the Solana WebSocket (src/src/data/ws.rs)   *)
(* and of the CEX feeds (cex_ws.rs, coinbase_ws.rs) owe: a wait that       *)
(* doubles with every failure in a row, up to a maximum.                   *)
(***************************************************************************)
EXTENDS Integers

Doubled[n \in Nat] == IF n = 0 THEN 1 ELSE 2 * Doubled[n - 1]

(* The wait after the n-th failure in a row. *)
CappedWait(base, max, n) ==
    LET wait == base * Doubled[n - 1] IN IF wait < max THEN wait ELSE max
=============================================================================
