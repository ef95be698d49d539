--------------------------- MODULE MCRiskSession ---------------------------
(* A small instance of StatusView: P&L that rises past MinPeakUsd, falls by *)
(* exactly and by more than the limit, goes negative; IL at and past its    *)
(* limit, with and without position value; Drift accounts of both margins   *)
(* and accounts that are none.                                              *)
EXTENDS StatusView

(* The operator, a stranger in the chat, one without identity, another chat. *)
MCMessages ==
    {[chat |-> OperatorChat, from |-> "stranger"], [chat |-> OperatorChat, from |-> NoSender]}
    \cup [chat: {OperatorChat, "other"}, from: AllowedUsers]

MCSnap(net, il, value) == [net_pnl |-> net, il_usd |-> il, position_value |-> value]

MCSnapshots ==
    {MCSnap(1, 0, 100), MCSnap(10, -5, 100), MCSnap(8, -11, 100),
     MCSnap(7, -10, 100), MCSnap(-3, -20, 0)}

(* Eight positions of which the first two are open. *)
MCPerps(base1, quote1, base2, quote2) ==
    [i \in 1..MaxPerpPositions |->
        CASE i = 1 -> [base |-> base1, quote |-> quote1]
          [] i = 2 -> [base |-> base2, quote |-> quote2]
          [] OTHER -> [base |-> 0, quote |-> 0]]

MCAccount(owner, bytes, perps) == [owner |-> owner, bytes |-> bytes, perps |-> perps]

MCLow == MCAccount("drift", 5496, MCPerps(2, -5, 0, 0))      \* 5 < 2 * 3
MCHigh == MCAccount("drift", 5496, MCPerps(1, -6, -1, 6))    \* 12 >= 2 * 3
MCFull == MCAccount("drift", 5496, MCPerps(20, -20, 20, -20))  \* both totals saturate

(* An early answer and late ones, none, a foreign owner, one byte too few. *)
MCAnswers ==
    {<<MCHigh, MCLow, MCLow>>, <<RpcError, RpcError, MCLow>>,
     <<RpcError, MCFull, RpcError>>, <<RpcError, RpcError, RpcError>>,
     <<MCAccount("other", 5496, MCLow.perps), MCLow, MCLow>>,
     <<MCAccount("drift", 5495, MCLow.perps), MCLow, MCLow>>}
=============================================================================
