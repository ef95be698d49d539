---------------------------- MODULE DriftMargin ----------------------------
(***************************************************************************)
(* Where the margin ratio that evaluate judges comes from: which Drift     *)
(* User account is read, the three attempts to read it, and what the bytes *)
(* of its perpetual positions amount to (risk_monitor.rs 284-423).         *)
(*                                                                         *)
(* An account is its owner, its length in bytes and the two i64 of each    *)
(* position at the known offsets.  i64 is scaled to MaxI64.  The ratio is  *)
(* an f64 compared with a whole threshold, so its floor decides as it does.*)
(***************************************************************************)
EXTENDS RiskMonitor, SequencesExt

CONSTANTS
    MaxI64,       \* i64::MAX
    RpcError,     \* an attempt without an answer: refused, timed out, no account
    NoDriftUser   \* drift_user_pubkey is None

ASSUME DriftMarginAssumption ==
    /\ MaxI64 \in Nat \ {0}
    /\ NoDriftUser # RpcError

MarginFetchAttempts == 3
MaxPerpPositions == 8
PerpPositionSize == 136
PerpArrayOffset == 4400
Discriminator == 8

(* i64::MIN has no absolute value in an i64 and is no amount of a market. *)
PerpPosition == [base: -MaxI64..MaxI64, quote: -MaxI64..MaxI64]

DriftAccount ==
    [owner: {"drift", "other"}, bytes: Nat, perps: [1..MaxPerpPositions -> PerpPosition]]

(* --drift-authority without a threshold is refused at start; a threshold  *)
(* without an authority leaves no account to read.                         *)
AcceptedFlags(authorityGiven) == authorityGiven => DriftMinMarginRatio # NoLimit

-----------------------------------------------------------------------------
(* fetch_drift_margin_ratio_for. *)

(* The account is too short for eight positions after its header. *)
LayoutMissing(account) ==
    \/ account.bytes <= Discriminator
    \/ account.bytes - Discriminator < PerpArrayOffset + MaxPerpPositions * PerpPositionSize

SaturatingAdd(a, b) == IF a + b > MaxI64 THEN MaxI64 ELSE a + b

\* A mutant of TotalAbs: long and short positions cancel before the absolute
\* value is taken, as the formula in the comment of the function has it.
TotalAbsNetted(amounts) == Magnitude(FoldLeft(LAMBDA a, b : a + b, 0, amounts))

TotalAbs(amounts) ==
    FoldLeft(LAMBDA total, x : SaturatingAdd(total, Magnitude(x)), 0, amounts)

ProxyRatio(perps) ==
    TotalAbs([i \in 1..MaxPerpPositions |-> perps[i].quote])
    \div (TotalAbs([i \in 1..MaxPerpPositions |-> perps[i].base]) + 1)

RatioOfAccount(account) ==
    IF account.owner # "drift" \/ LayoutMissing(account)
    THEN NoRatio
    ELSE ProxyRatio(account.perps)

(* The answers of the attempts, in order; the first account ends the loop. *)
Fetches(answers) == {i \in 1..MarginFetchAttempts : answers[i] # RpcError}

FetchDriftMarginRatioFor(answers) ==
    IF Fetches(answers) = {}
    THEN NoRatio
    ELSE RatioOfAccount(answers[Min(Fetches(answers))])

(* The tick asks only when a Drift User account was resolved at start. *)
DriftMargin(answers) ==
    IF answers = NoDriftUser THEN NoRatio ELSE FetchDriftMarginRatioFor(answers)

=============================================================================
