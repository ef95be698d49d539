------------------------------ MODULE FeeMath ------------------------------
(***************************************************************************)
(* src/src/math/fees.rs: the uncollected fees of a position, from two      *)
(* readings of the pool's cumulative fee growth.  A u64 is a number below  *)
(* Word and a u128 a number below Word * Word; growth is a fixed-point     *)
(* number with Word as its denominator (Q64.64).                           *)
(***************************************************************************)
EXTENDS Integers

CONSTANT Word    \* 2^64

ASSUME WordAssumption == Word \in Nat \ {0}

U64 == 0..Word - 1
U128 == 0..Word * Word - 1

High(x) == x \div Word
Low(x) == x % Word

(* u128::wrapping_sub *)
WrappingSub(a, b) == (a - b) % (Word * Word)

\* A mutant of AccruedMiddle: the high half of the liquidity is forgotten.
AccruedMiddleLowLiquidity(delta, liquidity) ==
    High(delta) * Low(liquidity) + (Low(delta) * Low(liquidity)) \div Word

(* The product of two u128 shifted right by 64 bits, without the term of the *)
(* two high halves; the sum wraps as a u128.                                 *)
AccruedMiddle(delta, liquidity) ==
    (High(delta) * Low(liquidity) + Low(delta) * High(liquidity)
        + (Low(delta) * Low(liquidity)) \div Word) % (Word * Word)

compute_accrued_fees(global, checkpoint, liquidity) ==
    AccruedMiddle(WrappingSub(global, checkpoint), liquidity) % Word
=============================================================================
