------------------------------- MODULE Int64 -------------------------------
(***************************************************************************)
(* Go's signed integers with W value bits, so that sums, products and      *)
(* shifts wrap where int64 would.                                          *)
(***************************************************************************)
EXTENDS Integers

CONSTANT W    \* 63 in the code

ASSUME Int64Assumption == W \in Nat \ {0}

MaxInt == 2^W - 1
MinInt == -(2^W)

Fits(n) == n \in MinInt..MaxInt

\* Two's complement wrap-around.
Wrap(n) == LET m == n % 2^(W + 1) IN IF m > MaxInt THEN m - 2^(W + 1) ELSE m

Min2(a, b) == IF a < b THEN a ELSE b
Max2(a, b) == IF a > b THEN a ELSE b
Abs(n) == IF n < 0 THEN -n ELSE n

\* Go's division truncates toward zero.
Quo(a, b) == IF (a < 0) = (b < 0) THEN Abs(a) \div Abs(b) ELSE -(Abs(a) \div Abs(b))
=============================================================================
