------------------------------ MODULE MinorUnits ------------------------------
(***************************************************************************)
(* Integer arithmetic on amounts of money in minor units, as the optimizer *)
(* and the portfolio ranking do it.  The products are taken in big.Int, so *)
(* nothing overflows before the quotient.                                  *)
(***************************************************************************)
EXTENDS Integers

\* big.Int Quo: the quotient truncated toward zero.
Quo(a, b) == IF a >= 0 THEN a \div b ELSE -((-a) \div b)

MulDiv(a, b, divisor) == Quo(a * b, divisor)
=============================================================================
