------------------------------ MODULE Rounding ------------------------------
(***************************************************************************)
(* The two roundings of the deterministic engine, over non-negative        *)
(* fractions n / d: Decimal.quantize with ROUND_HALF_EVEN and with         *)
(* ROUND_CEILING.                                                          *)
(***************************************************************************)
EXTENDS Integers

FullBp == 10000   \* a whole, in basis points

CeilDiv(n, d) == (n + d - 1) \div d

RoundHalfEven(n, d) ==
  LET q == n \div d
      r == 2 * (n % d)
  IN IF r < d \/ (r = d /\ q % 2 = 0) THEN q ELSE q + 1

=============================================================================
