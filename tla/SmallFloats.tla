------------------------------ MODULE SmallFloats -----------------------------
\* Binary floating point with a short significand: numbers are integers (in
\* whatever unit the user counts), rounded to Significand bits, ties to even.
EXTENDS Integers

CONSTANT Significand        \* 53 for a double

ASSUME SignificandAssumption == Significand \in Nat \ {0}

Pow2[k \in Nat] == IF k = 0 THEN 1 ELSE 2 * Pow2[k - 1]
Scale(n) == CHOOSE k \in 0 .. n : /\ n < Pow2[k + Significand]
                                  /\ \A j \in 0 .. k - 1 : n >= Pow2[j + Significand]
RoundUp(q, rest, unit) == 2 * rest > unit \/ (2 * rest = unit /\ q % 2 = 1)
RoundedNat(n) == LET unit == Pow2[Scale(n)]
                     q    == n \div unit
                 IN  unit * IF RoundUp(q, n % unit, unit) THEN q + 1 ELSE q
Rounded(n) == IF n >= 0 THEN RoundedNat(n) ELSE -RoundedNat(-n)
Floats(limit) == {n \in -limit .. limit : Rounded(n) = n}
=============================================================================
