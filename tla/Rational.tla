------------------------------ MODULE Rational ------------------------------
(***************************************************************************)
(* Exact rational numbers, for the fields the code keeps as double: a pair *)
(* of a numerator and a positive denominator in lowest terms, so that      *)
(* equal numbers are equal values.                                         *)
(***************************************************************************)
EXTENDS Integers

(* n / d, for a positive d: its denominator is the least number that makes *)
(* a whole number of the fraction.                                         *)
IsDenominator(q, n, d) == (n * q) % d = 0

Ratio(n, d) ==
  LET q == CHOOSE q \in 1..d :
             IsDenominator(q, n, d) /\ \A r \in 1..(q - 1) : ~IsDenominator(r, n, d)
  IN  << (n * q) \div d, q >>

Whole(n) == << n, 1 >>

Plus(a, b)  == Ratio(a[1] * b[2] + b[1] * a[2], a[2] * b[2])
Minus(a, b) == Ratio(a[1] * b[2] - b[1] * a[2], a[2] * b[2])
Times(a, b) == Ratio(a[1] * b[1], a[2] * b[2])
Square(a)   == Times(a, a)
=============================================================================
