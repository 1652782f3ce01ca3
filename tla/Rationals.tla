------------------------------ MODULE Rationals ------------------------------
(***************************************************************************)
(* Exact fractions standing for the doubles of the control loop.  A        *)
(* fraction is a pair <<numerator, denominator>> in lowest terms with a    *)
(* positive denominator, so equal numbers are equal values.                *)
(***************************************************************************)
EXTENDS Integers

AbsInt(n) == IF n < 0 THEN -n ELSE n

\* Euclid's algorithm as a function, so that modules that use it can be
\* proved about.
GCD[p \in Nat \X Nat] == IF p[2] = 0 THEN p[1] ELSE GCD[<<p[2], p[1] % p[2]>>]

Frac(n, d) ==
    LET g    == GCD[<<AbsInt(n), AbsInt(d)>>]
        sign == IF d < 0 THEN -1 ELSE 1
    IN  <<sign * (n \div g), sign * (d \div g)>>

R(n) == <<n, 1>>

Zero == R(0)
One  == R(1)

RAdd(x, y) == Frac(x[1] * y[2] + y[1] * x[2], x[2] * y[2])
RNeg(x)    == <<-x[1], x[2]>>
RSub(x, y) == RAdd(x, RNeg(y))
RMul(x, y) == Frac(x[1] * y[1], x[2] * y[2])
RDiv(x, y) == Frac(x[1] * y[2], x[2] * y[1])
RAbs(x)    == <<AbsInt(x[1]), x[2]>>

a (+) b == RAdd(a, b)
a (-) b == RSub(a, b)
a (.) b == RMul(a, b)
a (/) b == RDiv(a, b)

RLeq(x, y) == x[1] * y[2] <= y[1] * x[2]
RLt(x, y)  == x[1] * y[2] <  y[1] * x[2]

\* The least element of a non-empty finite set of fractions.
RMin(S) == CHOOSE x \in S : \A y \in S : RLeq(x, y)

\* The fractions there are.
Rat == {x \in Int \X Int : x[2] > 0 /\ GCD[<<AbsInt(x[1]), x[2]>>] = 1}
=============================================================================
