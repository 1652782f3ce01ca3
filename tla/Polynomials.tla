----------------------------- MODULE Polynomials -----------------------------
(***************************************************************************)
(* Polynomials with exact coefficients, the mathematics the numeric code   *)
(* is held against.  A polynomial of degree n is a function on 0 .. n with *)
(* the leading coefficient first, the layout of the arrays of              *)
(* polynomial_root_finder.                                                 *)
(***************************************************************************)
EXTENDS Rationals, Sequences

Power(x, n) ==
    LET power[i \in 0 .. n] == IF i = 0 THEN One ELSE x (.) power[i - 1]
    IN  power[n]

\* The sum of f[i] for i in 0 .. n.
SumTo(f, n) ==
    LET sum[i \in 0 .. n] == IF i = 0 THEN f[0] ELSE sum[i - 1] (+) f[i]
    IN  sum[n]

Degree(p) == CHOOSE n \in 0 .. 12 : DOMAIN p = 0 .. n

\* The coefficient of x^k.
Coefficient(p, k) == IF k \in 0 .. Degree(p) THEN p[Degree(p) - k] ELSE Zero

Value(p, x) ==
    LET horner[i \in 0 .. Degree(p)] ==
            IF i = 0 THEN p[0] ELSE horner[i - 1] (.) x (+) p[i]
    IN  horner[Degree(p)]

Product(p, q) ==
    LET n == Degree(p) + Degree(q)
    IN  [i \in 0 .. n |->
            SumTo([k \in 0 .. n |-> Coefficient(p, k) (.) Coefficient(q, n - i - k)], n)]

Plus(p, q) ==
    LET n == IF Degree(p) > Degree(q) THEN Degree(p) ELSE Degree(q)
    IN  [i \in 0 .. n |-> Coefficient(p, n - i) (+) Coefficient(q, n - i)]

Times(t, p) == [i \in DOMAIN p |-> t (.) p[i]]

\* The same polynomial: leading zeros do not count.
Same(p, q) ==
    \A k \in 0 .. 12 : Coefficient(p, k) = Coefficient(q, k)

\* The polynomial with these coefficients, the leading one first.
Poly(c) == [i \in 0 .. Len(c) - 1 |-> c[i + 1]]

\* x - s and x^2 + u x + v
Root(s)         == Poly(<<One, RNeg(s)>>)
Quadratic(u, v) == Poly(<<One, u, v>>)
Constant(t)     == Poly(<<t>>)
=============================================================================
