--------------------------- MODULE QuadraticShift ---------------------------
(***************************************************************************)
(* The arithmetic of rpoly_ak1: what one step of its stages computes from  *)
(* the polynomial p, the K polynomial and the shift.  Numbers are exact,   *)
(* so a test against a multiple of DBL_EPSILON is a test against zero.     *)
(* RootFinder models the order in which the steps are taken.               *)
(***************************************************************************)
EXTENDS Polynomials

CONSTANT Roots      \* the numbers that square roots are looked for in

ASSUME RootsAssumption == \A r \in Roots : r \in Rat /\ RLeq(Zero, r)

\* QuadSD_ak1: the quotient and, in its last two places, the remainder of
\* the division by x^2 + u x + v.
QuadSD(u, v, p) ==
    LET q[i \in DOMAIN p] ==
            p[i] (-) ((IF i > 0 THEN u (.) q[i - 1] ELSE Zero)
                      (+) (IF i > 1 THEN v (.) q[i - 2] ELSE Zero))
    IN  q

A(q) == q[Degree(q)]
B(q) == q[Degree(q) - 1]

\* calcSC_ak1
CalcSC(a, b, K, u, v) ==
    LET qk == QuadSD(u, v, K)
        c  == A(qk)
        d  == B(qk)
        h  == v (.) b
        scalars(type, a1, a3, a7, f, g) ==
            [type |-> type, qk |-> qk, c |-> c, d |-> d, h |-> h,
             a1 |-> a1, a3 |-> a3, a7 |-> a7, f |-> f, g |-> g]
    IN  IF c = Zero /\ d = Zero
        THEN scalars(3, Zero, Zero, Zero, Zero, Zero)
        ELSE IF RLeq(RAbs(c), RAbs(d))
        THEN LET e == a (/) d
                 f == c (/) d
                 g == u (.) b
             IN  scalars(2, f (.) b (-) a,
                         e (.) (g (+) a) (+) h (.) (b (/) d),
                         h (+) (f (+) u) (.) a, f, g)
        ELSE LET e == a (/) c
                 f == d (/) c
                 g == e (.) u
             IN  scalars(1, b (-) a (.) f,
                         e (.) a (+) (g (+) h (/) c) (.) b,
                         g (.) d (+) h (.) f (+) a, f, g)

\* Mutant: the scalars are not divided by a1.
Undivided(sc) == One

Divisor(sc) == IF sc.a1 # Zero THEN sc.a1 ELSE One

\* nextK_ak1: scaled, or unscaled when a1 vanishes.
NextK(sc, qp, K) ==
    LET lead  == IF sc.a1 # Zero THEN One ELSE Zero
        a7    == sc.a7 (/) Divisor(sc)
        a3    == sc.a3 (/) Divisor(sc)
        old(i) == IF i > 1 THEN sc.qk[i - 2] ELSE Zero
    IN  [i \in DOMAIN K |->
            IF sc.type = 3 THEN old(i)
            ELSE lead (.) qp[i]
                 (+) ((IF i > 0 THEN RNeg(a7) (.) qp[i - 1] ELSE Zero) (+) a3 (.) old(i))]

\* Mutant: the second scalar does not follow the first.
LastB2(b1, K, p) == RNeg(K[Degree(K) - 1] (/) p[Degree(p)])

NextB2(b1, K, p) == RNeg((K[Degree(K) - 1] (+) b1 (.) p[Degree(p) - 1]) (/) p[Degree(p)])

\* newest_ak1: the next estimate of u and v.
Newest(sc, a, b, u, v, K, p) ==
    LET a4 == IF sc.type = 2 THEN (a (+) sc.g) (.) sc.f (+) sc.h
                             ELSE a (+) u (.) b (+) sc.h (.) sc.f
        a5 == IF sc.type = 2 THEN (sc.f (+) u) (.) sc.c (+) v (.) sc.d
                             ELSE sc.c (+) (u (+) v (.) sc.f) (.) sc.d
        b1 == RNeg(K[Degree(K)] (/) p[Degree(p)])
        b2 == NextB2(b1, K, p)
        c1 == v (.) b2 (.) sc.a1
        c2 == b1 (.) sc.a7
        c3 == b1 (.) b1 (.) sc.a3
        c4 == c1 (-) (c2 (+) c3)
        temp == a5 (-) c4 (+) b1 (.) a4
    IN  IF sc.type = 3 \/ temp = Zero
        THEN [u |-> Zero, v |-> Zero]
        ELSE [u |-> u (-) (u (.) (c3 (+) c2) (+) v (.) (b1 (.) sc.a1 (+) b2 (.) sc.a7)) (/) temp,
              v |-> v (.) (One (+) c4 (/) temp)]

\* The next K polynomial of RealIT_ak1, and of the steps without a shift of
\* rpoly_ak1 (s = 0): scaled, or unscaled when K vanishes at s.
NextLinearK(p, K, s) ==
    LET quotient(q) ==
            LET horner[i \in DOMAIN q] == IF i = 0 THEN q[0] ELSE horner[i - 1] (.) s (+) q[i]
            IN  horner
        qp == quotient(p)
        qk == quotient(K)
        kv == A(qk)
        t  == RNeg(A(qp) (/) kv)
    IN  [i \in DOMAIN K |->
            LET old == IF i > 0 THEN qk[i - 1] ELSE Zero
            IN  IF kv = Zero THEN old ELSE t (.) old (+) qp[i]]

-----------------------------------------------------------------------------
(* Quad_ak1: the zeros of a x^2 + b1 x + c.  The square root is exact where *)
(* the discriminant is the square of one of Roots.                          *)

SquareRoot(x) == CHOOSE r \in Roots : r (.) r = x

Zeros(sr, si, lr, li) == [s |-> <<sr, si>>, l |-> <<lr, li>>]

\* Mutant: the zero of the positive root, whichever is larger.
PositiveRoot(a, b, d) == (d (-) b) (/) a

LargerZero(a, b, d) == (IF RLeq(Zero, b) THEN RNeg(d) (-) b ELSE d (-) b) (/) a

Discriminant(a, b, c) == b (.) b (-) a (.) c

Quad(a, b1, c) ==
    LET b == b1 (/) R(2)
        discriminant == Discriminant(a, b, c)
        d  == SquareRoot(RAbs(discriminant))
        lr == LargerZero(a, b, d)
    IN  IF a = Zero
        THEN Zeros(IF b1 # Zero THEN RNeg(c (/) b1) ELSE Zero, Zero, Zero, Zero)
        ELSE IF c = Zero
        THEN Zeros(Zero, Zero, RNeg(b1 (/) a), Zero)
        ELSE IF RLeq(Zero, discriminant)
        THEN Zeros(IF lr # Zero THEN c (/) (lr (.) a) ELSE Zero, Zero, lr, Zero)
        ELSE LET si == RAbs(d (/) a)
             IN  Zeros(RNeg(b (/) a), si, RNeg(b (/) a), RNeg(si))
=============================================================================
