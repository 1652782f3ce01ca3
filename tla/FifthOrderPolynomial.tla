------------------------ MODULE FifthOrderPolynomial ------------------------
(***************************************************************************)
(* The fifth order polynomials that join two waypoints: their coefficients *)
(* from the constraints at both ends, their evaluation, and the search for *)
(* the shortest segment that keeps a velocity and an acceleration limit.   *)
(*                                                                         *)
(* Constraints are records [xi, xf, yi, yf, dyi, dyf, d2yi, d2yf] of       *)
(* fractions.  The acceleration limit and the accelerations it is compared *)
(* with are kept squared: between two points at rest the extreme           *)
(* acceleration is 10/sqrt(3) times distance over duration squared.        *)
(***************************************************************************)
EXTENDS Polynomials

CONSTANT FourthRoots    \* the ratios that durations may change by in a search

ASSUME FourthRootsAssumption == \A r \in FourthRoots : r \in Rat /\ RLt(Zero, r)

\* Mutant: a segment that does not start at zero.
FromZero(params) == params.xf

Span(params) == params.xf (-) params.xi

ComputeParameters(params) ==
    LET dx == Span(params)
        p  == [n \in 1 .. 5 |-> Power(dx, n)]
        dy == params.yi (-) params.yf
    IN  [params EXCEPT !.coefficients = Poly(<<
        RNeg((R(12) (.) dy (+) R(6) (.) p[1] (.) (params.dyf (+) params.dyi)
              (-) params.d2yf (.) p[2] (+) params.d2yi (.) p[2]) (/) (R(2) (.) p[5])),
        (R(30) (.) dy (+) R(14) (.) p[1] (.) params.dyf (+) R(16) (.) p[1] (.) params.dyi
         (-) R(2) (.) params.d2yf (.) p[2] (+) R(3) (.) params.d2yi (.) p[2]) (/) (R(2) (.) p[4]),
        RNeg((R(20) (.) dy (+) R(8) (.) p[1] (.) params.dyf (+) R(12) (.) p[1] (.) params.dyi
              (-) params.d2yf (.) p[2] (+) R(3) (.) params.d2yi (.) p[2]) (/) (R(2) (.) p[3])),
        params.d2yi (/) R(2),
        params.dyi,
        params.yi>>)]

Between(x, params, before, inside, after) ==
    IF RLt(x, params.xi) THEN before
    ELSE IF RLt(params.xf, x) THEN after
    ELSE inside

Compute(x, params) ==
    Between(x, params, params.yi, Value(params.coefficients, x (-) params.xi), params.yf)

\* The polynomials of computeFirstDerivative and computeSecondDerivative.
FirstDerivative(params) ==
    LET p == params.coefficients
    IN  [i \in 0 .. 4 |-> R(5 - i) (.) p[i]]

SecondDerivative(params) ==
    LET p == params.coefficients
    IN  Poly(<<R(20) (.) p[0], R(12) (.) p[1], R(6) (.) p[2], R(2) (.) p[3]>>)

ComputeFirstDerivative(x, params) ==
    Between(x, params, params.dyi, Value(FirstDerivative(params), x (-) params.xi), params.dyf)

ComputeSecondDerivative(x, params) ==
    Between(x, params, params.d2yi, Value(SecondDerivative(params), x (-) params.xi), params.d2yf)

-----------------------------------------------------------------------------
(* The search.  rpoly_ak1 refuses a leading coefficient of zero, and the    *)
(* callers turn that into an exception.                                     *)

Throws(params) == params.coefficients[0] = Zero

\* getFirstDerivativeMaximum: the largest velocity at the three zeros of the
\* acceleration.  A segment without acceleration at its ends starts and stops
\* accelerating there, and turns at its middle when the velocities are equal.
AccelerationZeros(params) == { Zero, params.xf (/) R(2), params.xf }

FirstDerivativeMaximum(params) ==
    LET speeds == { RAbs(Value(FirstDerivative(params), x)) : x \in AccelerationZeros(params) }
    IN  CHOOSE s \in speeds : \A t \in speeds : RLeq(t, s)

\* getSecondDerivativeMaximum, squared.  The acceleration is zero at the
\* middle of the segment, so it has the same size at both zeros m +- r of the
\* quadratic a2 x^2 + a1 x + a0 (the jerk): r times its slope there, which is
\* two thirds of the jerk at m.
SecondDerivativeMaximumSquared(params) ==
    LET p  == params.coefficients
        a2 == R(60) (.) p[0]
        a1 == R(24) (.) p[1]
        a0 == R(6) (.) p[2]
        m  == RNeg(a1) (/) (R(2) (.) a2)
        r2 == m (.) m (-) a0 (/) a2
        slope == Frac(2, 3) (.) (a0 (-) a2 (.) m (.) m)
    IN  r2 (.) slope (.) slope

FourthRoot(x) == CHOOSE t \in FourthRoots : Power(t, 4) = x

\* The first check that fails decides nothing: a later one overrides it.
ConstraintError(c, dymax, d2ymaxSquared) ==
    IF RLt(d2ymaxSquared, c.d2yf (.) c.d2yf) THEN "FinalAcceleration"
    ELSE IF RLt(d2ymaxSquared, c.d2yi (.) c.d2yi) THEN "InitialAcceleration"
    ELSE IF RLt(dymax, RAbs(c.dyf)) THEN "FinalVelocity"
    ELSE IF RLt(dymax, RAbs(c.dyi)) THEN "InitialVelocity"
    ELSE "NoError"

\* poly_params_dy and poly_params_d2y with the initial guess.
StartSearch(c, guess) ==
    LET p == [c EXCEPT !.xi = Zero, !.xf = guess]
    IN  [dy |-> p, d2y |-> p, dymaxFound |-> FALSE, d2ymaxFound |-> FALSE,
         status |-> "searching", iterations |-> 0]

\* One round of the loop.  The tolerances dyeps and d2yeps are zero here.
SearchRound(search, dymax, d2ymaxSquared) ==
    LET dy   == IF search.dymaxFound THEN search.dy ELSE ComputeParameters(search.dy)
        d2y  == IF search.d2ymaxFound THEN search.d2y ELSE ComputeParameters(search.d2y)
        vmax == FirstDerivativeMaximum(dy)
        amax == SecondDerivativeMaximumSquared(d2y)
        dyFound  == search.dymaxFound \/ vmax = dymax
        d2yFound == search.d2ymaxFound \/ amax = d2ymaxSquared
    IN  IF Throws(dy) \/ Throws(d2y)
        THEN [search EXCEPT !.status = "runtime_error"]
        ELSE [dy  |-> IF dyFound THEN dy ELSE [dy EXCEPT !.xf = @ (.) (vmax (/) dymax)],
              d2y |-> IF d2yFound THEN d2y
                      ELSE [d2y EXCEPT !.xf = @ (.) FourthRoot(amax (/) d2ymaxSquared)],
              dymaxFound  |-> dyFound,
              d2ymaxFound |-> d2yFound,
              status      |-> IF dyFound /\ d2yFound THEN "found" ELSE "searching",
              iterations  |-> search.iterations + (IF search.dymaxFound THEN 0 ELSE 1)
                                                + (IF search.d2ymaxFound THEN 0 ELSE 1)]

\* Mutant: the shorter of the two segments.
Shortest(search) ==
    IF RLt(search.d2y.xf, search.dy.xf) THEN search.d2y ELSE search.dy

Longest(search) ==
    IF RLt(search.d2y.xf, search.dy.xf) THEN search.dy ELSE search.d2y
=============================================================================
