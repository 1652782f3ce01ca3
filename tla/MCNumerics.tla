----------------------------- MODULE MCNumerics -----------------------------
(***************************************************************************)
(* The arguments with which the arithmetic of the root finder and of the   *)
(* fifth order polynomials is tried.                                       *)
(***************************************************************************)
EXTENDS Numerics

MCRoots       == { Frac(n, d) : n \in 0 .. 24, d \in 1 .. 4 }
MCFourthRoots == { Frac(n, d) : n \in 1 .. 12, d \in 1 .. 4 }

Whole(c) == Poly([i \in DOMAIN c |-> R(c[i])])

Cubics     == { Whole(c) : c \in {1, 2} \X {-1, 0, 2} \X {-2, 1} \X {-1, 3} }
Conics     == { Whole(c) : c \in {1, 2} \X {-1, 0, 2} \X {-1, 1, 2} }
Quartics   == { Whole(c) : c \in {<<1, -2, 0, 1, 1>>, <<2, 0, 1, -1, 2>>} }
CubicKs    == { Whole(c) : c \in {1} \X {0, 2} \X {-1, 1} \X {-1, 2} }
Shifts     == { <<R(u), R(v)>> : u \in {-1, 0, 1, 2}, v \in {-1, 1, 2} }

MCShiftTasks ==
    [kind : {"shift"}, p : Cubics, K : Conics, shift : Shifts]
    \cup [kind : {"shift"}, p : Quartics, K : CubicKs, shift : Shifts]
MCLinearTasks == [kind : {"linear"}, p : Cubics, K : Conics, s : { R(s) : s \in -2 .. 2 }]

\* Quadratics whose zeros are known, and linear ones.
Known == { R(n) : n \in -3 .. 3 }
MCZerosTasks ==
    { [kind |-> "zeros", a |-> R(a), b |-> RNeg(R(a) (.) (x (+) y)), c |-> R(a) (.) (x (.) y)] :
          a \in {-1, 1, 2}, x \in Known, y \in Known }
    \cup { [kind |-> "zeros", a |-> R(a), b |-> R(-2 * a) (.) x, c |-> R(a) (.) (x (.) x (+) y (.) y)] :
          a \in {-1, 1, 2}, x \in Known, y \in Known }
    \cup { [kind |-> "zeros", a |-> Zero, b |-> x, c |-> y] : x \in Known, y \in Known }

Ends(xi, xf, yi, yf, dyi, dyf, d2yi, d2yf) ==
    [xi |-> xi, xf |-> xf, yi |-> yi, yf |-> yf, dyi |-> dyi, dyf |-> dyf,
     d2yi |-> d2yi, d2yf |-> d2yf, coefficients |-> Constant(Zero)]

MCSegmentTasks ==
    { [kind |-> "segment", ends |-> Ends(R(xi), R(xi + dx), R(yi), R(yf), R(v), R(w), R(a), R(b))] :
          xi \in {0, 1}, dx \in 1 .. 2, yi \in {0, 1}, yf \in {-1, 1},
          v \in {0, 2}, w \in {-1, 1}, a \in {0, 1}, b \in {-2, 1} }

\* Searches between points at rest and at a common speed, with limits whose
\* segments have a fraction as duration; the limits are also tried too low.
Searches ==
    { [kind |-> "search", ends |-> Ends(R(1), R(2), R(yi), R(yi + dist), R(v), R(w), R(a), Zero),
       dymax |-> Frac(15, 8 * t), d2ymaxSquared |-> Frac(100, 3) (/) Power(s, 4)] :
          yi \in {0, -1}, dist \in {-1, 0, 1}, v \in {0, 1, 2}, w \in {0, 1, -2}, a \in {0, 40},
          t \in 1 .. 4, s \in { R(1), R(2), Frac(3, 2), R(3) } }

MCSearchTasks == { t \in Searches : CanFollow(t) }

\* Paths to one waypoint or two, from and to every orientation.
MCPoses == { [at |-> R(at), turn |-> R(turn)] : at \in {0, 2}, turn \in 0 .. 3 }
MCPoseTasks == [kind : {"poses"}, start : MCPoses, waypoints : UNION {[1 .. n -> MCPoses] : n \in 1 .. 2}]
=============================================================================
