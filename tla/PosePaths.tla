------------------------------- MODULE PosePaths -------------------------------
(***************************************************************************)
(* TrajectoryGenerator<Pose>: poses become vectors of a translation and a  *)
(* rotation, which the generator joins by polynomials, and the vector it   *)
(* puts out becomes a pose.  TrajectoryGenerator has its clocks.           *)
(*                                                                         *)
(* A pose is [at, turn]: a place on one axis, and quarter turns about one, *)
(* both fractions.  Between points of the path the robot is at rest.       *)
(***************************************************************************)
EXTENDS FifthOrderPolynomial

Turns(x) == <<x[1] % (4 * x[2]), x[2]>>

\* The rotation from one orientation to another, the short way; and what it makes of
\* the first one.
AngularError(from, to) ==
    LET d == Turns(to (-) from) IN IF RLt(R(2), d) THEN d (-) R(4) ELSE d
Integrate(turn, rotation) == Turns(turn (+) rotation)

\* updatePoints(): each rotation is from the waypoint before.
UpdatePoints(start, waypoints) ==
    LET before(i) == IF i = 1 THEN start ELSE waypoints[i - 1]
    IN  <<[at |-> start.at, rotation |-> Zero]>> \o
        [i \in DOMAIN waypoints |->
            [at |-> waypoints[i].at,
             rotation |-> AngularError(before(i).turn, waypoints[i].turn)]]

\* The output of one component in a segment of duration 1.
Join(from, to, x) ==
    Compute(x, ComputeParameters(
        [xi |-> Zero, xf |-> One, yi |-> from, yf |-> to, dyi |-> Zero, dyf |-> Zero,
         d2yi |-> Zero, d2yf |-> Zero, coefficients |-> Constant(Zero)]))

\* position_output_ at x in segment s.
PositionOutput(points, s, x) ==
    [at |-> Join(points[s].at, points[s + 1].at, x),
     rotation |-> Join(points[s].rotation, points[s + 1].rotation, x)]

\* compute(): the pose it puts out, and the vector of the pose it is compared with.
PoseOutput(start, output) ==
    [at |-> output.at, turn |-> Integrate(start.turn, output.rotation)]
ReferencePoseVec(start, reference) ==
    [at |-> reference.at, rotation |-> AngularError(start.turn, reference.turn)]
=============================================================================
