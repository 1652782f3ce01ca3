---------------------------- MODULE Constraints -----------------------------
(***************************************************************************)
(* The compute() functions of the constraint classes, as operators on the  *)
(* robot state they read.  Each returns the factor by which the controller *)
(* may scale the total velocity.                                           *)
(*                                                                         *)
(* The robot has one control-point axis, so a norm is an absolute value,   *)
(* and a tuple of joints.  `robot` is a record:                            *)
(*   cpTotal, jointTotal   the velocities about to be scaled               *)
(*   cpVel, jointVel       the scaled velocities of the previous cycle     *)
(*   extForce, extTorque   norm-carrying external force and joint torque   *)
(*   objects               distances to the objects to keep away from      *)
(***************************************************************************)
EXTENDS Rationals

Infinity == "inf"

\* 1e-6, the speed below which JointAccelerationConstraint skips a joint.
NegligibleSpeed == <<1, 1000000>>

DefaultConstraint == One

VelocityConstraint(robot, maximum_velocity) ==
    IF RLt(Zero, RAbs(robot.cpTotal))
    THEN RDiv(RAbs(maximum_velocity), RAbs(robot.cpTotal))
    ELSE One

AccelerationConstraint(robot, maximum_acceleration, sample_time) ==
    IF RLt(Zero, RAbs(robot.cpTotal))
    THEN RDiv(RAdd(RAbs(robot.cpVel), RMul(RAbs(maximum_acceleration), sample_time)),
              RAbs(robot.cpTotal))
    ELSE One

\* x/0 is infinite and 0/0 is not a number; std::min keeps 1 in both cases,
\* so a motionless joint does not take part in the minimum.
JointVelocityConstraint(robot, maximum_velocities) ==
    RMin({One} \union
         { RDiv(maximum_velocities[i], RAbs(robot.jointTotal[i])) :
             i \in { j \in DOMAIN robot.jointTotal : robot.jointTotal[j] # Zero } })

\* The sign of the velocity is not dropped before the comparison.
JointAccelerationConstraint(robot, maximum_acceleration, sample_time) ==
    RMin({One} \union
         { RDiv(RAdd(RAbs(robot.jointVel[i]),
                     RMul(maximum_acceleration[i], sample_time)),
                RAbs(robot.jointTotal[i])) :
             i \in { j \in DOMAIN robot.jointTotal :
                       ~RLt(robot.jointTotal[j], NegligibleSpeed) } })

ExchangedPower(robot) == RMul(robot.extForce, robot.cpTotal)

\* Mutant: the sign is kept.
SignedPowerConstraint(robot, maximum_power) ==
    IF RLt(ExchangedPower(robot), Zero)
    THEN RDiv(maximum_power, ExchangedPower(robot)) ELSE One

PowerConstraint(robot, maximum_power) ==
    IF RLt(ExchangedPower(robot), Zero)
    THEN RAbs(RDiv(maximum_power, ExchangedPower(robot)))
    ELSE One

\* The square root is taken of perfect squares only: v with m v^2 = 2 E.
MaximumVelocityOf(mass, maximum_kinetic_energy) ==
    CHOOSE v \in { R(n) : n \in 0 .. maximum_kinetic_energy } :
        RMul(R(mass), RMul(v, v)) = R(2 * maximum_kinetic_energy)

KineticEnergyConstraint(robot, mass, maximum_kinetic_energy) ==
    VelocityConstraint(robot, MaximumVelocityOf(mass, maximum_kinetic_energy))

\* LinearInterpolator::compute on the line through (from.x, from.y) and
\* (to.x, to.y).  An infinite input is beyond every point.
LinearInterpolation(from, to, saturation, x) ==
    LET a == RDiv(RSub(to.y, from.y), RSub(to.x, from.x))
        b == RSub(from.y, RMul(a, from.x))
    IN  IF saturation /\ x # Infinity /\ RLt(x, from.x) THEN from.y
        ELSE IF saturation /\ (x = Infinity \/ RLt(to.x, x)) THEN to.y
        ELSE RAdd(RMul(a, x), b)

\* closestObjectDistance: the least distance to a registered object.
ClosestObjectDistance(distances) ==
    IF distances = {} THEN Infinity ELSE RMin(distances)

\* The wrapped constraint is a VelocityConstraint on the interpolator's output.
SeparationDistanceConstraint(robot, from, to, saturation) ==
    VelocityConstraint(robot,
        LinearInterpolation(from, to, saturation, ClosestObjectDistance(robot.objects)))

\* One channel (force or joint torque) of EmergencyStopConstraint::compute;
\* `previous` is the value the whole constraint returned last.
\* Mutant: no memory between the thresholds.
MemorylessChannel(norm, activation, deactivation, previous) ==
    IF norm >= activation THEN 0 ELSE 1

StopChannel(norm, activation, deactivation, previous) ==
    IF norm >= activation THEN 0
    ELSE IF norm <= deactivation THEN 1
    ELSE previous

\* Each checked channel votes; the robot moves only if every channel says so.
\* A channel that is not checked votes 1.
EmergencyStopValue(channels) ==
    IF \A c \in DOMAIN channels : channels[c] = 1 THEN 1 ELSE 0
=============================================================================
