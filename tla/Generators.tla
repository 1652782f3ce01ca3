----------------------------- MODULE Generators -----------------------------
(***************************************************************************)
(* The force, velocity and joint velocity generators on a plane: a vector  *)
(* has two components, an orientation is a number of quarter turns, and    *)
(* spatialTransformationMatrix() is the rotation "rotation" of the robot.  *)
(* Torques, moments and the error in orientation are left out, and the     *)
(* samples last 1.  Positions are in a lattice; a potential is computed    *)
(* where the distance to the object, and the force, are whole numbers.     *)
(***************************************************************************)
EXTENDS Integers, Sequences, TLC

Plane == Int \X Int
Vector(x, y) == <<x, y>>
Null == Vector(0, 0)
Add(v, w) == <<v[1] + w[1], v[2] + w[2]>>
Scale(k, v) == <<k * v[1], k * v[2]>>
Minus(v, w) == Add(v, Scale(-1, w))
Each(k, v) == <<k[1] * v[1], k[2] * v[2]>>      \* cwiseProduct, diagonal matrices

\* The rotation by k quarter turns, and its transpose.
Rotate(k, v) ==
    CASE k = 0 -> v
      [] k = 1 -> <<-v[2], v[1]>>
      [] k = 2 -> <<-v[1], -v[2]>>
      [] k = 3 -> <<v[2], -v[1]>>
RotateBack(k, v) == Rotate((4 - k) % 4, v)

-----------------------------------------------------------------------------
(* ForceGenerator, VelocityGenerator: what update() gave, in the TCP frame.  *)
(* Mutant: the other way round.                                             *)

TransformForward(robot, frame, v) == IF frame = "TCP" THEN v ELSE Rotate(robot.rotation, v)
Transform(robot, frame, v) == IF frame = "TCP" THEN v ELSE RotateBack(robot.rotation, v)

\* ForceProxy, ExternalForce: a value given from outside.
Proxy(robot, frame, v) == Transform(robot, frame, v)

\* VelocityGenerator's, of VelocityProxy and ForceControl, is the same.
TransformVelocity(robot, frame, v) == Transform(robot, frame, v)
VelocityProxy(robot, frame, v) == TransformVelocity(robot, frame, v)

\* A joint velocity is in no frame.
JointVelocityProxy(q) == q

\* Pose::getErrorWith is this pose minus the other.
ErrorWith(at, other) == Minus(at, other)

StiffnessGenerator(robot, frame, stiffness, target) ==
    LET error == IF frame = "TCP" THEN RotateBack(robot.rotation, ErrorWith(robot.at, target))
                 ELSE ErrorWith(robot.at, target)
    IN  Transform(robot, frame, Each(stiffness, Scale(-1, error)))

\* Given in the TCP frame the target is an error already: the acceleration of the
\* robot counts only against a target given in the base frame.
MassGenerator(robot, frame, targetFrame, mass, acceleration) ==
    LET error ==
            IF targetFrame = "TCP"
            THEN IF frame = "TCP" THEN acceleration ELSE Rotate(robot.rotation, acceleration)
            ELSE IF frame = "TCP" THEN RotateBack(robot.rotation, Minus(acceleration, robot.acceleration))
            ELSE Minus(acceleration, robot.acceleration)
    IN  Transform(robot, frame, Each(mass, error))

-----------------------------------------------------------------------------
(* PotentialFieldGenerator                                                  *)

Squared(v) == v[1] * v[1] + v[2] * v[2]
IsWhole(v) == \E d \in 0 .. 20 : d * d = Squared(v)
Norm(v) == CHOOSE d \in 0 .. 20 : d * d = Squared(v)

Divides(d, v) == v[1] % d = 0 /\ v[2] % d = 0
Quotient(v, d) == <<v[1] \div d, v[2] \div d>>

\* The point of the robot the potentials act on, in the frame of the objects.
RobotPosition(robot, frame, offset) ==
    IF frame = "TCP" THEN offset ELSE Add(robot.at, Rotate(robot.rotation, offset))

\* gain (1/th - 1/d) v/d is gain (d - th) v over th d^2.
Repulsion(object, v, d) == Scale(object.gain * (d - object.threshold), v)

Measurable(robot, frame, offset, object) ==
    LET v == Minus(object.at, RobotPosition(robot, frame, offset)) IN
    /\ IsWhole(v)
    /\ Norm(v) # 0 /\ object.kind = "Attractive" => Divides(Norm(v), Scale(object.gain, v))
    /\ Norm(v) # 0 /\ object.kind = "Repulsive" =>
           Divides(object.threshold * Norm(v) * Norm(v), Repulsion(object, v, Norm(v)))

ObjectForce(robot, frame, offset, object) ==
    LET v == Minus(object.at, RobotPosition(robot, frame, offset))
        d == Norm(v)
    IN  IF d = 0 THEN Null
        ELSE IF object.kind = "Attractive" THEN Quotient(Scale(object.gain, v), d)
        ELSE IF d < object.threshold
             THEN Quotient(Repulsion(object, v, d), object.threshold * d * d)
             ELSE Null

\* The objects are summed in the order of their names.
PotentialFieldGenerator(robot, frame, offset, objects) ==
    LET sum[i \in 0 .. Len(objects)] ==
            IF i = 0 THEN Null ELSE Add(sum[i - 1], ObjectForce(robot, frame, offset, objects[i]))
    IN  Transform(robot, frame, sum[Len(objects)])

-----------------------------------------------------------------------------
(* ForceControl, with the members type_, 1 / filter_coeff_ and prev_error_   *)
(* of an object: the velocity, and the error it keeps.  Time constants are  *)
(* whole numbers of samples; an error is filtered where that is exact.      *)

\* configureFilter(): sample_time / (time_constant + sample_time), of which this is the
\* inverse; no time constant stands for the 1 of the constructor.
FilterDivisor(time_constant) == time_constant + 1

NewForceControl(type, time_constant) ==
    [type |-> type, divisor |-> FilterDivisor(time_constant), prev_error_ |-> Null]

ApplySelection(selection, error) == [i \in 1 .. 2 |-> IF selection[i] = 0 THEN 0 ELSE error[i]]

ForceError(robot, frame, type, target) ==
    Add(IF type = "Environment" THEN target ELSE Scale(-1, target),
        IF frame = "TCP" THEN robot.force ELSE Rotate(robot.rotation, robot.force))

\* filter_coeff_ of an error and the rest of the one before, as many times as large.
Weighted(control, error) == Add(error, Scale(control.divisor - 1, control.prev_error_))
IsFilterable(control, error) == Divides(control.divisor, Weighted(control, error))
Filter(control, error) == Quotient(Weighted(control, error), control.divisor)

PDControl(control, gains, error) ==
    Add(Each(gains.p, error), Each(gains.d, Minus(error, control.prev_error_)))

\* Mutant: the error is kept as it was before the selection.
KeepsBeforeSelection(robot, frame, control, target, selection, gains) ==
    LET all == ForceError(robot, frame, control.type, target)
        error == Filter(control, ApplySelection(selection, all))
    IN  [error |-> Filter(control, all),
         velocity |-> TransformVelocity(robot, frame, PDControl(control, gains, error))]

ForceControl(robot, frame, control, target, selection, gains) ==
    LET selected == ApplySelection(selection, ForceError(robot, frame, control.type, target))
        error == Filter(control, selected)
    IN  [error |-> error,
         velocity |-> TransformVelocity(robot, frame, PDControl(control, gains, error))]

-----------------------------------------------------------------------------
(* NullSpaceMotion on a robot whose joints "x" and "slide" move the same    *)
(* axis: the Jacobian, its inverse, and I - J^+ J applied to a velocity.    *)
(* The halves of an odd number are whole numbers here.                      *)

Jacobian(q) == <<q.x + q.slide, q.y>>
JacobianInverse(v) == [x |-> v[1] \div 2, y |-> v[2], slide |-> v[1] - v[1] \div 2]

PlusJoints(q, r) == [x |-> q.x + r.x, y |-> q.y + r.y, slide |-> q.slide + r.slide]
MinusJoints(q, r) == [x |-> q.x - r.x, y |-> q.y - r.y, slide |-> q.slide - r.slide]

\* Mutant: the projector is onto the rest.
OntoTask(q) == JacobianInverse(Jacobian(q))
NullSpaceMotion(q) == MinusJoints(q, JacobianInverse(Jacobian(q)))

-----------------------------------------------------------------------------
(* The laser scanner of the demo: four beams a quarter turn apart, of which *)
(* the third looks ahead; it stands at laser.at, turned by laser.rotation.  *)

Beam(i, d) == Rotate((i + 2) % 4, <<d, 0>>)

ToBase(laser, position) == Add(laser.at, Rotate(laser.rotation, position))

\* What updateLaserScanners() reads: the distance to the first thing in each beam,
\* or what the sensor says when there is none.
Scan(laser, things) ==
    [i \in 0 .. 3 |->
        LET hits == {d \in 1 .. laser.maximum : ToBase(laser, Beam(i, d)) \in things}
        IN  IF hits = {} THEN laser.maximum + 1 ELSE CHOOSE d \in hits : \A e \in hits : d <= e]

\* LaserScannerDetector::init() keeps the scene without people.
MaximumDistances(laser, dist) ==
    [i \in 0 .. 3 |-> IF laser.minimum < dist[i] /\ dist[i] < laser.maximum THEN dist[i]
                      ELSE laser.maximum]

\* The nearest thing that was not there, in the frame of the laser; or a point ahead
\* of it, as far as it sees.
LaserScannerDetector(laser, maximum_distances, dist) ==
    LET news == {i \in 0 .. 3 : /\ dist[i] < maximum_distances[i] - laser.threshold
                                /\ dist[i] >= laser.minimum /\ dist[i] < laser.maximum}
        nearest == CHOOSE i \in news : \A j \in news :
                       dist[i] < dist[j] \/ (dist[i] = dist[j] /\ i <= j)
    IN  IF news = {} THEN <<laser.maximum, 0>> ELSE Beam(nearest, dist[nearest])

\* computeLaserDistanceInTCPFrame(): the plane is that of the laser, without the height.
LaserInTCPFrame(robot, laser, position) ==
    RotateBack(robot.rotation, Minus(ToBase(laser, position), robot.at))

-----------------------------------------------------------------------------
(* Derivator and Integrator with a sample time of 1, Deadband               *)

NewDerivator(input) == [output |-> Null, previous |-> input]

\* Mutant: the last input is not kept.
DeriveFromFirst(d, input) == [output |-> Minus(input, d.previous), previous |-> d.previous]
Derive(d, input) == [output |-> Minus(input, d.previous), previous |-> input]

\* force(); reset() would force the input.
ForceOutput(value) == [output |-> value]
Integrate(i, input) == [output |-> Add(i.output, input)]

Deadband(threshold, v) ==
    [i \in 1 .. 2 |-> IF v[i] > threshold[i] THEN v[i] - threshold[i]
                      ELSE IF v[i] < -threshold[i] THEN v[i] + threshold[i] ELSE 0]
=============================================================================
