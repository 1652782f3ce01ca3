----------------------------- MODULE RobotLoop -----------------------------
(***************************************************************************)
(* The control loop of an AppMaker program over DummyDriver, closed: the   *)
(* generators are evaluated on what forwardKinematics() made of the joint  *)
(* positions, and the velocity they give moves the joints.  In every cycle *)
(* the program has another generator do the work, and the head turns by a  *)
(* quarter.  A derivator and an integrator follow the control point.       *)
(*                                                                         *)
(* "TCP" or "Base" is the frame in which the generators of this program    *)
(* were told their values, for its whole life.                             *)
(***************************************************************************)
EXTENDS Generators

CONSTANTS
    Displacements,  \* vectors that users give: velocities, forces, accelerations
    Targets,        \* positions: of a target, of an object
    Forces,         \* those measured, and targets of force control
    Selections,     \* of force control, and its gains
    Gains,
    Controls,       \* its types, each with a time constant in samples for its filter;
                    \* 0 where that is not configured
    Offset,         \* of the point of the robot that potentials act on
    Laser,          \* where the scanner stands and how far it sees
    Walls,          \* what it saw when its detector was initialised
    People,         \* the sets of people there may be
    Reach,          \* distance of the operator up to which the velocity limit is zero
    Workspace,      \* bound: the coordinates the robot may take
    MaxCycles       \* bound

ASSUME RobotLoopAssumption ==
    /\ Displacements \subseteq Plane /\ Targets \subseteq Plane /\ Offset \in Plane
    /\ Forces \subseteq Plane /\ Selections \subseteq Plane
    /\ Gains \in [p : Plane, d : Plane] /\ Controls \subseteq {"Environment", "Robot"} \X Nat
    /\ Workspace \subseteq Int /\ MaxCycles \in Nat

\* The scanner stands on the lattice and measures whole distances.
ASSUME LaserAssumption ==
    /\ Laser.at \in Plane /\ Laser.rotation \in 0 .. 3
    /\ Laser.minimum \in Nat /\ Laser.maximum \in Nat \ {0} /\ Laser.threshold \in Nat

VARIABLES
    pc, frame, cycles,
    joints,         \* jointCurrentPosition: x, y, slide, and the turn of the head
    robot,          \* the control point: at, rotation, force, acceleration
    command,        \* jointVelocity
    force_control,  \* the program's: type, divisor, prev_error_
    derivator, integrator,
    asked,          \* history: what was asked of the last cycle
    controlled      \* history: the axes it was given when it last ran, the velocity it
                    \* gave in the program's frame, and the largest error that was
                    \* measured on each axis while it was selected

vars == <<pc, frame, cycles, joints, robot, command, force_control, derivator, integrator,
          asked, controlled>>

Turned(q, k) == [x |-> q.x, y |-> q.y, slide |-> q.slide, turn |-> k]
Still == [x |-> 0, y |-> 0, slide |-> 0, turn |-> 0]

\* Robot::create.
NewRobot == [at |-> Null, rotation |-> 0, force |-> Null, acceleration |-> Null]
ForceControls == {NewForceControl(c[1], c[2]) : c \in Controls}
Unused == [selection |-> Null, velocity |-> Null, largest |-> Null]
Nothing == [what |-> [kind |-> "nothing"], from |-> NewRobot]

\* The robot of a configuration, and the initial positions of its DummyDriver.
Init ==
    /\ pc = "read" /\ frame \in {"TCP", "Base"} /\ cycles = 0
    /\ \E turn \in {0, 2} : joints = [x |-> 2, y |-> 0, slide |-> 0, turn |-> turn]
    /\ robot = NewRobot
    /\ command = Still
    /\ force_control \in ForceControls
    /\ derivator = NewDerivator(Null) /\ integrator = ForceOutput(Null)
    /\ asked = Nothing /\ controlled = Unused

\* DummyDriver::read() does nothing; then forwardKinematics(), which is all that the
\* controller sees of the joints, and the signals that follow the control point; a
\* program forces the integrator where it begins.  Mutant: read() is all.
JointsOnly(r) == r
ForwardKinematics(r) == [r EXCEPT !.at = Jacobian(joints), !.rotation = joints.turn]

Read ==
    /\ pc = "read" /\ pc' = "compute"
    /\ \E f \in Forces : robot' = [ForwardKinematics(robot) EXCEPT !.force = f]
    /\ IF cycles = 0
       THEN /\ derivator' = NewDerivator(robot'.at)
            /\ integrator' = ForceOutput(robot'.at)
       ELSE /\ derivator' = Derive(derivator, robot'.at)
            /\ integrator' = Integrate(integrator, derivator'.output)
    /\ UNCHANGED <<frame, cycles, joints, command, force_control, asked, controlled>>

\* The derivator is reset between its cycles.
ResetDerivator ==
    /\ pc = "compute" /\ derivator' = NewDerivator(robot.at)
    /\ derivator' # derivator
    /\ UNCHANGED <<pc, frame, cycles, joints, robot, command, force_control, integrator>>
    /\ UNCHANGED <<asked, controlled>>

-----------------------------------------------------------------------------
(* A cycle of the controller with one generator: J^+ T (F/D + V) + joint    *)
(* velocities, D = 1, no constraint; the joint of the head turns by one.    *)

Drive(velocity, jointVelocity, what) ==
    LET task == JacobianInverse(Rotate(robot.rotation, velocity)) IN
    /\ pc = "compute" /\ pc' = "send" /\ cycles < MaxCycles
    /\ command' = Turned(PlusJoints(task, jointVelocity), 1)
    /\ asked' = [what |-> what, from |-> robot]
    /\ Jacobian(joints)[1] + Jacobian(command')[1] \in Workspace
    /\ Jacobian(joints)[2] + Jacobian(command')[2] \in Workspace
    /\ UNCHANGED <<frame, cycles, joints, robot, derivator, integrator>>

ByProxy ==
    \E v \in Displacements :
        /\ Drive(VelocityProxy(robot, frame, v), Still, [kind |-> "proxy", by |-> v])
        /\ UNCHANGED <<force_control, controlled>>

\* The same under the demo's separation constraint, whose limit, zero up to Reach, is
\* none beyond it here.
Operator(people) ==
    LaserInTCPFrame(robot, Laser,
        LaserScannerDetector(Laser, MaximumDistances(Laser, Scan(Laser, Walls)),
                             Scan(Laser, Walls \union people)))

NearOperator ==
    \E v \in Displacements, people \in People :
        LET allowed == IF Squared(Operator(people)) <= Reach * Reach THEN Null ELSE v IN
        /\ Drive(VelocityProxy(robot, frame, allowed), Still,
                 [kind |-> "operator", by |-> v, people |-> people])
        /\ UNCHANGED <<force_control, controlled>>

\* The force that is measured, in the TCP frame whatever the program's frame is.
ByExternalForce ==
    \E threshold \in {Vector(0, 0), Vector(1, 1)} :
        /\ Drive(Proxy(robot, "TCP", Deadband(threshold, robot.force)), Still,
                 [kind |-> "force", threshold |-> threshold])
        /\ UNCHANGED <<force_control, controlled>>

ByStiffness ==
    \E target \in Targets :
        /\ Drive(StiffnessGenerator(robot, frame, <<1, 1>>, target), Still,
                 [kind |-> "stiffness", target |-> target])
        /\ UNCHANGED <<force_control, controlled>>

ByMass ==
    \E a \in Displacements, targetFrame \in {"TCP", "Base"} :
        /\ Drive(MassGenerator(robot, frame, targetFrame, <<1, 1>>, a), Still,
                 [kind |-> "mass", by |-> a, in |-> targetFrame])
        /\ UNCHANGED <<force_control, controlled>>

\* In the TCP frame the driver tracks where the objects are from the control point.
Tracked(at) == IF frame = "TCP" THEN RotateBack(robot.rotation, Minus(at, robot.at)) ELSE at

ByPotential ==
    \E at \in Targets, kind \in {"Attractive", "Repulsive"} :
        LET object == [kind |-> kind, at |-> Tracked(at), gain |-> 12, threshold |-> 3] IN
        /\ Measurable(robot, frame, Offset, object)
        /\ Drive(PotentialFieldGenerator(robot, frame, Offset, <<object>>), Still,
                 [kind |-> kind, at |-> at])
        /\ UNCHANGED <<force_control, controlled>>

Size(k) == IF k < 0 THEN -k ELSE k
Larger(a, b) == IF a < b THEN b ELSE a

ByForceControl ==
    \E target \in Forces, selection \in Selections :
        LET control == ForceControl(robot, frame, force_control, target, selection, Gains)
            measured == ApplySelection(selection,
                                       ForceError(robot, frame, force_control.type, target))
        IN  /\ IsFilterable(force_control, measured)
            /\ Drive(control.velocity, Still,
                     [kind |-> "force_control", selection |-> selection,
                      divisor |-> force_control.divisor, before |-> controlled])
            /\ force_control' = [force_control EXCEPT !.prev_error_ = control.error]
            /\ controlled' =
                   [selection |-> selection,
                    velocity |-> TransformForward(robot, frame, control.velocity),
                    largest |-> [i \in 1 .. 2 |-> Larger(controlled.largest[i], Size(measured[i]))]]

\* A program makes a new one, as the demo does each time it begins to control a force.
RenewForceControl ==
    /\ pc = "compute" /\ controlled # Unused
    /\ force_control' \in ForceControls /\ controlled' = Unused
    /\ UNCHANGED <<pc, frame, cycles, joints, robot, command, derivator, integrator, asked>>

\* The task keeps the robot where it is.
ByNullSpaceMotion ==
    \E x, slide \in {-1, 2} :
        /\ Drive(Null, NullSpaceMotion([x |-> x, y |-> 1, slide |-> slide]),
                 [kind |-> "null_space"])
        /\ UNCHANGED <<force_control, controlled>>

ByJointVelocity ==
    \E x \in {-1, 2} :
        LET given == [x |-> x, y |-> 1, slide |-> 1] IN
        /\ Drive(Null, JointVelocityProxy(given), [kind |-> "joints", by |-> given])
        /\ UNCHANGED <<force_control, controlled>>

Compute ==
    \/ NearOperator \/ ByJointVelocity
    \/ ByProxy \/ ByExternalForce \/ ByStiffness \/ ByMass
    \/ ByPotential \/ ByForceControl \/ ByNullSpaceMotion

\* DummyDriver::send() is the robot: the joints have moved when it returns.
Send ==
    /\ pc = "send"
    /\ pc' = "read" /\ cycles' = cycles + 1
    /\ joints' = Turned(PlusJoints(joints, command), (joints.turn + command.turn) % 4)
    /\ UNCHANGED <<frame, robot, command, force_control, derivator, integrator>>
    /\ UNCHANGED <<asked, controlled>>

Next == Read \/ ResetDerivator \/ RenewForceControl \/ Compute \/ Send

Spec == Init /\ [][Next]_vars

-----------------------------------------------------------------------------
(* Properties                                                               *)

\* Someone the scanner can see: in a beam, and nothing nearer in it.
Seen(people) ==
    {p \in people : \E i \in 0 .. 3, d \in 1 .. Laser.maximum - 1 :
        /\ p = ToBase(Laser, Beam(i, d))
        /\ \A e \in 1 .. d : ToBase(Laser, Beam(i, e)) \notin Walls \union (people \ {p})}

\* Whoever is nearest to the scanner, not to the robot.
NearestSeen(people) ==
    {p \in Seen(people) : \A q \in Seen(people) :
        Squared(Minus(p, Laser.at)) <= Squared(Minus(q, Laser.at))}

Moved == Minus(robot.at, asked.from.at)
InBase(v, given) == IF given = "TCP" THEN Rotate(asked.from.rotation, v) ELSE v

AfterACycle == pc = "compute" /\ asked.what.kind # "nothing"

\* Whichever frame a program gives its values in, and however the head has turned
\* since, one cycle takes the control point where the generator's meaning says in the
\* base frame: with the velocity or acceleration given, where the hand pushes, to the
\* target of a stiffness, on the line to an attractive object and towards it, away
\* from a repulsive one unless that is beyond its threshold, and not at all when the
\* operator that the scanner sees first is in reach.
MovesAsAsked ==
    AfterACycle =>
        CASE asked.what.kind = "proxy" -> Moved = InBase(asked.what.by, frame)
          [] asked.what.kind = "mass" -> Moved = InBase(asked.what.by, asked.what.in)
          [] asked.what.kind = "force" ->
                 Moved = InBase(Deadband(asked.what.threshold, asked.from.force), "TCP")
          [] asked.what.kind = "stiffness" -> robot.at = asked.what.target
          [] asked.what.kind \in {"Attractive", "Repulsive"} ->
                 LET point == Add(asked.from.at, Rotate(asked.from.rotation, Offset))
                     way == Minus(asked.what.at, point)
                 IN  /\ Moved[1] * way[2] = Moved[2] * way[1]
                     /\ IF asked.what.kind = "Attractive" /\ way # Null
                        THEN Moved[1] * way[1] + Moved[2] * way[2] > 0
                        ELSE IF way # Null /\ Squared(way) < 9
                        THEN Moved[1] * way[1] + Moved[2] * way[2] < 0
                        ELSE Moved = Null
          [] asked.what.kind = "null_space" -> Moved = Null
          [] asked.what.kind = "joints" -> Moved = Jacobian(asked.what.by)
          [] asked.what.kind = "operator" ->
                 Moved = IF \E p \in NearestSeen(asked.what.people) :
                                Squared(Minus(p, asked.from.at)) <= Reach * Reach
                         THEN Null ELSE InBase(asked.what.by, frame)
          [] OTHER -> TRUE

\* An axis that force control was given and is given no longer comes to rest, whatever
\* ran in between and whatever happens on the other axis: its velocity is bounded by the
\* largest error seen while it was selected, nothing that is measured on it afterwards
\* adds to it, and from one run to the next it fades as the filter does, at once without
\* a filter.  An axis that was never selected does not move.
DeselectedAxisFades ==
    AfterACycle /\ asked.what.kind = "force_control" =>
        LET along == IF frame = "TCP" THEN RotateBack(asked.from.rotation, Moved) ELSE Moved
            n == asked.what.divisor
            before == asked.what.before
        IN  \A i \in {j \in 1 .. 2 : asked.what.selection[j] = 0} :
                /\ n * Size(along[i]) <= Size((n - 1) * Gains.p[i] - Gains.d[i]) * before.largest[i]
                /\ before.selection[i] = 0 => n * along[i] = (n - 1) * before.velocity[i]

\* Odometry: what the derivator says was the motion of the last cycle (nothing, when
\* it was reset), and the integral of that is where the control point is.
OdometryAgrees ==
    pc = "compute" => /\ integrator.output = robot.at
                      /\ AfterACycle => derivator.output \in {Null, Moved}
=============================================================================
