-------------------------- MODULE SafetyController --------------------------
(***************************************************************************)
(* phri::SafetyController: the registries of constraints and generators    *)
(* and compute(), which sums the generators, maps the sums through the     *)
(* Jacobian and its inverse and scales the result by the least value of    *)
(* the constraints.                                                        *)
(*                                                                         *)
(* The robot has one control-point axis and Len(jacobian) joints.  Numbers *)
(* are fractions; the rotation of the control point frame is +1 or -1.     *)
(***************************************************************************)
EXTENDS Constraints, ObjectCollection, Sequences, FiniteSets, Folds

CONSTANTS
    Setups,             \* what may be built around a controller: records, see below
    GeneratorNames,     \* names the applications use for their generators
    Joints,             \* 1 .. number of joints
    CpDamping,          \* control_point_damping_matrix_ (one axis)
    JointDamping,       \* joint_damping_matrix_, the same for every joint
    SampleTime          \* sample time of the acceleration constraints

GeneratorKinds == {"force", "torque", "velocity", "joint_velocity"}

DefaultName == "default constraint"

NotNegative == {x \in Rat : RLeq(Zero, x)}
Point       == [x : Rat, y : NotNegative]
Whole       == {x \in Rat : x[2] = 1}

\* Constraint objects with limits that can be kept.  The square root a kinetic energy
\* asks for exists; a separation distance has an interpolator that saturates.
ConstraintObject ==
    [kind : {"velocity", "acceleration"}, maximum : Rat]
    \union [kind : {"joint_velocity", "joint_acceleration"}, maximum : [Joints -> NotNegative]]
    \union [kind : {"power"}, maximum : NotNegative]
    \union { c \in [kind : {"kinetic_energy"}, mass : Nat \ {0}, maximum : Nat] :
                \E n \in 0 .. c.maximum : c.mass * (n * n) = 2 * c.maximum }
    \union { c \in [kind : {"separation"}, from : Point, to : Point, saturation : {TRUE}] :
                RLt(c.from.x, c.to.x) }
    \union [kind : {"emergency_stop"}, activation : Int, deactivation : Int]

Situation == [jacobian : [Joints -> Int], frame : {1, -1}, extForce : Whole, objects : SUBSET Rat]

Mode == [skip : BOOLEAN, dynamic_dls : BOOLEAN, lambda2 : Int, sigma_min_threshold2 : Int \ {0}]

ASSUME SetupsAssumption ==
    \A s \in Setups : /\ s.cycles \in Nat /\ s.operations \in Nat
                      /\ DefaultName \notin s.names /\ IsFiniteSet(s.names)
                      /\ s.objects \subseteq ConstraintObject
                      /\ \A k \in {"force", "velocity"} : s.outputs[k] \subseteq Int
                      /\ \A k \in {"torque", "joint_velocity"} :
                            s.outputs[k] \subseteq [Joints -> Int]
                      /\ s.situations \subseteq Situation
                      /\ \A x \in s.situations : IsFiniteSet(x.objects)
                      /\ s.modes \subseteq Mode

\* More joints than axes: the inverse of a square Jacobian divides by zero at a singularity.
ASSUME JointsAssumption ==
    /\ IsFiniteSet(Joints) /\ Cardinality(Joints) > 1 /\ Joints = 1 .. Cardinality(Joints)
    /\ IsFiniteSet(GeneratorNames)
    /\ SampleTime \in NotNegative

ASSUME DampingAssumption ==
    /\ CpDamping \in Nat \ {0}
    /\ JointDamping \in Nat \ {0}

VARIABLES
    setup,          \* the application, one of Setups
    constraints,    \* constraints_: name -> [object, last_value]
    generators,     \* kind -> (name -> has last_value been computed?)
    robot,          \* the Robot object the controller shares with everyone
    previous,       \* previous_constraint_value_ of every emergency stop object
    mode,           \* skip_jacobian_inverse_computation_, dynamic_dls_, lambda2_, ...
    result,         \* what the last call returned, threw or caused
    cycles, operations

vars == <<setup, constraints, generators, robot, previous, mode, result, cycles, operations>>

ConstraintNames   == setup.names        \* names of the application, the default's excepted
ConstraintObjects == setup.objects      \* its constraint objects: records with a field kind
Outputs           == setup.outputs      \* kind of generator -> what its compute() may return
Situations        == setup.situations   \* what the driver and forward kinematics may report
Modes             == setup.modes        \* the inverse its configuration or its calls ask for
MaxCycles         == setup.cycles       \* bound: number of calls of compute()
MaxOperations     == setup.operations   \* bound: number of calls changing a registry

EmergencyStops == { c \in ConstraintObjects : c.kind = "emergency_stop" }
Default        == [kind |-> "default"]
Still          == [i \in Joints |-> Zero]

Sum(f)          == FoldFunction(+, 0, f)
JointSum(f)     == [i \in Joints |-> Sum([n \in DOMAIN f |-> f[n][i]])]
Dot(row, joint) == LET term == [i \in Joints |-> RMul(R(row[i]), joint[i])]
                   IN  FoldFunction(RAdd, Zero, term)

-----------------------------------------------------------------------------
(* computeJacobianInverse: the inverse of a square Jacobian whatever the    *)
(* mode; otherwise damped least squares when lambda2_ > 0, with a damping   *)
(* that vanishes above the threshold in dynamic mode; otherwise the         *)
(* pseudo-inverse.  The Jacobian has one row, hence one singular value.     *)

\* The square of the singular value.
Sigma2(jacobian) == Sum([i \in Joints |-> jacobian[i] * jacobian[i]])

DampingTerm(sigma2) ==
    IF ~mode.dynamic_dls THEN R(mode.lambda2)
    ELSE IF sigma2 > mode.sigma_min_threshold2 THEN Zero
    ELSE RMul(R(mode.lambda2), RSub(One, Frac(sigma2, mode.sigma_min_threshold2)))

\* Mutant: dynamic damping that does not look at its threshold.
UnguardedDamping(jacobian) ==
    LET sigma2 == Sigma2(jacobian)
        factor == IF mode.dynamic_dls
                  THEN RSub(One, Frac(sigma2, mode.sigma_min_threshold2)) ELSE One
        damped == IF mode.lambda2 > 0
                  THEN RAdd(R(sigma2), RMul(R(mode.lambda2), factor)) ELSE R(sigma2)
    IN  [i \in Joints |-> IF damped = Zero THEN Zero ELSE RDiv(R(jacobian[i]), damped)]

ComputeJacobianInverse(jacobian) ==
    LET sigma2 == Sigma2(jacobian)
        damped == IF mode.lambda2 > 0 THEN RAdd(R(sigma2), DampingTerm(sigma2))
                                      ELSE R(sigma2)
    IN  [i \in Joints |->
            IF Len(jacobian) = 1 THEN RDiv(One, R(jacobian[1]))
            ELSE IF damped = Zero THEN Zero
            ELSE RDiv(R(jacobian[i]), damped)]

ConstraintValue(c, rob, latch) ==
    CASE c.kind = "default"            -> DefaultConstraint
      [] c.kind = "velocity"           -> VelocityConstraint(rob, c.maximum)
      [] c.kind = "acceleration"       -> AccelerationConstraint(rob, c.maximum, SampleTime)
      [] c.kind = "joint_velocity"     -> JointVelocityConstraint(rob, c.maximum)
      [] c.kind = "joint_acceleration" -> JointAccelerationConstraint(rob, c.maximum, SampleTime)
      [] c.kind = "power"              -> PowerConstraint(rob, c.maximum)
      [] c.kind = "kinetic_energy"     -> KineticEnergyConstraint(rob, c.mass, c.maximum)
      [] c.kind = "separation"         ->
            SeparationDistanceConstraint(rob, c.from, c.to, c.saturation)
      [] c.kind = "emergency_stop"     -> R(latch[c])

\* The channels of the emergency stops are evaluated on the measured force.
StopValue(c, rob) ==
    EmergencyStopValue(
        [force |-> StopChannel(AbsInt(rob.extForce[1]), c.activation, c.deactivation, previous[c])])

\* computeConstraintValue: min(1, the least value), 1 without constraints.
ScalingFactor(values) == RMin({One} \union values)

-----------------------------------------------------------------------------
Init ==
    /\ setup \in Setups
    /\ constraints = Add(EmptyCollection, DefaultName,
                         [object |-> Default, last_value |-> Zero], FALSE)
    /\ generators = [k \in GeneratorKinds |-> EmptyCollection]
    /\ robot = [ jacobian |-> [i \in Joints |-> 0], jacobianInverse |-> Still,
                 frame |-> 1, extForce |-> Zero, objects |-> {},
                 jointTotal |-> Still, jointVel |-> Still,
                 cpTotal |-> Zero, cpVel |-> Zero, scaling |-> Zero ]
    /\ previous = [c \in EmergencyStops |-> 1]
    /\ mode \in Modes
    /\ result = "none"
    /\ cycles = 0
    /\ operations = 0

Running == result # "crash"

CountOperation ==
    /\ Running
    /\ operations < MaxOperations
    /\ operations' = operations + 1
    /\ UNCHANGED <<setup, robot, previous, mode, cycles>>

AddConstraint(name, c, force) ==
    /\ CountOperation
    /\ constraints' = Add(constraints, name, [object |-> c, last_value |-> Zero], force)
    /\ result' = AddResult(constraints, name, force)
    /\ UNCHANGED generators

RemoveConstraint(name) ==
    /\ CountOperation
    /\ constraints' = Remove(constraints, name)
    /\ result' = RemoveResult(constraints, name)
    /\ UNCHANGED generators

AddGenerator(kind, name, force) ==
    /\ CountOperation
    /\ generators' = [generators EXCEPT ![kind] = Add(@, name, FALSE, force)]
    /\ result' = AddResult(generators[kind], name, force)
    /\ UNCHANGED constraints

RemoveGenerator(kind, name) ==
    /\ CountOperation
    /\ generators' = [generators EXCEPT ![kind] = Remove(@, name)]
    /\ result' = RemoveResult(generators[kind], name)
    /\ UNCHANGED constraints

RemoveAllConstraints ==
    /\ CountOperation
    /\ \E o \in RemoveAllOutcomes(constraints) :
          constraints' = o.items /\ result' = o.result
    /\ UNCHANGED generators

RemoveAllInputs(kind) ==
    /\ CountOperation
    /\ \E o \in RemoveAllOutcomes(generators[kind]) :
          /\ generators' = [generators EXCEPT ![kind] = o.items]
          /\ result' = o.result
    /\ UNCHANGED constraints

\* removeAll: the five collections one after the other.
RemoveAll ==
    /\ CountOperation
    /\ \E c \in RemoveAllOutcomes(constraints),
          g \in { h \in [GeneratorKinds ->
                             UNION { RemoveAllOutcomes(generators[k]) : k \in GeneratorKinds }] :
                    \A k \in GeneratorKinds : h[k] \in RemoveAllOutcomes(generators[k]) } :
          /\ constraints' = c.items
          /\ generators' = [k \in GeneratorKinds |-> g[k].items]
          /\ result' = IF "crash" \in {c.result} \union { g[k].result : k \in GeneratorKinds }
                       THEN "crash" ELSE "true"

\* The driver's read and RobotModel::forwardKinematics refresh the inputs.
UpdateRobotState(s) ==
    /\ Running
    /\ robot' = [robot EXCEPT !.jacobian = s.jacobian, !.frame = s.frame,
                              !.extForce = s.extForce, !.objects = s.objects]
    /\ UNCHANGED <<setup, constraints, generators, previous, mode, result, cycles, operations>>

\* The command sums with the generators' outputs, and the totals they make.
TotalsWith(f, t, v, q) ==
    LET inverse  == IF mode.skip THEN robot.jacobianInverse
                                 ELSE ComputeJacobianInverse(robot.jacobian)
        jointCmd == [i \in Joints |-> RAdd(Frac(JointSum(t)[i], JointDamping), R(JointSum(q)[i]))]
        cpCmd    == RAdd(Frac(Sum(f), CpDamping), R(Sum(v)))
    IN  [robot EXCEPT
            !.jacobianInverse = inverse,
            !.jointTotal = [i \in Joints |->
                RAdd(RMul(inverse[i], RMul(R(robot.frame), cpCmd)), jointCmd[i])],
            !.cpTotal = RAdd(cpCmd, RMul(R(robot.frame), Dot(robot.jacobian, jointCmd)))]

Compute ==
    /\ Running
    /\ cycles < MaxCycles
    /\ \E f \in [DOMAIN generators["force"] -> Outputs["force"]],
          t \in [DOMAIN generators["torque"] -> Outputs["torque"]],
          v \in [DOMAIN generators["velocity"] -> Outputs["velocity"]],
          q \in [DOMAIN generators["joint_velocity"] -> Outputs["joint_velocity"]] :
         LET rob     == TotalsWith(f, t, v, q)
             latch   == [c \in EmergencyStops |->
                            IF \E n \in DOMAIN constraints : constraints[n].object = c
                            THEN StopValue(c, rob) ELSE previous[c]]
             value   == [n \in DOMAIN constraints |->
                            ConstraintValue(constraints[n].object, rob, latch)]
             scaling == ScalingFactor({ value[n] : n \in DOMAIN value })
         IN  /\ robot' = [rob EXCEPT
                    !.scaling  = scaling,
                    !.jointVel = [i \in Joints |-> RMul(scaling, rob.jointTotal[i])],
                    !.cpVel    = RMul(scaling, rob.cpTotal)]
             /\ constraints' = [n \in DOMAIN constraints |->
                    [constraints[n] EXCEPT !.last_value = value[n]]]
             /\ previous' = latch
    /\ generators' = [k \in GeneratorKinds |-> [n \in DOMAIN generators[k] |-> TRUE]]
    /\ result' = "computed"
    /\ cycles' = cycles + 1
    /\ UNCHANGED <<setup, mode, operations>>

\* enableDampedLeastSquares, enableDynamicDampedLeastSquares and
\* skipJacobianInverseComputation, with the arguments the application uses.
SetMode(m) ==
    /\ Running
    /\ mode' = m
    /\ UNCHANGED <<setup, constraints, generators, robot, previous, result, cycles, operations>>

Next ==
    \/ \E n \in ConstraintNames, c \in ConstraintObjects, force \in BOOLEAN :
          AddConstraint(n, c, force)
    \/ \E n \in ConstraintNames \union {DefaultName} : RemoveConstraint(n)
    \/ \E k \in GeneratorKinds, n \in GeneratorNames, force \in BOOLEAN : AddGenerator(k, n, force)
    \/ \E k \in GeneratorKinds, n \in GeneratorNames : RemoveGenerator(k, n)
    \/ RemoveAllConstraints
    \/ \E k \in GeneratorKinds : RemoveAllInputs(k)
    \/ RemoveAll
    \/ \E s \in Situations : UpdateRobotState(s)
    \/ \E m \in Modes : SetMode(m)
    \/ Compute

Spec == Init /\ [][Next]_vars

-----------------------------------------------------------------------------
(* Properties                                                               *)

Robot ==
    [ jacobian : [Joints -> Int], jacobianInverse : [Joints -> Rat], frame : {1, -1},
      extForce : Whole, objects : SUBSET Rat, jointTotal : [Joints -> Rat],
      jointVel : [Joints -> Rat], cpTotal : Rat, cpVel : Rat, scaling : Rat ]

\* Registries hold the application's objects under its names, and all numbers are numbers.
TypeOK ==
    /\ setup \in Setups
    /\ DOMAIN constraints \subseteq ConstraintNames \union {DefaultName}
    /\ constraints \in [DOMAIN constraints ->
                         [object : ConstraintObjects \union {Default}, last_value : Rat]]
    /\ generators \in [GeneratorKinds -> UNION {[S -> BOOLEAN] : S \in SUBSET GeneratorNames}]
    /\ robot \in Robot /\ IsFiniteSet(robot.objects)
    /\ previous \in [EmergencyStops -> {0, 1}]
    /\ mode \in Modes
    /\ result \in {"none", "true", "false", "domain_error", "crash", "computed"}
    /\ cycles \in 0 .. MaxCycles /\ operations \in 0 .. MaxOperations

ComputeStep == cycles' # cycles

\* The velocity the joint motion gives the control point, in its frame.
Executed(rob) == RMul(R(rob.frame), Dot(rob.jacobian, rob.jointVel))

\* No damping was asked for, or the dynamic one of a Jacobian above its threshold.
Undamped(jacobian) ==
    mode.lambda2 <= 0 \/ (mode.dynamic_dls /\ Sigma2(jacobian) > mode.sigma_min_threshold2)

PlainInverse == ~mode.skip /\ Undamped(robot.jacobian)

\* What constraint object c promises of the motion v of the control point and
\* of the joints in `after`, given the state `before` the cycle.
Promise(c, before, after, v) ==
    CASE c.kind = "default"        -> TRUE
      [] c.kind = "velocity"       -> RLeq(RAbs(v), RAbs(c.maximum))
      [] c.kind = "acceleration"   ->
            RLeq(RAbs(v), RAdd(RAbs(before.cpVel), RMul(RAbs(c.maximum), SampleTime)))
      [] c.kind = "joint_velocity" ->
            \A i \in Joints : RLeq(RAbs(after.jointVel[i]), c.maximum[i])
      [] c.kind = "joint_acceleration" ->
            \A i \in Joints :
                \/ RLt(after.jointVel[i], NegligibleSpeed)
                \/ RLeq(after.jointVel[i],
                        RAdd(RAbs(before.jointVel[i]), RMul(c.maximum[i], SampleTime)))
      [] c.kind = "power"          -> RLeq(RNeg(RMul(after.extForce, v)), c.maximum)
      [] c.kind = "kinetic_energy" -> RLeq(RMul(R(c.mass), RMul(v, v)), R(2 * c.maximum))
      [] c.kind = "separation"     ->
            RLeq(RAbs(v), LinearInterpolation(c.from, c.to, c.saturation,
                                              ClosestObjectDistance(after.objects)))
      [] c.kind = "emergency_stop" ->
            (\/ AbsInt(after.extForce[1]) >= c.activation
             \/ previous[c] = 0 /\ AbsInt(after.extForce[1]) > c.deactivation)
                => after.jointVel = Still /\ v = Zero

\* After compute(), the control point velocity the controller publishes and the
\* joint velocities it commands keep the promise of every constraint that was
\* registered, all of them at once: a limit is not lost when another one
\* scales the motion, and an emergency stop holds until its own release.
EveryPromiseKept ==
    [][ComputeStep => \A n \in DOMAIN constraints :
          Promise(constraints[n].object, robot, robot', robot'.cpVel)]_vars

\* With an inverse of this cycle that is not damped - dynamic damping is off above its
\* threshold - and a non-zero Jacobian, the velocity compute() publishes for the control point, which the constraints were checked
\* against, is the one the commanded joint motion produces.
PublishedVelocityIsExecuted ==
    [][ComputeStep /\ PlainInverse /\ (\E i \in Joints : robot.jacobian[i] # 0) =>
          robot'.cpVel = Executed(robot')]_vars

\* compute() slows the requested motion down; it never amplifies, reverses or
\* deflects it, whatever constraints are registered.
OnlySlowsDown ==
    [][ComputeStep =>
          /\ RLeq(Zero, robot'.scaling) /\ RLeq(robot'.scaling, One)
          /\ \A i \in Joints : robot'.jointVel[i] = RMul(robot'.scaling, robot'.jointTotal[i])
          /\ robot'.cpVel = RMul(robot'.scaling, robot'.cpTotal)]_vars

-----------------------------------------------------------------------------
(* A statement of the documentation that the code does not keep             *)

\* constraints/joint_acceleration_constraint.h: "A constraint to limit the joint
\* acceleration": no joint gains more speed in a cycle than the maximum allows.
JointAccelerationLimited ==
    [][ComputeStep => \A n \in DOMAIN constraints :
          constraints[n].object.kind = "joint_acceleration" =>
              \A i \in Joints :
                 RLeq(RAbs(robot'.jointVel[i]),
                      RAdd(RAbs(robot.jointVel[i]),
                           RMul(constraints[n].object.maximum[i], SampleTime)))]_vars
=============================================================================
