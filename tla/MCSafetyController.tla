------------------------- MODULE MCSafetyController -------------------------
(***************************************************************************)
(* Instances of SafetyController for TLC: constraint objects, generator    *)
(* outputs and situations of each run.                                     *)
(***************************************************************************)
EXTENDS SafetyController

MCJoints == {1, 2}

Velocity     == [kind |-> "velocity", maximum |-> One]
Acceleration == [kind |-> "acceleration", maximum |-> One]
JointLimit   == [kind |-> "joint_velocity", maximum |-> <<One, <<1, 2>>>>]
JointAcc     == [kind |-> "joint_acceleration", maximum |-> <<One, One>>]
Power        == [kind |-> "power", maximum |-> R(2)]
Energy       == [kind |-> "kinetic_energy", mass |-> 2, maximum |-> 4]
Separation   == [kind |-> "separation", from |-> [x |-> One, y |-> Zero],
                 to |-> [x |-> R(3), y |-> R(2)], saturation |-> TRUE]
Stop         == [kind |-> "emergency_stop", activation |-> 3, deactivation |-> 1]

SituationOf(j, frame, force, objects) ==
    [jacobian |-> j, frame |-> frame, extForce |-> R(force), objects |-> objects]

Plain   == [skip |-> FALSE, dynamic_dls |-> FALSE, lambda2 |-> -1, sigma_min_threshold2 |-> -1]
Damped  == [Plain EXCEPT !.lambda2 = 2]
Dynamic == [Plain EXCEPT !.lambda2 = 2, !.dynamic_dls = TRUE, !.sigma_min_threshold2 = 3]

-----------------------------------------------------------------------------
(* A first setup: every class of constraint, two at a time, over one control cycle *)
(* or two, with pushing and pulling inputs at both levels.                  *)

LimitObjects    == {Velocity, JointLimit, Power, Energy, Separation, Stop}
LimitOutputs    == [k \in GeneratorKinds |->
                      CASE k = "force"          -> {-4, 6}
                        [] k = "torque"         -> {<<2, -4>>}
                        [] k = "velocity"       -> {3}
                        [] k = "joint_velocity" -> {<<-3, 1>>}]
LimitSituations == { SituationOf(<<1, 1>>, 1, -2, {R(2), R(3)}), SituationOf(<<1, 1>>, -1, 3, {}),
                     SituationOf(<<1, -1>>, 1, 2, {<<1, 2>>, R(4)}), SituationOf(<<0, 0>>, 1, 0, {R(4)}) }
PlainModes      == {Plain}
-----------------------------------------------------------------------------
(* A second: the constraints that look at the previous cycle, over several    *)
(* cycles, the force crossing the band of the emergency stop both ways, the *)
(* inverse of the Jacobian computed in every way.                           *)

MemoryObjects    == {Acceleration, JointAcc, Stop, Velocity}
MemoryOutputs    == [k \in GeneratorKinds |->
                       CASE k = "force"          -> {6}
                         [] k = "torque"         -> {<<4, 2>>}
                         [] k = "velocity"       -> {-2}
                         [] k = "joint_velocity" -> {<<2, -1>>, <<3, 3>>}]
MemorySituations == { SituationOf(<<1, 1>>, 1, force, {}) : force \in {0, 2, -3} }
                    \union { SituationOf(<<2, 0>>, 1, 0, {}) }

AllModes         == {Plain, Damped, Dynamic, [Plain EXCEPT !.skip = TRUE]}

-----------------------------------------------------------------------------

Limits == [names |-> {"a", "b"}, objects |-> LimitObjects, outputs |-> LimitOutputs,
           situations |-> LimitSituations, modes |-> PlainModes, cycles |-> 2, operations |-> 3]
Cycles == [names |-> {"a"}, objects |-> MemoryObjects, outputs |-> MemoryOutputs,
           situations |-> MemorySituations, modes |-> AllModes, cycles |-> 3, operations |-> 2]

BothSetups  == {Limits, Cycles}
MemorySetup == {[Cycles EXCEPT !.outputs = LimitOutputs, !.modes = PlainModes, !.cycles = 1]}
=============================================================================
