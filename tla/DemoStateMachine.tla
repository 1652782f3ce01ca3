-------------------------- MODULE DemoStateMachine --------------------------
(***************************************************************************)
(* The demo application: the teach and replay state machine of             *)
(* apps/demo/state_machine.cpp driving the registries of the safety        *)
(* controller, inside the control loop of apps/demo/main.cpp.              *)
(*                                                                         *)
(* One cycle is a read of the driver (time passes, the measurements        *)
(* change) and a control step: one handler of the state machine, then      *)
(* SafetyController::compute() on the registries the handler left.  The    *)
(* thread is alone, so a control step is atomic; SIGINT ends the loop      *)
(* between two cycles.                                                     *)
(***************************************************************************)
EXTENDS Naturals, Integers, Sequences

CONSTANTS
    MaxTaught,      \* bound: waypoints recorded while teaching
    TaughtPoses,    \* the poses of a demo started with teaching skipped
    Delays          \* durations a cycle may take, in time units

\* RECORD_WAYPOINT_WAIT, END_TEACH_WAIT and FORCE_DURATION, in time units.
RecordWaypointWait == 3
EndTeachWait       == 2 * RecordWaypointWait
ForceDuration      == 2

\* A wait longer than every one of them is as good as any other.
Long == EndTeachWait + 1

\* time_point::max(): the difference with the current time is negative.
Unset == -1

InitPose == 0

ASSUME BoundsAssumption ==
    /\ MaxTaught \in Nat
    /\ Delays \in SUBSET (Nat \ {0})

\* Waypoints are stored in pairs: one to reach, one to come back to after the
\* force control.  In s they alternate; `half` is 1 when the first one of s is
\* the second of its pair.
Paired(s, half) ==
    \A i \in 1 .. Len(s) - 1 : (i + half) % 2 = 1 => s[i] = s[i + 1] /\ s[i] # InitPose

ASSUME TaughtPosesAssumption ==
    /\ TaughtPoses \in Seq(Nat)
    /\ Len(TaughtPoses) % 2 = 0
    /\ Paired(TaughtPoses, 0)

VARIABLES
    constraints, forces, velocities,    \* names registered in the controller
    end_of_teach_, teach_state_, replay_state_,
    waypoints_,                         \* list of poses
    force_control_at_next_wp_, is_force_ok_,
    age,            \* current time - last_time_point_, at most Long, or Unset
    latch,          \* previous_constraint_value_ of the registered emergency stop
    sensors,        \* what driver.read() and the trajectory report
    status,         \* "read", "control": running; "ended"; "exception"
    reached,        \* history: the waypoint reached last
    held,           \* history: time since the first sample of the last run of
                    \* samples with the contact force on target, Unset once two
                    \* samples in a row are off target
    gap             \* history: time since the last control step

registries == <<constraints, forces, velocities>>
teaching   == <<end_of_teach_, teach_state_>>
plan       == <<waypoints_, force_control_at_next_wp_, reached>>
forceCheck == <<is_force_ok_, held>>
vars == <<registries, teaching, replay_state_, plan, forceCheck, age, latch, sensors, status, gap>>

(* What a cycle measures: `moving` is a control point velocity above        *)
(* VELOCITY_MOTION_THRESHOLD; `force` places the external force below the    *)
(* deactivation threshold of the emergency stop (1 N), above its activation  *)
(* threshold (10 N) or between; `onTarget` is a contact force within 10% of  *)
(* FORCE_TARGET, well above 1 N; `arrived` is a finished trajectory with the *)
(* control point less than a millimetre from its target.                     *)
Sensors == { s \in [moving : BOOLEAN, force : {"calm", "band", "over"},
                    onTarget : BOOLEAN, arrived : BOOLEAN] :
               s.onTarget => s.force # "calm" }

\* The measurements the running part of the state machine looks at.
Relevant(s) == IF end_of_teach_ THEN ~s.moving
               ELSE /\ s.force = "calm" /\ ~s.arrived
                    /\ s.moving => Len(waypoints_) < 2 * MaxTaught

Quiet == [moving |-> FALSE, force |-> "calm", onTarget |-> FALSE, arrived |-> FALSE]

TeachStates  == {"Init", "WaitForMotion", "Motion", "End"}
ReplayStates == {"Init", "SetupTrajectory", "ReachingWaypoint", "ForceControlInit",
                 "ForceControl", "ForceControlEnd", "End"}

TeachConstraints == {"velocity constraint"}
ForceConstraints == {"force control vlim", "force control alim"}
ReplayForces     == {"stiffness", "potential field"}

Init ==
    /\ constraints = {"default constraint"}
    /\ forces = {}
    /\ velocities = {}
    /\ end_of_teach_ = FALSE
    /\ \/ teach_state_ = "Init" /\ waypoints_ = <<>>
       \/ teach_state_ = "End"  /\ waypoints_ = TaughtPoses
    /\ replay_state_ = "Init"
    /\ force_control_at_next_wp_ = TRUE
    /\ is_force_ok_ = FALSE
    /\ age = Long
    /\ latch = 1
    /\ sensors = Quiet
    /\ status = "read"
    /\ reached = InitPose
    /\ held = Unset
    /\ gap = 0

-----------------------------------------------------------------------------
(* The control loop                                                         *)

Later(t, d) == IF t = Unset THEN Unset ELSE IF t + d > Long THEN Long ELSE t + d

TimePasses(d) ==
    /\ age' = Later(age, d)
    /\ held' = Later(held, d)
    /\ gap' = Later(gap, d)

\* driver.read() succeeds; the time since last_time_point_ is dt for this cycle.
Read ==
    /\ status = "read"
    /\ \E s \in Sensors, d \in Delays :
          /\ Relevant(s)
          /\ sensors' = s
          /\ TimePasses(d)
    /\ status' = "control"
    /\ UNCHANGED <<registries, teaching, replay_state_, plan, is_force_ok_, latch>>

\* driver.read() fails: the cycle is skipped, time passes.
ReadFails ==
    /\ status = "read"
    /\ \E d \in Delays : TimePasses(d)
    /\ UNCHANGED <<registries, teaching, replay_state_, plan, is_force_ok_, latch, sensors, status>>

\* SIGINT sets _stop, which both loops of main() test.
Interrupt ==
    /\ status = "read"
    /\ status' = "ended"
    /\ UNCHANGED <<registries, teaching, replay_state_, plan, forceCheck, age, latch, sensors, gap>>

\* SafetyController::compute() on the registries the handler left: the emergency
\* stop, when it is there, updates its latch from the measured force; a new
\* object starts with the latch open.
\* Mutant: the stop has no memory.
MemorylessStop == latch' = IF "emergency stop" \in constraints' /\ sensors.force = "over" THEN 0 ELSE 1

ControllerCompute ==
    latch' = IF "emergency stop" \notin constraints' THEN 1
             ELSE IF sensors.force = "over" THEN 0
             ELSE IF sensors.force = "calm" THEN 1
             ELSE IF "emergency stop" \in constraints THEN latch ELSE 1

\* A handler runs to its end, then the controller; removing an absent name
\* throws out of compute() and out of main().
Completes == status' = "read" /\ ControllerCompute /\ gap' = 0
Throws    == status' = "exception" /\ UNCHANGED <<latch, gap>>

InTeach(state)  == status = "control" /\ ~end_of_teach_ /\ teach_state_ = state
InReplay(state) == status = "control" /\ end_of_teach_ /\ replay_state_ = state

-----------------------------------------------------------------------------
(* Teaching                                                                 *)

TeachInit ==
    /\ InTeach("Init")
    /\ constraints' = constraints \union TeachConstraints
    /\ forces' = forces \union {"ext force proxy"}
    /\ waypoints_' = <<>>
    /\ age' = Unset
    /\ teach_state_' = "WaitForMotion"
    /\ UNCHANGED <<velocities, end_of_teach_, replay_state_, force_control_at_next_wp_,
                   reached, forceCheck, sensors>>
    /\ Completes

\* Mutant: the clock restarts at every look.
RestartedWait ==
    /\ InTeach("WaitForMotion")
    /\ teach_state_' = IF sensors.moving THEN "Motion"
                       ELSE IF age > EndTeachWait THEN "End"
                       ELSE "WaitForMotion"
    /\ age' = 0
    /\ UNCHANGED <<registries, end_of_teach_, replay_state_, plan, forceCheck, sensors>>
    /\ Completes

\* last_time_point_ is not refreshed on the way to Motion.
TeachWaitForMotion ==
    /\ InTeach("WaitForMotion")
    /\ teach_state_' = IF sensors.moving THEN "Motion"
                       ELSE IF age > EndTeachWait THEN "End"
                       ELSE "WaitForMotion"
    /\ UNCHANGED <<registries, end_of_teach_, replay_state_, plan, forceCheck, age, sensors>>
    /\ Completes

RecordWaypoint(pose) == waypoints_' = waypoints_ \o <<pose, pose>>

TeachMotion ==
    /\ InTeach("Motion")
    /\ \/ /\ sensors.moving
          /\ age' = 0
          /\ UNCHANGED <<teach_state_, waypoints_>>
       \/ /\ ~sensors.moving
          /\ age > RecordWaypointWait
          /\ RecordWaypoint(Len(waypoints_) \div 2 + 1)
          /\ teach_state_' = "WaitForMotion"
          /\ UNCHANGED age
       \/ /\ ~sensors.moving
          /\ age <= RecordWaypointWait
          /\ UNCHANGED <<teach_state_, waypoints_, age>>
    /\ UNCHANGED <<registries, end_of_teach_, replay_state_, force_control_at_next_wp_,
                   reached, forceCheck, sensors>>
    /\ Completes

\* The robot finishes at its initial pose.
InitPoseLast  == waypoints_' = Append(waypoints_, InitPose)

\* The exception of a skipped teaching is caught; the second removal is then
\* skipped as well.
TeachEnd ==
    /\ InTeach("End")
    /\ constraints' = constraints \ TeachConstraints
    /\ forces' = IF TeachConstraints \subseteq constraints
                 THEN forces \ {"ext force proxy"} ELSE forces
    /\ InitPoseLast
    /\ end_of_teach_' = TRUE
    /\ UNCHANGED <<velocities, teach_state_, replay_state_, force_control_at_next_wp_,
                   reached, forceCheck, age, sensors>>
    /\ Completes

-----------------------------------------------------------------------------
(* Replay                                                                   *)

ReplayInit ==
    /\ InReplay("Init")
    /\ forces' = forces \union ReplayForces
    /\ velocities' = velocities \union {"traj vel"}
    /\ constraints' = constraints \union {"sep dist cstr"}
    /\ replay_state_' = "SetupTrajectory"
    /\ UNCHANGED <<teaching, plan, forceCheck, age, sensors>>
    /\ Completes

\* The emergency stop guards the way to the next force control.  Mutant: it
\* guards the way back.
GuardedWayBack == ~force_control_at_next_wp_
GuardedWay     == force_control_at_next_wp_

SetupTrajectory ==
    /\ InReplay("SetupTrajectory")
    /\ constraints' = IF GuardedWay
                      THEN constraints \union {"emergency stop"} ELSE constraints
    /\ replay_state_' = IF waypoints_ = <<>> THEN "End" ELSE "ReachingWaypoint"
    /\ UNCHANGED <<forces, velocities, teaching, plan, forceCheck, age, sensors>>
    /\ Completes

\* What follows the waypoint just reached.  Mutant: the flag changes first.
ToggledFirst ==
    /\ force_control_at_next_wp_' = ~force_control_at_next_wp_
    /\ replay_state_' = IF force_control_at_next_wp_' THEN "ForceControlInit" ELSE "SetupTrajectory"

NextTask ==
    /\ replay_state_' = IF force_control_at_next_wp_ THEN "ForceControlInit" ELSE "SetupTrajectory"
    /\ force_control_at_next_wp_' = ~force_control_at_next_wp_

ReachingWaypoint ==
    /\ InReplay("ReachingWaypoint")
    /\ IF sensors.arrived
       THEN /\ waypoints_' = Tail(waypoints_)
            /\ reached' = Head(waypoints_)
            /\ IF Len(waypoints_) > 1
               THEN NextTask
               ELSE /\ replay_state_' = "End"
                    /\ UNCHANGED force_control_at_next_wp_
       ELSE UNCHANGED <<replay_state_, plan>>
    /\ UNCHANGED <<registries, teaching, forceCheck, age, sensors>>
    /\ Completes

ForceControlInit ==
    /\ InReplay("ForceControlInit")
    /\ IF "emergency stop" \in constraints
       THEN /\ constraints' = (constraints \ {"emergency stop"}) \union ForceConstraints
            /\ velocities' = velocities \union {"force control"}
            /\ age' = 0
            /\ is_force_ok_' = FALSE
            /\ held' = Unset
            /\ replay_state_' = "ForceControl"
            /\ Completes
       ELSE /\ Throws
            /\ UNCHANGED <<constraints, velocities, age, forceCheck, replay_state_>>
    /\ UNCHANGED <<forces, teaching, plan, sensors>>

\* last_time_point_ follows the clock until the force is on target.  Mutants:
\* it never does; it always does.
NeverRefreshed  == age' = age
AlwaysRefreshed == age' = 0
RefreshTimePoint == age' = IF is_force_ok_ THEN age ELSE 0

\* dt was taken before last_time_point_ is refreshed, and the refresh looks at
\* the sample of the previous cycle.
ForceControl ==
    /\ InReplay("ForceControl")
    /\ RefreshTimePoint
    /\ is_force_ok_' = sensors.onTarget
    /\ held' = IF is_force_ok_ /\ held # Unset THEN held
               ELSE IF sensors.onTarget THEN 0 ELSE Unset
    /\ replay_state_' = IF age > ForceDuration THEN "ForceControlEnd" ELSE "ForceControl"
    /\ UNCHANGED <<registries, teaching, plan, sensors>>
    /\ Completes

\* Mutant: one of the limits is left behind.
LimitLeft ==
    /\ constraints' = constraints \ {"force control vlim"}
    /\ velocities' = velocities \ {"force control"}

RemoveForceControl ==
    /\ constraints' = constraints \ ForceConstraints
    /\ velocities' = velocities \ {"force control"}

ForceControlEnd ==
    /\ InReplay("ForceControlEnd")
    /\ IF ForceConstraints \subseteq constraints /\ "force control" \in velocities
       THEN /\ RemoveForceControl
            /\ replay_state_' = "SetupTrajectory"
            /\ Completes
       ELSE /\ Throws
            /\ UNCHANGED <<constraints, velocities, replay_state_>>
    /\ UNCHANGED <<forces, teaching, plan, forceCheck, age, sensors>>

\* The last control step: compute() returns true, the controller runs once more
\* and the loop of main() ends.
ReplayEnd ==
    /\ InReplay("End")
    /\ IF ReplayForces \subseteq forces /\ "sep dist cstr" \in constraints
       THEN /\ forces' = forces \ ReplayForces
            /\ constraints' = constraints \ {"sep dist cstr"}
            /\ status' = "ended"
            /\ ControllerCompute
            /\ gap' = 0
       ELSE Throws /\ UNCHANGED <<forces, constraints>>
    /\ UNCHANGED <<velocities, teaching, replay_state_, plan, forceCheck, age, sensors>>

Teach  == TeachInit \/ TeachWaitForMotion \/ TeachMotion \/ TeachEnd
Replay == \/ ReplayInit \/ SetupTrajectory \/ ReachingWaypoint \/ ForceControlInit
          \/ ForceControl \/ ForceControlEnd \/ ReplayEnd
Next   == Read \/ ReadFails \/ Interrupt \/ Teach \/ Replay

Spec == Init /\ [][Next]_vars

\* The loop of main() runs on, and a driver that fails to read does not fail
\* for ever.
FairSpec == Spec /\ WF_vars(Read) /\ WF_vars(Teach \/ Replay)

-----------------------------------------------------------------------------
(* Properties                                                               *)

Names == {"default constraint", "velocity constraint", "sep dist cstr", "emergency stop",
          "force control vlim", "force control alim"}
Times == Nat \union {Unset}

\* The names, states and clocks of the state machine and of the controller.
TypeOK ==
    /\ constraints \subseteq Names
    /\ forces \subseteq ReplayForces \union {"ext force proxy"}
    /\ velocities \subseteq {"traj vel", "force control"}
    /\ end_of_teach_ \in BOOLEAN
    /\ teach_state_ \in TeachStates
    /\ replay_state_ \in ReplayStates
    /\ waypoints_ \in Seq(Nat)
    /\ force_control_at_next_wp_ \in BOOLEAN
    /\ is_force_ok_ \in BOOLEAN
    /\ age \in Times /\ held \in Times /\ gap \in Nat
    /\ latch \in {0, 1}
    /\ sensors \in Sensors
    /\ status \in {"read", "control", "ended", "exception"}
    /\ reached \in Nat

\* No handler removes from the controller a name that is not there: the
\* domain_error of ObjectCollection::remove never leaves StateMachine::compute.
NoUncaughtException == status # "exception"

\* While the robot follows a trajectory without an emergency stop, it is going
\* back to the waypoint it reached last, where it was controlling a force; on
\* the way to any other waypoint the emergency stop is registered.
UnguardedOnlyBackwards ==
    replay_state_ = "ReachingWaypoint" /\ "emergency stop" \notin constraints =>
        waypoints_ # <<>> /\ Head(waypoints_) = reached

\* Force is controlled only at a waypoint recorded while teaching, which is the
\* one the robot goes back to afterwards; never at the initial pose.
ForceOnlyAtTaughtPose ==
    replay_state_ \in {"ForceControlInit", "ForceControl", "ForceControlEnd"} =>
        reached # InitPose /\ waypoints_ # <<>> /\ Head(waypoints_) = reached

\* Every source of motion in the controller comes with the constraints that
\* limit it, as long as the control loop runs, and the force controller never
\* works against an emergency stop, whose thresholds its own contact exceeds.
MotionIsLimited ==
    status \in {"read", "control"} =>
        /\ "ext force proxy" \in forces => "velocity constraint" \in constraints
        /\ velocities # {} => "sep dist cstr" \in constraints
        /\ "force control" \in velocities =>
              ForceConstraints \subseteq constraints /\ "emergency stop" \notin constraints

\* A stop in force is dropped above the deactivation threshold in one place
\* only, where a waypoint has been reached and force control begins.
StopDroppedOnlyForForceControl ==
    [][latch = 0 /\ latch' = 1 /\ sensors.force # "calm" =>
          replay_state_ = "ForceControlInit"]_vars

\* Force control ends only when the contact force came on target more than
\* FORCE_DURATION ago and has not been off target for two samples since, or
\* after the control loop has stalled for that long.
ForceHeldOrStalled ==
    [][replay_state_ = "ForceControl" /\ replay_state_' = "ForceControlEnd" =>
          held > ForceDuration \/ gap > ForceDuration]_vars

\* The controller holds, in every state of the machine, exactly the constraints
\* and generators that state needs: nothing is left over from an earlier state
\* and nothing a handler will remove is missing.
Registered(cs, fs, vs) == constraints = cs /\ forces = fs /\ velocities = vs

InReplayWith(state, more) ==
    end_of_teach_ /\ replay_state_ = state =>
        Registered({"default constraint", "sep dist cstr"} \union more, ReplayForces, {"traj vel"})

RegistryMatchesState ==
    status \in {"read", "control"} =>
        /\ ~end_of_teach_ /\ teach_state_ = "Init" => Registered({"default constraint"}, {}, {})
        /\ ~end_of_teach_ /\ teach_state_ \in {"WaitForMotion", "Motion"} =>
              Registered({"default constraint", "velocity constraint"}, {"ext force proxy"}, {})
        /\ ~end_of_teach_ /\ teach_state_ = "End" =>
              \/ Registered({"default constraint"}, {}, {})
              \/ Registered({"default constraint", "velocity constraint"}, {"ext force proxy"}, {})
        /\ end_of_teach_ /\ replay_state_ = "Init" => Registered({"default constraint"}, {}, {})
        /\ InReplayWith("SetupTrajectory", {})
        /\ InReplayWith("ReachingWaypoint",
                        IF force_control_at_next_wp_ THEN {"emergency stop"} ELSE {})
        /\ InReplayWith("ForceControlInit", {"emergency stop"})
        /\ end_of_teach_ /\ replay_state_ \in {"ForceControl", "ForceControlEnd"} =>
              Registered({"default constraint", "sep dist cstr"} \union ForceConstraints,
                         ReplayForces, {"traj vel", "force control"})
        /\ InReplayWith("End", {"emergency stop"})

\* The list of waypoints and the flag force_control_at_next_wp_ stay in step: the
\* flag is set exactly when the next waypoint is the first of a pair or the
\* initial pose, and otherwise the next waypoint is the one reached last.
Half == IF force_control_at_next_wp_ THEN 0 ELSE 1

WaypointsArePaired ==
    /\ ~end_of_teach_ =>
          replay_state_ = "Init" /\ force_control_at_next_wp_
          /\ Len(waypoints_) % 2 = 0 /\ Paired(waypoints_, 0)
    /\ end_of_teach_ /\ replay_state_ # "End" =>
          /\ (Len(waypoints_) + Half) % 2 = 1
          /\ Paired(waypoints_, Half)
          /\ ~force_control_at_next_wp_ =>
                waypoints_ # <<>> /\ Head(waypoints_) = reached /\ reached # InitPose
    /\ replay_state_ = "Init" => force_control_at_next_wp_
    /\ replay_state_ \in {"ForceControlInit", "ForceControl", "ForceControlEnd"} =>
          ~force_control_at_next_wp_

\* Once a motion of two cycles has been seen, an operator who leaves the robot
\* still ends the teaching.
MotionSeen == teach_state_ \in {"WaitForMotion", "Motion"} /\ age # Unset
TeachingEnds ==
    <>MotionSeen /\ <>[](~sensors.moving) => <>(end_of_teach_ \/ status = "ended")

\* A replay whose trajectories arrive and whose contact force stays on target
\* runs to its end.
ReplayEnds ==
    /\ <>end_of_teach_
    /\ <>[](InReplay("ReachingWaypoint") => sensors.arrived)
    /\ <>[](InReplay("ForceControl") => sensors.onTarget)
    => <>(status = "ended")
=============================================================================
