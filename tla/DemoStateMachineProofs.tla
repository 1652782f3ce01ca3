----------------------- MODULE DemoStateMachineProofs -----------------------
(***************************************************************************)
(* Theorems about the demo for any number of waypoints, any list of taught *)
(* poses in pairs and any durations of the cycles.                         *)
(*                                                                         *)
(* The invariant is a conjunction of parts that hold each other up: the    *)
(* list of waypoints stays in pairs, hence the flag tells which one comes  *)
(* next, hence the emergency stop is registered when a handler removes it, *)
(* hence no handler throws.                                                *)
(***************************************************************************)
EXTENDS DemoStateMachine, TLAPS

\* A latch that holds belongs to a registered emergency stop.
LatchNeedsStop == latch = 0 => "emergency stop" \in constraints

\* In force control, last_time_point_ is where the force came on target, or the
\* last control step.
TimePointIsKnown ==
    replay_state_ = "ForceControl" =>
        /\ age = held \/ age = gap
        /\ is_force_ok_ => age = held /\ held # Unset

Inv ==
    /\ TypeOK
    /\ RegistryMatchesState
    /\ WaypointsArePaired
    /\ NoUncaughtException
    /\ LatchNeedsStop
    /\ TimePointIsKnown

-----------------------------------------------------------------------------
(* Lists of waypoints                                                       *)

\* The first element of a list that has one.
LEMMA HeadIsFirst ==
  ASSUME NEW s \in Seq(Nat), Len(s) > 0
  PROVE  s # <<>> /\ Head(s) = s[1] /\ Head(s) \in Nat
OBVIOUS

\* A list with a first element has a length.
LEMMA NonEmpty ==
  ASSUME NEW s \in Seq(Nat)
  PROVE  Len(s) \in Nat /\ (s # <<>> <=> Len(s) > 0)
OBVIOUS

\* A list with no second element has one.
LEMMA OnlyOne ==
  ASSUME NEW s \in Seq(Nat), s # <<>>, ~(Len(s) > 1)
  PROVE  Len(s) = 1
<1>1. \A n \in Nat : n > 0 /\ ~(n > 1) => n = 1
  OBVIOUS
<1>2. QED
  BY <1>1, NonEmpty

\* Two neighbours of a list.
LEMMA Neighbours ==
  ASSUME NEW n \in Nat, NEW i \in 1 .. n - 1
  PROVE  i \in 1 .. n /\ i + 1 \in 1 .. n
OBVIOUS

\* Dropping the first waypoint changes which one of its pair the next one is.
LEMMA PairedTail ==
  ASSUME NEW s \in Seq(Nat), s # <<>>, NEW half \in {0, 1}, Paired(s, half)
  PROVE  /\ Tail(s) \in Seq(Nat)
         /\ Len(Tail(s)) = Len(s) - 1
         /\ Paired(Tail(s), 1 - half)
<1>1. Tail(s) \in Seq(Nat) /\ Len(Tail(s)) = Len(s) - 1 /\ Len(s) \in Nat /\ Len(s) > 0
  OBVIOUS
<1>2. ASSUME NEW i \in 1 .. Len(Tail(s)) - 1, (i + (1 - half)) % 2 = 1
      PROVE  Tail(s)[i] = Tail(s)[i + 1] /\ Tail(s)[i] # InitPose
  <2>1. Tail(s)[i] = s[i + 1] /\ Tail(s)[i + 1] = s[(i + 1) + 1]
    BY <1>1
  <2>2. ((i + 1) + half) % 2 = 1
    BY <1>1, <1>2
  <2>3. i + 1 \in 1 .. Len(s) - 1
    BY <1>1, <1>2
  <2>4. QED
    BY <2>1, <2>2, <2>3 DEF Paired
<1>3. QED
  BY <1>1, <1>2 DEF Paired

\* When a pair is complete, or is about to be, the next waypoint repeats the
\* first one of the list.
LEMMA PairedHead ==
  ASSUME NEW s \in Seq(Nat), Len(s) > 1, Paired(s, 0)
  PROVE  Head(s) = Head(Tail(s)) /\ Head(s) # InitPose /\ Tail(s) # <<>>
<1>1. Len(s) \in Nat /\ Len(s) > 1
  OBVIOUS
<1>2. 1 \in 1 .. Len(s) - 1 /\ (1 + 0) % 2 = 1
  BY <1>1
<1>3. s[1] = s[1 + 1] /\ s[1] # InitPose
  BY <1>2 DEF Paired
<1>4. Head(s) = s[1] /\ Len(Tail(s)) = Len(s) - 1 /\ Tail(s)[1] = s[1 + 1] /\ Tail(s) \in Seq(Nat)
  BY <1>1
<1>5. Tail(s) # <<>> /\ Head(Tail(s)) = Tail(s)[1]
  <2>1. Tail(s) \in Seq(Nat) /\ Len(Tail(s)) > 0
    BY <1>1, <1>4
  <2>2. QED
    BY <2>1, HeadIsFirst, Zenon
<1>6. QED
  BY <1>3, <1>4, <1>5

\* A pose recorded twice at the end of complete pairs makes one more pair.
LEMMA PairedRecord ==
  ASSUME NEW s \in Seq(Nat), Len(s) % 2 = 0, Paired(s, 0),
         NEW pose \in Nat, pose # InitPose
  PROVE  /\ s \o <<pose, pose>> \in Seq(Nat)
         /\ Len(s \o <<pose, pose>>) % 2 = 0
         /\ Paired(s \o <<pose, pose>>, 0)
<1> DEFINE t == s \o <<pose, pose>>
<1>1. t \in Seq(Nat) /\ Len(t) = Len(s) + 2 /\ Len(s) \in Nat
  OBVIOUS
<1>2. \A i \in 1 .. Len(s) : t[i] = s[i]
  OBVIOUS
<1>3. t[Len(s) + 1] = pose /\ t[Len(s) + 2] = pose
  OBVIOUS
<1> HIDE DEF t
<1>4. ASSUME NEW i \in 1 .. Len(t) - 1, (i + 0) % 2 = 1
      PROVE  t[i] = t[i + 1] /\ t[i] # InitPose
  <2>1. CASE i \in 1 .. Len(s) - 1
    <3>1. i \in 1 .. Len(s) /\ i + 1 \in 1 .. Len(s)
      BY <2>1, <1>1, Neighbours
    <3>2. QED
      BY <3>1, <2>1, <1>2, <1>4 DEF Paired
  <2>2. CASE i = Len(s)
    BY <2>2, <1>4
  <2>3. CASE i = Len(s) + 1
    <3>1. i + 1 = Len(s) + 2
      BY <2>3, <1>1
    <3>2. QED
      BY <3>1, <2>3, <1>3
  <2>4. QED
    BY <2>1, <2>2, <2>3, <1>1
<1>5. Len(t) % 2 = 0
  BY <1>1
<1>6. QED
  BY <1>1, <1>4, <1>5 DEF Paired, t

\* The initial pose after complete pairs is alone.
LEMMA PairedInitPose ==
  ASSUME NEW s \in Seq(Nat), Len(s) % 2 = 0, Paired(s, 0)
  PROVE  /\ Append(s, InitPose) \in Seq(Nat)
         /\ Len(Append(s, InitPose)) % 2 = 1
         /\ Paired(Append(s, InitPose), 0)
<1> DEFINE t == Append(s, InitPose)
<1>1. t \in Seq(Nat) /\ Len(t) = Len(s) + 1 /\ Len(s) \in Nat
  BY DEF InitPose
<1>2. \A i \in 1 .. Len(s) : t[i] = s[i]
  OBVIOUS
<1> HIDE DEF t
<1>3. ASSUME NEW i \in 1 .. Len(t) - 1, (i + 0) % 2 = 1
      PROVE  t[i] = t[i + 1] /\ t[i] # InitPose
  <2>1. i \in 1 .. Len(s) - 1
    <3>1. i \in 1 .. Len(s)
      BY <1>1
    <3>2. i # Len(s)
      BY <1>3, <3>1
    <3>3. QED
      BY <3>1, <3>2, <1>1
  <2>2. i \in 1 .. Len(s) /\ i + 1 \in 1 .. Len(s)
    BY <2>1, <1>1, Neighbours
  <2>3. QED
    BY <2>1, <2>2, <1>2, <1>3 DEF Paired
<1>4. Len(t) % 2 = 1
  BY <1>1
<1>5. QED
  BY <1>1, <1>3, <1>4 DEF Paired, t

-----------------------------------------------------------------------------
(* Clocks and latch                                                         *)

\* A clock stays a time, and one that is set stays set.
LEMMA LaterIsATime ==
  ASSUME NEW t \in Times, NEW d \in Nat
  PROVE  /\ Later(t, d) \in Times
         /\ t # Unset => Later(t, d) \in Nat
BY DEF Later, Times, Unset, Long, EndTeachWait, RecordWaypointWait

\* A clock that restarts is a time.
LEMMA NowIsATime == 0 \in Times
BY DEF Times

\* The time since the last control step is never Unset.
LEMMA GapIsATime ==
  ASSUME NEW t \in Nat
  PROVE  t \in Times /\ t # Unset
BY DEF Times, Unset

\* The clocks keep their types, and two that agree still do.
LEMMA TimePassesSafely ==
  ASSUME TypeOK, TimePointIsKnown, NEW d \in Delays, TimePasses(d),
         UNCHANGED <<replay_state_, is_force_ok_>>
  PROVE  /\ age' \in Times /\ held' \in Times /\ gap' \in Nat
         /\ TimePointIsKnown'
<1>1. d \in Nat
  BY BoundsAssumption
<1>2. age' \in Times /\ held' \in Times
  BY <1>1, LaterIsATime DEF TimePasses, TypeOK
<1>3. gap' \in Nat
  BY <1>1, LaterIsATime, GapIsATime DEF TimePasses, TypeOK
<1>4. held # Unset => held' # Unset
  <2>1. held # Unset => held' \in Nat
    BY <1>1, LaterIsATime DEF TimePasses, TypeOK
  <2>2. QED
    BY <2>1, GapIsATime
<1>5. (age = held => age' = held') /\ (age = gap => age' = gap')
  BY DEF TimePasses
<1>6. TimePointIsKnown'
  BY <1>4, <1>5 DEF TimePointIsKnown
<1>7. QED
  BY <1>2, <1>3, <1>6

\* compute() leaves the latch open unless the emergency stop is registered.
LEMMA ComputeKeepsLatch ==
  ASSUME TypeOK, ControllerCompute
  PROVE  latch' \in {0, 1} /\ LatchNeedsStop'
<1>1. latch \in {0, 1}
  BY DEF TypeOK
<1>2. latch' = 1 \/ ("emergency stop" \in constraints' /\ latch' \in {0, 1})
  BY <1>1 DEF ControllerCompute
<1>3. latch' = 0 => "emergency stop" \in constraints'
  <2>1. latch' = 0 => latch' # 1
    OBVIOUS
  <2>2. QED
    BY <1>2, <2>1, Zenon
<1>4. QED
  BY <1>2, <1>3 DEF LatchNeedsStop

-----------------------------------------------------------------------------
(* The invariant, action by action                                          *)

\* The demo starts with the invariant, taught or with poses taught in pairs.
LEMMA InitHolds == Init => Inv
<1> SUFFICES ASSUME Init
             PROVE  Inv
  OBVIOUS
<1>1. TypeOK
  <2>1. Quiet \in Sensors
    BY DEF Quiet, Sensors
  <2>2. waypoints_ \in Seq(Nat) /\ reached \in Nat
    <3>1. <<>> \in Seq(Nat) /\ 0 \in Nat
      OBVIOUS
    <3>2. waypoints_ = <<>> \/ waypoints_ = TaughtPoses
      BY Zenon DEF Init
    <3>3. QED
      BY <3>1, <3>2, TaughtPosesAssumption, Zenon DEF Init, InitPose
  <2>3. age \in Times /\ held \in Times /\ gap \in Nat
    <3>1. Long \in Times /\ Unset \in Times /\ 0 \in Nat
      BY DEF Times, Long, EndTeachWait, RecordWaypointWait
    <3>2. QED
      BY <3>1, Zenon DEF Init
  <2>4. QED
    BY <2>1, <2>2, <2>3 DEF Init, TypeOK, Names, TeachStates, ReplayStates
<1>2. RegistryMatchesState
  BY DEF Init, RegistryMatchesState, Registered, InReplayWith
<1>3. WaypointsArePaired
  <2>1. Len(waypoints_) % 2 = 0 /\ Paired(waypoints_, 0)
    <3>1. Len(<<>>) % 2 = 0 /\ Paired(<<>>, 0)
      BY DEF Paired
    <3>2. QED
      BY <3>1, TaughtPosesAssumption DEF Init
  <2>2. QED
    BY <2>1 DEF Init, WaypointsArePaired
<1>4. NoUncaughtException
  BY DEF Init, NoUncaughtException
<1>5. LatchNeedsStop
  <2>1. 1 # 0
    OBVIOUS
  <2>2. QED
    BY <2>1, Zenon DEF Init, LatchNeedsStop
<1>6. TimePointIsKnown
  BY DEF Init, TimePointIsKnown
<1>7. QED
  BY <1>1, <1>2, <1>3, <1>4, <1>5, <1>6 DEF Inv

\* Reading and interrupting leave the machine and the registries alone.
LEMMA EnvironmentHolds ==
  ASSUME Inv, Read \/ ReadFails \/ Interrupt \/ UNCHANGED vars
  PROVE  Inv'
<1> USE DEF registries, teaching, plan, forceCheck
<1>1. UNCHANGED <<registries, teaching, replay_state_, plan, is_force_ok_, latch>>
  BY DEF Read, ReadFails, Interrupt, vars
<1>2. (\E d \in Delays : TimePasses(d)) \/ UNCHANGED <<age, held, gap>>
  BY DEF Read, ReadFails, Interrupt, vars
<1>3. /\ age' \in Times /\ held' \in Times /\ gap' \in Nat
      /\ TimePointIsKnown'
  <2>1. CASE \E d \in Delays : TimePasses(d)
    BY <1>1, <2>1, TimePassesSafely DEF Inv
  <2>2. CASE UNCHANGED <<age, held, gap>>
    BY <1>1, <2>2 DEF Inv, TypeOK, TimePointIsKnown
  <2>3. QED
    BY <1>2, <2>1, <2>2
<1>4. /\ sensors' \in Sensors
      /\ status' \in {"read", "control", "ended", "exception"}
      /\ status' # "exception"
      /\ status' \in {"read", "control"} => status \in {"read", "control"}
  BY DEF Inv, TypeOK, NoUncaughtException, Read, ReadFails, Interrupt, vars
<1>5. TypeOK'
  BY <1>1, <1>3, <1>4 DEF Inv, TypeOK
<1>6. RegistryMatchesState'
  BY <1>1, <1>4 DEF Inv, RegistryMatchesState, Registered, InReplayWith
<1>7. WaypointsArePaired'
  BY <1>1 DEF Inv, WaypointsArePaired, Half, Paired
<1>8. NoUncaughtException' /\ LatchNeedsStop'
  BY <1>1, <1>4 DEF Inv, NoUncaughtException, LatchNeedsStop
<1>9. QED
  BY <1>3, <1>5, <1>6, <1>7, <1>8 DEF Inv

\* What a handler that completes leaves to show.
LEMMA CompletedHandler ==
  ASSUME Inv, Completes
  PROVE  /\ gap' \in Nat /\ gap' = 0
         /\ latch' \in {0, 1}
         /\ status' = "read"
         /\ NoUncaughtException' /\ LatchNeedsStop'
BY ComputeKeepsLatch DEF Inv, Completes, NoUncaughtException

\* Teaching starts with an empty list and the limits of the manual guidance.
LEMMA TeachInitHolds == ASSUME Inv, TeachInit PROVE Inv'
<1> USE DEF registries, teaching, plan, forceCheck
<1>1. TypeOK'
  <2>1. <<>> \in Seq(Nat) /\ Unset \in Times
    BY DEF Times
  <2>2. QED
    BY <2>1, CompletedHandler
       DEF Inv, TypeOK, TeachInit, TeachConstraints, Names, TeachStates
<1>2. RegistryMatchesState'
  BY DEF Inv, RegistryMatchesState, TeachInit, InTeach, TeachConstraints, Registered, InReplayWith
<1>3. WaypointsArePaired'
  <2>1. Len(<<>>) % 2 = 0 /\ Paired(<<>>, 0)
    BY DEF Paired
  <2>2. QED
    BY <2>1 DEF Inv, WaypointsArePaired, TeachInit, InTeach
<1>4. TimePointIsKnown'
  BY DEF Inv, WaypointsArePaired, TeachInit, InTeach, TimePointIsKnown
<1>5. QED
  BY <1>1, <1>2, <1>3, <1>4, CompletedHandler DEF Inv, TeachInit

\* Waiting for the operator changes neither list nor registries.
LEMMA TeachWaitForMotionHolds == ASSUME Inv, TeachWaitForMotion PROVE Inv'
<1> USE DEF registries, teaching, plan, forceCheck
<1>1. TypeOK'
  BY CompletedHandler DEF Inv, TypeOK, TeachWaitForMotion, TeachStates
<1>2. RegistryMatchesState'
  BY DEF Inv, RegistryMatchesState, TeachWaitForMotion, InTeach, Registered, InReplayWith
<1>3. WaypointsArePaired'
  BY DEF Inv, WaypointsArePaired, TeachWaitForMotion, InTeach, Paired
<1>4. TimePointIsKnown'
  BY DEF Inv, WaypointsArePaired, TeachWaitForMotion, InTeach, TimePointIsKnown
<1>5. QED
  BY <1>1, <1>2, <1>3, <1>4, CompletedHandler DEF Inv, TeachWaitForMotion

\* A recorded pose is a pair at the end of complete pairs.
LEMMA TeachMotionHolds == ASSUME Inv, TeachMotion PROVE Inv'
<1> USE DEF registries, teaching, plan, forceCheck
<1>1. /\ waypoints_' \in Seq(Nat)
      /\ Len(waypoints_') % 2 = 0 /\ Paired(waypoints_', 0)
  <2>1. waypoints_ \in Seq(Nat) /\ Len(waypoints_) % 2 = 0 /\ Paired(waypoints_, 0)
    BY DEF Inv, TypeOK, WaypointsArePaired, TeachMotion, InTeach
  <2>2. CASE UNCHANGED waypoints_
    BY <2>1, <2>2
  <2>3. CASE RecordWaypoint(Len(waypoints_) \div 2 + 1)
    <3>1. Len(waypoints_) \div 2 + 1 \in Nat /\ Len(waypoints_) \div 2 + 1 # InitPose
      BY <2>1 DEF InitPose
    <3>2. QED
      BY <2>1, <2>3, <3>1, PairedRecord DEF RecordWaypoint
  <2>4. QED
    BY <2>2, <2>3 DEF TeachMotion
<1>2. TypeOK'
  <2>1. age' \in Times
    BY NowIsATime, Zenon DEF Inv, TypeOK, TeachMotion
  <2>2. QED
    BY <1>1, <2>1, CompletedHandler DEF Inv, TypeOK, TeachMotion, TeachStates
<1>3. RegistryMatchesState'
  BY DEF Inv, RegistryMatchesState, TeachMotion, InTeach, Registered, InReplayWith
<1>4. WaypointsArePaired'
  BY <1>1 DEF Inv, WaypointsArePaired, TeachMotion, InTeach
<1>5. TimePointIsKnown'
  BY DEF Inv, WaypointsArePaired, TeachMotion, InTeach, TimePointIsKnown
<1>6. QED
  BY <1>2, <1>3, <1>4, <1>5, CompletedHandler DEF Inv, TeachMotion

\* Teaching leaves complete pairs and the initial pose, and nothing registered
\* whether it took place or was skipped.
LEMMA TeachEndHolds == ASSUME Inv, TeachEnd PROVE Inv'
<1> USE DEF registries, teaching, plan, forceCheck
<1>1. /\ waypoints_' \in Seq(Nat)
      /\ Len(waypoints_') % 2 = 1 /\ Paired(waypoints_', 0)
  BY PairedInitPose DEF Inv, TypeOK, WaypointsArePaired, TeachEnd, InTeach, InitPoseLast
<1>2. TypeOK'
  BY <1>1, CompletedHandler DEF Inv, TypeOK, TeachEnd, TeachConstraints
<1>3. RegistryMatchesState'
  BY DEF Inv, WaypointsArePaired, RegistryMatchesState, TeachEnd, InTeach, TeachConstraints,
         Registered, InReplayWith
<1>4. WaypointsArePaired'
  <2>1. force_control_at_next_wp_' /\ replay_state_' = "Init" /\ end_of_teach_'
    BY DEF Inv, WaypointsArePaired, TeachEnd, InTeach
  <2>2. (Len(waypoints_') + 0) % 2 = 1
    BY <1>1
  <2>3. QED
    BY <1>1, <2>1, <2>2 DEF WaypointsArePaired, Half
<1>5. TimePointIsKnown'
  BY DEF Inv, WaypointsArePaired, TeachEnd, InTeach, TimePointIsKnown
<1>6. QED
  BY <1>2, <1>3, <1>4, <1>5, CompletedHandler DEF Inv, TeachEnd

\* The replay starts with its own generators and the separation constraint.
LEMMA ReplayInitHolds == ASSUME Inv, ReplayInit PROVE Inv'
<1> USE DEF registries, teaching, plan, forceCheck
<1>1. TypeOK'
  BY CompletedHandler DEF Inv, TypeOK, ReplayInit, Names, ReplayForces, ReplayStates
<1>2. RegistryMatchesState'
  BY DEF Inv, RegistryMatchesState, ReplayInit, InReplay, Registered, InReplayWith
<1>3. WaypointsArePaired'
  BY DEF Inv, WaypointsArePaired, ReplayInit, InReplay, Paired, Half
<1>4. TimePointIsKnown'
  BY DEF ReplayInit, TimePointIsKnown
<1>5. QED
  BY <1>1, <1>2, <1>3, <1>4, CompletedHandler DEF Inv, ReplayInit

\* The trajectory is never set up without a waypoint: an empty list would have
\* had its last waypoint dropped with the flag cleared.
LEMMA SetupTrajectoryHolds == ASSUME Inv, SetupTrajectory PROVE Inv'
<1> USE DEF registries, teaching, plan, forceCheck
<1>1. waypoints_ # <<>>
  <2>1. CASE force_control_at_next_wp_
    <3>1. (Len(waypoints_) + 0) % 2 = 1 /\ waypoints_ \in Seq(Nat)
      BY <2>1 DEF Inv, TypeOK, WaypointsArePaired, SetupTrajectory, InReplay, Half
    <3>2. Len(waypoints_) # 0
      BY <3>1
    <3>3. QED
      BY <3>1, <3>2, NonEmpty
  <2>2. CASE ~force_control_at_next_wp_
    BY <2>2 DEF Inv, WaypointsArePaired, SetupTrajectory, InReplay
  <2>3. QED
    BY <2>1, <2>2
<1>2. replay_state_' = "ReachingWaypoint"
  BY <1>1 DEF SetupTrajectory
<1>3. TypeOK'
  BY <1>2, CompletedHandler DEF Inv, TypeOK, SetupTrajectory, Names, ReplayStates
<1>4. RegistryMatchesState'
  BY <1>2 DEF Inv, RegistryMatchesState, SetupTrajectory, InReplay, Registered, InReplayWith,
              GuardedWay
<1>5. WaypointsArePaired'
  BY <1>2 DEF Inv, WaypointsArePaired, SetupTrajectory, InReplay, Paired, Half
<1>6. TimePointIsKnown'
  BY <1>2 DEF TimePointIsKnown
<1>7. QED
  BY <1>3, <1>4, <1>5, <1>6, CompletedHandler DEF Inv, SetupTrajectory

\* Reaching a waypoint drops it: the flag changes with the half of the pair, and
\* the list runs out only where the flag is set, with the emergency stop in place.
LEMMA ReachingWaypointHolds == ASSUME Inv, ReachingWaypoint PROVE Inv'
<1> USE DEF registries, teaching, plan, forceCheck
<1>1. /\ waypoints_ \in Seq(Nat) /\ Half \in {0, 1}
      /\ (Len(waypoints_) + Half) % 2 = 1
      /\ Paired(waypoints_, Half)
      /\ end_of_teach_ /\ replay_state_ = "ReachingWaypoint"
      /\ force_control_at_next_wp_ \in BOOLEAN
      /\ ~force_control_at_next_wp_ => waypoints_ # <<>>
  BY DEF Inv, TypeOK, WaypointsArePaired, ReachingWaypoint, InReplay, Half
<1>2. CASE ~sensors.arrived
  <2>1. UNCHANGED <<registries, teaching, forceCheck, age, sensors, replay_state_, plan>>
    BY <1>2 DEF ReachingWaypoint
  <2>2. TypeOK'
    BY <2>1, CompletedHandler DEF Inv, TypeOK, ReachingWaypoint
  <2>3. RegistryMatchesState'
    <3>1. status = "control"
      BY DEF ReachingWaypoint, InReplay
    <3>2. QED
      BY <2>1, <3>1 DEF Inv, RegistryMatchesState, Registered, InReplayWith
  <2>4. WaypointsArePaired' /\ TimePointIsKnown'
    BY <1>1, <2>1 DEF Inv, WaypointsArePaired, TimePointIsKnown, Paired, Half
  <2>5. QED
    BY <2>2, <2>3, <2>4, CompletedHandler DEF Inv, ReachingWaypoint
<1>3. CASE sensors.arrived
  <2>1. waypoints_ # <<>>
    <3>1. CASE force_control_at_next_wp_
      <4>1. Len(waypoints_) \in Nat /\ (Len(waypoints_) + 0) % 2 = 1
        BY <1>1, <3>1 DEF Half
      <4>2. Len(waypoints_) > 0
        BY <4>1
      <4>3. QED
        BY <1>1, <4>2, NonEmpty
    <3>2. CASE ~force_control_at_next_wp_
      BY <1>1, <3>2
    <3>3. QED
      BY <3>1, <3>2
  <2>2. /\ waypoints_' = Tail(waypoints_) /\ waypoints_' \in Seq(Nat)
        /\ Len(waypoints_') = Len(waypoints_) - 1
        /\ Paired(waypoints_', 1 - Half)
    BY <1>1, <1>3, <2>1, PairedTail DEF ReachingWaypoint
  <2>3. reached' = Head(waypoints_) /\ reached' \in Nat
    <3>1. Len(waypoints_) > 0
      BY <1>1, <2>1
    <3>2. QED
      BY <1>1, <1>3, <3>1, HeadIsFirst DEF ReachingWaypoint
  <2>4. /\ force_control_at_next_wp_' \in BOOLEAN
        /\ replay_state_' \in {"ForceControlInit", "SetupTrajectory", "End"}
    BY <1>1, <1>3 DEF ReachingWaypoint, NextTask
  <2>5. TypeOK'
    BY <2>2, <2>3, <2>4, CompletedHandler DEF Inv, TypeOK, ReachingWaypoint, ReplayStates
  <2>6. TimePointIsKnown'
    BY <2>4 DEF TimePointIsKnown
  <2>7. CASE Len(waypoints_) > 1
    <3>1. /\ replay_state_' = IF force_control_at_next_wp_ THEN "ForceControlInit"
                                                         ELSE "SetupTrajectory"
          /\ force_control_at_next_wp_' = ~force_control_at_next_wp_
      BY <1>3, <2>7 DEF ReachingWaypoint, NextTask
    <3>2. RegistryMatchesState'
      BY <1>1, <3>1 DEF Inv, RegistryMatchesState, ReachingWaypoint, InReplay, Registered,
                        InReplayWith
    <3>3. Half' = 1 - Half
      <4>1. Half = 0 => Half' = 1
        BY <3>1, Zenon DEF Half
      <4>2. Half = 1 => Half' = 0
        BY <3>1, Zenon DEF Half
      <4>3. QED
        BY <1>1, <4>1, <4>2
    <3>4. (Len(waypoints_') + Half') % 2 = 1
      BY <1>1, <2>2, <3>3
    <3>5. force_control_at_next_wp_ =>
            waypoints_' # <<>> /\ Head(waypoints_') = reached' /\ reached' # InitPose
      BY <1>1, <2>2, <2>3, <2>7, PairedHead DEF Half
    <3>6. end_of_teach_'
      BY <1>1 DEF ReachingWaypoint
    <3>7. Paired(waypoints_', Half')
      BY <2>2, <3>3
    <3>8. WaypointsArePaired'
      BY <3>1, <3>4, <3>5, <3>6, <3>7 DEF WaypointsArePaired
    <3>9. QED
      BY <2>5, <2>6, <3>2, <3>8, CompletedHandler DEF Inv, ReachingWaypoint
  <2>8. CASE ~(Len(waypoints_) > 1)
    <3>1. replay_state_' = "End" /\ UNCHANGED force_control_at_next_wp_
      BY <1>3, <2>8 DEF ReachingWaypoint
    <3>2. force_control_at_next_wp_
      <4>1. Len(waypoints_) = 1
        BY <1>1, <2>1, <2>8, OnlyOne
      <4>2. QED
        BY <1>1, <4>1 DEF Half
    <3>3. RegistryMatchesState'
      BY <1>1, <3>1, <3>2 DEF Inv, RegistryMatchesState, ReachingWaypoint, InReplay, Registered,
                        InReplayWith
    <3>4. WaypointsArePaired'
      BY <1>1, <3>1 DEF WaypointsArePaired, ReachingWaypoint
    <3>5. QED
      BY <2>5, <2>6, <3>3, <3>4, CompletedHandler DEF Inv, ReachingWaypoint
  <2>9. QED
    BY <2>7, <2>8
<1>4. QED
  BY <1>2, <1>3

\* Force control starts where the emergency stop is registered.
LEMMA ForceControlInitHolds == ASSUME Inv, ForceControlInit PROVE Inv'
<1> USE DEF registries, teaching, plan, forceCheck
<1>1. "emergency stop" \in constraints
  BY DEF Inv, RegistryMatchesState, ForceControlInit, InReplay, Registered, InReplayWith
<1>2. Completes /\ replay_state_' = "ForceControl" /\ age' = 0 /\ is_force_ok_' = FALSE
  BY <1>1 DEF ForceControlInit
<1>3. TypeOK'
  <2>1. age' \in Times /\ held' \in Times
    BY <1>1, NowIsATime, Zenon DEF ForceControlInit, Times
  <2>2. QED
    BY <1>1, <1>2, <2>1, CompletedHandler
       DEF Inv, TypeOK, ForceControlInit, Names, ForceConstraints, ReplayStates
<1>4. RegistryMatchesState'
  BY <1>1 DEF Inv, RegistryMatchesState, ForceControlInit, InReplay, Registered, InReplayWith,
              ForceConstraints
<1>5. WaypointsArePaired'
  BY <1>2 DEF Inv, WaypointsArePaired, ForceControlInit, InReplay, Paired, Half
<1>6. TimePointIsKnown'
  BY <1>2, CompletedHandler DEF TimePointIsKnown
<1>7. QED
  BY <1>2, <1>3, <1>4, <1>5, <1>6, CompletedHandler DEF Inv

\* Each sample of force control keeps last_time_point_ on the sample that came on
\* target, or on the control step.
LEMMA ForceControlHolds == ASSUME Inv, ForceControl PROVE Inv'
<1> USE DEF registries, teaching, plan, forceCheck
<1>1. /\ age' = IF is_force_ok_ THEN age ELSE 0
      /\ held' = IF is_force_ok_ /\ held # Unset THEN held
                 ELSE IF sensors.onTarget THEN 0 ELSE Unset
      /\ is_force_ok_' = sensors.onTarget
      /\ replay_state_' \in {"ForceControl", "ForceControlEnd"}
      /\ replay_state_ = "ForceControl"
      /\ sensors.onTarget \in BOOLEAN
  BY DEF Inv, TypeOK, Sensors, ForceControl, RefreshTimePoint, InReplay
<1>2. TypeOK'
  <2>1. Unset \in Times
    BY DEF Times
  <2>2. age' \in Times /\ held' \in Times
    BY <1>1, <2>1, NowIsATime, Zenon DEF Inv, TypeOK
  <2>3. QED
    BY <1>1, <2>2, CompletedHandler DEF Inv, TypeOK, ForceControl, ReplayStates
<1>3. RegistryMatchesState'
  BY <1>1 DEF Inv, RegistryMatchesState, ForceControl, InReplay, Registered, InReplayWith
<1>4. WaypointsArePaired'
  BY <1>1 DEF Inv, WaypointsArePaired, ForceControl, InReplay, Paired, Half
<1>5. TimePointIsKnown'
  <2>1. 0 # Unset
    BY DEF Unset
  <2>2. gap' = 0
    BY CompletedHandler DEF ForceControl
  <2>3. is_force_ok_ => age = held /\ held # Unset
    BY <1>1 DEF Inv, TimePointIsKnown
  <2>4. age' = held' \/ age' = gap'
    BY <1>1, <2>2, <2>3, Zenon
  <2>5. is_force_ok_' => age' = held' /\ held' # Unset
    BY <1>1, <2>1, <2>3, Zenon
  <2>6. QED
    BY <2>4, <2>5 DEF TimePointIsKnown
<1>6. QED
  BY <1>2, <1>3, <1>4, <1>5, CompletedHandler DEF Inv, ForceControl

\* Force control ends with everything it added still there to be removed.
LEMMA ForceControlEndHolds == ASSUME Inv, ForceControlEnd PROVE Inv'
<1> USE DEF registries, teaching, plan, forceCheck
<1>1. ForceConstraints \subseteq constraints /\ "force control" \in velocities
  BY DEF Inv, RegistryMatchesState, ForceControlEnd, InReplay, Registered, InReplayWith
<1>2. Completes /\ RemoveForceControl /\ replay_state_' = "SetupTrajectory"
  BY <1>1 DEF ForceControlEnd
<1>3. TypeOK'
  BY <1>2, CompletedHandler
     DEF Inv, TypeOK, ForceControlEnd, RemoveForceControl, ReplayStates
<1>4. RegistryMatchesState'
  BY <1>2 DEF Inv, RegistryMatchesState, ForceControlEnd, RemoveForceControl, InReplay,
              Registered, InReplayWith, ForceConstraints
<1>5. WaypointsArePaired'
  BY <1>2 DEF Inv, WaypointsArePaired, ForceControlEnd, InReplay, Paired, Half
<1>6. TimePointIsKnown'
  BY <1>2 DEF TimePointIsKnown
<1>7. QED
  BY <1>2, <1>3, <1>4, <1>5, <1>6, CompletedHandler DEF Inv

\* The replay ends with everything it added still there to be removed.
LEMMA ReplayEndHolds == ASSUME Inv, ReplayEnd PROVE Inv'
<1> USE DEF registries, teaching, plan, forceCheck
<1>1. ReplayForces \subseteq forces /\ "sep dist cstr" \in constraints
  BY DEF Inv, RegistryMatchesState, ReplayEnd, InReplay, Registered, InReplayWith
<1>2. /\ forces' = forces \ ReplayForces
      /\ constraints' = constraints \ {"sep dist cstr"}
      /\ status' = "ended" /\ ControllerCompute /\ gap' = 0
      /\ replay_state_' = "End"
  BY <1>1 DEF ReplayEnd, InReplay
<1>3. latch' \in {0, 1} /\ LatchNeedsStop'
  BY <1>2, ComputeKeepsLatch DEF Inv
<1>4. TypeOK'
  BY <1>2, <1>3 DEF Inv, TypeOK, ReplayEnd
<1>5. RegistryMatchesState' /\ NoUncaughtException'
  BY <1>2 DEF RegistryMatchesState, NoUncaughtException
<1>6. WaypointsArePaired' /\ TimePointIsKnown'
  BY <1>2 DEF Inv, WaypointsArePaired, TimePointIsKnown, ReplayEnd, InReplay
<1>7. QED
  BY <1>3, <1>4, <1>5, <1>6 DEF Inv

\* Every step of the demo keeps the invariant.
LEMMA NextHolds == Inv /\ [Next]_vars => Inv'
<1> SUFFICES ASSUME Inv, [Next]_vars
             PROVE  Inv'
  OBVIOUS
<1>1. CASE Read \/ ReadFails \/ Interrupt \/ UNCHANGED vars
  BY <1>1, EnvironmentHolds
<1>2. CASE Teach
  BY <1>2, TeachInitHolds, TeachWaitForMotionHolds, TeachMotionHolds, TeachEndHolds DEF Teach
<1>3. CASE Replay
  BY <1>3, ReplayInitHolds, SetupTrajectoryHolds, ReachingWaypointHolds, ForceControlInitHolds,
     ForceControlHolds, ForceControlEndHolds, ReplayEndHolds DEF Replay
<1>4. QED
  BY <1>1, <1>2, <1>3 DEF Next

-----------------------------------------------------------------------------
(* What the demo promises                                                   *)

\* The invariant of StateMachine::compute() and the controller it drives.
THEOREM InvHolds == Spec => []Inv
BY InitHolds, NextHolds, PTL DEF Spec

\* The names, states and clocks of the demo have their types.
THEOREM TypeCorrect == Spec => []TypeOK
<1>1. Inv => TypeOK
  BY DEF Inv
<1>2. QED
  BY <1>1, InvHolds, PTL

\* The controller holds exactly what each state of the machine needs.
THEOREM RegistryAlwaysMatches == Spec => []RegistryMatchesState
<1>1. Inv => RegistryMatchesState
  BY DEF Inv
<1>2. QED
  BY <1>1, InvHolds, PTL

\* However many waypoints are recorded, the list and the flag stay in step.
THEOREM WaypointsAlwaysPaired == Spec => []WaypointsArePaired
<1>1. Inv => WaypointsArePaired
  BY DEF Inv
<1>2. QED
  BY <1>1, InvHolds, PTL

\* No handler removes from the controller a name that is not there.
THEOREM NeverThrows == Spec => []NoUncaughtException
<1>1. Inv => NoUncaughtException
  BY DEF Inv
<1>2. QED
  BY <1>1, InvHolds, PTL

\* Force is controlled only at a waypoint recorded while teaching.
THEOREM ForceAtTaughtPose == Spec => []ForceOnlyAtTaughtPose
<1>1. Inv => ForceOnlyAtTaughtPose
  <2> SUFFICES ASSUME Inv,
                      replay_state_ \in {"ForceControlInit", "ForceControl", "ForceControlEnd"}
               PROVE  reached # InitPose /\ waypoints_ # <<>> /\ Head(waypoints_) = reached
    BY DEF ForceOnlyAtTaughtPose
  <2>1. ~force_control_at_next_wp_ /\ replay_state_ # "End" /\ replay_state_ # "Init"
    BY DEF Inv, WaypointsArePaired
  <2>2. QED
    BY <2>1 DEF Inv, TypeOK, WaypointsArePaired
<1>2. QED
  BY <1>1, InvHolds, PTL

\* Every source of motion comes with the constraints that limit it.
THEOREM MotionAlwaysLimited == Spec => []MotionIsLimited
<1>1. Inv => MotionIsLimited
  BY DEF Inv, TypeOK, TeachStates, ReplayStates, RegistryMatchesState, MotionIsLimited, Registered,
         InReplayWith, ForceConstraints, WaypointsArePaired, ReplayForces
<1>2. QED
  BY <1>1, InvHolds, PTL

\* Without its emergency stop the robot only goes back where it was controlling
\* a force.  A run that ends keeps what the last state of the loop had.
THEOREM UnguardedWaysGoBack == Spec => []UnguardedOnlyBackwards
<1>1. Init => UnguardedOnlyBackwards
  BY DEF Init, UnguardedOnlyBackwards
<1> DEFINE Running == status \in {"read", "control"}
<1>2. Inv /\ Running => UnguardedOnlyBackwards
  <2> SUFFICES ASSUME Inv, status \in {"read", "control"},
                      replay_state_ = "ReachingWaypoint", "emergency stop" \notin constraints
               PROVE  waypoints_ # <<>> /\ Head(waypoints_) = reached
    BY DEF UnguardedOnlyBackwards
  <2>1. end_of_teach_
    BY DEF Inv, TypeOK, WaypointsArePaired
  <2>2. ~force_control_at_next_wp_
    BY <2>1 DEF Inv, RegistryMatchesState, InReplayWith, Registered
  <2>3. QED
    BY <2>1, <2>2 DEF Inv, WaypointsArePaired
<1>3. Inv /\ Inv' /\ UnguardedOnlyBackwards /\ [Next]_vars /\ ~Running'
        => UnguardedOnlyBackwards'
  <2> SUFFICES ASSUME Inv, Inv', UnguardedOnlyBackwards, [Next]_vars, ~Running'
               PROVE  UnguardedOnlyBackwards'
    OBVIOUS
  <2>1. Interrupt \/ ReplayEnd \/ ForceControlInit \/ ForceControlEnd \/ UNCHANGED vars
    BY DEF Next, Teach, Replay, Read, ReadFails, TeachInit, TeachWaitForMotion, TeachMotion,
           TeachEnd, ReplayInit, SetupTrajectory, ReachingWaypoint, ForceControl, Completes,
           Inv, TypeOK, vars
  <2>2. CASE Interrupt \/ UNCHANGED vars
    BY <2>2 DEF Interrupt, UnguardedOnlyBackwards, vars, registries, plan
  <2>3. CASE ReplayEnd \/ ForceControlInit \/ ForceControlEnd
    BY <2>3 DEF ReplayEnd, ForceControlInit, ForceControlEnd, InReplay, UnguardedOnlyBackwards
  <2>4. QED
    BY <2>1, <2>2, <2>3
<1> HIDE DEF Running
<1>4. QED
  BY <1>1, <1>2, <1>3, InvHolds, PTL DEF Spec

\* A stop in force is dropped above its deactivation threshold only where force
\* control begins.
THEOREM StopsAreKept == Spec => StopDroppedOnlyForForceControl
<1>1. Inv /\ Inv' /\ [Next]_vars =>
        (latch = 0 /\ latch' = 1 /\ sensors.force # "calm" => replay_state_ = "ForceControlInit")
  <2> SUFFICES ASSUME Inv, Inv', [Next]_vars, latch = 0, latch' = 1, sensors.force # "calm",
                      replay_state_ # "ForceControlInit"
               PROVE  FALSE
    OBVIOUS
  <2>1. latch # latch'
    <3>1. 0 # 1
      OBVIOUS
    <3>2. QED
      BY <3>1
  <2>2. ControllerCompute
    BY <2>1 DEF Next, Teach, Replay, Read, ReadFails, Interrupt, TeachInit, TeachWaitForMotion,
       TeachMotion, TeachEnd, ReplayInit, SetupTrajectory, ReachingWaypoint, ForceControlInit,
       ForceControl, ForceControlEnd, ReplayEnd, Completes, Throws, vars
  <2>3. "emergency stop" \in constraints
    BY DEF Inv, LatchNeedsStop
  <2>4. "emergency stop" \in constraints'
    BY <2>1, <2>3
       DEF Next, Teach, Replay, Read, ReadFails, Interrupt, TeachInit, TeachWaitForMotion,
       TeachMotion, TeachEnd, ReplayInit, SetupTrajectory, ReachingWaypoint, ForceControlInit,
       ForceControl, ForceControlEnd, RemoveForceControl, ReplayEnd, InReplay, TeachConstraints,
       ForceConstraints, registries, vars
  <2>5. latch' = 0 \/ latch' = latch
    BY <2>2, <2>3, <2>4 DEF ControllerCompute
  <2>6. QED
    BY <2>1, <2>5
<1>2. QED
  BY <1>1, InvHolds, PTL DEF Spec, StopDroppedOnlyForForceControl

\* Force control ends only after the force has been held, or after a stall.
THEOREM ForceIsHeld == Spec => ForceHeldOrStalled
<1>1. Inv /\ [Next]_vars =>
        (replay_state_ = "ForceControl" /\ replay_state_' = "ForceControlEnd" =>
           held > ForceDuration \/ gap > ForceDuration)
  <2> SUFFICES ASSUME Inv, [Next]_vars,
                      replay_state_ = "ForceControl", replay_state_' = "ForceControlEnd"
               PROVE  held > ForceDuration \/ gap > ForceDuration
    OBVIOUS
  <2>1. ForceControl
    BY DEF Next, Teach, Replay, Read, ReadFails, Interrupt, TeachInit, TeachWaitForMotion,
       TeachMotion, TeachEnd, ReplayInit, SetupTrajectory, ReachingWaypoint, ForceControlInit,
       ForceControlEnd, ReplayEnd, InReplay, vars
  <2>2. age > ForceDuration
    BY <2>1 DEF ForceControl
  <2>3. age = held \/ age = gap
    BY DEF Inv, TimePointIsKnown
  <2>4. QED
    BY <2>2, <2>3
<1>2. QED
  BY <1>1, InvHolds, PTL DEF Spec, ForceHeldOrStalled

=============================================================================
