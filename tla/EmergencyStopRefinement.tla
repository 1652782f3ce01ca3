----------------------- MODULE EmergencyStopRefinement -----------------------
(***************************************************************************)
(* EmergencyStop with a history variable, the latch each channel would     *)
(* have if it were alone, and the refinement mapping that shows the shared *)
(* latch implements StopPolicy.                                            *)
(***************************************************************************)
EXTENDS EmergencyStop

VARIABLE latched    \* history: channel -> latch of that channel alone

hvars == <<norm, previous_constraint_value, latched>>

Alone(c) == IF Over(c) THEN TRUE ELSE IF Calm(c) THEN FALSE ELSE latched[c]

HInit == StopInit /\ latched = [c \in Channels |-> FALSE]

HMeasure == Measure /\ UNCHANGED latched

HCompute == ComputeStop /\ latched' = [c \in Channels |-> Alone(c)]

HNext == HMeasure \/ HCompute

HSpec == HInit /\ [][HNext]_hvars

\* The control loop calls compute() in every cycle, forever.
FairHSpec == HSpec /\ WF_hvars(HCompute)

\* The latches are Boolean.
HTypeOK == StopTypeOK /\ latched \in [Channels -> BOOLEAN]

\* The shared latch of EmergencyStopConstraint::compute is never looser than the
\* latches of the channels taken one by one: while one of them holds, the robot
\* is stopped.
NeverLooser == (\E c \in Channels : latched[c]) => previous_constraint_value = 0

Policy == INSTANCE StopPolicy WITH stopped <- (previous_constraint_value = 0)

\* EmergencyStopConstraint implements the policy.
ImplementsPolicy == Policy!Spec
=============================================================================
