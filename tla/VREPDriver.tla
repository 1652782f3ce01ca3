---------------------------- MODULE VREPDriver ----------------------------
(***************************************************************************)
(* An application of AppMaker over the V-REP driver: the program's thread, *)
(* the communication thread of the remote API, which exchanges messages    *)
(* with the simulator whenever it likes, and the simulator, which in       *)
(* synchronous mode makes one step for each trigger.  The connection may   *)
(* be lost at any time and does not come back (simxStart is told so).      *)
(*                                                                         *)
(* Positions are counted in steps of the fastest joint: a velocity is the  *)
(* displacement of one sample.  The simulator's joints reach their targets *)
(* within a step.  The communication thread and the simulator are not      *)
(* under src/: they are modelled from how the driver uses them.            *)
(***************************************************************************)
EXTENDS Integers

CONSTANTS
    JointCount,     \* jointCount()
    Home,           \* per joint, where the robot stands when the program starts
    Velocities,     \* displacements a joint may be asked for in one sample
    Garbage,        \* what a variable that was never written may hold
    Timeout,        \* init_timeout, in samples
    MaxCycles       \* bound: cycles of run() before the user stops the program

Joints == 1 .. JointCount

ASSUME DriverAssumption ==
    /\ JointCount \in Nat \ {0}
    /\ Home \in [Joints -> Int]
    /\ Velocities \subseteq Int /\ Velocities # {}
    /\ Garbage \subseteq Int /\ Garbage # {}
    /\ Timeout \in Nat /\ MaxCycles \in Nat

VARIABLES
    pc, phase,              \* the program's next call; "init" or "run"
    sync_mode_, waited_for, all_ok, joint,
    jointCurrentPosition, jointTargetPosition, jointVelocity,
    time, _stop,
    connected, paused, outbox, inbox,   \* remote API
    simSync, running, triggered, simTarget, simPosition,  \* simulator
    got,                    \* history: streams this read() got a value of
    expected, commands,     \* history: where the velocities lead from Home
    steps                   \* history: steps of the simulator since init()

program   == <<pc, phase, _stop>>
driver    == <<sync_mode_, waited_for, all_ok, joint>>
robot     == <<jointCurrentPosition, jointTargetPosition, jointVelocity>>
api       == <<connected, paused, outbox, inbox>>
simulator == <<simSync, running, triggered, simTarget, simPosition>>
history   == <<got, expected, commands, steps>>
vars == <<program, driver, robot, time, api, simulator, history>>

Streams == {"velocity", "position", "wrench"}
NoCommand == [none |-> TRUE]
Command(p) == [none |-> FALSE, position |-> p]

Init ==
    /\ pc = "start" /\ phase = "init" /\ _stop = FALSE
    /\ sync_mode_ \in BOOLEAN /\ waited_for = 0 /\ all_ok = TRUE /\ joint = 1
    /\ jointCurrentPosition = [j \in Joints |-> 0]
    /\ jointTargetPosition = [j \in Joints |-> 0]
    /\ jointVelocity = [j \in Joints |-> 0]
    /\ time = 0
    /\ connected = TRUE /\ paused = FALSE
    /\ outbox = [j \in Joints |-> NoCommand]
    /\ inbox = Home
    /\ simSync = FALSE /\ running = FALSE /\ triggered = FALSE
    /\ simTarget = Home /\ simPosition = Home
    /\ got = {} /\ expected = Home /\ commands = {Home} /\ steps = 0

-----------------------------------------------------------------------------
(* Remote API and simulator                                                 *)

\* One message each way: the commands that wait, the values of every stream.
Exchanged ==
    /\ simTarget' = [j \in Joints |-> IF outbox[j].none THEN simTarget[j] ELSE outbox[j].position]
    /\ outbox' = [j \in Joints |-> NoCommand]
    /\ inbox' = simPosition

Exchange ==
    /\ connected /\ ~paused
    /\ Exchanged
    /\ UNCHANGED <<program, driver, robot, time, connected, paused>>
    /\ UNCHANGED <<simSync, running, triggered, simPosition, history>>

ConnectionLost ==
    /\ connected /\ connected' = FALSE
    /\ UNCHANGED <<program, driver, robot, time, paused, outbox, inbox>>
    /\ UNCHANGED <<simulator, history>>

Simulate ==
    /\ running /\ (simSync => triggered)
    /\ simPosition' = simTarget
    /\ triggered' = FALSE
    /\ steps' = IF simSync /\ phase = "run" THEN steps + 1 ELSE steps
    /\ UNCHANGED <<program, driver, robot, time, api>>
    /\ UNCHANGED <<simSync, running, simTarget, got, expected, commands>>

-----------------------------------------------------------------------------
(* VREPDriver: construction, start(), read(), send(), stop()                *)

\* The simulation starts in free mode; the two triggers find nobody waiting, and
\* AppMaker does not look at the result.
Start ==
    /\ pc = "start" /\ pc' = "init"
    /\ IF connected THEN running' = TRUE /\ Exchanged
                    ELSE UNCHANGED <<running, simTarget, outbox, inbox>>
    /\ UNCHANGED <<phase, _stop, driver, robot, time, connected, paused>>
    /\ UNCHANGED <<simSync, triggered, simPosition, history>>

EnableSynchronous(state) ==
    /\ sync_mode_' = state
    /\ simSync' = IF connected THEN state ELSE simSync

\* nextStep(), which waits for the simulator to finish the step before; without
\* synchronous mode read() sleeps.  Mutant: read() leaves the step to its caller.
SleepOnly ==
    /\ pc = "read" /\ pc' = "velocity"
    /\ all_ok' = TRUE /\ got' = {}
    /\ UNCHANGED <<triggered, simTarget, outbox, inbox>>
    /\ UNCHANGED <<phase, _stop, sync_mode_, waited_for, joint, robot, time, connected>>
    /\ UNCHANGED <<paused, simSync, running, simPosition, expected, commands, steps>>

NextStep ==
    /\ pc = "read" /\ pc' = "velocity"
    /\ got' = {}
    /\ \/ /\ sync_mode_ /\ connected /\ ~triggered
          /\ Exchanged
          /\ triggered' = (simSync /\ running)
          /\ all_ok' = TRUE
       \/ /\ sync_mode_ => ~connected
          /\ all_ok' = ~sync_mode_
          /\ UNCHANGED <<triggered, simTarget, outbox, inbox>>
    /\ UNCHANGED <<phase, _stop, sync_mode_, waited_for, joint, robot, time, connected>>
    /\ UNCHANGED <<paused, simSync, running, simPosition, expected, commands, steps>>

AnotherJoint == joint < JointCount

ReadTCPVelocity ==
    /\ pc = "velocity" /\ pc' = "wrench"
    /\ all_ok' = (all_ok /\ connected)
    /\ got' = IF connected THEN got \union {"velocity"} ELSE got
    /\ UNCHANGED <<phase, _stop, sync_mode_, waited_for, joint, robot, time, api, simulator>>
    /\ UNCHANGED <<expected, commands, steps>>

\* The sensor may say that it has no data yet, or no more.
ReadTCPWrench ==
    /\ pc = "wrench" /\ pc' = "position"
    /\ \E hasData \in BOOLEAN :
          /\ all_ok' = (all_ok /\ connected /\ hasData)
          /\ got' = IF connected /\ hasData THEN got \union {"wrench"} ELSE got
    /\ joint' = 1
    /\ UNCHANGED <<phase, _stop, sync_mode_, waited_for, robot, time, api, simulator>>
    /\ UNCHANGED <<expected, commands, steps>>

\* Whatever simxGetJointPosition answers is not -1: a joint without a value counts
\* as read, and is what the variable on the stack was.
ReadJointPosition ==
    /\ pc = "position"
    /\ \E p \in IF connected THEN {inbox[joint]} ELSE Garbage :
          jointCurrentPosition' = [jointCurrentPosition EXCEPT ![joint] = p]
    /\ got' = IF connected
              THEN IF joint = 1 THEN got \union {"position"} ELSE got
              ELSE got \ {"position"}
    /\ IF AnotherJoint THEN joint' = joint + 1 /\ pc' = pc
                       ELSE joint' = 1 /\ pc' = "decide"
    /\ UNCHANGED <<phase, _stop, sync_mode_, waited_for, all_ok, time, api, simulator>>
    /\ UNCHANGED <<jointTargetPosition, jointVelocity, expected, commands, steps>>

\* send(): the target moves on and all joints are sent in one message.
\* Mutant: without simxPauseCommunication.
Unpaused == FALSE
PauseCommunication == TRUE

Send ==
    /\ pc = "send" /\ pc' = "put"
    /\ paused' = PauseCommunication
    /\ jointTargetPosition' = [j \in Joints |-> jointTargetPosition[j] + jointVelocity[j]]
    /\ expected' = [j \in Joints |-> expected[j] + jointVelocity[j]]
    /\ commands' = commands \union {expected'}
    /\ joint' = 1
    /\ UNCHANGED <<phase, _stop, sync_mode_, waited_for, all_ok, time, simulator>>
    /\ UNCHANGED <<jointCurrentPosition, jointVelocity, got, steps>>
    /\ UNCHANGED <<connected, outbox, inbox>>

SendJointTargetPosition ==
    /\ pc = "put"
    /\ outbox' = IF connected THEN [outbox EXCEPT ![joint] = Command(jointTargetPosition[joint])]
                              ELSE outbox
    /\ IF AnotherJoint THEN joint' = joint + 1 /\ pc' = pc
                       ELSE joint' = 1 /\ pc' = "sent"
    /\ UNCHANGED <<phase, _stop, sync_mode_, waited_for, all_ok, robot, time, simulator, history>>
    /\ UNCHANGED <<connected, paused, inbox>>

Stop ==
    /\ pc = "stop" /\ pc' = "ended"
    /\ IF sync_mode_ THEN EnableSynchronous(FALSE) ELSE UNCHANGED <<sync_mode_, simSync>>
    /\ running' = (running /\ ~connected)
    /\ UNCHANGED <<phase, _stop, waited_for, all_ok, joint, robot, time, api>>
    /\ UNCHANGED <<triggered, simTarget, simPosition, history>>

-----------------------------------------------------------------------------
(* Driver::init(), AppMaker::run() and the loop around it                   *)

InitDriver ==
    /\ pc = "init" /\ pc' = "read"
    /\ waited_for' = 0
    /\ EnableSynchronous(sync_mode_)
    /\ UNCHANGED <<phase, _stop, all_ok, joint, robot, time, api, history>>
    /\ UNCHANGED <<running, triggered, simTarget, simPosition>>

\* init() reads until it can or the time is over; a value that comes with the last
\* sample is too late.  Mutants: the target is left alone; the time is not looked at.
TargetLeft == jointTargetPosition
TargetAtRobot == jointCurrentPosition

WaitForever == TRUE
TimeLeft == waited_for < Timeout

WaitForRobot ==
    /\ pc = "decide" /\ phase = "init"
    /\ \/ /\ ~all_ok /\ TimeLeft
          /\ waited_for' = IF waited_for < Timeout THEN waited_for + 1 ELSE waited_for
          /\ pc' = "read"
          /\ UNCHANGED <<phase, jointTargetPosition>>
       \/ /\ all_ok /\ TimeLeft
          /\ jointTargetPosition' = TargetAtRobot
          /\ pc' = "loop" /\ phase' = "run"
          /\ UNCHANGED waited_for
       \/ /\ ~TimeLeft
          /\ pc' = "stop"
          /\ UNCHANGED <<phase, waited_for, jointTargetPosition>>
    /\ UNCHANGED <<_stop, sync_mode_, all_ok, joint, jointCurrentPosition, jointVelocity>>
    /\ UNCHANGED <<time, api, simulator, history>>

Loop ==
    /\ pc = "loop"
    /\ pc' = IF _stop \/ time = MaxCycles THEN "stop" ELSE "read"
    /\ UNCHANGED <<phase, _stop, driver, robot, time, api, simulator, history>>

\* run() after read(): any velocity the controller computes, or the end.
Decide ==
    /\ pc = "decide" /\ phase = "run"
    /\ pc' = IF all_ok THEN "compute" ELSE "stop"
    /\ UNCHANGED <<phase, _stop, driver, robot, time, api, simulator, history>>

Compute ==
    /\ pc = "compute" /\ pc' = "send"
    /\ jointVelocity' \in [Joints -> Velocities]
    /\ UNCHANGED <<phase, _stop, driver, jointCurrentPosition, jointTargetPosition>>
    /\ UNCHANGED <<time, api, simulator, history>>

\* The end of send(), and the clock.
Sent ==
    /\ pc = "sent" /\ pc' = "loop"
    /\ paused' = FALSE
    /\ time' = time + 1
    /\ UNCHANGED <<phase, _stop, driver, robot, connected, outbox, inbox>>
    /\ UNCHANGED <<simulator, history>>

\* SIGINT, once its handler is there, or a callback of the user that returns false.
Interrupt ==
    /\ phase = "run" /\ pc # "ended"
    /\ ~_stop /\ _stop' = TRUE
    /\ UNCHANGED <<pc, phase, driver, robot, time, api, simulator, history>>

Program ==
    \/ Start \/ InitDriver \/ NextStep \/ ReadTCPVelocity \/ ReadTCPWrench
    \/ ReadJointPosition \/ WaitForRobot \/ Loop \/ Decide \/ Compute \/ Send
    \/ SendJointTargetPosition \/ Sent \/ Stop

Next == Program \/ Exchange \/ ConnectionLost \/ Simulate \/ Interrupt

Spec == Init /\ [][Next]_vars

\* The program's thread and the simulator run on; messages may be late.
FairSpec == Spec /\ WF_vars(Program) /\ WF_vars(Simulate)

-----------------------------------------------------------------------------
(* Properties                                                               *)

Vectors == [Joints -> Int]
Messages == [Joints -> [none : {TRUE}] \union [none : {FALSE}, position : Int]]

TypeOK ==
    /\ pc \in {"start", "init", "read", "velocity", "wrench", "position", "decide",
              "loop", "compute", "send", "put", "sent", "stop", "ended"}
    /\ phase \in {"init", "run"}
    /\ _stop \in BOOLEAN /\ sync_mode_ \in BOOLEAN /\ all_ok \in BOOLEAN
    /\ connected \in BOOLEAN /\ paused \in BOOLEAN
    /\ simSync \in BOOLEAN /\ running \in BOOLEAN /\ triggered \in BOOLEAN
    /\ waited_for \in 0 .. Timeout /\ joint \in Joints
    /\ jointCurrentPosition \in Vectors /\ jointTargetPosition \in Vectors
    /\ jointVelocity \in Vectors /\ inbox \in Vectors
    /\ simTarget \in Vectors /\ simPosition \in Vectors /\ expected \in Vectors
    /\ got \subseteq Streams
    /\ outbox \in Messages
    /\ commands \subseteq Vectors
    /\ time \in 0 .. MaxCycles /\ steps \in Nat

\* The simulator's targets are always those of one command, all joints of it, and
\* that command leads on from where the robot stood: whatever was lost on the way,
\* whenever init() found the robot, and whatever was read when the connection broke.
CommandsComeWhole == simTarget \in commands

\* In synchronous mode no step of the simulator takes a joint further than the
\* commands of two cycles.
TwoCommands == {v + w : v, w \in Velocities \union {0}}
NoJump ==
    [][sync_mode_ => \A j \in Joints : simPosition'[j] - simPosition[j] \in TwoCommands]_vars

\* In synchronous mode the joints with which the controller computes are at most
\* one command behind the last one sent, if they were read at all.
OneCommandBehind ==
    sync_mode_ /\ phase = "run" /\ pc = "compute" /\ got = Streams =>
        \A j \in Joints : expected[j] - jointCurrentPosition[j] \in Velocities \union {0}

\* Get data from the robot: true on success, false otherwise.
ReadTrueMeansRead == all_ok /\ pc = "decide" => got = Streams

\* The program comes to its end once it is told to, or has lost the robot: neither
\* init() nor nextStep() waits for ever.
Ends == (_stop \/ ~connected) ~> pc = "ended"
=============================================================================
