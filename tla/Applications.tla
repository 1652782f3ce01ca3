---------------------------- MODULE Applications ----------------------------
(***************************************************************************)
(* The main() of each program under src/apps/, as the calls it makes to    *)
(* the driver, the controller, the clock and the logger, in its order.     *)
(* One joint stands for all, and one call for one step: how the calls of   *)
(* the driver interleave with the remote API is VREPDriver's subject.      *)
(***************************************************************************)
EXTENDS Integers, DataLogger

CONSTANTS
    Programs,       \* those that are run
    Home,           \* where the joint stands at the beginning
    Velocities,     \* displacements the controller may ask for in one sample
    MaxRounds       \* bound: rounds of the main loop before the user stops it

ASSUME ApplicationsAssumption ==
    /\ Home \in Int /\ Velocities \subseteq Int /\ Velocities # {}
    /\ MaxRounds \in Nat

VARIABLES
    program, main,      \* the program, and how far it is
    driver,             \* sync_mode_, connected, whether it tracks objects
    robot,              \* jointCurrentPosition, jointTargetPosition, jointVelocity
    simulator, time, cycle, logger,
    history             \* what the logger was asked to log, and the rows that makes

vars == <<program, main, driver, robot, simulator, time, cycle, logger, history>>

-----------------------------------------------------------------------------
(* The programs.  setup: up to the main loop; cycle: a round that has read; *)
(* pause: the end of each round; finish: after the loop.                    *)

Items == {"constraint", "generator"}    \* of the controller
LogCalls == [robot |-> "log_robot", data |-> "log_data", more |-> "log_more"]

Main(setup, cycles, pause, finish) ==
    [setup |-> setup, cycle |-> cycles, pause |-> pause, finish |-> finish,
     delay |-> FALSE, readOrStop |-> FALSE, loops |-> TRUE]

ForceControlExample ==
    Main(<<"driver", "handles", "start", "signal", "wait", "synchronous">>,
         <<"compute", "send">>, <<"nextStep">>, <<"free", "stop">>)

ObstacleAvoidanceExample ==
    Main(<<"driver", "handles", "start", "track", "signal">>, <<"compute", "send">>, <<>>, <<"stop">>)

SeparationDistanceExample == ObstacleAvoidanceExample

StopConstraintExample ==
    Main(<<"driver", "handles", "start", "signal">>, <<"compute", "send">>, <<>>, <<"stop">>)

NullSpaceMotionExample ==
    Main(<<"driver", "handles", "start", "log_control", "log_robot", "synchronous", "init", "signal">>,
         <<"compute", "clock", "log", "send">>, <<"nextStep">>, <<"free", "stop">>)

PathFollowerExample ==
    Main(<<"driver", "handles", "start", "timings", "log_data", "signal", "synchronous", "nextStep">>,
         <<"trajectory", "compute", "send", "clock", "log">>, <<"nextStep">>, <<"free", "stop">>)

\* A program made with AppMaker: its constructor, init(), run() and stop().  A run
\* that cannot read or send, or whose callback says so, is the last.
AppMaker(before, after, callback) ==
    [Main(<<"driver", "handles", "start", "log_control", "log_robot">> \o before \o <<"init", "signal">> \o after,
          callback \o <<"compute", "send", "clock", "log">>, <<>>, <<"stop">>)
     EXCEPT !.readOrStop = TRUE]

VelocityConstraintExample == AppMaker(<<>>, <<>>, <<>>)
TrajectoryGeneratorExample ==
    [AppMaker(<<"timings_or_stop", "log_data">>, <<>>, <<"trajectory">>)
     EXCEPT !.finish = <<"signal_off", "stop">>]
JointTrajectoryGeneratorExample == AppMaker(<<>>, <<"timings">>, <<"trajectory">>)

\* The state machine may change what the controller holds, and may end the program.
Demo ==
    [Main(<<"driver", "handles", "start", "log_control", "log_robot", "log_data", "signal",
            "synchronous", "wait", "state_machine">>,
          <<"trajectory", "compute", "send", "clock", "log">>, <<"nextStep">>, <<"free", "stop">>)
     EXCEPT !.delay = TRUE]

\* A benchmark logs what "compute" took twice, then takes the next name.
ControllerBenchmark ==
    [Main(<<"clock_reset", "clock", "log_data", "clock", "compute", "clock", "log",
            "clock", "compute", "clock", "log", "reset", "log_more", "clock", "compute", "clock", "log">>, <<>>, <<>>, <<>>)
     EXCEPT !.delay = TRUE, !.loops = FALSE]

TrajectoryGeneratorBenchmark ==
    [Main(<<"clock_reset", "clock", "clock_reset", "reset", "log_data", "clock", "compute", "clock", "log",
            "clock_reset", "reset", "log_more", "clock", "compute", "clock", "log">>, <<>>, <<>>, <<>>)
     EXCEPT !.delay = TRUE, !.loops = FALSE]

Calls == [force_control |-> ForceControlExample, obstacle_avoidance |-> ObstacleAvoidanceExample,
          separation_distance |-> SeparationDistanceExample, stop_constraint |-> StopConstraintExample,
          null_space_motion |-> NullSpaceMotionExample, path_follower |-> PathFollowerExample,
          velocity_constraint |-> VelocityConstraintExample,
          trajectory_generator |-> TrajectoryGeneratorExample,
          joint_trajectory |-> JointTrajectoryGeneratorExample, demo |-> Demo,
          controller_benchmark |-> ControllerBenchmark,
          trajectory_benchmark |-> TrajectoryGeneratorBenchmark]

ASSUME NamesAssumption ==
    Programs \subseteq DOMAIN Calls /\ Items \cup DOMAIN LogCalls \subseteq Names

Code == Calls[program]
Initialises == \E i \in DOMAIN Code.setup : Code.setup[i] \in {"init", "state_machine"}

-----------------------------------------------------------------------------
Init ==
    /\ program \in Programs
    /\ main = [stage |-> "setup", todo |-> Code.setup, outcome |-> "running",
               stop |-> FALSE, handler |-> FALSE, init_ok |-> TRUE, rounds |-> 0]
    /\ driver = [sync_mode_ |-> TRUE, connected |-> FALSE, tracks |-> FALSE]
    /\ robot = [position |-> 0, target |-> 0, velocity |-> 0]
    /\ simulator = [running |-> FALSE, synchronous |-> FALSE, target |-> Home,
                    position |-> Home, steps |-> 0]
    /\ time = 0 /\ cycle = 0
    /\ logger = NewLogger(Code.delay)
    /\ history = [controller |-> FALSE, data |-> {}, rows |-> [n \in Names |-> <<>>]]

IsNext(call) == main.outcome = "running" /\ main.todo # <<>> /\ Head(main.todo) = call
Made == [main EXCEPT !.todo = Tail(@)]
Dies == main' = [main EXCEPT !.outcome = "thrown"]

\* simxSynchronousTrigger: one step, if the simulator waits for it; those of the
\* main loop are counted.
Triggered(s) ==
    IF s.running /\ s.synchronous /\ driver.connected
    THEN [s EXCEPT !.position = s.target, !.steps = IF main.stage = "setup" THEN 0 ELSE @ + 1]
    ELSE s

Synchronous(s, state) == IF driver.connected THEN [s EXCEPT !.synchronous = state] ELSE s

-----------------------------------------------------------------------------
(* Calls to the driver                                                      *)

\* The constructor reads the configuration, if there is one, and connects; a field that
\* is missing, or no connection, is an exception.
ConstructDriver ==
    /\ IsNext("driver")
    /\ \/ main' = Made /\ driver' = [driver EXCEPT !.connected = TRUE]
       \/ Dies /\ UNCHANGED driver
    /\ UNCHANGED <<program, robot, simulator, time, cycle, logger, history>>

\* It then asks for the handles of what the scene has of the robot, each of which must be
\* there, and starts the streams without looking at the results.
GetObjectHandles ==
    /\ IsNext("handles")
    /\ \/ driver.connected /\ main' = Made
       \/ Dies
    /\ UNCHANGED <<program, driver, robot, simulator, time, cycle, logger, history>>

TrackObjectPosition ==
    /\ IsNext("track")
    /\ \/ driver.connected /\ main' = Made /\ driver' = [driver EXCEPT !.tracks = TRUE]
       \/ Dies /\ UNCHANGED driver
    /\ UNCHANGED <<program, robot, simulator, time, cycle, logger, history>>

Start ==
    /\ IsNext("start") /\ main' = Made
    /\ simulator' = [simulator EXCEPT !.running = @ \/ driver.connected]
    /\ UNCHANGED <<program, driver, robot, time, cycle, logger, history>>

EnableSynchronous(call, state) ==
    /\ IsNext(call) /\ main' = Made
    /\ driver' = [driver EXCEPT !.sync_mode_ = state]
    /\ simulator' = Synchronous(simulator, state)
    /\ UNCHANGED <<program, robot, time, cycle, logger, history>>

NextStep ==
    /\ IsNext("nextStep") /\ main' = Made
    /\ simulator' = IF driver.sync_mode_ THEN Triggered(simulator) ELSE simulator
    /\ UNCHANGED <<program, driver, robot, time, cycle, logger, history>>

\* Mutant: read() leaves the step to its caller, as the documentation says.
StepOfCaller == simulator
StepOfRead == IF driver.sync_mode_ THEN Triggered(simulator) ELSE simulator

\* What a read gets: the joint before the step or after it.
Reads ==
    /\ driver.connected
    /\ simulator' = StepOfRead
    /\ \E p \in {simulator.position, simulator'.position} : robot' = [robot EXCEPT !.position = p]

\* No connection, or no data of the force sensor.
CannotRead == simulator' = StepOfRead /\ UNCHANGED robot

\* Driver::init() once it can read, or at its timeout.  Mutant: the target stays.
TargetKept(r) == r
TargetAtJoints(r) == [r EXCEPT !.target = r.position]

InitDriver ==
    /\ IsNext("init")
    /\ simulator' = Triggered(Synchronous(simulator, driver.sync_mode_))
    /\ \/ /\ driver.connected
          /\ robot' = TargetAtJoints([robot EXCEPT !.position = simulator'.position])
          /\ main' = Made
       \/ UNCHANGED robot /\ main' = [Made EXCEPT !.init_ok = FALSE]
    /\ UNCHANGED <<program, driver, time, cycle, logger, history>>

\* StateMachine::init(), once the demo has read.
InitStateMachine ==
    /\ IsNext("state_machine") /\ main' = Made
    /\ robot' = TargetAtJoints(robot)
    /\ UNCHANGED <<program, driver, simulator, time, cycle, logger, history>>

\* while(not driver.read() and not _stop); the demo waits for more than one, and its
\* nextStep() in between does again what read() does.
WaitForRead ==
    /\ IsNext("wait")
    /\ \/ Reads /\ main' \in {main, Made}
       \/ CannotRead /\ main' = IF main.stop THEN Made ELSE main
    /\ UNCHANGED <<program, driver, time, cycle, logger, history>>

\* The target moves on whether it can be sent or not.
Send ==
    /\ IsNext("send")
    /\ robot' = [robot EXCEPT !.target = @ + robot.velocity]
    /\ IF driver.connected
       THEN main' = Made /\ simulator' = [simulator EXCEPT !.target = robot'.target]
       ELSE /\ main' = [Made EXCEPT !.stop = @ \/ Code.readOrStop]
            /\ UNCHANGED simulator
    /\ UNCHANGED <<program, driver, time, cycle, logger, history>>

\* stop() leaves the synchronous mode itself.  Mutant: only that.
StillRunning(s) == s.running
Stopped(s) == s.running /\ ~driver.connected

Stop ==
    /\ IsNext("stop") /\ main' = Made
    /\ driver' = [driver EXCEPT !.sync_mode_ = FALSE]
    /\ simulator' = [(IF driver.sync_mode_ THEN Synchronous(simulator, FALSE) ELSE simulator)
                     EXCEPT !.running = Stopped(simulator)]
    /\ UNCHANGED <<program, robot, time, cycle, logger, history>>

-----------------------------------------------------------------------------
(* Calls to the controller, the trajectory, the clock and the logger        *)

Compute ==
    /\ IsNext("compute") /\ main' = Made
    /\ \E v \in Velocities : robot' = [robot EXCEPT !.velocity = v]
    /\ cycle' = cycle + 1
    /\ UNCHANGED <<program, driver, simulator, time, logger, history>>

\* The generator has come to its end, or the state machine has.
Trajectory ==
    /\ IsNext("trajectory")
    /\ \E end \in BOOLEAN : main' = [Made EXCEPT !.stop = @ \/ end]
    /\ UNCHANGED <<program, driver, robot, simulator, time, cycle, logger, history>>

\* computeTimings() may throw; one program stops the robot before it dies of that.
ComputeTimings ==
    /\ \/ IsNext("timings") /\ (main' = Made \/ Dies)
       \/ /\ IsNext("timings_or_stop")
          /\ main' \in {Made, [main EXCEPT !.todo = <<"free", "stop", "rethrow">>]}
       \/ IsNext("rethrow") /\ Dies
    /\ UNCHANGED <<program, driver, robot, simulator, time, cycle, logger, history>>

SetHandler ==
    /\ \/ IsNext("signal") /\ main' = [Made EXCEPT !.handler = TRUE]
       \/ IsNext("signal_off") /\ main' = [Made EXCEPT !.handler = FALSE]
    /\ UNCHANGED <<program, driver, robot, simulator, time, cycle, logger, history>>

UpdateClock ==
    /\ IsNext("clock") \/ IsNext("clock_reset")
    /\ main' = Made
    /\ time' = IF IsNext("clock") THEN time + 1 ELSE 0
    /\ UNCHANGED <<program, driver, robot, simulator, cycle, logger, history>>

Register ==
    /\ \/ /\ IsNext("log_control")
          /\ logger' = LogSafetyControllerData(logger)
          /\ history' = [history EXCEPT !.controller = TRUE]
       \/ \E n \in DOMAIN LogCalls :
             /\ IsNext(LogCalls[n])
             /\ logger' = LogExternalData(logger, n)
             /\ history' = [history EXCEPT !.data = @ \cup {n}]
       \/ /\ IsNext("reset")
          /\ logger' = Reset(logger)
          /\ history' = [history EXCEPT !.controller = FALSE, !.data = {}]
    /\ main' = Made
    /\ UNCHANGED <<program, driver, robot, simulator, time, cycle>>

Log ==
    /\ IsNext("log") /\ main' = Made
    /\ \E items \in IF program = "demo" THEN SUBSET Items ELSE {Items} :
          LET row == [n \in Names |-> [time |-> time, cycle |-> cycle]]
              wanted == history.data \cup (IF history.controller THEN items ELSE {})
          IN  /\ logger' = Process(logger, items, row)
              /\ history' = [history EXCEPT !.rows =
                     [n \in Names |-> IF n \in wanted THEN Append(@[n], row[n]) ELSE @[n]]]
    /\ UNCHANGED <<program, driver, robot, simulator, time, cycle>>

-----------------------------------------------------------------------------
(* The main loop, the signal, the end, and the simulator on its own         *)

AtLoop == main.outcome = "running" /\ main.stage = "loop" /\ main.todo = <<>>
GoesOn == main.init_ok /\ ~main.stop /\ main.rounds < MaxRounds

NextStage ==
    /\ main.outcome = "running" /\ main.todo = <<>>
    /\ \/ /\ main.stage = "setup"
          /\ main' = IF Code.loops THEN [main EXCEPT !.stage = "loop"]
                     ELSE [main EXCEPT !.stage = "finish"]
       \/ /\ main.stage = "cycle"
          /\ main' = [main EXCEPT !.stage = "pause", !.todo = Code.pause]
       \/ /\ main.stage = "pause"
          /\ main' = [main EXCEPT !.stage = "loop"]
       \/ /\ AtLoop /\ ~GoesOn
          /\ main' = [main EXCEPT !.stage = "finish", !.todo = Code.finish]
    /\ UNCHANGED <<program, driver, robot, simulator, time, cycle, logger, history>>

\* A tracked object whose position does not come is an exception.
ReadInLoop ==
    /\ AtLoop /\ GoesOn
    /\ \/ /\ Reads
          /\ main' = [main EXCEPT !.stage = "cycle", !.todo = Code.cycle, !.rounds = @ + 1]
       \/ /\ CannotRead
          /\ main' = [main EXCEPT !.stage = "pause", !.todo = Code.pause, !.rounds = @ + 1,
                                  !.stop = @ \/ Code.readOrStop]
       \/ driver.tracks /\ CannotRead /\ Dies
    /\ UNCHANGED <<program, driver, time, cycle, logger, history>>

\* SIGINT; without a handler it ends the process.
Interrupt ==
    /\ main.outcome = "running" /\ ~(main.handler /\ main.stop)
    /\ main' = IF main.handler THEN [main EXCEPT !.stop = TRUE]
               ELSE [main EXCEPT !.outcome = "killed"]
    /\ UNCHANGED <<program, driver, robot, simulator, time, cycle, logger, history>>

\* The destructors of the logger and the driver.
Return ==
    /\ main.outcome = "running" /\ main.stage = "finish" /\ main.todo = <<>>
    /\ main' = [main EXCEPT !.outcome = "returned"]
    /\ logger' = Destroy(logger)
    /\ driver' = [driver EXCEPT !.sync_mode_ = FALSE]
    /\ simulator' = Synchronous(simulator, FALSE)
    /\ UNCHANGED <<program, robot, time, cycle, history>>

ConnectionLost ==
    /\ main.outcome = "running" /\ driver.connected
    /\ driver' = [driver EXCEPT !.connected = FALSE]
    /\ UNCHANGED <<program, main, robot, simulator, time, cycle, logger, history>>

SimulateFreely ==
    /\ simulator.running /\ ~simulator.synchronous
    /\ simulator' = [simulator EXCEPT !.position = simulator.target]
    /\ UNCHANGED <<program, main, driver, robot, time, cycle, logger, history>>

Next ==
    \/ ConstructDriver \/ GetObjectHandles \/ TrackObjectPosition \/ Start \/ NextStep \/ InitDriver
    \/ EnableSynchronous("synchronous", TRUE) \/ EnableSynchronous("free", FALSE)
    \/ WaitForRead \/ InitStateMachine \/ Send \/ Stop \/ Compute \/ Trajectory \/ ComputeTimings
    \/ SetHandler \/ UpdateClock \/ Register \/ Log
    \/ NextStage \/ ReadInLoop \/ Interrupt \/ Return \/ ConnectionLost \/ SimulateFreely

Spec == Init /\ [][Next]_vars

-----------------------------------------------------------------------------
(* Properties                                                               *)

\* When a program has returned, each file holds one row for every time its datum was
\* logged, in order and of different cycles, whether rows were written at once or
\* kept, however often the controller's items came and went, and across a reset().
FilesHoldWhatWasLogged ==
    main.outcome = "returned" =>
        /\ logger.disk = history.rows
        /\ \A n \in Names : \A i, j \in DOMAIN logger.disk[n] :
              i < j => /\ logger.disk[n][i].time < logger.disk[n][j].time
                       /\ logger.disk[n][i].cycle < logger.disk[n][j].cycle

\* In synchronous mode the simulation makes one step in each round of the main loop,
\* the one of read(); two in the programs that call nextStep() as well, as its
\* documentation asks, while their clocks and trajectories advance by one sample.
StepsPerRound ==
    AtLoop /\ driver.connected /\ simulator.synchronous =>
        simulator.steps = main.rounds * (1 + Len(Code.pause))

\* A program that calls init(), the driver's or the state machine's, never sends a target
\* further from the one before than what the controller asked for in that cycle, beginning
\* from where the robot stands.  The programs that do not may command the whole way from
\* Home to zero at once.
TargetMovesByVelocity ==
    [][Initialises => simulator'.target - simulator.target \in Velocities \cup {0}]_vars

\* However main() comes to its end by itself, with what may fail on the way, the
\* simulation is stopped and free to run again; only what kills the process, a
\* signal too early or an exception nobody catches, can leave it running.
OnlyDeathLeavesItRunning ==
    main.outcome = "returned" /\ driver.connected => ~simulator.running /\ ~simulator.synchronous
=============================================================================
