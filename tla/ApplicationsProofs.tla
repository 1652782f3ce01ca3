------------------------- MODULE ApplicationsProofs -------------------------
(***************************************************************************)
(* Proofs about Applications, for every set of programs and every number   *)
(* of rounds: a program that ends without being killed leaves no           *)
(* simulation running, every round of a synchronous program makes exactly  *)
(* the steps its calls ask for, the target the simulator works on only     *)
(* moves by velocities the program computed, and the files hold the rows   *)
(* that were logged.                                                       *)
(*                                                                         *)
(* The programs are the literal lists of calls of Applications.  The first *)
(* part shows that each has the few features the argument needs (WellMade).*)
(* The invariant then says what is left to call: main.todo is a suffix of  *)
(* the list of its stage (TodoIsTheRest), so "has already called" (Past)   *)
(* is a predicate of the state.  With it, the mode of the simulation, the  *)
(* stop() still to come, the count of the steps and the agreement of the   *)
(* robot's target with the simulator's are tied to the place in the code.  *)
(*                                                                         *)
(* For the files a second invariant says that the logger is determined by  *)
(* what it was asked for and has opened (Logger), which takes induction    *)
(* over the names process() and the destructor walk through, and that the  *)
(* clock and the controller go on between two rows of a file.              *)
(***************************************************************************)
EXTENDS Applications, SequenceTheorems, FiniteSetTheorems, WellFoundedInduction, TLAPS

-----------------------------------------------------------------------------
(* What all the programs have in common                                     *)

\* Calls that touch neither the robot, the simulator nor the number of rounds.
Silent == {"handles", "track", "signal", "signal_off", "timings", "timings_or_stop",
           "trajectory", "clock", "clock_reset", "log", "log_control", "log_robot",
           "log_data", "log_more", "reset"}

\* What a program may call up to its main loop, ...
SetupCalls == Silent \cup {"driver", "start", "synchronous", "wait", "init", "state_machine",
                           "nextStep", "compute"}
\* ... in a round that has read, ...
CycleCalls == {"trajectory", "compute", "send", "clock", "log"}
\* ... and at the end.
FinishCalls == {"free", "stop", "signal_off"}

\* Every call, the rethrow of the program that gives up included.
AllCalls == SetupCalls \cup CycleCalls \cup FinishCalls \cup {"rethrow"}

\* What the proofs use of a program: the driver is made first, the state machine is
\* initialised right after the wait, only programs that start the simulation loop and
\* those stop it at the end, nothing is sent in a round before it is computed, and a
\* round that failed to read triggers at most one step.
WellMade(code) ==
    /\ code.setup \in Seq(SetupCalls) /\ code.cycle \in Seq(CycleCalls)
    /\ code.pause \in Seq({"nextStep"}) /\ code.finish \in Seq(FinishCalls)
    /\ code.loops \in BOOLEAN /\ code.readOrStop \in BOOLEAN
    /\ \A i \in 1 .. Len(code.setup) :
          /\ code.setup[i] = "driver" => i = 1
          /\ code.setup[i] = "state_machine" => i > 1 /\ code.setup[i - 1] = "wait"
    /\ code.loops <=> \E i \in 1 .. Len(code.setup) : code.setup[i] = "start"
    /\ \A i \in 1 .. Len(code.cycle) :
          code.cycle[i] = "send" => \E j \in 1 .. i - 1 : code.cycle[j] = "compute"
    /\ Len(code.pause) <= 1
    /\ code.loops => \E i \in 1 .. Len(code.finish) : code.finish[i] = "stop"

\* What the main of ForceControlExample does has the shape the proofs rely on.
LEMMA ForceControlWellMade == WellMade(ForceControlExample)
BY SMTT(60) DEF WellMade, ForceControlExample, Main, SetupCalls, CycleCalls, FinishCalls, Silent

\* What the main of ObstacleAvoidanceExample does has the shape the proofs rely on.
LEMMA ObstacleAvoidanceWellMade == WellMade(ObstacleAvoidanceExample)
BY SMTT(60) DEF WellMade, ObstacleAvoidanceExample, Main, SetupCalls, CycleCalls, FinishCalls, Silent

\* What the main of StopConstraintExample does has the shape the proofs rely on.
LEMMA StopConstraintWellMade == WellMade(StopConstraintExample)
BY SMTT(60) DEF WellMade, StopConstraintExample, Main, SetupCalls, CycleCalls, FinishCalls, Silent

\* What the main of NullSpaceMotionExample does has the shape the proofs rely on.
LEMMA NullSpaceMotionWellMade == WellMade(NullSpaceMotionExample)
BY SMTT(60) DEF WellMade, NullSpaceMotionExample, Main, SetupCalls, CycleCalls, FinishCalls, Silent

\* What the main of PathFollowerExample does has the shape the proofs rely on.
LEMMA PathFollowerWellMade == WellMade(PathFollowerExample)
BY SMTT(60) DEF WellMade, PathFollowerExample, Main, SetupCalls, CycleCalls, FinishCalls, Silent

\* What the main of Demo does has the shape the proofs rely on.
LEMMA DemoWellMade == WellMade(Demo)
BY SMTT(60) DEF WellMade, Demo, Main, SetupCalls, CycleCalls, FinishCalls, Silent

\* What the main of ControllerBenchmark does has the shape the proofs rely on.
LEMMA ControllerBenchmarkWellMade == WellMade(ControllerBenchmark)
BY SMTT(60) DEF WellMade, ControllerBenchmark, Main, SetupCalls, CycleCalls, FinishCalls, Silent

\* What the main of TrajectoryGeneratorBenchmark does has the shape the proofs rely on.
LEMMA TrajectoryBenchmarkWellMade == WellMade(TrajectoryGeneratorBenchmark)
BY SMTT(60) DEF WellMade, TrajectoryGeneratorBenchmark, Main, SetupCalls, CycleCalls, FinishCalls, Silent

\* A program made with AppMaker has that shape whatever its callback does and whatever it
\* calls before init() and before run(): the concatenated parts keep their places.
LEMMA AppMakerWellMade ==
  ASSUME NEW before \in Seq(Silent), NEW after \in Seq(Silent), NEW callback \in Seq({"trajectory"})
  PROVE  WellMade(AppMaker(before, after, callback))
<1> DEFINE begin == <<"driver", "handles", "start", "log_control", "log_robot">>
           init == <<"init", "signal">>
           first == begin \o before
           second == first \o init
           setup == second \o after
           round == <<"compute", "send", "clock", "log">>
           cycles == callback \o round
           code == AppMaker(before, after, callback)
<1>1. /\ code.setup = setup /\ code.cycle = cycles /\ code.pause = <<>> /\ code.finish = <<"stop">>
      /\ code.loops = TRUE /\ code.readOrStop = TRUE
  BY DEF AppMaker, Main
<1>2. /\ begin \in Seq(SetupCalls) /\ Len(begin) = 5
      /\ begin[3] = "start"
      /\ \A i \in 1 .. 5 : begin[i] \notin {"state_machine"} /\ (begin[i] = "driver" => i = 1)
  BY DEF SetupCalls, Silent
<1>3. /\ init \in Seq(SetupCalls)
      /\ \A i \in 1 .. Len(init) : init[i] \in {"init", "signal"}
  BY DEF SetupCalls, Silent
<1>4. /\ before \in Seq(SetupCalls) /\ after \in Seq(SetupCalls)
      /\ \A i \in 1 .. Len(before) : before[i] \in Silent
      /\ \A i \in 1 .. Len(after) : after[i] \in Silent
  BY DEF SetupCalls
<1> HIDE DEF begin, init
<1>5. /\ first \in Seq(SetupCalls) /\ Len(first) = 5 + Len(before)
      /\ \A i \in 1 .. Len(first) : first[i] = IF i <= 5 THEN begin[i] ELSE before[i - 5]
  <2>1. begin \in Seq(SetupCalls) /\ before \in Seq(SetupCalls)
    BY <1>2, <1>4
  <2>2. /\ first \in Seq(SetupCalls) /\ Len(first) = Len(begin) + Len(before)
        /\ \A i \in 1 .. Len(begin) + Len(before) :
              first[i] = IF i <= Len(begin) THEN begin[i] ELSE before[i - Len(begin)]
    BY <2>1, ConcatProperties
  <2>3. QED
    BY <2>2, <1>2, <1>4
<1> HIDE DEF first
<1>6. /\ second \in Seq(SetupCalls) /\ Len(second) = Len(first) + Len(init)
      /\ \A i \in 1 .. Len(second) : second[i] = IF i <= Len(first) THEN first[i] ELSE init[i - Len(first)]
  <2>1. first \in Seq(SetupCalls) /\ init \in Seq(SetupCalls)
    BY <1>5, <1>3
  <2>2. /\ second \in Seq(SetupCalls) /\ Len(second) = Len(first) + Len(init)
        /\ \A i \in 1 .. Len(first) + Len(init) :
              second[i] = IF i <= Len(first) THEN first[i] ELSE init[i - Len(first)]
    BY <2>1, ConcatProperties
  <2>3. QED
    BY <2>2, <1>5, <1>3
<1> HIDE DEF second
<1>7. /\ setup \in Seq(SetupCalls) /\ Len(setup) = Len(second) + Len(after)
      /\ \A i \in 1 .. Len(setup) : setup[i] = IF i <= Len(second) THEN second[i] ELSE after[i - Len(second)]
  <2>1. second \in Seq(SetupCalls) /\ after \in Seq(SetupCalls)
    BY <1>6, <1>4
  <2>2. /\ setup \in Seq(SetupCalls) /\ Len(setup) = Len(second) + Len(after)
        /\ \A i \in 1 .. Len(second) + Len(after) :
              setup[i] = IF i <= Len(second) THEN second[i] ELSE after[i - Len(second)]
    BY <2>1, ConcatProperties
  <2>3. QED
    BY <2>2, <1>6, <1>4
<1> HIDE DEF setup
<1>8. "driver" \notin Silent /\ "state_machine" \notin Silent
  BY DEF Silent
<1>9. ASSUME NEW i \in 1 .. Len(setup), setup[i] \in {"driver", "state_machine"}
      PROVE  i = 1 /\ setup[i] = "driver"
  <2>1. /\ Len(begin) = 5 /\ Len(before) \in Nat /\ Len(init) \in Nat /\ Len(after) \in Nat
        /\ i \in Int /\ 1 <= i /\ i <= Len(setup)
        /\ Len(first) = 5 + Len(before) /\ Len(second) = Len(first) + Len(init)
        /\ Len(setup) = Len(second) + Len(after)
    BY <1>2, <1>3, <1>4, <1>5, <1>6, <1>7, <1>9
  <2>2. CASE i <= 5
    <3>1. setup[i] = begin[i]
      BY <2>1, <2>2, <1>5, <1>6, <1>7
    <3>2. i \in 1 .. 5
      BY <2>1, <2>2
    <3>3. QED
      BY <3>1, <3>2, <1>2, <1>9
  <2>3. CASE i > 5 /\ i <= Len(first)
    <3>1. setup[i] = before[i - 5] /\ i - 5 \in 1 .. Len(before)
      BY <2>1, <2>3, <1>5, <1>6, <1>7
    <3>2. QED
      BY <3>1, <1>4, <1>8, <1>9
  <2>4. CASE i > Len(first) /\ i <= Len(second)
    <3>1. setup[i] = init[i - Len(first)] /\ i - Len(first) \in 1 .. Len(init)
      BY <2>1, <2>4, <1>6, <1>7
    <3>2. QED
      BY <3>1, <1>3, <1>9
  <2>5. CASE i > Len(second)
    <3>1. setup[i] = after[i - Len(second)] /\ i - Len(second) \in 1 .. Len(after)
      BY <2>1, <2>5, <1>7
    <3>2. QED
      BY <3>1, <1>4, <1>8, <1>9
  <2>6. QED
    BY <2>1, <2>2, <2>3, <2>4, <2>5
<1>10. 3 \in 1 .. Len(setup) /\ setup[3] = "start"
  BY <1>2, <1>3, <1>4, <1>5, <1>6, <1>7
<1>11. /\ round \in Seq(CycleCalls) /\ Len(round) = 4 /\ round[1] = "compute"
       /\ \A i \in 1 .. 4 : round[i] = "send" => i = 2
  BY DEF CycleCalls
<1>12. /\ callback \in Seq(CycleCalls)
       /\ \A i \in 1 .. Len(callback) : callback[i] = "trajectory"
  BY DEF CycleCalls
<1> HIDE DEF round
<1>13. /\ cycles \in Seq(CycleCalls) /\ Len(cycles) = Len(callback) + 4
       /\ \A i \in 1 .. Len(cycles) : cycles[i] = IF i <= Len(callback) THEN callback[i] ELSE round[i - Len(callback)]
  <2>1. callback \in Seq(CycleCalls) /\ round \in Seq(CycleCalls)
    BY <1>12, <1>11
  <2>2. /\ cycles \in Seq(CycleCalls) /\ Len(cycles) = Len(callback) + Len(round)
        /\ \A i \in 1 .. Len(callback) + Len(round) :
              cycles[i] = IF i <= Len(callback) THEN callback[i] ELSE round[i - Len(callback)]
    BY <2>1, ConcatProperties
  <2>3. QED
    BY <2>2, <1>12, <1>11
<1> HIDE DEF cycles
<1>14. ASSUME NEW i \in 1 .. Len(cycles), cycles[i] = "send"
       PROVE  \E j \in 1 .. i - 1 : cycles[j] = "compute"
  <2>1. i > Len(callback)
    BY <1>12, <1>13, <1>14
  <2>2. i = Len(callback) + 2
    BY <2>1, <1>11, <1>12, <1>13, <1>14
  <2>3. Len(callback) + 1 \in 1 .. i - 1 /\ cycles[Len(callback) + 1] = "compute"
    BY <2>2, <1>11, <1>12, <1>13
  <2>4. QED
    BY <2>3
<1>15. /\ <<>> \in Seq({"nextStep"}) /\ <<"stop">> \in Seq(FinishCalls)
       /\ \E i \in 1 .. Len(<<"stop">>) : <<"stop">>[i] = "stop"
  BY DEF FinishCalls
<1> HIDE DEF code
<1>16. /\ code.setup \in Seq(SetupCalls) /\ code.cycle \in Seq(CycleCalls)
       /\ code.pause \in Seq({"nextStep"}) /\ code.finish \in Seq(FinishCalls)
       /\ code.loops \in BOOLEAN /\ code.readOrStop \in BOOLEAN
       /\ Len(code.pause) <= 1
  <2>1. code.setup \in Seq(SetupCalls) /\ code.cycle \in Seq(CycleCalls)
    BY <1>1, <1>7, <1>13
  <2>2. code.pause \in Seq({"nextStep"}) /\ code.finish \in Seq(FinishCalls)
    BY <1>1, <1>15
  <2>3. code.loops \in BOOLEAN /\ code.readOrStop \in BOOLEAN
    BY <1>1
  <2>4. Len(code.pause) <= 1
    BY <1>1
  <2>5. QED
    BY <2>1, <2>2, <2>3, <2>4
<1>17. \A i \in 1 .. Len(code.setup) :
          /\ code.setup[i] = "driver" => i = 1
          /\ code.setup[i] = "state_machine" => i > 1 /\ code.setup[i - 1] = "wait"
  BY <1>1, <1>9
<1>18. code.loops <=> \E i \in 1 .. Len(code.setup) : code.setup[i] = "start"
  BY <1>1, <1>10
<1>19. \A i \in 1 .. Len(code.cycle) :
          code.cycle[i] = "send" => \E j \in 1 .. i - 1 : code.cycle[j] = "compute"
  BY <1>1, <1>14
<1>20. code.loops => \E i \in 1 .. Len(code.finish) : code.finish[i] = "stop"
  BY <1>1, <1>15
<1>21. WellMade(code)
  BY <1>16, <1>17, <1>18, <1>19, <1>20 DEF WellMade
<1>22. QED
  BY <1>21 DEF code

\* Every program of the repository has that shape.
LEMMA ProgramsWellMade == \A p \in DOMAIN Calls : WellMade(Calls[p])
<1>1. /\ <<>> \in Seq(Silent) /\ <<"timings">> \in Seq(Silent)
      /\ <<"timings_or_stop", "log_data">> \in Seq(Silent)
      /\ <<>> \in Seq({"trajectory"}) /\ <<"trajectory">> \in Seq({"trajectory"})
  BY DEF Silent
<1>2. WellMade(VelocityConstraintExample) /\ WellMade(JointTrajectoryGeneratorExample)
  BY <1>1, AppMakerWellMade DEF VelocityConstraintExample, JointTrajectoryGeneratorExample
<1>3. WellMade(TrajectoryGeneratorExample)
  <2> DEFINE made == AppMaker(<<"timings_or_stop", "log_data">>, <<>>, <<"trajectory">>)
             finish == <<"signal_off", "stop">>
  <2>1. WellMade(made)
    BY <1>1, AppMakerWellMade
  <2>2. /\ TrajectoryGeneratorExample.setup = made.setup
        /\ TrajectoryGeneratorExample.cycle = made.cycle
        /\ TrajectoryGeneratorExample.pause = made.pause
        /\ TrajectoryGeneratorExample.loops = made.loops
        /\ TrajectoryGeneratorExample.readOrStop = made.readOrStop
        /\ TrajectoryGeneratorExample.finish = finish
    BY DEF TrajectoryGeneratorExample, AppMaker, Main
  <2>3. finish \in Seq(FinishCalls) /\ \E i \in 1 .. Len(finish) : finish[i] = "stop"
    BY DEF FinishCalls
  <2> HIDE DEF made, finish
  <2>4. QED
    BY <2>1, <2>2, <2>3 DEF WellMade
<1>4. QED
  BY <1>2, <1>3, ForceControlWellMade, ObstacleAvoidanceWellMade, StopConstraintWellMade,
     NullSpaceMotionWellMade, PathFollowerWellMade, DemoWellMade, ControllerBenchmarkWellMade,
     TrajectoryBenchmarkWellMade
  DEF Calls, SeparationDistanceExample

-----------------------------------------------------------------------------
(* The inductive invariant                                                  *)

\* The calls of the stage the program is in.
Stage ==
    CASE main.stage = "setup" -> Code.setup
      [] main.stage = "cycle" -> Code.cycle
      [] main.stage = "pause" -> Code.pause
      [] main.stage = "finish" -> Code.finish
      [] OTHER -> <<>>

\* The stage has made this call already.
Past(call) == \E i \in 1 .. Len(Stage) - Len(main.todo) : Stage[i] = call

\* One program stops the robot and dies when its timings cannot be computed.
GivenUp == main.stage = "setup" /\ Len(main.todo) > 0 /\ main.todo[Len(main.todo)] = "rethrow"

\* The program runs, and has not given up.
Runs == main.outcome = "running" /\ ~GivenUp
\* Between the setup and the finish.
InLoop == main.stage \in {"loop", "cycle", "pause"}

\* What the simulator can be.
Simulators ==
    [running: BOOLEAN, synchronous: BOOLEAN, target: Int, position: Int, steps: Nat]

\* Types, as far as the proofs use them.
TypeOK ==
    /\ program \in Programs
    /\ main \in [stage: {"setup", "loop", "cycle", "pause", "finish"}, todo: Seq(AllCalls),
                 outcome: {"running", "returned", "thrown", "killed"},
                 stop: BOOLEAN, handler: BOOLEAN, init_ok: BOOLEAN, rounds: Nat]
    /\ driver \in [sync_mode_: BOOLEAN, connected: BOOLEAN, tracks: BOOLEAN]
    /\ robot \in [position: Int, target: Int, velocity: Int]
    /\ simulator \in Simulators

\* What is left to call is the rest of the stage.
TodoIsTheRest ==
    IF GivenUp
    THEN \A i \in 1 .. Len(main.todo) : main.todo[i] \in {"free", "stop", "rethrow"}
    ELSE /\ Len(main.todo) <= Len(Stage)
         /\ \A i \in 1 .. Len(main.todo) : main.todo[i] = Stage[i + (Len(Stage) - Len(main.todo))]

\* Only the programs with a main loop are in it.
LoopsOnly == InLoop => Code.loops

\* The simulation runs from start() on, in the mode the driver believes it is in.
Modes ==
    /\ main.stage = "setup" /\ ~GivenUp /\ ~Past("start") => ~simulator.running
    /\ Runs /\ main.stage # "finish" => driver.sync_mode_
    /\ Runs /\ driver.connected /\ (InLoop \/ (main.stage = "setup" /\ Past("start"))) =>
          simulator.running

\* stop() is still to be called.
StopIsLeft == \E i \in 1 .. Len(main.todo) : main.todo[i] = "stop"

\* A finish with the simulation running has its stop() before it.
StopsYet ==
    main.outcome = "running" /\ main.stage = "finish" /\ driver.connected /\ simulator.running =>
        StopIsLeft

\* The steps that the rest of a round does not make yet.
StepsLeft ==
    CASE main.stage = "loop" -> 0
      [] main.stage = "cycle" -> Len(Code.pause)
      [] main.stage = "pause" -> Len(main.todo)

\* Every round that read or failed to has made one step, and one more for each nextStep()
\* of the pause that is done.
Counts ==
    /\ main.stage = "setup" => simulator.steps = 0 /\ main.rounds = 0
    /\ main.outcome = "running" /\ InLoop /\ driver.connected /\ simulator.synchronous =>
          simulator.steps = main.rounds * (1 + Len(Code.pause)) - StepsLeft

\* Nothing moves before the first command.
AtHome ==
    main.stage = "setup" =>
        /\ simulator.target = Home /\ simulator.position = Home
        /\ Runs /\ Past("wait") /\ ~main.stop => robot.position = Home

\* The robot and the simulator agree on the target from init() on.
Holds ==
    /\ Runs /\ driver.connected /\ main.init_ok /\ ~main.stop
       /\ main.stage = "setup" /\ (Past("init") \/ Past("state_machine")) =>
           robot.target = simulator.target
    /\ main.outcome = "running" /\ driver.connected /\ main.init_ok /\ Initialises /\ InLoop
       /\ (main.stage = "cycle" \/ ~main.stop) =>
           robot.target = simulator.target

\* A round in progress has an initialised robot, and what it sends it has computed.
Chosen ==
    main.stage = "cycle" => main.init_ok /\ (Past("compute") => robot.velocity \in Velocities)

\* The inductive invariant.
Inv == /\ TypeOK /\ TodoIsTheRest /\ LoopsOnly /\ Modes /\ StopsYet /\ Counts /\ AtHome /\ Holds
       /\ Chosen /\ OnlyDeathLeavesItRunning

-----------------------------------------------------------------------------
(* What a call does to what is left to call                                 *)

\* The program that runs is well made, and the sequences of calls are sequences.
LEMMA CodeFacts ==
  ASSUME TypeOK
  PROVE  /\ WellMade(Code)
         /\ Stage \in Seq(AllCalls) /\ Len(Stage) \in Nat
         /\ Len(main.todo) \in Nat /\ main.todo \in Seq(AllCalls)
<1>1. WellMade(Code)
  BY ProgramsWellMade, NamesAssumption DEF TypeOK, Code
<1>2. /\ Code.setup \in Seq(AllCalls) /\ Code.cycle \in Seq(AllCalls)
      /\ Code.pause \in Seq(AllCalls) /\ Code.finish \in Seq(AllCalls)
  <2>1. /\ SetupCalls \subseteq AllCalls /\ CycleCalls \subseteq AllCalls
        /\ FinishCalls \subseteq AllCalls /\ {"nextStep"} \subseteq AllCalls
    BY DEF AllCalls, SetupCalls
  <2>2. QED
    BY <1>1, <2>1 DEF WellMade
<1>3. Stage \in Seq(AllCalls)
  BY <1>2 DEF Stage
<1>4. main.todo \in Seq(AllCalls)
  BY DEF TypeOK
<1>5. QED
  BY <1>1, <1>3, <1>4

\* A step that makes call c, and goes on.
Makes(c) ==
    /\ IsNext(c) /\ c # "rethrow" /\ program' = program
    /\ main'.todo = Tail(main.todo) /\ main'.stage = main.stage
    /\ main'.outcome = main.outcome /\ main'.rounds = main.rounds
    /\ main.stop => main'.stop

\* The call to make is the one of the stage after those that are past.
LEMMA NextCall ==
  ASSUME TypeOK, TodoIsTheRest, NEW c, IsNext(c)
  PROVE  /\ c \in AllCalls /\ Len(main.todo) > 0 /\ main.todo[1] = c
         /\ main.stage # "loop" /\ main.outcome = "running"
         /\ GivenUp => c \in {"free", "stop", "rethrow"}
         /\ ~GivenUp => LET next == Len(Stage) - Len(main.todo) + 1 IN
               next \in 1 .. Len(Stage) /\ Stage[next] = c
<1>1. /\ main.todo \in Seq(AllCalls) /\ main.todo # <<>> /\ Head(main.todo) = c
      /\ Stage \in Seq(AllCalls) /\ main.outcome = "running"
  BY CodeFacts DEF IsNext
<1>2. Len(main.todo) > 0 /\ main.todo[1] = c /\ c \in AllCalls
  BY <1>1
<1>3. 1 \in 1 .. Len(main.todo)
  BY <1>1, <1>2
<1>4. GivenUp => c \in {"free", "stop", "rethrow"}
  BY <1>2, <1>3 DEF TodoIsTheRest
<1>5. ASSUME ~GivenUp
      PROVE  /\ Len(Stage) - Len(main.todo) + 1 \in 1 .. Len(Stage)
             /\ Stage[Len(Stage) - Len(main.todo) + 1] = c
  <2>1. /\ Len(main.todo) <= Len(Stage)
        /\ main.todo[1] = Stage[1 + (Len(Stage) - Len(main.todo))]
    BY <1>3, <1>5 DEF TodoIsTheRest
  <2>2. Len(Stage) \in Nat /\ Len(main.todo) \in Nat
    BY <1>1
  <2>3. 1 + (Len(Stage) - Len(main.todo)) = Len(Stage) - Len(main.todo) + 1
    BY <2>2
  <2>4. Stage[Len(Stage) - Len(main.todo) + 1] = c
    BY <2>1, <2>3, <1>2
  <2>5. Len(Stage) - Len(main.todo) + 1 \in 1 .. Len(Stage)
    BY <2>1, <2>2, <1>2
  <2>6. QED
    BY <2>4, <2>5
<1>6. main.stage # "loop"
  <2>1. SUFFICES ASSUME main.stage = "loop" PROVE FALSE
    OBVIOUS
  <2>2. ~GivenUp /\ Stage = <<>>
    BY <2>1 DEF GivenUp, Stage
  <2>3. QED
    BY <2>2, <1>5
<1>7. QED
  BY <1>1, <1>2, <1>4, <1>5, <1>6

\* Which calls a stage can make, and what is past when it does.
LEMMA WhichCall ==
  ASSUME TypeOK, TodoIsTheRest, NEW c, IsNext(c)
  PROVE  /\ main.stage \in {"setup", "cycle", "pause", "finish"}
         /\ main.stage = "setup" /\ ~GivenUp =>
               /\ c \in SetupCalls
               /\ c = "driver" => \A x : ~Past(x)
               /\ c = "state_machine" => Past("wait")
         /\ main.stage = "cycle" => c \in CycleCalls /\ (c = "send" => Past("compute"))
         /\ main.stage = "pause" => c = "nextStep"
         /\ main.stage = "finish" => c \in FinishCalls
<1> DEFINE next == Len(Stage) - Len(main.todo) + 1
<1>1. main.stage \in {"setup", "cycle", "pause", "finish"}
  BY NextCall DEF TypeOK
<1>2. WellMade(Code) /\ Len(Stage) \in Nat /\ Len(main.todo) \in Nat
  BY CodeFacts
<1>3. ~GivenUp => next \in 1 .. Len(Stage) /\ Stage[next] = c
  BY NextCall
<1>4. main.stage # "setup" => ~GivenUp
  BY DEF GivenUp
<1>5. next - 1 = Len(Stage) - Len(main.todo) /\ next \in Int
  BY <1>2
<1> HIDE DEF next
<1>6. ASSUME main.stage = "setup", ~GivenUp
      PROVE  /\ c \in SetupCalls
             /\ c = "driver" => \A x : ~Past(x)
             /\ c = "state_machine" => Past("wait")
  <2>1. Stage = Code.setup
    BY <1>6 DEF Stage
  <2>2. /\ next \in 1 .. Len(Code.setup) /\ Code.setup[next] = c
        /\ Code.setup \in Seq(SetupCalls)
        /\ c = "driver" => next = 1
        /\ c = "state_machine" => next > 1 /\ Code.setup[next - 1] = "wait"
    BY <1>2, <1>3, <1>6, <2>1 DEF WellMade
  <2>3. c \in SetupCalls
    BY <2>2
  <2>4. ASSUME c = "driver" PROVE \A x : ~Past(x)
    BY <1>5, <2>2, <2>4 DEF Past
  <2>5. ASSUME c = "state_machine" PROVE Past("wait")
    <3>1. next - 1 \in 1 .. Len(Stage) - Len(main.todo) /\ Stage[next - 1] = "wait"
      BY <1>5, <2>1, <2>2, <2>5
    <3>2. QED
      BY <3>1 DEF Past
  <2>6. QED
    BY <2>3, <2>4, <2>5
<1>7. ASSUME main.stage = "cycle" PROVE c \in CycleCalls /\ (c = "send" => Past("compute"))
  <2>1. Stage = Code.cycle
    BY <1>7 DEF Stage
  <2>2. /\ next \in 1 .. Len(Code.cycle) /\ Code.cycle[next] = c
        /\ Code.cycle \in Seq(CycleCalls)
        /\ c = "send" => \E j \in 1 .. next - 1 : Code.cycle[j] = "compute"
    BY <1>2, <1>3, <1>4, <1>7, <2>1 DEF WellMade
  <2>3. c \in CycleCalls
    BY <2>2
  <2>4. QED
    BY <1>5, <2>1, <2>2, <2>3 DEF Past
<1>8. ASSUME main.stage = "pause" PROVE c = "nextStep"
  <2>1. Stage = Code.pause
    BY <1>8 DEF Stage
  <2>2. QED
    BY <1>2, <1>3, <1>4, <1>8, <2>1 DEF WellMade
<1>9. ASSUME main.stage = "finish" PROVE c \in FinishCalls
  <2>1. Stage = Code.finish
    BY <1>9 DEF Stage
  <2>2. QED
    BY <1>2, <1>3, <1>4, <1>9, <2>1 DEF WellMade
<1>10. QED
  BY <1>1, <1>6, <1>7, <1>8, <1>9

\* Tail drops the first element and shifts the others.
LEMMA TailFacts ==
  ASSUME NEW S, NEW s \in Seq(S), s # <<>>
  PROVE  /\ Len(Tail(s)) = Len(s) - 1 /\ Len(s) \in Nat /\ Len(s) > 0
         /\ \A i \in 1 .. Len(Tail(s)) : Tail(s)[i] = s[i + 1]
         /\ s[1] = Head(s)
         /\ Len(s) = 1 => Tail(s) = <<>>
         /\ Len(s) > 1 => Tail(s)[Len(Tail(s))] = s[Len(s)]
<1>1. /\ Len(Tail(s)) = Len(s) - 1 /\ Len(s) \in Nat /\ Len(s) > 0
      /\ \A i \in 1 .. Len(Tail(s)) : Tail(s)[i] = s[i + 1]
      /\ s[1] = Head(s) /\ Tail(s) \in Seq(S)
  OBVIOUS
<1>2. ASSUME Len(s) = 1 PROVE Tail(s) = <<>>
  <2>1. Len(Tail(s)) = 0
    BY <1>1, <1>2
  <2>2. QED
    BY <1>1, <2>1, EmptySeq
<1>3. ASSUME Len(s) > 1 PROVE Tail(s)[Len(Tail(s))] = s[Len(s)]
  <2>1. Len(Tail(s)) \in 1 .. Len(Tail(s)) /\ Len(Tail(s)) + 1 = Len(s)
    BY <1>1, <1>3
  <2>2. Tail(s)[Len(Tail(s))] = s[Len(s)]
    BY <1>1, <2>1
  <2>3. QED
    BY <2>2
<1>4. QED
  BY <1>1, <1>2, <1>3

\* The calls of the stage depend on the program and the stage only.
LEMMA StageStays ==
  ASSUME TypeOK, main'.stage = main.stage, program' = program
  PROVE  Stage' = Stage
BY DEF Stage, Code, TypeOK

\* Making a call takes it from what is left to what is past, and changes nothing else there.
LEMMA MadeFacts ==
  ASSUME TypeOK, TodoIsTheRest, NEW c, Makes(c)
  PROVE  /\ TodoIsTheRest'
         /\ GivenUp' <=> GivenUp
         /\ Len(main'.todo) = Len(main.todo) - 1
         /\ \A i \in 1 .. Len(main'.todo) : main'.todo[i] = main.todo[i + 1]
         /\ ~GivenUp => \A x : Past(x)' <=> Past(x) \/ x = c
<1>1. /\ main.todo \in Seq(AllCalls) /\ main.todo # <<>> /\ main'.todo = Tail(main.todo)
      /\ main.todo[1] = c /\ Len(main.todo) > 0
  BY NextCall, CodeFacts DEF Makes, IsNext
<1>2. /\ Len(main'.todo) = Len(main.todo) - 1
      /\ \A i \in 1 .. Len(main'.todo) : main'.todo[i] = main.todo[i + 1]
      /\ Len(main.todo) \in Nat
  BY <1>1
<1>3. Stage' = Stage /\ Len(Stage) \in Nat
  BY StageStays, CodeFacts DEF Makes
<1>4. GivenUp' <=> GivenUp
  <2>1. CASE Len(main.todo) = 1
    <3>1. main'.todo = <<>>
      BY <1>1, <2>1, TailFacts
    <3>2. ~GivenUp
      BY <1>1, <2>1 DEF GivenUp, Makes
    <3>3. QED
      BY <3>1, <3>2 DEF GivenUp
  <2>2. CASE Len(main.todo) > 1
    <3>1. Len(main'.todo) > 0 /\ main'.todo[Len(main'.todo)] = main.todo[Len(main.todo)]
      BY <1>1, <1>2, <2>2, TailFacts
    <3>2. QED
      BY <3>1, <1>1 DEF GivenUp, Makes
  <2>3. Len(main.todo) = 1 \/ Len(main.todo) > 1
    <3>1. \A n \in Nat : n > 0 => n = 1 \/ n > 1
      OBVIOUS
    <3>2. QED
      BY <3>1, <1>1, <1>2
  <2>4. QED
    BY <2>1, <2>2, <2>3
<1>5. TodoIsTheRest'
  <2>1. CASE GivenUp
    BY <2>1, <1>2, <1>4 DEF TodoIsTheRest
  <2>2. CASE ~GivenUp
    <3>1. /\ Len(main'.todo) <= Len(Stage)
          /\ \A i \in 1 .. Len(main'.todo) :
                main'.todo[i] = Stage[i + (Len(Stage) - Len(main'.todo))]
      <4>1. /\ Len(main.todo) <= Len(Stage)
            /\ \A i \in 1 .. Len(main.todo) :
                  main.todo[i] = Stage[i + (Len(Stage) - Len(main.todo))]
        BY <2>2 DEF TodoIsTheRest
      <4>2. ASSUME NEW i \in 1 .. Len(main'.todo)
            PROVE  main'.todo[i] = Stage[i + (Len(Stage) - Len(main'.todo))]
        <5>1. i + 1 \in 1 .. Len(main.todo)
          BY <1>2
        <5>2. (i + 1) + (Len(Stage) - Len(main.todo)) = i + (Len(Stage) - Len(main'.todo))
          BY <1>2, <1>3
        <5>3. main.todo[i + 1] = Stage[(i + 1) + (Len(Stage) - Len(main.todo))]
          BY <4>1, <5>1
        <5>4. QED
          BY <1>2, <5>2, <5>3
      <4>3. Len(main'.todo) <= Len(Stage)
        BY <4>1, <1>2, <1>3
      <4>4. QED
        BY <4>2, <4>3
    <3>2. QED
      BY <3>1, <2>2, <1>3, <1>4 DEF TodoIsTheRest
  <2>3. QED
    BY <2>1, <2>2
<1>6. ASSUME ~GivenUp, NEW x PROVE Past(x)' <=> Past(x) \/ x = c
  <2> DEFINE next == Len(Stage) - Len(main.todo) + 1
  <2>1. next \in 1 .. Len(Stage) /\ Stage[next] = c
    BY NextCall, <1>6 DEF Makes
  <2>2. Len(Stage) - Len(main'.todo) = next /\ Len(Stage) - Len(main.todo) = next - 1 /\ next \in Int
    BY <1>2, <1>3
  <2> HIDE DEF next
  <2>3. 1 .. next = (1 .. next - 1) \cup {next}
    BY <2>1, <2>2
  <2>4. Past(x)' <=> \E i \in 1 .. next : Stage[i] = x
    BY <1>3, <2>2 DEF Past
  <2>5. Past(x) <=> \E i \in 1 .. next - 1 : Stage[i] = x
    BY <2>2 DEF Past
  <2>6. QED
    BY <2>1, <2>3, <2>4, <2>5
<1>7. QED
  BY <1>2, <1>4, <1>5, <1>6

-----------------------------------------------------------------------------
(* Types                                                                    *)

\* A triggered step keeps the simulator's modes and target, and counts once.
LEMMA TriggeredFacts ==
  ASSUME TypeOK, NEW s \in Simulators
  PROVE  /\ Triggered(s) \in Simulators
         /\ Triggered(s).running = s.running /\ Triggered(s).synchronous = s.synchronous
         /\ Triggered(s).target = s.target
         /\ Triggered(s).position \in {s.position, s.target}
         /\ main.stage = "setup" => Triggered(s).steps \in {0, s.steps}
         /\ main.stage # "setup" /\ s.running /\ s.synchronous /\ driver.connected =>
               Triggered(s).steps = s.steps + 1
<1> DEFINE t == Triggered(s)
<1>1. CASE s.running /\ s.synchronous /\ driver.connected
  <2>1. CASE main.stage = "setup"
    <3>1. t = [s EXCEPT !.position = s.target, !.steps = 0]
      BY <1>1, <2>1 DEF Triggered, Simulators
    <3> HIDE DEF t
    <3>2. /\ t \in Simulators /\ t.running = s.running /\ t.synchronous = s.synchronous
          /\ t.target = s.target /\ t.position = s.target /\ t.steps = 0
      BY <3>1 DEF Simulators
    <3>3. QED
      BY <3>2, <2>1 DEF t
  <2>2. CASE main.stage # "setup"
    <3>1. t = [s EXCEPT !.position = s.target, !.steps = s.steps + 1]
      BY <1>1, <2>2 DEF Triggered, Simulators
    <3> HIDE DEF t
    <3>2. /\ t \in Simulators /\ t.running = s.running /\ t.synchronous = s.synchronous
          /\ t.target = s.target /\ t.position = s.target /\ t.steps = s.steps + 1
      <4>1. PICK more \in Nat : more = s.steps + 1
        BY DEF Simulators
      <4>2. t = [s EXCEPT !.position = s.target, !.steps = more]
        BY <3>1, <4>1
      <4>3. QED
        BY <4>1, <4>2 DEF Simulators
    <3>3. QED
      BY <3>2, <2>2 DEF t
  <2>3. QED
    BY <2>1, <2>2
<1>2. CASE ~(s.running /\ s.synchronous /\ driver.connected)
  BY <1>2 DEF Triggered, Simulators
<1>3. QED
  BY <1>1, <1>2

\* So does the step that a synchronous read triggers.
LEMMA StepOfReadFacts ==
  ASSUME TypeOK
  PROVE  /\ StepOfRead \in Simulators
         /\ StepOfRead.running = simulator.running
         /\ StepOfRead.synchronous = simulator.synchronous
         /\ StepOfRead.target = simulator.target
         /\ StepOfRead.position \in {simulator.position, simulator.target}
         /\ main.stage = "setup" => StepOfRead.steps \in {0, simulator.steps}
         /\ /\ main.stage # "setup" /\ driver.sync_mode_ /\ driver.connected
            /\ simulator.running /\ simulator.synchronous
            => StepOfRead.steps = simulator.steps + 1
<1>1. simulator \in Simulators
  BY DEF TypeOK
<1>2. CASE driver.sync_mode_
  <2>1. StepOfRead = Triggered(simulator)
    BY <1>2 DEF StepOfRead
  <2>2. QED
    BY <1>1, <2>1, TriggeredFacts
<1>3. CASE ~driver.sync_mode_
  BY <1>1, <1>3 DEF StepOfRead
<1>4. QED
  BY <1>2, <1>3

\* The initial states are of the right types.
LEMMA TypeInit == Init => TypeOK
BY ApplicationsAssumption, ProgramsWellMade, NamesAssumption
DEF Init, TypeOK, WellMade, Code, AllCalls, Simulators

\* Every step keeps the types.
LEMMA TypeStep ==
  ASSUME TypeOK, [Next]_vars
  PROVE  TypeOK'
<1> USE ApplicationsAssumption DEF TypeOK, Simulators
<1>1. main.todo # <<>> => Tail(main.todo) \in Seq(AllCalls)
  OBVIOUS
<1>2. /\ Code.setup \in Seq(AllCalls) /\ Code.cycle \in Seq(AllCalls)
      /\ Code.pause \in Seq(AllCalls) /\ Code.finish \in Seq(AllCalls)
      /\ <<"free", "stop", "rethrow">> \in Seq(AllCalls) /\ Code.readOrStop \in BOOLEAN
  <2>1. /\ SetupCalls \subseteq AllCalls /\ CycleCalls \subseteq AllCalls
        /\ FinishCalls \subseteq AllCalls /\ {"nextStep"} \subseteq AllCalls
        /\ {"free", "stop", "rethrow"} \subseteq AllCalls
    BY DEF AllCalls, SetupCalls, FinishCalls
  <2>2. WellMade(Code)
    BY CodeFacts
  <2>3. "free" \in AllCalls /\ "stop" \in AllCalls /\ "rethrow" \in AllCalls
    BY <2>1
  <2>4. <<"free", "stop", "rethrow">> \in Seq(AllCalls)
    BY <2>3
  <2>5. /\ Code.setup \in Seq(SetupCalls) /\ Code.cycle \in Seq(CycleCalls)
        /\ Code.pause \in Seq({"nextStep"}) /\ Code.finish \in Seq(FinishCalls)
        /\ Code.readOrStop \in BOOLEAN
    BY <2>2 DEF WellMade
  <2>6. ASSUME NEW S, S \subseteq AllCalls PROVE Seq(S) \subseteq Seq(AllCalls)
    BY <2>6
  <2>7. QED
    BY <2>1, <2>4, <2>5, <2>6
<1>3. CASE ConstructDriver
  BY <1>3, <1>1, <1>2 DEF ConstructDriver, Made, Dies, IsNext
<1>4. CASE GetObjectHandles
  BY <1>4, <1>1, <1>2 DEF GetObjectHandles, Made, Dies, IsNext
<1>5. CASE TrackObjectPosition
  BY <1>5, <1>1, <1>2 DEF TrackObjectPosition, Made, Dies, IsNext
<1>6. CASE Start
  BY <1>6, <1>1, <1>2 DEF Start, Made, IsNext
<1>7. CASE NextStep
  <2>1. simulator' \in Simulators
    BY <1>7, TriggeredFacts DEF NextStep
  <2>2. QED
    BY <1>7, <1>1, <2>1 DEF NextStep, Made, IsNext
<1>8. CASE InitDriver
  <2>1. Synchronous(simulator, driver.sync_mode_) \in Simulators
    BY DEF Synchronous
  <2>2. simulator' \in Simulators
    BY <1>8, <2>1, TriggeredFacts DEF InitDriver
  <2>3. QED
    BY <1>8, <1>1, <2>2 DEF InitDriver, Made, TargetAtJoints, IsNext
<1>9. CASE EnableSynchronous("synchronous", TRUE)
  BY <1>9, <1>1, <1>2 DEF EnableSynchronous, Made, Synchronous, IsNext
<1>10. CASE EnableSynchronous("free", FALSE)
  BY <1>10, <1>1, <1>2 DEF EnableSynchronous, Made, Synchronous, IsNext
<1>11. CASE WaitForRead
  <2>1. simulator' \in Simulators
    BY <1>11, StepOfReadFacts DEF WaitForRead, Reads, CannotRead
  <2>2. QED
    BY <1>11, <1>1, <2>1 DEF WaitForRead, Made, Reads, CannotRead, IsNext
<1>12. CASE InitStateMachine
  BY <1>12, <1>1, <1>2 DEF InitStateMachine, Made, TargetAtJoints, IsNext
<1>13. CASE Send
  <2>1. robot' \in [position: Int, target: Int, velocity: Int] /\ robot'.target \in Int
    BY <1>13 DEF Send
  <2>2. simulator' \in Simulators
    BY <1>13, <2>1 DEF Send
  <2>3. CASE driver.connected
    BY <1>13, <1>1, <2>1, <2>2, <2>3 DEF Send, Made, IsNext
  <2>4. CASE ~driver.connected
    BY <1>13, <1>1, <1>2, <2>1, <2>2, <2>4 DEF Send, Made, IsNext
  <2>5. QED
    BY <2>3, <2>4
<1>14. CASE Stop
  BY <1>14, <1>1, <1>2 DEF Stop, Made, Synchronous, Stopped, IsNext
<1>15. CASE Compute
  BY <1>15, <1>1, <1>2 DEF Compute, Made, IsNext
<1>16. CASE Trajectory
  BY <1>16, <1>1, <1>2 DEF Trajectory, Made, IsNext
<1>17. CASE ComputeTimings
  BY <1>17, <1>1, <1>2 DEF ComputeTimings, Made, Dies, IsNext
<1>18. CASE SetHandler
  BY <1>18, <1>1, <1>2 DEF SetHandler, Made, IsNext
<1>19. CASE UpdateClock
  BY <1>19, <1>1, <1>2 DEF UpdateClock, Made, IsNext
<1>20. CASE Register
  BY <1>20, <1>1, <1>2 DEF Register, Made, IsNext
<1>21. CASE Log
  BY <1>21, <1>1, <1>2 DEF Log, Made, IsNext
<1>22. CASE NextStage
  BY <1>22, <1>1, <1>2 DEF NextStage
<1>23. CASE ReadInLoop
  <2>0. program' = program /\ driver' = driver
    BY <1>23 DEF ReadInLoop
  <2>1. simulator' \in Simulators
    BY <1>23, StepOfReadFacts DEF ReadInLoop, Reads, CannotRead
  <2>2. robot' \in [position: Int, target: Int, velocity: Int]
    BY <1>23, <2>1 DEF ReadInLoop, Reads, CannotRead
  <2>3. CASE main' = [main EXCEPT !.stage = "cycle", !.todo = Code.cycle, !.rounds = @ + 1]
    <3>1. main' \in [stage: {"setup", "loop", "cycle", "pause", "finish"}, todo: Seq(AllCalls),
                 outcome: {"running", "returned", "thrown", "killed"},
                 stop: BOOLEAN, handler: BOOLEAN, init_ok: BOOLEAN, rounds: Nat]
      <4>1. PICK more \in Nat : more = main.rounds + 1
        OBVIOUS
      <4>2. main' = [main EXCEPT !.stage = "cycle", !.todo = Code.cycle, !.rounds = more]
        BY <2>3, <4>1
      <4>3. QED
        BY <1>2, <4>2
    <3>2. QED
      BY <2>0, <2>1, <2>2, <3>1
  <2>4. CASE main' = [main EXCEPT !.stage = "pause", !.todo = Code.pause, !.rounds = @ + 1,
                                  !.stop = @ \/ Code.readOrStop]
    <3>1. (main.stop \/ Code.readOrStop) \in BOOLEAN
      BY <1>2
    <3>2. main' \in [stage: {"setup", "loop", "cycle", "pause", "finish"}, todo: Seq(AllCalls),
                 outcome: {"running", "returned", "thrown", "killed"},
                 stop: BOOLEAN, handler: BOOLEAN, init_ok: BOOLEAN, rounds: Nat]
      <4>1. PICK more \in Nat : more = main.rounds + 1
        OBVIOUS
      <4>2. PICK stop \in BOOLEAN : stop = (main.stop \/ Code.readOrStop)
        BY <3>1
      <4>3. main' = [main EXCEPT !.stage = "pause", !.todo = Code.pause, !.rounds = more,
                                 !.stop = stop]
        BY <2>4, <4>1, <4>2
      <4>4. QED
        BY <1>2, <4>3
    <3>3. QED
      BY <2>0, <2>1, <2>2, <3>2
  <2>5. CASE Dies
    BY <1>23, <2>1, <2>2, <2>5 DEF ReadInLoop, Dies
  <2>6. QED
    BY <1>23, <2>3, <2>4, <2>5 DEF ReadInLoop
<1>24. CASE Interrupt
  BY <1>24, <1>1, <1>2 DEF Interrupt
<1>25. CASE Return
  BY <1>25, <1>1, <1>2 DEF Return, Synchronous
<1>26. CASE ConnectionLost
  BY <1>26, <1>1, <1>2 DEF ConnectionLost
<1>27. CASE SimulateFreely
  BY <1>27, <1>1, <1>2 DEF SimulateFreely
<1>28. CASE UNCHANGED vars
  BY <1>28 DEF vars
<1>29. QED
  BY <1>3, <1>4, <1>5, <1>6, <1>7, <1>8, <1>9, <1>10, <1>11, <1>12, <1>13, <1>14, <1>15, <1>16, <1>17, <1>18, <1>19, <1>20, <1>21, <1>22, <1>23, <1>24, <1>25, <1>26, <1>27, <1>28 DEF Next

-----------------------------------------------------------------------------
(* The steps that change nothing the properties are about, and those that   *)
(* do: a call, or a change of the stage                                     *)

\* The program makes no call; it may die.
Stays ==
    /\ main'.todo = main.todo /\ main'.stage = main.stage
    /\ main'.outcome \in {main.outcome, "thrown", "killed"}
    /\ main.stop => main'.stop

\* The program whose timings failed: it stops the robot before it throws again.
GivesUp ==
    /\ ~GivenUp /\ main.stage = "setup" /\ main'.stage = "setup"
    /\ main'.todo = <<"free", "stop", "rethrow">> /\ main'.outcome = "running"
    /\ main.outcome = "running" /\ (main.stop => main'.stop)

\* A step that no invariant but the one about what is left can see.
Quiet ==
    /\ program' = program /\ robot' = robot /\ simulator' = simulator
    /\ driver'.sync_mode_ = driver.sync_mode_ /\ (driver'.connected => driver.connected)
    /\ main'.init_ok = main.init_ok /\ main'.rounds = main.rounds
    /\ \/ \E c \in Silent : Makes(c)
       \/ GivesUp
       \/ Stays

\* The forms in which the actions make their call.
LEMMA MadeMakes ==
  ASSUME TypeOK, NEW c, IsNext(c), c # "rethrow", program' = program,
         \/ main' = Made
         \/ \E end \in BOOLEAN : main' = [Made EXCEPT !.stop = @ \/ end]
         \/ \E h \in BOOLEAN : main' = [Made EXCEPT !.handler = h]
  PROVE  Makes(c) /\ main'.init_ok = main.init_ok
BY DEF Makes, Made, TypeOK, IsNext

\* A program that dies calls nothing more.
LEMMA DiesStays ==
  ASSUME TypeOK, Dies
  PROVE  Stays /\ main'.init_ok = main.init_ok /\ main'.rounds = main.rounds
BY DEF Stays, Dies, TypeOK

\* The actions that are quiet.
LEMMA QuietSteps ==
  ASSUME TypeOK, TodoIsTheRest,
         \/ GetObjectHandles \/ TrackObjectPosition \/ Trajectory \/ ComputeTimings
         \/ SetHandler \/ UpdateClock \/ Register \/ Log \/ Interrupt \/ ConnectionLost
         \/ UNCHANGED vars
  PROVE  Quiet
<1>1. {"handles", "track", "trajectory", "log", "signal", "signal_off", "clock", "clock_reset",
       "log_control", "log_robot", "log_data", "log_more", "reset", "timings", "timings_or_stop"}
         \subseteq Silent
      /\ "rethrow" \notin Silent
  BY DEF Silent
<1>2. CASE GetObjectHandles
  <2>1. main' = Made => Quiet
    BY <1>1, <1>2, MadeMakes DEF GetObjectHandles, Quiet, Makes
  <2>2. Dies => Quiet
    BY <1>2, DiesStays DEF GetObjectHandles, Quiet
  <2>3. QED
    BY <1>2, <2>1, <2>2 DEF GetObjectHandles
<1>3. CASE TrackObjectPosition
  <2>1. driver'.sync_mode_ = driver.sync_mode_ /\ (driver'.connected => driver.connected)
    BY <1>3 DEF TrackObjectPosition, TypeOK
  <2>2. main' = Made => Quiet
    BY <1>1, <1>3, <2>1, MadeMakes DEF TrackObjectPosition, Quiet, Makes
  <2>3. Dies => Quiet
    BY <1>3, <2>1, DiesStays DEF TrackObjectPosition, Quiet
  <2>4. QED
    BY <1>3, <2>2, <2>3 DEF TrackObjectPosition
<1>4. CASE Trajectory
  <2>1. IsNext("trajectory")
    BY <1>4 DEF Trajectory
  <2>2. Makes("trajectory") /\ main'.init_ok = main.init_ok
    BY <1>4, <2>1, MadeMakes DEF Trajectory
  <2>3. QED
    BY <1>1, <1>4, <2>2 DEF Trajectory, Quiet, Makes
<1>5. CASE ComputeTimings
  <2>1. CASE IsNext("timings") /\ main' = Made
    <3>1. Makes("timings") /\ main'.init_ok = main.init_ok
      BY <1>5, <2>1, MadeMakes DEF ComputeTimings
    <3>2. QED
      BY <1>1, <1>5, <3>1 DEF ComputeTimings, Quiet, Makes
  <2>2. CASE Dies
    BY <1>5, <2>2, DiesStays DEF ComputeTimings, Quiet
  <2>3. CASE IsNext("timings_or_stop") /\ main' = Made
    <3>1. Makes("timings_or_stop") /\ main'.init_ok = main.init_ok
      BY <1>5, <2>3, MadeMakes DEF ComputeTimings
    <3>2. QED
      BY <1>1, <1>5, <3>1 DEF ComputeTimings, Quiet, Makes
  <2>4. CASE IsNext("timings_or_stop") /\ main' = [main EXCEPT !.todo = <<"free", "stop", "rethrow">>]
    <3>0. /\ GivenUp => "timings_or_stop" \in {"free", "stop", "rethrow"}
          /\ main.outcome = "running"
      BY <2>4, NextCall
    <3>1. ~GivenUp /\ main.outcome = "running"
      BY <3>0
    <3>2. main.stage = "setup"
      BY <2>4, <3>1, WhichCall DEF CycleCalls, FinishCalls
    <3>3. GivesUp /\ main'.init_ok = main.init_ok /\ main'.rounds = main.rounds
      BY <2>4, <3>1, <3>2 DEF GivesUp, TypeOK
    <3>4. QED
      BY <1>5, <3>3 DEF ComputeTimings, Quiet
  <2>5. QED
    BY <1>5, <2>1, <2>2, <2>3, <2>4 DEF ComputeTimings
<1>6. CASE SetHandler
  <2>1. PICK c \in {"signal", "signal_off"} : IsNext(c) /\ Makes(c) /\ main'.init_ok = main.init_ok
    <3>1. CASE IsNext("signal") /\ main' = [Made EXCEPT !.handler = TRUE]
      BY <1>6, <3>1, MadeMakes DEF SetHandler
    <3>2. CASE IsNext("signal_off") /\ main' = [Made EXCEPT !.handler = FALSE]
      BY <1>6, <3>2, MadeMakes DEF SetHandler
    <3>3. QED
      BY <1>6, <3>1, <3>2 DEF SetHandler
  <2>2. QED
    BY <1>1, <1>6, <2>1 DEF SetHandler, Quiet, Makes
<1>7. CASE UpdateClock
  <2>1. PICK c \in {"clock", "clock_reset"} : IsNext(c)
    BY <1>7 DEF UpdateClock
  <2>2. Makes(c) /\ main'.init_ok = main.init_ok
    BY <1>7, <2>1, MadeMakes DEF UpdateClock
  <2>3. QED
    BY <1>1, <1>7, <2>1, <2>2 DEF UpdateClock, Quiet, Makes
<1>8. CASE Register
  <2>1. PICK c \in {"log_control", "log_robot", "log_data", "log_more", "reset"} : IsNext(c)
    BY <1>8 DEF Register, LogCalls
  <2>2. Makes(c) /\ main'.init_ok = main.init_ok
    BY <1>8, <2>1, MadeMakes DEF Register
  <2>3. QED
    BY <1>1, <1>8, <2>1, <2>2 DEF Register, Quiet, Makes
<1>9. CASE Log
  <2>1. IsNext("log")
    BY <1>9 DEF Log
  <2>2. Makes("log") /\ main'.init_ok = main.init_ok
    BY <1>9, <2>1, MadeMakes DEF Log
  <2>3. QED
    BY <1>1, <1>9, <2>2 DEF Log, Quiet, Makes
<1>10. CASE Interrupt
  BY <1>10 DEF Interrupt, Quiet, Stays, TypeOK
<1>11. CASE ConnectionLost
  BY <1>11 DEF ConnectionLost, Quiet, Stays, TypeOK
<1>12. CASE UNCHANGED vars
  BY <1>12 DEF vars, Quiet, Stays, TypeOK
<1>13. QED
  BY <1>2, <1>3, <1>4, <1>5, <1>6, <1>7, <1>8, <1>9, <1>10, <1>11, <1>12

\* The other calls.
Loud == {"driver", "start", "nextStep", "init", "synchronous", "free", "wait", "state_machine",
         "send", "stop", "compute"}

\* The actions of the other calls that always make it, each with its call.
LEMMA LoudCalls ==
  ASSUME TypeOK, TodoIsTheRest
  PROVE  /\ Start => Makes("start")
         /\ NextStep => Makes("nextStep")
         /\ InitDriver => Makes("init")
         /\ EnableSynchronous("synchronous", TRUE) => Makes("synchronous")
         /\ EnableSynchronous("free", FALSE) => Makes("free")
         /\ InitStateMachine => Makes("state_machine")
         /\ Stop => Makes("stop")
         /\ Compute => Makes("compute")
         /\ Send => Makes("send")
         /\ Start \/ NextStep \/ EnableSynchronous("synchronous", TRUE)
               \/ EnableSynchronous("free", FALSE) \/ InitStateMachine \/ Stop \/ Compute \/ Send
               \/ WaitForRead \/ ConstructDriver => main'.init_ok = main.init_ok
<1>1. ASSUME Start PROVE Makes("start") /\ main'.init_ok = main.init_ok
  BY <1>1, MadeMakes DEF Start
<1>2. ASSUME NextStep PROVE Makes("nextStep") /\ main'.init_ok = main.init_ok
  BY <1>2, MadeMakes DEF NextStep
<1>3. ASSUME EnableSynchronous("synchronous", TRUE)
      PROVE  Makes("synchronous") /\ main'.init_ok = main.init_ok
  BY <1>3, MadeMakes DEF EnableSynchronous
<1>4. ASSUME EnableSynchronous("free", FALSE)
      PROVE  Makes("free") /\ main'.init_ok = main.init_ok
  BY <1>4, MadeMakes DEF EnableSynchronous
<1>5. ASSUME InitStateMachine PROVE Makes("state_machine") /\ main'.init_ok = main.init_ok
  BY <1>5, MadeMakes DEF InitStateMachine
<1>6. ASSUME Stop PROVE Makes("stop") /\ main'.init_ok = main.init_ok
  BY <1>6, MadeMakes DEF Stop
<1>7. ASSUME Compute PROVE Makes("compute") /\ main'.init_ok = main.init_ok
  BY <1>7, MadeMakes DEF Compute
<1>8. ASSUME Send PROVE Makes("send") /\ main'.init_ok = main.init_ok
  <2>1. CASE driver.connected
    BY <1>8, <2>1, MadeMakes DEF Send
  <2>2. CASE ~driver.connected
    <3>1. Code.readOrStop \in BOOLEAN
      BY CodeFacts DEF WellMade
    <3>2. PICK end \in BOOLEAN : end = Code.readOrStop
      BY <3>1
    <3>3. main' = [Made EXCEPT !.stop = @ \/ end]
      BY <1>8, <2>2, <3>2 DEF Send
    <3>4. IsNext("send") /\ program' = program
      BY <1>8 DEF Send
    <3>5. QED
      BY <3>3, <3>4, MadeMakes
  <2>3. QED
    BY <2>1, <2>2
<1>9. ASSUME InitDriver PROVE Makes("init")
  <2>1. /\ IsNext("init") /\ program' = program
        /\ main' = Made \/ main' = [Made EXCEPT !.init_ok = FALSE]
    BY <1>9 DEF InitDriver
  <2>2. QED
    BY <2>1 DEF Makes, Made, IsNext, TypeOK
<1>10. ASSUME WaitForRead \/ ConstructDriver PROVE main'.init_ok = main.init_ok
  BY <1>10 DEF WaitForRead, ConstructDriver, Made, Dies, TypeOK
<1>11. QED
  BY <1>1, <1>2, <1>3, <1>4, <1>5, <1>6, <1>7, <1>8, <1>9, <1>10

\* The constructor of the driver throws when it cannot connect.
LEMMA DriverCalls ==
  ASSUME TypeOK, ConstructDriver
  PROVE  IsNext("driver") /\ (Makes("driver") \/ (Stays /\ main'.outcome = "thrown"))
         /\ main'.rounds = main.rounds
<1>1. IsNext("driver") /\ program' = program /\ (main' = Made \/ Dies)
  BY DEF ConstructDriver
<1>2. CASE main' = Made
  <2>1. Makes("driver")
    BY <1>1, <1>2, MadeMakes
  <2>2. main'.rounds = main.rounds
    BY <2>1 DEF Makes
  <2>3. QED
    BY <1>1, <2>1, <2>2
<1>3. CASE Dies
  BY <1>1, <1>3, DiesStays DEF Dies, TypeOK
<1>4. QED
  BY <1>1, <1>2, <1>3

\* The wait makes its call, or asks again.
LEMMA WaitCalls ==
  ASSUME TypeOK, WaitForRead
  PROVE  IsNext("wait") /\ (Makes("wait") \/ main' = main)
         /\ (Reads \/ (CannotRead /\ (main' = main \/ main.stop)))
<1>1. /\ IsNext("wait") /\ program' = program
      /\ main' = Made \/ main' = main
      /\ Reads \/ (CannotRead /\ (main' = main \/ main.stop))
  BY DEF WaitForRead
<1>2. QED
  BY <1>1, MadeMakes

-----------------------------------------------------------------------------
(* What is left to call                                                     *)

\* Nothing changes in what is past when no call is made.
LEMMA TodoKept ==
  ASSUME TypeOK, TodoIsTheRest, main'.todo = main.todo, main'.stage = main.stage,
         program' = program
  PROVE  TodoIsTheRest' /\ (GivenUp' <=> GivenUp) /\ \A x : Past(x)' <=> Past(x)
<1>1. Stage' = Stage
  BY StageStays
<1>2. GivenUp' <=> GivenUp
  BY DEF GivenUp
<1>3. QED
  BY <1>1, <1>2 DEF TodoIsTheRest, Past

\* At the beginning of a stage all of it is left.
LEMMA TodoWhole ==
  ASSUME TypeOK, TypeOK', main'.stage # "setup", main'.todo = Stage'
  PROVE  TodoIsTheRest' /\ ~GivenUp' /\ \A x : ~Past(x)'
<1>1. ~GivenUp'
  BY DEF GivenUp
<1>2. Len(main'.todo) \in Nat
  BY DEF TypeOK
<1>3. Len(Stage') - Len(main'.todo) = 0
  BY <1>2
<1>4. \A i \in 1 .. Len(main'.todo) : main'.todo[i] = Stage'[i + (Len(Stage') - Len(main'.todo))]
  BY <1>3
<1>5. Len(main'.todo) <= Len(Stage')
  BY <1>2
<1>6. QED
  BY <1>1, <1>3, <1>4, <1>5 DEF TodoIsTheRest, Past

\* So has a program that begins.
LEMMA TodoInit == ASSUME Init PROVE TodoIsTheRest /\ ~GivenUp /\ \A x : ~Past(x)
<1>1. TypeOK
  BY TypeInit
<1>2. main.stage = "setup" /\ main.todo = Code.setup /\ Stage = Code.setup
  BY DEF Init, Stage
<1>3. WellMade(Code) /\ Len(Stage) \in Nat
  BY <1>1, CodeFacts
<1>4. \A i \in 1 .. Len(Code.setup) : Code.setup[i] \in SetupCalls
  BY <1>3 DEF WellMade
<1>5. "rethrow" \notin SetupCalls
  BY DEF SetupCalls, Silent
<1>6. ~GivenUp
  BY <1>2, <1>3, <1>4, <1>5 DEF GivenUp
<1>7. QED
  BY <1>2, <1>3, <1>6 DEF TodoIsTheRest, Past

\* A program that gives up has its own calls left.
LEMMA TodoGivenUp ==
  ASSUME GivesUp PROVE TodoIsTheRest' /\ GivenUp'
<1> DEFINE t == <<"free", "stop", "rethrow">>
<1>1. /\ Len(t) = 3 /\ t[3] = "rethrow" /\ Len(t) > 0
      /\ \A i \in 1 .. Len(t) : t[i] \in {"free", "stop", "rethrow"}
  OBVIOUS
<1> HIDE DEF t
<1>2. main'.todo = t /\ main'.stage = "setup"
  BY DEF GivesUp, t
<1>3. main'.todo[Len(main'.todo)] = "rethrow" /\ Len(main'.todo) > 0
  BY <1>1, <1>2
<1>4. GivenUp'
  BY <1>2, <1>3 DEF GivenUp
<1>5. QED
  BY <1>1, <1>2, <1>4 DEF TodoIsTheRest

\* At the end of a stage all of it is past.
LEMMA AllPast ==
  ASSUME TypeOK, main.todo = <<>>
  PROVE  ~GivenUp /\ \A x : Past(x) <=> \E i \in 1 .. Len(Stage) : Stage[i] = x
<1>1. Len(main.todo) = 0 /\ Len(Stage) \in Nat
  BY CodeFacts
<1>2. Len(Stage) - Len(main.todo) = Len(Stage)
  BY <1>1
<1>3. QED
  BY <1>1, <1>2 DEF GivenUp, Past

\* The stages in which a program makes a call.
LEMMA Where ==
  ASSUME TypeOK, TodoIsTheRest, NEW c, IsNext(c)
  PROVE  /\ c \in {"driver", "start", "init", "synchronous", "wait", "state_machine"} =>
               main.stage = "setup" /\ ~GivenUp
         /\ c = "nextStep" => main.stage = "pause" \/ (main.stage = "setup" /\ ~GivenUp)
         /\ c \in {"free", "stop"} => main.stage = "finish" \/ GivenUp
         /\ c = "send" => main.stage = "cycle"
         /\ c = "compute" => main.stage = "cycle" \/ (main.stage = "setup" /\ ~GivenUp)
<1>1. /\ GivenUp => c \in {"free", "stop", "rethrow"}
      /\ main.stage \in {"setup", "cycle", "pause", "finish"}
      /\ main.stage = "setup" /\ ~GivenUp => c \in SetupCalls
      /\ main.stage = "cycle" => c \in CycleCalls
      /\ main.stage = "pause" => c = "nextStep"
      /\ main.stage = "finish" => c \in FinishCalls
      /\ main.stage # "setup" => ~GivenUp
  BY NextCall, WhichCall DEF GivenUp
<1>2. QED
  BY <1>1 DEF SetupCalls, Silent, CycleCalls, FinishCalls

\* A call other than stop() leaves it to be called.
LEMMA StopStaysLeft ==
  ASSUME TypeOK, TodoIsTheRest, NEW c, Makes(c), c # "stop", StopIsLeft
  PROVE  StopIsLeft'
<1>1. PICK i \in 1 .. Len(main.todo) : main.todo[i] = "stop"
  BY DEF StopIsLeft
<1>2. /\ Len(main'.todo) = Len(main.todo) - 1 /\ Len(main.todo) \in Nat
      /\ \A j \in 1 .. Len(main'.todo) : main'.todo[j] = main.todo[j + 1]
  BY MadeFacts, CodeFacts
<1>3. main.todo[1] = c
  BY NextCall DEF Makes
<1>4. i # 1
  BY <1>1, <1>3
<1>5. i - 1 \in 1 .. Len(main'.todo) /\ (i - 1) + 1 = i
  BY <1>2, <1>4
<1>6. main'.todo[i - 1] = "stop"
  BY <1>1, <1>2, <1>5
<1>7. QED
  BY <1>5, <1>6 DEF StopIsLeft

\* The calls whose having been made the invariants speak of.
Followed == {"start", "init", "state_machine", "wait", "compute"}

\* What a quiet step keeps.
LEMMA QuietFacts ==
  ASSUME TypeOK, TodoIsTheRest, Quiet
  PROVE  /\ TodoIsTheRest'
         /\ main'.stage = main.stage /\ program' = program
         /\ main'.outcome = "running" => main.outcome = "running"
         /\ main'.outcome = "returned" => main.outcome = "returned"
         /\ main.stop => main'.stop
         /\ GivenUp => GivenUp'
         /\ ~GivenUp' => \A x \in Followed : Past(x)' <=> Past(x)
         /\ main.stage = "pause" => main'.todo = main.todo
         /\ main.stage = "finish" /\ StopIsLeft => StopIsLeft'
<1>1. CASE Stays
  <2>1. TodoIsTheRest' /\ (GivenUp' <=> GivenUp) /\ \A x : Past(x)' <=> Past(x)
    BY <1>1, TodoKept DEF Quiet, Stays
  <2>2. StopIsLeft => StopIsLeft'
    BY <1>1 DEF Stays, StopIsLeft
  <2>3. QED
    BY <1>1, <2>1, <2>2 DEF Stays, Quiet
<1>2. CASE GivesUp
  <2>1. TodoIsTheRest' /\ GivenUp'
    BY <1>2, TodoGivenUp
  <2>2. main.stop => main'.stop
    BY <1>2 DEF GivesUp
  <2>3. QED
    BY <1>2, <2>1, <2>2 DEF GivesUp, Quiet
<1>3. ASSUME NEW c \in Silent, Makes(c)
      PROVE  /\ TodoIsTheRest'
             /\ main'.stage = main.stage /\ program' = program
             /\ main'.outcome = "running" => main.outcome = "running"
             /\ main'.outcome = "returned" => main.outcome = "returned"
             /\ main.stop => main'.stop
             /\ GivenUp => GivenUp'
             /\ ~GivenUp' => \A x \in Followed : Past(x)' <=> Past(x)
             /\ main.stage = "pause" => main'.todo = main.todo
             /\ main.stage = "finish" /\ StopIsLeft => StopIsLeft'
  <2>1. c \notin Followed /\ c # "stop" /\ c # "nextStep"
    BY DEF Silent, Followed
  <2>2. /\ TodoIsTheRest' /\ (GivenUp' <=> GivenUp)
        /\ ~GivenUp => \A x : Past(x)' <=> Past(x) \/ x = c
    BY <1>3, MadeFacts
  <2>3. main.stage # "pause"
    BY <1>3, <2>1, WhichCall DEF Makes
  <2>4. StopIsLeft => StopIsLeft'
    BY <1>3, <2>1, StopStaysLeft
  <2>5. ~GivenUp' => \A x \in Followed : Past(x)' <=> Past(x)
    BY <2>1, <2>2
  <2>6. QED
    BY <1>3, <2>2, <2>3, <2>4, <2>5 DEF Makes
<1>4. QED
  BY <1>1, <1>2, <1>3 DEF Quiet

\* The steps the invariants have to be shown for: a quiet one or one of these.
LEMMA Cases ==
  ASSUME TypeOK, TodoIsTheRest, [Next]_vars
  PROVE  \/ Quiet \/ ConstructDriver \/ Start \/ NextStep \/ InitDriver
         \/ EnableSynchronous("synchronous", TRUE) \/ EnableSynchronous("free", FALSE)
         \/ WaitForRead \/ InitStateMachine \/ Send \/ Stop \/ Compute
         \/ NextStage \/ ReadInLoop \/ Return \/ SimulateFreely
BY QuietSteps DEF Next

\* The steps that neither call nor change the stage.
LEMMA Standing ==
  ASSUME TypeOK, TodoIsTheRest, Return \/ SimulateFreely
  PROVE  /\ TodoIsTheRest' /\ (GivenUp' <=> GivenUp) /\ \A x : Past(x)' <=> Past(x)
         /\ main'.stage = main.stage /\ main'.todo = main.todo /\ program' = program
         /\ main'.rounds = main.rounds /\ main'.init_ok = main.init_ok /\ main'.stop = main.stop
<1>1. /\ main'.stage = main.stage /\ main'.todo = main.todo /\ program' = program
      /\ main'.rounds = main.rounds /\ main'.init_ok = main.init_ok /\ main'.stop = main.stop
  BY DEF Return, SimulateFreely, TypeOK
<1>2. QED
  BY <1>1, TodoKept

\* Every other call, and what it is.
LEMMA LoudFacts ==
  ASSUME TypeOK, TodoIsTheRest,
         \/ Start \/ NextStep \/ InitDriver \/ EnableSynchronous("synchronous", TRUE)
         \/ EnableSynchronous("free", FALSE) \/ InitStateMachine \/ Send \/ Stop \/ Compute
  PROVE  \E c \in Loud : Makes(c)
BY LoudCalls DEF Loud

\* The next stage begins with all of it left to call.
LEMMA StageBegins ==
  ASSUME TypeOK, TypeOK', NextStage
  PROVE  /\ main.todo = <<>> /\ main.outcome = "running" /\ main'.outcome = "running"
         /\ program' = program /\ robot' = robot /\ simulator' = simulator /\ driver' = driver
         /\ main'.rounds = main.rounds /\ main'.init_ok = main.init_ok /\ main'.stop = main.stop
         /\ TodoIsTheRest' /\ ~GivenUp' /\ ~GivenUp
         /\ \/ main.stage = "setup" /\ main'.stage = "loop" /\ Code.loops
            \/ main.stage = "setup" /\ main'.stage = "finish" /\ ~Code.loops
            \/ /\ main.stage = "cycle" /\ main'.stage = "pause" /\ main'.todo = Code.pause
               /\ \A x : ~Past(x)'
            \/ main.stage = "pause" /\ main'.stage = "loop"
            \/ /\ main.stage = "loop" /\ main'.stage = "finish" /\ main'.todo = Code.finish
               /\ \A x : ~Past(x)'
<1>1. /\ main.todo = <<>> /\ main.outcome = "running" /\ main'.outcome = "running"
      /\ program' = program /\ robot' = robot /\ simulator' = simulator /\ driver' = driver
      /\ main'.rounds = main.rounds /\ main'.init_ok = main.init_ok /\ main'.stop = main.stop
  <2>1. /\ main.todo = <<>> /\ main.outcome = "running"
        /\ program' = program /\ robot' = robot /\ simulator' = simulator /\ driver' = driver
    BY DEF NextStage
  <2>2. \/ main' = [main EXCEPT !.stage = "loop"] \/ main' = [main EXCEPT !.stage = "finish"]
        \/ main' = [main EXCEPT !.stage = "pause", !.todo = Code.pause]
        \/ main' = [main EXCEPT !.stage = "finish", !.todo = Code.finish]
    BY DEF NextStage
  <2>3. /\ main'.outcome = main.outcome /\ main'.rounds = main.rounds
        /\ main'.init_ok = main.init_ok /\ main'.stop = main.stop
    <3>1. CASE main' = [main EXCEPT !.stage = "loop"]
      BY <3>1 DEF TypeOK
    <3>2. CASE main' = [main EXCEPT !.stage = "finish"]
      BY <3>2 DEF TypeOK
    <3>3. CASE main' = [main EXCEPT !.stage = "pause", !.todo = Code.pause]
      BY <3>3 DEF TypeOK
    <3>4. CASE main' = [main EXCEPT !.stage = "finish", !.todo = Code.finish]
      BY <3>4 DEF TypeOK
    <3>5. QED
      BY <2>2, <3>1, <3>2, <3>3, <3>4
  <2>4. QED
    BY <2>1, <2>3
<1>2. Code' = Code /\ ~GivenUp
  BY <1>1, AllPast DEF Code
<1>3. CASE main.stage = "setup" /\ Code.loops /\ main' = [main EXCEPT !.stage = "loop"]
  <2>1. main'.stage = "loop" /\ main'.todo = <<>> /\ Stage' = <<>>
    BY <1>1, <1>3 DEF TypeOK, Stage
  <2>2. QED
    BY <1>1, <1>2, <1>3, <2>1, TodoWhole
<1>4. CASE main.stage = "setup" /\ ~Code.loops /\ main' = [main EXCEPT !.stage = "finish"]
  <2>1. main'.stage = "finish" /\ main'.todo = <<>>
    BY <1>1, <1>4 DEF TypeOK
  <2>2. ~GivenUp'
    BY <2>1 DEF GivenUp
  <2>3. Len(main'.todo) = 0 /\ Len(Stage') \in Nat
    <3>1. WellMade(Code) /\ Stage' = Code.finish
      BY <1>2, <2>1, CodeFacts DEF Stage
    <3>2. QED
      BY <2>1, <3>1 DEF WellMade
  <2>4. TodoIsTheRest'
    BY <2>2, <2>3 DEF TodoIsTheRest
  <2>5. QED
    BY <1>1, <1>2, <1>4, <2>1, <2>2, <2>4
<1>5. CASE main.stage = "cycle" /\ main' = [main EXCEPT !.stage = "pause", !.todo = Code.pause]
  <2>1. main'.stage = "pause" /\ main'.todo = Code.pause /\ Stage' = Code.pause
    BY <1>2, <1>5 DEF TypeOK, Stage
  <2>2. QED
    BY <1>1, <1>2, <1>5, <2>1, TodoWhole
<1>6. CASE main.stage = "pause" /\ main' = [main EXCEPT !.stage = "loop"]
  <2>1. main'.stage = "loop" /\ main'.todo = <<>> /\ Stage' = <<>>
    BY <1>1, <1>6 DEF TypeOK, Stage
  <2>2. QED
    BY <1>1, <1>2, <1>6, <2>1, TodoWhole
<1>7. CASE main.stage = "loop" /\ main' = [main EXCEPT !.stage = "finish", !.todo = Code.finish]
  <2>1. main'.stage = "finish" /\ main'.todo = Code.finish /\ Stage' = Code.finish
    BY <1>2, <1>7 DEF TypeOK, Stage
  <2>2. QED
    BY <1>1, <1>2, <1>7, <2>1, TodoWhole
<1>8. QED
  BY <1>3, <1>4, <1>5, <1>6, <1>7 DEF NextStage, AtLoop

\* A round that has read, one that has not, and one that cannot go on.
LEMMA RoundBegins ==
  ASSUME TypeOK, TypeOK', TodoIsTheRest, ReadInLoop
  PROVE  /\ main.stage = "loop" /\ main.outcome = "running" /\ main.init_ok /\ ~main.stop
         /\ program' = program /\ driver' = driver /\ simulator' = StepOfRead
         /\ robot'.target = robot.target /\ robot'.velocity = robot.velocity
         /\ main'.init_ok = main.init_ok /\ TodoIsTheRest' /\ ~GivenUp' /\ ~GivenUp
         /\ \/ /\ main'.stage \in {"cycle", "pause"} /\ main'.outcome = "running"
               /\ main'.todo = IF main'.stage = "cycle" THEN Code.cycle ELSE Code.pause
               /\ main'.rounds = main.rounds + 1 /\ \A x : ~Past(x)'
            \/ main'.stage = "loop" /\ main'.outcome = "thrown"
<1>1. /\ main.stage = "loop" /\ main.outcome = "running" /\ main.init_ok /\ ~main.stop
      /\ program' = program /\ driver' = driver /\ simulator' = StepOfRead
      /\ robot'.target = robot.target /\ robot'.velocity = robot.velocity
  BY DEF ReadInLoop, AtLoop, GoesOn, Reads, CannotRead, TypeOK
<1>2. Code' = Code /\ ~GivenUp
  BY <1>1 DEF Code, GivenUp
<1>3. CASE main' = [main EXCEPT !.stage = "cycle", !.todo = Code.cycle, !.rounds = @ + 1]
  <2>1. /\ main'.stage = "cycle" /\ main'.todo = Code.cycle /\ main'.outcome = "running"
        /\ main'.rounds = main.rounds + 1 /\ main'.init_ok = main.init_ok
    BY <1>1, <1>3 DEF TypeOK
  <2>2. Stage' = Code.cycle
    BY <1>2, <2>1 DEF Stage
  <2>3. TodoIsTheRest' /\ ~GivenUp' /\ \A x : ~Past(x)'
    BY <2>1, <2>2, TodoWhole
  <2>4. QED
    BY <1>1, <1>2, <2>1, <2>3
<1>4. CASE main' = [main EXCEPT !.stage = "pause", !.todo = Code.pause, !.rounds = @ + 1,
                                !.stop = @ \/ Code.readOrStop]
  <2>1. /\ main'.stage = "pause" /\ main'.todo = Code.pause /\ main'.outcome = "running"
        /\ main'.rounds = main.rounds + 1 /\ main'.init_ok = main.init_ok
    BY <1>1, <1>4 DEF TypeOK
  <2>2. Stage' = Code.pause
    BY <1>2, <2>1 DEF Stage
  <2>3. TodoIsTheRest' /\ ~GivenUp' /\ \A x : ~Past(x)'
    BY <2>1, <2>2, TodoWhole
  <2>4. QED
    BY <1>1, <1>2, <2>1, <2>3
<1>5. CASE Dies
  <2>1. /\ main'.stage = main.stage /\ main'.todo = main.todo /\ main'.outcome = "thrown"
        /\ main'.init_ok = main.init_ok
    BY <1>5 DEF Dies, TypeOK
  <2>2. TodoIsTheRest' /\ ~GivenUp'
    BY <1>1, <1>2, <2>1, TodoKept
  <2>3. QED
    BY <1>1, <1>2, <2>1, <2>2
<1>6. QED
  BY <1>3, <1>4, <1>5 DEF ReadInLoop

\* What is left to call is the rest of the stage, after every step.
LEMMA TodoStep ==
  ASSUME TypeOK, TypeOK', TodoIsTheRest, [Next]_vars
  PROVE  TodoIsTheRest' /\ program' = program
<1>1. CASE Quiet
  BY <1>1, QuietFacts
<1>2. CASE \/ Start \/ NextStep \/ InitDriver \/ EnableSynchronous("synchronous", TRUE)
           \/ EnableSynchronous("free", FALSE) \/ InitStateMachine \/ Send \/ Stop \/ Compute
  <2>1. PICK c \in Loud : Makes(c)
    BY <1>2, LoudFacts
  <2>2. QED
    BY <2>1, MadeFacts DEF Makes
<1>3. CASE ConstructDriver
  <2>1. program' = program
    BY <1>3 DEF ConstructDriver
  <2>2. QED
    BY <1>3, <2>1, DriverCalls, MadeFacts, TodoKept DEF Stays
<1>4. CASE WaitForRead
  <2>1. program' = program
    BY <1>4 DEF WaitForRead
  <2>2. QED
    BY <1>4, <2>1, WaitCalls, MadeFacts, TodoKept
<1>5. CASE NextStage
  BY <1>5, StageBegins
<1>6. CASE ReadInLoop
  BY <1>6, RoundBegins
<1>7. CASE Return \/ SimulateFreely
  BY <1>7, Standing
<1>8. QED
  BY <1>1, <1>2, <1>3, <1>4, <1>5, <1>6, <1>7, Cases

-----------------------------------------------------------------------------
(* The simulation, and the mode it is in                                    *)

\* Every step keeps LoopsOnly.
LEMMA LoopsOnlyStep ==
  ASSUME TypeOK, TypeOK', TodoIsTheRest, LoopsOnly, [Next]_vars
  PROVE  LoopsOnly'
<1>1. program' = program /\ Code' = Code
  BY TodoStep DEF Code
<1>2. CASE main'.stage = main.stage
  BY <1>1, <1>2 DEF LoopsOnly, InLoop
<1>3. CASE NextStage
  BY <1>1, <1>3, StageBegins DEF LoopsOnly, InLoop
<1>4. CASE ReadInLoop
  BY <1>1, <1>4, RoundBegins DEF LoopsOnly, InLoop
<1>5. main'.stage = main.stage \/ NextStage \/ ReadInLoop
  BY Cases, QuietFacts, LoudFacts, DriverCalls, WaitCalls, Standing DEF Makes, Stays
<1>6. QED
  BY <1>2, <1>3, <1>4, <1>5

\* Every step keeps Modes.
LEMMA ModesStep ==
  ASSUME TypeOK, TypeOK', TodoIsTheRest, LoopsOnly, Modes, [Next]_vars
  PROVE  Modes'
<1> USE DEF Modes, Runs, InLoop
<1>1. CASE Quiet
  BY <1>1, QuietFacts DEF Quiet, Followed
<1>2. CASE ConstructDriver
  <2>1. IsNext("driver") /\ main.stage = "setup" /\ ~GivenUp
    BY <1>2, DriverCalls, Where
  <2>2. ~Past("start")
    BY <2>1, WhichCall
  <2>3. CASE Makes("driver")
    <3>1. ~GivenUp' /\ ~Past("start")' /\ main'.stage = "setup"
      BY <2>1, <2>2, <2>3, MadeFacts DEF Makes
    <3>2. simulator' = simulator /\ driver'.sync_mode_ = driver.sync_mode_ /\ main.outcome = "running"
      BY <1>2, <2>1 DEF ConstructDriver, TypeOK, IsNext
    <3>3. QED
      BY <2>1, <2>2, <3>1, <3>2
  <2>4. CASE Stays /\ main'.outcome = "thrown"
    <3>1. simulator' = simulator /\ program' = program
      BY <1>2 DEF ConstructDriver
    <3>2. (GivenUp' <=> GivenUp) /\ (Past("start")' <=> Past("start")) /\ main'.stage = main.stage
      BY <2>4, <3>1, TodoKept DEF Stays
    <3>3. QED
      BY <2>2, <2>4, <3>1, <3>2
  <2>5. QED
    BY <1>2, <2>3, <2>4, DriverCalls
<1>3. CASE Start
  <2>1. Makes("start") /\ main.stage = "setup" /\ ~GivenUp
    BY <1>3, LoudCalls, Where DEF Makes
  <2>2. ~GivenUp' /\ Past("start")' /\ main'.stage = "setup" /\ main.outcome = "running"
    BY <2>1, MadeFacts DEF Makes, IsNext
  <2>3. /\ driver' = driver /\ (driver.connected => simulator'.running)
    BY <1>3 DEF Start, TypeOK, Simulators
  <2>4. QED
    BY <2>1, <2>2, <2>3
<1>4. CASE NextStep \/ InitDriver \/ InitStateMachine \/ Send \/ Compute
  <2>1. PICK c \in {"nextStep", "init", "state_machine", "send", "compute"} : Makes(c)
    BY <1>4, LoudCalls
  <2>2. /\ GivenUp' <=> GivenUp
        /\ ~GivenUp => (Past("start")' <=> Past("start"))
        /\ main'.stage = main.stage /\ main'.outcome = main.outcome
    BY <2>1, MadeFacts DEF Makes
  <2>3. driver' = driver
    BY <1>4 DEF NextStep, InitDriver, InitStateMachine, Send, Compute
  <2>4. simulator'.running = simulator.running
    <3>1. CASE NextStep
      BY <3>1, TriggeredFacts DEF NextStep, TypeOK
    <3>2. CASE InitDriver
      <4>1. /\ Synchronous(simulator, driver.sync_mode_) \in Simulators
            /\ Synchronous(simulator, driver.sync_mode_).running = simulator.running
        BY DEF Synchronous, TypeOK, Simulators
      <4>2. QED
        BY <3>2, <4>1, TriggeredFacts DEF InitDriver
    <3>3. CASE InitStateMachine \/ Compute
      BY <3>3 DEF InitStateMachine, Compute
    <3>4. CASE Send
      BY <3>4 DEF Send, TypeOK, Simulators
    <3>5. QED
      BY <1>4, <3>1, <3>2, <3>3, <3>4
  <2>5. QED
    BY <2>2, <2>3, <2>4
<1>5. CASE EnableSynchronous("synchronous", TRUE)
  <2>1. Makes("synchronous") /\ main.stage = "setup" /\ ~GivenUp
    BY <1>5, LoudCalls, Where DEF Makes
  <2>2. /\ ~GivenUp' /\ main'.stage = "setup" /\ (Past("start")' <=> Past("start"))
        /\ main'.outcome = main.outcome
    BY <2>1, MadeFacts DEF Makes
  <2>3. /\ driver'.sync_mode_ /\ driver'.connected = driver.connected
        /\ simulator'.running = simulator.running
    BY <1>5 DEF EnableSynchronous, Synchronous, TypeOK, Simulators
  <2>4. QED
    BY <2>1, <2>2, <2>3
<1>6. CASE EnableSynchronous("free", FALSE) \/ Stop
  <2>1. PICK c \in {"free", "stop"} : Makes(c)
    BY <1>6, LoudCalls
  <2>2. main.stage = "finish" \/ GivenUp
    BY <2>1, Where DEF Makes
  <2>3. (GivenUp' <=> GivenUp) /\ main'.stage = main.stage
    BY <2>1, MadeFacts DEF Makes
  <2>4. QED
    BY <2>2, <2>3
<1>7. CASE WaitForRead
  <2>1. main.stage = "setup" /\ ~GivenUp /\ (Makes("wait") \/ main' = main) /\ program' = program
    BY <1>7, WaitCalls, Where DEF WaitForRead
  <2>2. /\ ~GivenUp' /\ main'.stage = "setup" /\ (Past("start")' <=> Past("start"))
        /\ main'.outcome = main.outcome
    BY <2>1, MadeFacts, TodoKept DEF Makes
  <2>3. driver' = driver /\ simulator'.running = simulator.running
    BY <1>7, StepOfReadFacts DEF WaitForRead, Reads, CannotRead
  <2>4. QED
    BY <2>1, <2>2, <2>3
<1>8. CASE NextStage
  <2>1. CASE main.stage = "setup" /\ main'.stage = "loop" /\ Code.loops
    <3>1. Past("start")
      <4>1. Stage = Code.setup /\ WellMade(Code)
        BY <2>1, CodeFacts DEF Stage
      <4>2. \E i \in 1 .. Len(Stage) : Stage[i] = "start"
        BY <2>1, <4>1 DEF WellMade
      <4>3. QED
        BY <1>8, <4>2, AllPast, StageBegins
    <3>2. QED
      BY <1>8, <2>1, <3>1, StageBegins
  <2>2. CASE ~(main.stage = "setup")
    BY <1>8, <2>2, StageBegins
  <2>3. QED
    BY <1>8, <2>1, <2>2, StageBegins
<1>9. CASE ReadInLoop
  BY <1>9, RoundBegins, StepOfReadFacts
<1>10. CASE Return
  <2>1. main.stage = "finish"
    BY <1>10 DEF Return
  <2>2. QED
    BY <1>10, <2>1, Standing
<1>11. CASE SimulateFreely
  <2>1. driver' = driver /\ simulator'.running = simulator.running /\ main' = main
    BY <1>11 DEF SimulateFreely, TypeOK, Simulators
  <2>2. QED
    BY <1>11, <2>1, Standing
<1>12. QED
  BY <1>1, <1>2, <1>3, <1>4, <1>5, <1>6, <1>7, <1>8, <1>9, <1>10, <1>11, Cases

\* A program that runs its main loop to the end is going to stop the simulation.
LEMMA StopsYetStep ==
  ASSUME TypeOK, TypeOK', TodoIsTheRest, LoopsOnly, Modes, StopsYet, [Next]_vars
  PROVE  StopsYet'
<1> USE DEF StopsYet
<1>1. CASE Quiet
  BY <1>1, QuietFacts DEF Quiet
<1>2. CASE \/ Start \/ InitDriver \/ EnableSynchronous("synchronous", TRUE)
           \/ InitStateMachine \/ Send \/ Compute \/ NextStep
  <2>1. PICK c \in {"start", "init", "synchronous", "state_machine", "send", "compute", "nextStep"} :
           Makes(c)
    BY <1>2, LoudCalls
  <2>2. main.stage # "finish"
    BY <2>1, Where DEF Makes
  <2>3. QED
    BY <2>1, <2>2 DEF Makes
<1>3. CASE ConstructDriver \/ WaitForRead
  <2>1. main.stage = "setup" /\ main'.stage = main.stage
    BY <1>3, DriverCalls, WaitCalls, Where DEF Makes, Stays
  <2>2. QED
    BY <2>1
<1>4. CASE EnableSynchronous("free", FALSE)
  <2>1. Makes("free")
    BY <1>4, LoudCalls
  <2>2. /\ driver'.connected = driver.connected /\ simulator'.running = simulator.running
        /\ main'.stage = main.stage /\ main'.outcome = main.outcome
    BY <1>4, <2>1 DEF EnableSynchronous, Synchronous, TypeOK, Simulators, Makes
  <2>3. QED
    BY <2>1, <2>2, StopStaysLeft
<1>5. CASE Stop
  <2>1. driver'.connected => ~simulator'.running
    BY <1>5 DEF Stop, Stopped, Synchronous, TypeOK, Simulators
  <2>2. QED
    BY <2>1
<1>6. CASE NextStage
  <2>1. CASE main.stage = "setup" /\ main'.stage = "finish" /\ ~Code.loops
    <3>1. Stage = Code.setup /\ WellMade(Code)
      BY <2>1, CodeFacts DEF Stage
    <3>2. ~Past("start")
      BY <1>6, <2>1, <3>1, AllPast, StageBegins DEF WellMade
    <3>3. QED
      BY <1>6, <2>1, <3>2, StageBegins DEF Modes
  <2>2. CASE main.stage = "loop" /\ main'.stage = "finish" /\ main'.todo = Code.finish
    <3>1. Code.loops /\ WellMade(Code)
      BY <2>2, CodeFacts DEF LoopsOnly, InLoop
    <3>2. StopIsLeft'
      BY <2>2, <3>1 DEF WellMade, StopIsLeft
    <3>3. QED
      BY <3>2
  <2>3. CASE main'.stage # "finish"
    BY <2>3
  <2>4. QED
    BY <1>6, <2>1, <2>2, <2>3, StageBegins
<1>7. CASE ReadInLoop
  <2>1. main'.stage # "finish"
    BY <1>7, RoundBegins
  <2>2. QED
    BY <2>1
<1>8. CASE Return
  BY <1>8 DEF Return, TypeOK
<1>9. CASE SimulateFreely
  BY <1>9 DEF SimulateFreely, TypeOK, Simulators, StopIsLeft
<1>10. QED
  BY <1>1, <1>2, <1>3, <1>4, <1>5, <1>6, <1>7, <1>8, <1>9, Cases

\* Every step keeps OnlyDeathLeavesItRunning: the main function returns with nothing left
\* to call, so with no stop() left.
LEMMA OnlyDeathStep ==
  ASSUME TypeOK, TypeOK', TodoIsTheRest, StopsYet, OnlyDeathLeavesItRunning, [Next]_vars
  PROVE  OnlyDeathLeavesItRunning'
<1> USE DEF OnlyDeathLeavesItRunning
<1>1. CASE Quiet
  BY <1>1, QuietFacts DEF Quiet
<1>2. CASE \/ Start \/ NextStep \/ InitDriver \/ EnableSynchronous("synchronous", TRUE)
           \/ EnableSynchronous("free", FALSE) \/ InitStateMachine \/ Send \/ Stop \/ Compute
  <2>1. PICK c \in Loud : Makes(c)
    BY <1>2, LoudFacts
  <2>2. main'.outcome = "running"
    BY <2>1 DEF Makes, IsNext
  <2>3. QED
    BY <2>2
<1>3. CASE ConstructDriver \/ WaitForRead
  <2>1. main'.outcome # "returned"
    BY <1>3, DriverCalls, WaitCalls DEF Makes, IsNext
  <2>2. QED
    BY <2>1
<1>4. CASE NextStage \/ ReadInLoop
  <2>1. main'.outcome # "returned"
    BY <1>4, StageBegins, RoundBegins
  <2>2. QED
    BY <2>1
<1>5. CASE Return
  <2>1. /\ main.outcome = "running" /\ main.stage = "finish" /\ main.todo = <<>>
        /\ driver'.connected = driver.connected /\ simulator'.running = simulator.running
        /\ driver.connected => ~simulator'.synchronous
    BY <1>5 DEF Return, Synchronous, TypeOK, Simulators
  <2>2. ~StopIsLeft
    <3>1. Len(main.todo) = 0
      BY <2>1
    <3>2. QED
      BY <3>1 DEF StopIsLeft
  <2>3. QED
    BY <2>1, <2>2 DEF StopsYet
<1>6. CASE SimulateFreely
  BY <1>6 DEF SimulateFreely, TypeOK, Simulators
<1>7. QED
  BY <1>1, <1>2, <1>3, <1>4, <1>5, <1>6, Cases

-----------------------------------------------------------------------------
(* The steps of the simulation                                              *)

\* One more round is one more read and one more pause.
LEMMA PauseFacts ==
  ASSUME TypeOK
  PROVE  /\ Len(Code.pause) \in {0, 1}
         /\ main.rounds * (1 + Len(Code.pause)) \in Nat
         /\ (main.rounds + 1) * (1 + Len(Code.pause)) =
               main.rounds * (1 + Len(Code.pause)) + 1 + Len(Code.pause)
<1>1. Len(Code.pause) \in Nat /\ Len(Code.pause) <= 1
  BY CodeFacts DEF WellMade
<1>2. Len(Code.pause) \in {0, 1} /\ main.rounds \in Nat
  <2>1. \A n \in Nat : n <= 1 => n \in {0, 1}
    OBVIOUS
  <2>2. main.rounds \in Nat
    BY DEF TypeOK
  <2>3. QED
    BY <1>1, <2>1, <2>2
<1>3. CASE Len(Code.pause) = 0
  BY <1>2, <1>3
<1>4. CASE Len(Code.pause) = 1
  BY <1>2, <1>4
<1>5. QED
  BY <1>2, <1>3, <1>4

\* Every step keeps Counts.
LEMMA CountsStep ==
  ASSUME TypeOK, TypeOK', TodoIsTheRest, Modes, Counts, [Next]_vars
  PROVE  Counts'
<1> USE DEF Counts, InLoop
<1>1. program' = program /\ Code' = Code
  BY TodoStep DEF Code
<1>2. CASE Quiet
  BY <1>1, <1>2, QuietFacts DEF Quiet, StepsLeft
<1>3. CASE ConstructDriver \/ Start \/ EnableSynchronous("synchronous", TRUE) \/ InitStateMachine
  <2>1. main.stage = "setup" /\ main'.stage = "setup" /\ main'.rounds = main.rounds
    BY <1>3, DriverCalls, LoudCalls, Where DEF Makes, Stays
  <2>2. simulator'.steps = simulator.steps
    BY <1>3 DEF ConstructDriver, Start, EnableSynchronous, InitStateMachine, Synchronous,
                TypeOK, Simulators
  <2>3. QED
    BY <2>1, <2>2
<1>4. CASE InitDriver
  <2>1. main.stage = "setup" /\ main'.stage = "setup" /\ main'.rounds = main.rounds
    BY <1>4, LoudCalls, Where DEF Makes
  <2>2. /\ Synchronous(simulator, driver.sync_mode_) \in Simulators
        /\ Synchronous(simulator, driver.sync_mode_).steps = simulator.steps
    BY DEF Synchronous, TypeOK, Simulators
  <2>3. simulator'.steps = 0
    BY <1>4, <2>1, <2>2, TriggeredFacts DEF InitDriver
  <2>4. QED
    BY <2>1, <2>3
<1>5. CASE WaitForRead
  <2>1. main.stage = "setup" /\ main'.stage = "setup" /\ main'.rounds = main.rounds
    BY <1>5, WaitCalls, Where DEF Makes
  <2>2. simulator'.steps = 0
    BY <1>5, <2>1, StepOfReadFacts DEF WaitForRead, Reads, CannotRead
  <2>3. QED
    BY <2>1, <2>2
<1>6. CASE NextStep
  <2>1. Makes("nextStep")
    BY <1>6, LoudCalls
  <2>2. /\ main'.stage = main.stage /\ main'.rounds = main.rounds /\ driver' = driver
        /\ main.outcome = "running" /\ Len(main'.todo) = Len(main.todo) - 1
        /\ Len(main.todo) \in Nat
    BY <1>6, <2>1, MadeFacts, CodeFacts DEF Makes, NextStep, IsNext
  <2>3. CASE main.stage = "setup"
    BY <1>6, <2>2, <2>3, TriggeredFacts DEF NextStep, TypeOK
  <2>4. CASE main.stage # "setup"
    <3>1. main.stage = "pause" /\ ~GivenUp
      BY <2>1, <2>4, Where DEF Makes, GivenUp
    <3>2. SUFFICES ASSUME driver.connected, simulator'.synchronous
                   PROVE  simulator'.steps = main.rounds * (1 + Len(Code.pause)) - Len(main'.todo)
      BY <1>1, <2>2, <3>1 DEF StepsLeft
    <3>3. simulator.synchronous
      BY <1>6, <3>2, TriggeredFacts DEF NextStep, TypeOK
    <3>4. simulator.running /\ driver.sync_mode_
      BY <2>2, <3>1, <3>2 DEF Modes, Runs
    <3>5. simulator'.steps = simulator.steps + 1
      BY <1>6, <2>4, <3>2, <3>3, <3>4, TriggeredFacts DEF NextStep, TypeOK
    <3>6. simulator.steps = main.rounds * (1 + Len(Code.pause)) - Len(main.todo)
      BY <2>2, <3>1, <3>2, <3>3 DEF StepsLeft
    <3>7. QED
      BY <2>2, <3>5, <3>6, PauseFacts
  <2>5. QED
    BY <2>3, <2>4
<1>7. CASE EnableSynchronous("free", FALSE) \/ Stop
  <2>1. PICK c \in {"free", "stop"} : Makes(c)
    BY <1>7, LoudCalls
  <2>2. /\ main.stage = "finish" \/ main.stage = "setup"
        /\ main'.stage = main.stage /\ main'.rounds = main.rounds
    BY <2>1, Where DEF Makes, GivenUp
  <2>3. simulator'.steps = simulator.steps
    BY <1>7 DEF EnableSynchronous, Stop, Synchronous, TypeOK, Simulators
  <2>4. QED
    BY <2>2, <2>3
<1>8. CASE Send \/ Compute
  <2>1. PICK c \in {"send", "compute"} : Makes(c)
    BY <1>8, LoudCalls
  <2>2. /\ main.stage \in {"cycle", "setup"}
        /\ main'.stage = main.stage /\ main'.rounds = main.rounds /\ main'.outcome = main.outcome
    BY <2>1, Where DEF Makes
  <2>3. simulator'.steps = simulator.steps /\ simulator'.synchronous = simulator.synchronous
        /\ driver' = driver
    BY <1>8 DEF Send, Compute, TypeOK, Simulators
  <2>4. QED
    BY <1>1, <2>2, <2>3 DEF StepsLeft
<1>9. CASE NextStage
  <2>1. CASE main.stage = "pause"
    <3>1. Len(main.todo) = 0
      BY <1>9, StageBegins
    <3>2. QED
      BY <1>1, <1>9, <2>1, <3>1, StageBegins DEF StepsLeft
  <2>2. CASE main.stage = "setup"
    BY <1>1, <1>9, <2>2, StageBegins, PauseFacts DEF StepsLeft
  <2>3. CASE main.stage \in {"cycle", "loop"}
    BY <1>1, <1>9, <2>3, StageBegins DEF StepsLeft
  <2>4. QED
    BY <1>9, <2>1, <2>2, <2>3, StageBegins
<1>10. CASE ReadInLoop
  <2>1. CASE main'.outcome = "thrown"
    BY <1>10, <2>1, RoundBegins
  <2>2. CASE main'.outcome = "running"
    <3>1. /\ main.stage = "loop" /\ main.outcome = "running" /\ ~GivenUp /\ driver' = driver
          /\ simulator' = StepOfRead /\ main'.rounds = main.rounds + 1
          /\ main'.stage \in {"cycle", "pause"}
          /\ main'.stage = "pause" => main'.todo = Code.pause
      BY <1>10, <2>2, RoundBegins
    <3>2. StepsLeft' = Len(Code.pause)
      BY <1>1, <3>1 DEF StepsLeft
    <3>3. SUFFICES ASSUME driver.connected, simulator'.synchronous
                   PROVE  simulator'.steps =
                             (main.rounds + 1) * (1 + Len(Code.pause)) - Len(Code.pause)
      BY <1>1, <3>1, <3>2
    <3>4. simulator.synchronous /\ simulator.running /\ driver.sync_mode_
      BY <3>1, <3>3, StepOfReadFacts DEF Modes, Runs
    <3>5. simulator'.steps = simulator.steps + 1
      BY <3>1, <3>3, <3>4, StepOfReadFacts
    <3>6. simulator.steps = main.rounds * (1 + Len(Code.pause))
      BY <3>1, <3>3, <3>4, PauseFacts DEF StepsLeft
    <3>7. QED
      BY <3>5, <3>6, PauseFacts
  <2>3. QED
    BY <1>10, <2>1, <2>2, RoundBegins
<1>11. CASE Return
  <2>1. main.stage = "finish"
    BY <1>11 DEF Return
  <2>2. QED
    BY <1>11, <2>1, Standing
<1>12. CASE SimulateFreely
  <2>1. /\ driver' = driver /\ simulator'.steps = simulator.steps
        /\ simulator'.synchronous = simulator.synchronous /\ main' = main
    BY <1>12 DEF SimulateFreely, TypeOK, Simulators
  <2>2. QED
    BY <1>1, <2>1 DEF StepsLeft
<1>13. QED
  BY <1>2, <1>3, <1>4, <1>5, <1>6, <1>7, <1>8, <1>9, <1>10, <1>11, <1>12, Cases

-----------------------------------------------------------------------------
(* The targets                                                              *)

\* Every step keeps AtHome.
LEMMA AtHomeStep ==
  ASSUME TypeOK, TypeOK', TodoIsTheRest, AtHome, [Next]_vars
  PROVE  AtHome'
<1> USE DEF AtHome, Runs
<1>1. CASE Quiet
  BY <1>1, QuietFacts DEF Quiet, Followed
<1>2. CASE ConstructDriver
  <2>1. /\ main'.stage = main.stage /\ main.stage = "setup" /\ ~GivenUp
        /\ simulator' = simulator /\ robot' = robot /\ main.outcome = "running"
    BY <1>2, DriverCalls, Where DEF Makes, Stays, ConstructDriver, IsNext
  <2>2. CASE Makes("driver")
    BY <2>1, <2>2, MadeFacts DEF Makes
  <2>3. CASE main'.outcome = "thrown"
    BY <2>1, <2>3
  <2>4. QED
    BY <1>2, <2>2, <2>3, DriverCalls
<1>3. CASE Start \/ EnableSynchronous("synchronous", TRUE) \/ EnableSynchronous("free", FALSE)
           \/ Stop \/ Compute \/ NextStep \/ InitStateMachine
  <2>1. PICK c \in {"start", "synchronous", "free", "stop", "compute", "nextStep", "state_machine"} :
           Makes(c)
    BY <1>3, LoudCalls
  <2>2. /\ main'.stage = main.stage /\ (main.stop => main'.stop) /\ main'.outcome = main.outcome
        /\ GivenUp' <=> GivenUp
        /\ ~GivenUp => (Past("wait")' <=> Past("wait"))
    BY <2>1, MadeFacts DEF Makes
  <2>3. simulator'.target = simulator.target
    <3>1. CASE Start \/ EnableSynchronous("synchronous", TRUE) \/ EnableSynchronous("free", FALSE)
               \/ Stop \/ Compute \/ InitStateMachine
      BY <3>1 DEF Start, EnableSynchronous, Stop, Compute, InitStateMachine, Synchronous,
                  TypeOK, Simulators
    <3>2. CASE NextStep
      BY <3>2, TriggeredFacts DEF NextStep, TypeOK
    <3>3. QED
      BY <1>3, <3>1, <3>2
  <2>4. simulator'.position \in {simulator.position, simulator.target}
    <3>1. CASE Start \/ EnableSynchronous("synchronous", TRUE) \/ EnableSynchronous("free", FALSE)
               \/ Stop \/ Compute \/ InitStateMachine
      BY <3>1 DEF Start, EnableSynchronous, Stop, Compute, InitStateMachine, Synchronous,
                  TypeOK, Simulators
    <3>2. CASE NextStep
      BY <3>2, TriggeredFacts DEF NextStep, TypeOK
    <3>3. QED
      BY <1>3, <3>1, <3>2
  <2>5. robot'.position = robot.position
    BY <1>3 DEF Start, EnableSynchronous, Stop, Compute, NextStep, InitStateMachine,
                TargetAtJoints, TypeOK
  <2>6. QED
    BY <2>2, <2>3, <2>4, <2>5
<1>4. CASE InitDriver
  <2>1. Makes("init") /\ main.stage = "setup" /\ ~GivenUp /\ main.outcome = "running"
    BY <1>4, LoudCalls, Where DEF Makes, IsNext
  <2>2. /\ main'.stage = "setup" /\ (main.stop => main'.stop) /\ ~GivenUp'
        /\ Past("wait")' <=> Past("wait")
    BY <2>1, MadeFacts DEF Makes
  <2>3. /\ Synchronous(simulator, driver.sync_mode_) \in Simulators
        /\ Synchronous(simulator, driver.sync_mode_).target = simulator.target
        /\ Synchronous(simulator, driver.sync_mode_).position = simulator.position
    BY DEF Synchronous, TypeOK, Simulators
  <2>4. /\ simulator'.target = simulator.target
        /\ simulator'.position \in {simulator.position, simulator.target}
    BY <1>4, <2>3, TriggeredFacts DEF InitDriver
  <2>5. robot'.position \in {robot.position, simulator'.position}
    BY <1>4 DEF InitDriver, TargetAtJoints, TypeOK
  <2>6. QED
    BY <2>1, <2>2, <2>4, <2>5
<1>5. CASE WaitForRead
  <2>1. main.stage = "setup" /\ ~GivenUp /\ (Makes("wait") \/ main' = main) /\ program' = program
    BY <1>5, WaitCalls, Where DEF WaitForRead
  <2>2. /\ main'.stage = "setup" /\ (main.stop => main'.stop) /\ main'.outcome = main.outcome
        /\ main' = main => (Past("wait")' <=> Past("wait"))
    BY <2>1, TodoKept DEF Makes
  <2>3. /\ simulator'.target = simulator.target
        /\ simulator'.position \in {simulator.position, simulator.target}
    BY <1>5, StepOfReadFacts DEF WaitForRead, Reads, CannotRead
  <2>4. CASE Reads
    <3>1. robot'.position \in {simulator.position, simulator'.position}
      BY <2>4 DEF Reads, TypeOK
    <3>2. QED
      BY <2>1, <2>2, <2>3, <3>1
  <2>5. CASE CannotRead /\ (main' = main \/ main.stop)
    <3>1. robot' = robot
      BY <2>5 DEF CannotRead
    <3>2. QED
      BY <2>1, <2>2, <2>3, <2>5, <3>1
  <2>6. QED
    BY <1>5, <2>4, <2>5, WaitCalls
<1>6. CASE Send
  <2>1. main'.stage = "cycle"
    BY <1>6, LoudCalls, Where DEF Makes
  <2>2. QED
    BY <2>1
<1>7. CASE NextStage \/ ReadInLoop
  <2>1. main'.stage # "setup"
    BY <1>7, StageBegins, RoundBegins
  <2>2. QED
    BY <2>1
<1>8. CASE Return
  <2>1. main'.stage = "finish"
    BY <1>8, Standing DEF Return
  <2>2. QED
    BY <2>1
<1>9. CASE SimulateFreely
  <2>1. /\ simulator'.position = simulator.target /\ simulator'.target = simulator.target
        /\ robot' = robot /\ main' = main
    BY <1>9 DEF SimulateFreely, TypeOK, Simulators
  <2>2. QED
    BY <1>9, <2>1, Standing
<1>10. QED
  BY <1>1, <1>2, <1>3, <1>4, <1>5, <1>6, <1>7, <1>8, <1>9, Cases

\* Every step keeps Chosen.
LEMMA ChosenStep ==
  ASSUME TypeOK, TypeOK', TodoIsTheRest, Chosen, [Next]_vars
  PROVE  Chosen'
<1> USE DEF Chosen
<1>1. CASE Quiet
  <2>1. SUFFICES ASSUME main'.stage = "cycle"
                 PROVE  main'.init_ok /\ (Past("compute")' => robot'.velocity \in Velocities)
    OBVIOUS
  <2>2. ~GivenUp'
    BY <2>1 DEF GivenUp
  <2>3. QED
    BY <1>1, <2>1, <2>2, QuietFacts DEF Quiet, Followed
<1>2. CASE Compute
  <2>1. Makes("compute") /\ main'.init_ok = main.init_ok /\ main'.stage = main.stage
    BY <1>2, LoudCalls DEF Makes
  <2>2. robot'.velocity \in Velocities
    BY <1>2 DEF Compute, TypeOK
  <2>3. QED
    BY <2>1, <2>2
<1>3. CASE Send
  <2>1. Makes("send") /\ main'.init_ok = main.init_ok /\ main'.stage = main.stage
        /\ main.stage = "cycle"
    BY <1>3, LoudCalls, Where DEF Makes
  <2>2. Past("compute")' <=> Past("compute")
    BY <2>1, MadeFacts DEF GivenUp
  <2>3. robot'.velocity = robot.velocity
    BY <1>3 DEF Send, TypeOK
  <2>4. QED
    BY <2>1, <2>2, <2>3
<1>4. CASE \/ Start \/ NextStep \/ InitDriver \/ EnableSynchronous("synchronous", TRUE)
           \/ EnableSynchronous("free", FALSE) \/ InitStateMachine \/ Stop
  <2>1. PICK c \in {"start", "nextStep", "init", "synchronous", "free", "state_machine", "stop"} :
           Makes(c)
    BY <1>4, LoudCalls
  <2>2. main'.stage # "cycle"
    BY <2>1, Where DEF Makes, GivenUp
  <2>3. QED
    BY <2>2
<1>5. CASE ConstructDriver \/ WaitForRead
  <2>1. main'.stage = "setup"
    BY <1>5, DriverCalls, WaitCalls, Where DEF Makes, Stays
  <2>2. QED
    BY <2>1
<1>6. CASE NextStage
  <2>1. main'.stage # "cycle"
    BY <1>6, StageBegins
  <2>2. QED
    BY <2>1
<1>7. CASE ReadInLoop
  BY <1>7, RoundBegins
<1>8. CASE Return \/ SimulateFreely
  <2>1. main'.stage = "cycle" => SimulateFreely
    BY <1>8, Standing DEF Return
  <2>2. SimulateFreely => robot' = robot
    BY DEF SimulateFreely
  <2>3. QED
    BY <1>8, <2>1, <2>2, Standing
<1>9. QED
  BY <1>1, <1>2, <1>3, <1>4, <1>5, <1>6, <1>7, <1>8, Cases

\* Everything but a command and the end of a read keeps both targets.
LEMMA TargetsKept ==
  ASSUME TypeOK, TodoIsTheRest, [Next]_vars, ~Send
  PROVE  /\ simulator'.target = simulator.target
         /\ ~InitDriver /\ ~InitStateMachine => robot'.target = robot.target
<1>1. CASE Quiet
  BY <1>1 DEF Quiet
<1>2. CASE ConstructDriver \/ Start \/ Stop \/ Compute \/ EnableSynchronous("synchronous", TRUE)
           \/ EnableSynchronous("free", FALSE) \/ InitStateMachine \/ Return \/ SimulateFreely
  BY <1>2 DEF ConstructDriver, Start, Stop, Compute, EnableSynchronous, InitStateMachine,
              Return, SimulateFreely, Synchronous, TypeOK, Simulators
<1>3. CASE NextStep
  BY <1>3, TriggeredFacts DEF NextStep, TypeOK
<1>4. CASE InitDriver
  <2>1. /\ Synchronous(simulator, driver.sync_mode_) \in Simulators
        /\ Synchronous(simulator, driver.sync_mode_).target = simulator.target
    BY DEF Synchronous, TypeOK, Simulators
  <2>2. QED
    BY <1>4, <2>1, TriggeredFacts DEF InitDriver
<1>5. CASE WaitForRead \/ ReadInLoop
  BY <1>5, StepOfReadFacts DEF WaitForRead, ReadInLoop, Reads, CannotRead, TypeOK
<1>6. CASE NextStage
  BY <1>6 DEF NextStage
<1>7. QED
  BY <1>1, <1>2, <1>3, <1>4, <1>5, <1>6, Cases

\* A program that has called init() has its driver's target where the simulator's is.
LEMMA HoldsStep ==
  ASSUME TypeOK, TypeOK', TodoIsTheRest, AtHome, Holds, [Next]_vars
  PROVE  Holds'
<1> USE DEF Holds, Runs, InLoop
<1>1. program' = program /\ Code' = Code /\ (Initialises' <=> Initialises)
  <2>1. program' = program
    BY TodoStep
  <2>2. QED
    BY <2>1 DEF Code, Initialises
<1>2. CASE Quiet
  BY <1>1, <1>2, QuietFacts DEF Quiet, Followed
<1>3. CASE ConstructDriver
  <2>1. IsNext("driver") /\ main.stage = "setup" /\ ~GivenUp /\ main'.stage = "setup"
    BY <1>3, DriverCalls, Where DEF Makes, Stays
  <2>2. \A x : ~Past(x)
    BY <2>1, WhichCall
  <2>3. CASE Makes("driver")
    <3>1. ~Past("init")' /\ ~Past("state_machine")'
      BY <2>1, <2>2, <2>3, MadeFacts
    <3>2. QED
      BY <2>1, <3>1
  <2>4. CASE main'.outcome = "thrown"
    BY <2>4
  <2>5. QED
    BY <1>3, <2>3, <2>4, DriverCalls
<1>4. CASE \/ Start \/ Stop \/ Compute \/ NextStep \/ EnableSynchronous("synchronous", TRUE)
           \/ EnableSynchronous("free", FALSE)
  <2>1. PICK c \in {"start", "stop", "compute", "nextStep", "synchronous", "free"} :
           Makes(c) /\ main'.init_ok = main.init_ok
    BY <1>4, LoudCalls
  <2>2. /\ main'.stage = main.stage /\ main'.outcome = main.outcome /\ (main.stop => main'.stop)
        /\ GivenUp' <=> GivenUp
        /\ ~GivenUp => (Past("init")' <=> Past("init"))
        /\ ~GivenUp => (Past("state_machine")' <=> Past("state_machine"))
    BY <2>1, MadeFacts DEF Makes
  <2>3. driver'.connected = driver.connected
    BY <1>4 DEF Start, Stop, Compute, NextStep, EnableSynchronous, TypeOK
  <2>4. ~Send /\ ~InitDriver /\ ~InitStateMachine
    <3>1. Head(main.todo) = c
      BY <2>1 DEF Makes, IsNext
    <3>2. QED
      BY <3>1 DEF Send, InitDriver, InitStateMachine, IsNext
  <2>5. QED
    BY <1>1, <2>1, <2>2, <2>3, <2>4, TargetsKept
<1>5. CASE InitDriver
  <2>1. Makes("init") /\ main.stage = "setup" /\ main'.stage = "setup"
    BY <1>5, LoudCalls, Where DEF Makes
  <2>2. /\ Synchronous(simulator, driver.sync_mode_) \in Simulators
        /\ Synchronous(simulator, driver.sync_mode_).target = simulator.target
        /\ Synchronous(simulator, driver.sync_mode_).position = simulator.position
    BY DEF Synchronous, TypeOK, Simulators
  <2>3. simulator'.target = Home /\ simulator'.position = Home
    BY <1>5, <2>1, <2>2, TriggeredFacts DEF InitDriver, AtHome
  <2>4. CASE robot' = TargetAtJoints([robot EXCEPT !.position = simulator'.position])
    <3>1. robot'.target = simulator'.position
      BY <2>4 DEF TargetAtJoints, TypeOK
    <3>2. QED
      BY <2>1, <2>3, <3>1
  <2>5. CASE main' = [Made EXCEPT !.init_ok = FALSE]
    <3>1. ~main'.init_ok
      BY <2>5 DEF Made, TypeOK
    <3>2. QED
      BY <3>1
  <2>6. QED
    BY <1>5, <2>4, <2>5 DEF InitDriver
<1>6. CASE InitStateMachine
  <2>1. /\ Makes("state_machine") /\ main'.init_ok = main.init_ok
        /\ main.stage = "setup" /\ ~GivenUp /\ main'.stage = "setup" /\ main.outcome = "running"
        /\ main.stop => main'.stop
    BY <1>6, LoudCalls, Where DEF Makes, IsNext
  <2>2. Past("wait")
    BY <2>1, WhichCall DEF Makes
  <2>3. ~main'.stop => robot.position = Home
    BY <2>1, <2>2 DEF AtHome
  <2>4. robot'.target = robot.position /\ simulator'.target = Home
    BY <1>6, <2>1 DEF InitStateMachine, TargetAtJoints, TypeOK, AtHome
  <2>5. QED
    BY <2>1, <2>3, <2>4
<1>7. CASE WaitForRead
  <2>1. main.stage = "setup" /\ ~GivenUp /\ (Makes("wait") \/ main' = main)
        /\ main'.init_ok = main.init_ok /\ IsNext("wait")
    BY <1>7, WaitCalls, Where, LoudCalls
  <2>2. /\ main'.stage = "setup" /\ main'.outcome = main.outcome /\ (main.stop => main'.stop)
        /\ Past("init")' <=> Past("init")
        /\ Past("state_machine")' <=> Past("state_machine")
    BY <1>1, <2>1, MadeFacts, TodoKept DEF Makes
  <2>3. driver' = driver /\ ~Send /\ ~InitDriver /\ ~InitStateMachine
    BY <1>7, <2>1 DEF WaitForRead, Send, InitDriver, InitStateMachine, IsNext
  <2>4. QED
    BY <2>1, <2>2, <2>3, TargetsKept
<1>8. CASE Send
  <2>1. main'.stage = "cycle" /\ driver' = driver
    BY <1>8, LoudCalls, Where DEF Makes, Send
  <2>2. driver.connected => simulator'.target = robot'.target
    BY <1>8 DEF Send, TypeOK, Simulators
  <2>3. QED
    BY <2>1, <2>2
<1>9. CASE NextStage
  <2>1. CASE main.stage = "setup"
    <3>1. Stage = Code.setup
      BY <2>1 DEF Stage
    <3>2. Initialises => Past("init") \/ Past("state_machine")
      <4>1. SUFFICES ASSUME Initialises PROVE Past("init") \/ Past("state_machine")
        OBVIOUS
      <4>2. PICK i \in DOMAIN Code.setup : Code.setup[i] \in {"init", "state_machine"}
        BY <4>1 DEF Initialises
      <4>3. i \in 1 .. Len(Code.setup)
        BY <4>2, CodeFacts DEF WellMade
      <4>4. QED
        BY <1>9, <3>1, <4>2, <4>3, AllPast, StageBegins
    <3>3. QED
      BY <1>1, <1>9, <2>1, <3>2, StageBegins
  <2>2. CASE main.stage # "setup"
    BY <1>1, <1>9, <2>2, StageBegins
  <2>3. QED
    BY <2>1, <2>2
<1>10. CASE ReadInLoop
  BY <1>1, <1>10, RoundBegins, StepOfReadFacts
<1>11. CASE Return
  <2>1. main'.stage = "finish"
    BY <1>11, Standing DEF Return
  <2>2. QED
    BY <2>1
<1>12. CASE SimulateFreely
  <2>1. /\ simulator'.target = simulator.target /\ robot' = robot /\ main' = main /\ driver' = driver
    BY <1>12 DEF SimulateFreely, TypeOK, Simulators
  <2>2. QED
    BY <1>1, <1>12, <2>1, Standing
<1>13. QED
  BY <1>2, <1>3, <1>4, <1>5, <1>6, <1>7, <1>8, <1>9, <1>10, <1>11, <1>12, Cases

-----------------------------------------------------------------------------
(* Theorems                                                                 *)

\* The invariant holds initially, ...
LEMMA InvInit == Init => Inv
<1> SUFFICES ASSUME Init PROVE Inv
  OBVIOUS
<1>1. TypeOK /\ TodoIsTheRest /\ ~GivenUp /\ \A x : ~Past(x)
  BY TypeInit, TodoInit
<1>2. LoopsOnly /\ Modes /\ StopsYet
  BY <1>1 DEF Init, LoopsOnly, InLoop, Modes, Runs, StopsYet
<1>3. Counts /\ AtHome /\ Holds /\ Chosen
  BY <1>1 DEF Init, Counts, InLoop, AtHome, Holds, Chosen, Runs
<1>4. OnlyDeathLeavesItRunning
  BY DEF Init, OnlyDeathLeavesItRunning
<1>5. QED
  BY <1>1, <1>2, <1>3, <1>4 DEF Inv

\* ... every step keeps it, ...
LEMMA InvStep == Inv /\ [Next]_vars => Inv'
<1> SUFFICES ASSUME Inv, [Next]_vars PROVE Inv'
  OBVIOUS
<1> USE DEF Inv
<1>1. TypeOK'
  BY TypeStep
<1>2. TodoIsTheRest'
  BY <1>1, TodoStep
<1>3. LoopsOnly' /\ Modes' /\ StopsYet'
  BY <1>1, LoopsOnlyStep, ModesStep, StopsYetStep
<1>4. Counts' /\ AtHome'
  BY <1>1, CountsStep, AtHomeStep
<1>5. Holds' /\ Chosen'
  BY <1>1, HoldsStep, ChosenStep
<1>6. OnlyDeathLeavesItRunning'
  BY <1>1, OnlyDeathStep
<1>7. QED
  BY <1>1, <1>2, <1>3, <1>4, <1>5, <1>6

\* ... so it holds always.
LEMMA Invariance == Spec => []Inv
<1>1. Init => Inv
  BY InvInit
<1>2. Inv /\ [Next]_vars => Inv'
  BY InvStep
<1>3. QED
  BY <1>1, <1>2, PTL DEF Spec

\* A main function that returns with its connection leaves the simulation stopped and no
\* longer synchronous, whatever failed on the way: only a kill or an exception that nobody
\* catches leaves it running.
THEOREM StoppedUnlessKilled == Spec => []OnlyDeathLeavesItRunning
<1>1. Inv => OnlyDeathLeavesItRunning
  BY DEF Inv
<1>2. QED
  BY <1>1, Invariance, PTL

\* In the main loop of a program whose simulator is synchronous and connected, the simulator
\* has made one step for every read and one for every nextStep(): no step is lost or doubled.
THEOREM StepsCounted == Spec => []StepsPerRound
<1>1. Inv => StepsPerRound
  <2>1. SUFFICES ASSUME Inv, AtLoop, driver.connected, simulator.synchronous
                 PROVE  simulator.steps = main.rounds * (1 + Len(Code.pause))
    BY DEF StepsPerRound
  <2>2. simulator.steps = main.rounds * (1 + Len(Code.pause)) - 0
    BY <2>1 DEF Inv, Counts, StepsLeft, AtLoop, InLoop
  <2>3. main.rounds * (1 + Len(Code.pause)) \in Nat
    BY <2>1, PauseFacts DEF Inv
  <2>4. QED
    BY <2>2, <2>3
<1>2. QED
  BY <1>1, Invariance, PTL

\* A step moves the simulator's target by a velocity the program may ask for, or not at all:
\* send() integrates from the robot's target, which Holds says is the simulator's.
LEMMA TargetStep ==
  Inv /\ [Next]_vars =>
      [Initialises => simulator'.target - simulator.target \in Velocities \cup {0}]_vars
<1> SUFFICES ASSUME Inv, [Next]_vars, Initialises
             PROVE  simulator'.target - simulator.target \in Velocities \cup {0}
  OBVIOUS
<1>1. TypeOK /\ TodoIsTheRest /\ Holds /\ Chosen
  BY DEF Inv
<1>2. CASE Send /\ driver.connected
  <2>1. main.stage = "cycle" /\ Past("compute") /\ main.outcome = "running"
    BY <1>1, <1>2, Where, WhichCall DEF Send, IsNext
  <2>2. main.init_ok /\ robot.velocity \in Velocities
    BY <1>1, <2>1 DEF Chosen
  <2>3. robot.target = simulator.target
    BY <1>1, <1>2, <2>1, <2>2 DEF Holds, InLoop
  <2>4. simulator'.target = robot.target + robot.velocity
    BY <1>1, <1>2 DEF Send, TypeOK, Simulators
  <2>5. robot.target \in Int /\ robot.velocity \in Int
    BY <1>1 DEF TypeOK
  <2>6. simulator'.target - simulator.target = robot.velocity
    BY <2>3, <2>4, <2>5
  <2>7. QED
    BY <2>2, <2>6
<1>3. CASE ~(Send /\ driver.connected)
  <2>1. simulator'.target = simulator.target
    <3>1. CASE Send
      BY <1>3, <3>1 DEF Send
    <3>2. CASE ~Send
      BY <1>1, <3>2, TargetsKept
    <3>3. QED
      BY <3>1, <3>2
  <2>2. simulator.target \in Int
    BY <1>1 DEF TypeOK, Simulators
  <2>3. QED
    BY <2>1, <2>2
<1>4. QED
  BY <1>2, <1>3

\* The target of the simulator's joints moves by a velocity the program computed, one cycle
\* at a time: send() never makes it jump, the first send() after init() included.
THEOREM TargetsMoveByVelocities == Spec => TargetMovesByVelocity
<1>1. Inv /\ [Next]_vars =>
         [Initialises => simulator'.target - simulator.target \in Velocities \cup {0}]_vars
  BY TargetStep
<1>2. QED
  BY <1>1, Invariance, PTL DEF Spec, TargetMovesByVelocity

-----------------------------------------------------------------------------
(* Induction                                                                *)

\* Induction over the natural numbers, for a set.
LEMMA SetInduction ==
  ASSUME NEW S, 0 \in S, \A n \in Nat : n \in S => n + 1 \in S
  PROVE  Nat \subseteq S
<1> SUFFICES ASSUME Nat \ S # {}
             PROVE  FALSE
  OBVIOUS
<1>1. PICK m \in Nat \ S : \A k \in Nat \ S : ~(<<k, m>> \in OpToRel(<, Nat))
  BY NatLessThanWellFounded, WFMin, Zenon
<1>2. \A k \in Nat \ S : ~(k < m)
  BY <1>1 DEF OpToRel
<1>3. m # 0 /\ m - 1 \in Nat /\ m - 1 \in S
  BY <1>2
<1>4. QED
  BY <1>3

Pick(s) == CHOOSE x \in s : TRUE

\* Induction over the subsets of a finite set, from one without its picked element.
LEMMA SubsetInduction ==
  ASSUME NEW S, IsFiniteSet(S), NEW T, {} \in T,
         \A s \in SUBSET S : (s # {} /\ s \ {Pick(s)} \in T) => s \in T
  PROVE  SUBSET S \subseteq T
<1> DEFINE N == {n \in Nat : \A s \in SUBSET S : Cardinality(s) = n => s \in T}
<1>1. \A s \in SUBSET S : IsFiniteSet(s) /\ Cardinality(s) \in Nat
  BY FS_Subset, FS_CardinalityType
<1>2. 0 \in N
  <2>1. \A s \in SUBSET S : Cardinality(s) = 0 => s = {}
    BY <1>1, FS_EmptySet
  <2>2. QED
    BY <2>1
<1>3. ASSUME NEW n \in Nat, n \in N
      PROVE  n + 1 \in N
  <2> SUFFICES ASSUME NEW s \in SUBSET S, Cardinality(s) = n + 1
               PROVE  s \in T
    OBVIOUS
  <2>1. s # {}
    BY FS_EmptySet
  <2>2. Pick(s) \in s
    BY <2>1 DEF Pick
  <2>3. Cardinality(s \ {Pick(s)}) = n
    BY <1>1, <2>2, FS_RemoveElement
  <2>4. s \ {Pick(s)} \in SUBSET S
    OBVIOUS
  <2>5. s \ {Pick(s)} \in T
    BY <1>3, <2>3, <2>4
  <2>6. QED
    BY <2>1, <2>5
<1> HIDE DEF N
<1>4. Nat \subseteq N
  BY <1>2, <1>3, SetInduction
<1>5. QED
  BY <1>1, <1>4 DEF N

-----------------------------------------------------------------------------
(* The logger                                                               *)

\* The names that something is logged under, and a row.
Files == Items \cup DOMAIN LogCalls
Rows == [time: Nat, cycle: Nat]
Nothing == [n \in Names |-> <<>>]

\* The logger that was asked for these data, has opened these files and logged these rows:
\* they are in memory if it delays the writing, otherwise on the disk.
Logger(delay, asked, open) ==
    [delay |-> delay, controller |-> asked.controller, external |-> asked.data,
     open |-> open, failed |-> {}, kept |-> IF delay THEN open ELSE {},
     stored |-> IF delay THEN asked.rows ELSE Nothing,
     disk |-> IF delay THEN Nothing ELSE asked.rows]

\* What a logger can have been asked for and have logged.
Histories == [controller: BOOLEAN, data: SUBSET DOMAIN LogCalls, rows: [Names -> Seq(Rows)]]

\* A history with a row more in some of its files.
Logged(asked, names, row) ==
    [asked EXCEPT !.rows = [n \in Names |-> IF n \in names THEN Append(@[n], row[n]) ELSE @[n]]]

\* Fields of a logger.
LEMMA LoggerFields ==
  ASSUME NEW d, NEW h, NEW o
  PROVE  LET l == Logger(d, h, o) IN
         /\ l.delay = d /\ l.controller = h.controller /\ l.external = h.data /\ l.open = o
         /\ l.failed = {} /\ l.kept = IF d THEN o ELSE {}
         /\ l.stored = IF d THEN h.rows ELSE Nothing
         /\ l.disk = IF d THEN Nothing ELSE h.rows
BY DEF Logger

\* Opening the file of a name that nothing was logged under loses nothing.
LEMMA Creating ==
  ASSUME NEW d \in BOOLEAN, NEW h \in Histories, NEW o, NEW n \in Names \ o, h.rows[n] = <<>>
  PROVE  CreateLog(Logger(d, h, o), n) = Logger(d, h, o \cup {n})
<1>1. h.rows \in [Names -> Seq(Rows)] /\ h.rows = [h.rows EXCEPT ![n] = <<>>]
  BY DEF Histories
<1>2. Nothing = [Nothing EXCEPT ![n] = <<>>]
  BY DEF Nothing
<1>3. CASE d
  BY <1>2, <1>3 DEF CreateLog, Logger
<1>4. CASE ~d
  BY <1>1, <1>4 DEF CreateLog, Logger
<1>5. QED
  BY <1>3, <1>4

\* A row goes to the memory or to the disk.
LEMMA Logging ==
  ASSUME NEW d \in BOOLEAN, NEW h \in Histories, NEW o, NEW n \in Names \cap o,
         NEW row \in [Names -> Rows]
  PROVE  /\ LogData(Logger(d, h, o), n, row[n]) = Logger(d, Logged(h, {n}, row), o)
         /\ Logged(h, {n}, row) \in Histories
<1> DEFINE rows == [h.rows EXCEPT ![n] = Append(@, row[n])]
<1>1. /\ h.rows \in [Names -> Seq(Rows)] /\ row[n] \in Rows
      /\ h.rows[n] \in Seq(Rows) /\ Append(h.rows[n], row[n]) = h.rows[n] \o <<row[n]>>
  BY DEF Histories
<1>2. Logged(h, {n}, row) = [h EXCEPT !.rows = rows]
  <2>1. [x \in Names |-> IF x \in {n} THEN Append(h.rows[x], row[x]) ELSE h.rows[x]] = rows
    BY <1>1
  <2>2. QED
    BY <2>1 DEF Logged, Histories
<1>3. rows \in [Names -> Seq(Rows)]
  BY <1>1
<1>4. Logged(h, {n}, row) \in Histories
  BY <1>2, <1>3 DEF Histories
<1> DEFINE after == [h EXCEPT !.rows = rows]
<1>5. /\ after.rows = rows /\ after.controller = h.controller /\ after.data = h.data
  BY DEF Histories
<1> HIDE DEF after
<1>6. CASE d
  <2>1. LogData(Logger(d, h, o), n, row[n]) = [Logger(d, h, o) EXCEPT !.stored = rows]
    BY <1>6 DEF LogData, Logger
  <2> HIDE DEF rows
  <2>2. /\ Logger(d, h, o) = [delay |-> d, controller |-> h.controller, external |-> h.data,
              open |-> o, failed |-> {}, kept |-> o, stored |-> h.rows, disk |-> Nothing]
        /\ Logger(d, after, o) = [delay |-> d, controller |-> h.controller, external |-> h.data,
              open |-> o, failed |-> {}, kept |-> o, stored |-> rows, disk |-> Nothing]
    BY <1>5, <1>6 DEF Logger
  <2>3. [Logger(d, h, o) EXCEPT !.stored = rows] = Logger(d, after, o)
    BY <2>2
  <2>4. QED
    BY <1>2, <1>4, <2>1, <2>3 DEF after
<1>7. CASE ~d
  <2>1. rows = [h.rows EXCEPT ![n] = @ \o <<row[n]>>]
    BY <1>1
  <2> HIDE DEF rows
  <2>2. n \in Logger(d, h, o).open \ Logger(d, h, o).failed /\ Logger(d, h, o).delay = d
    BY DEF Logger
  <2>3. LogData(Logger(d, h, o), n, row[n]) = [Logger(d, h, o) EXCEPT !.disk[n] = @ \o <<row[n]>>]
    BY <1>7, <2>2 DEF LogData, Write
  <2>4. [Logger(d, h, o) EXCEPT !.disk[n] = @ \o <<row[n]>>]
           = [Logger(d, h, o) EXCEPT !.disk = rows]
    BY <1>7, <2>1 DEF Logger
  <2>5. [Logger(d, h, o) EXCEPT !.disk = rows] = Logger(d, after, o)
    BY <1>5, <1>7 DEF Logger
  <2>6. QED
    BY <1>2, <1>4, <2>3, <2>4, <2>5 DEF after
<1>8. QED
  BY <1>4, <1>6, <1>7

\* Logging nothing, and logging one name more.
LEMMA LoggedFacts ==
  ASSUME NEW h \in Histories, NEW row \in [Names -> Rows]
  PROVE  /\ Logged(h, {}, row) = h
         /\ \A s : Logged(h, s, row) \in Histories
         /\ \A s : \A n \in Names : Logged(h, s, row).rows[n] =
               IF n \in s THEN Append(h.rows[n], row[n]) ELSE h.rows[n]
         /\ \A s : Logged(h, s, row).controller = h.controller /\ Logged(h, s, row).data = h.data
         /\ \A s, t : s \cap t = {} => Logged(Logged(h, s, row), t, row) = Logged(h, s \cup t, row)
<1> DEFINE Rest(s) == [n \in Names |-> IF n \in s THEN Append(h.rows[n], row[n]) ELSE h.rows[n]]
<1>1. /\ h.rows \in [Names -> Seq(Rows)] /\ h.controller \in BOOLEAN
      /\ h.data \in SUBSET DOMAIN LogCalls
      /\ h = [controller |-> h.controller, data |-> h.data, rows |-> h.rows]
  BY DEF Histories
<1>2. ASSUME NEW s
      PROVE  Logged(h, s, row) = [controller |-> h.controller, data |-> h.data, rows |-> Rest(s)]
  <2>1. Logged(h, s, row) = [h EXCEPT !.rows = Rest(s)]
    BY DEF Logged
  <2> DEFINE rest == Rest(s)
  <2> HIDE DEF rest
  <2>2. [h EXCEPT !.rows = rest] = [controller |-> h.controller, data |-> h.data, rows |-> rest]
    BY <1>1
  <2>3. QED
    BY <2>1, <2>2 DEF rest
<1>3. ASSUME NEW s
      PROVE  Rest(s) \in [Names -> Seq(Rows)]
  BY <1>1
<1>4. Rest({}) = h.rows
  BY <1>1
<1>5. ASSUME NEW s
      PROVE  /\ Logged(h, s, row) \in Histories
             /\ Logged(h, s, row).rows = Rest(s) /\ Logged(h, s, row).data = h.data
             /\ Logged(h, s, row).controller = h.controller
  <2> DEFINE rest == Rest(s)
  <2>1. rest \in [Names -> Seq(Rows)]
    BY <1>3
  <2>2. Logged(h, s, row) = [controller |-> h.controller, data |-> h.data, rows |-> rest]
    BY <1>2
  <2> HIDE DEF rest
  <2>3. QED
    BY <1>1, <2>1, <2>2 DEF Histories, rest
<1>6. ASSUME NEW s, NEW t, s \cap t = {}
      PROVE  Logged(Logged(h, s, row), t, row) = Logged(h, s \cup t, row)
  <2> DEFINE first == Logged(h, s, row)
             both == [n \in Names |->
                         IF n \in t THEN Append(first.rows[n], row[n]) ELSE first.rows[n]]
  <2>1. /\ first.rows = Rest(s) /\ first.data = h.data /\ first.controller = h.controller
        /\ first = [controller |-> h.controller, data |-> h.data, rows |-> first.rows]
    BY <1>2, <1>5
  <2>2. Logged(first, t, row) = [first EXCEPT !.rows = both]
    BY DEF Logged
  <2>3. both = Rest(s \cup t)
    BY <1>6, <2>1
  <2> HIDE DEF both, first
  <2>4. Logged(first, t, row) = [controller |-> h.controller, data |-> h.data, rows |-> both]
    BY <2>1, <2>2
  <2>5. QED
    BY <1>2, <2>3, <2>4 DEF first
<1>7. Logged(h, {}, row) = h
  <2>1. Logged(h, {}, row) = [controller |-> h.controller, data |-> h.data, rows |-> Rest({})]
    BY <1>2
  <2> HIDE DEF Rest
  <2>2. QED
    BY <1>1, <1>4, <2>1
<1>8. ASSUME NEW s, NEW n \in Names
      PROVE  Logged(h, s, row).rows[n] = IF n \in s THEN Append(h.rows[n], row[n]) ELSE h.rows[n]
  <2>1. Rest(s)[n] = IF n \in s THEN Append(h.rows[n], row[n]) ELSE h.rows[n]
    OBVIOUS
  <2>2. Logged(h, s, row).rows = Rest(s)
    BY <1>5
  <2> HIDE DEF Rest
  <2>3. QED
    BY <2>1, <2>2
<1>9. QED
  BY <1>5, <1>6, <1>7, <1>8

\* Logging an item opens its file if that is new.
LEMMA LoggingItem ==
  ASSUME NEW d \in BOOLEAN, NEW h \in Histories, NEW o, NEW n \in Names,
         n \notin o => h.rows[n] = <<>>, NEW row \in [Names -> Rows]
  PROVE  LogData(CreatedIfClosed(Logger(d, h, o), n), n, row[n])
            = Logger(d, Logged(h, {n}, row), o \cup {n})
<1>1. CreatedIfClosed(Logger(d, h, o), n) = Logger(d, h, o \cup {n})
  <2>1. Logger(d, h, o).open = o
    BY DEF Logger
  <2>2. CASE n \in o
    <3>1. o \cup {n} = o
      BY <2>2
    <3>2. QED
      BY <2>1, <2>2, <3>1 DEF CreatedIfClosed
  <2>3. CASE n \notin o
    BY <2>1, <2>3, Creating DEF CreatedIfClosed
  <2>4. QED
    BY <2>2, <2>3
<1>2. n \in Names \cap (o \cup {n})
  OBVIOUS
<1>3. QED
  BY <1>1, <1>2, Logging

\* The two loops of process().
LogItems(l, names, row) ==
    LET LogItem(m, n) == LogData(CreatedIfClosed(m, n), n, row[n]) IN ForEach(LogItem, l, names)
LogOthers(l, names, row) ==
    LET LogOther(m, n) == LogExternal(m, n, row[n]) IN ForEach(LogOther, l, names)

\* process() runs the two loops one after the other.
LEMMA ProcessIs ==
  ASSUME NEW l, NEW items, NEW row
  PROVE  Process(l, items, row)
            = LogOthers(LogItems(l, IF l.controller THEN items ELSE {}, row), l.external, row)
BY DEF Process, LogItems, LogOthers, ForEach

\* Logging each of the items that are there.
LEMMA EachItem ==
  ASSUME NEW d \in BOOLEAN, NEW h \in Histories, NEW o, NEW names \in SUBSET Names,
         IsFiniteSet(names),
         \A n \in Names \ o : h.rows[n] = <<>>, NEW row \in [Names -> Rows]
  PROVE  LogItems(Logger(d, h, o), names, row) = Logger(d, Logged(h, names, row), o \cup names)
<1> DEFINE Item(m, n) == LogData(CreatedIfClosed(m, n), n, row[n])
           closed == [s \in SUBSET names |-> Logger(d, Logged(h, s, row), o \cup s)]
           Equation(g) == g = [done \in SUBSET names |->
                                  IF done = {} THEN Logger(d, h, o)
                                  ELSE Item(g[done \ {Pick(done)}], Pick(done))]
           each == CHOOSE g : Equation(g)
<1>1. LogItems(Logger(d, h, o), names, row) = each[names]
  BY DEF LogItems, ForEach, Pick
<1>2. closed[{}] = Logger(d, h, o)
  <2>1. Logged(h, {}, row) = h /\ o \cup {} = o
    BY LoggedFacts
  <2>2. QED
    BY <2>1
<1>3. ASSUME NEW s \in SUBSET names, NEW n \in s
      PROVE  Item(closed[s \ {n}], n) = closed[s]
  <2> DEFINE before == Logged(h, s \ {n}, row)
             opened == o \cup (s \ {n})
  <2>1. /\ before \in Histories /\ n \in Names
        /\ before.rows[n] = h.rows[n]
        /\ Logged(before, {n}, row) = Logged(h, s, row)
    <3>1. (s \ {n}) \cap {n} = {} /\ (s \ {n}) \cup {n} = s /\ n \in Names
      OBVIOUS
    <3>2. QED
      BY <3>1, LoggedFacts
  <2>2. /\ closed[s \ {n}] = Logger(d, before, opened)
        /\ opened \cup {n} = o \cup s /\ (n \notin opened => n \in Names \ o)
    BY <2>1
  <2> HIDE DEF before, opened
  <2>3. Item(Logger(d, before, opened), n) = Logger(d, Logged(before, {n}, row), opened \cup {n})
    BY <2>1, <2>2, LoggingItem
  <2>4. QED
    BY <2>1, <2>2, <2>3
<1>4. \A s \in SUBSET names : s # {} => Pick(s) \in s
  BY DEF Pick
<1>5. Equation(closed)
  <2>1. ASSUME NEW s \in SUBSET names
        PROVE  closed[s] = IF s = {} THEN Logger(d, h, o) ELSE Item(closed[s \ {Pick(s)}], Pick(s))
    BY <1>2, <1>3, <1>4
  <2>2. \A s \in SUBSET names : closed[s] = Logger(d, Logged(h, s, row), o \cup s)
    OBVIOUS
  <2> DEFINE right == [s \in SUBSET names |->
                          IF s = {} THEN Logger(d, h, o) ELSE Item(closed[s \ {Pick(s)}], Pick(s))]
  <2>3. \A s \in SUBSET names : right[s] = closed[s]
    BY <2>1
  <2>4. closed = [s \in SUBSET names |-> closed[s]] /\ right = [s \in SUBSET names |-> right[s]]
    OBVIOUS
  <2> HIDE DEF closed, right
  <2>5. closed = right
    BY <2>3, <2>4
  <2>6. QED
    BY <2>5 DEF right
<1> HIDE DEF closed, Item
<1>6. Equation(each)
  BY <1>5
<1> HIDE DEF each
<1> DEFINE T == {s \in SUBSET names : each[s] = closed[s]}
<1>7. {} \in T
  BY <1>2, <1>6
<1>8. ASSUME NEW s \in SUBSET names, s # {}, s \ {Pick(s)} \in T
      PROVE  s \in T
  <2>1. each[s] = Item(each[s \ {Pick(s)}], Pick(s))
    BY <1>6, <1>8
  <2>2. each[s \ {Pick(s)}] = closed[s \ {Pick(s)}]
    BY <1>8
  <2>3. QED
    BY <1>3, <1>4, <1>8, <2>1, <2>2
<1> HIDE DEF T
<1>9. names \in T
  BY <1>7, <1>8, SubsetInduction
<1>10. QED
  BY <1>1, <1>9 DEF T, closed, Item

\* Logging each of the data, whose files are open.
LEMMA EachDatum ==
  ASSUME NEW d \in BOOLEAN, NEW h \in Histories, NEW o, NEW names \in SUBSET (Names \cap o),
         IsFiniteSet(names), NEW row \in [Names -> Rows]
  PROVE  LogOthers(Logger(d, h, o), names, row) = Logger(d, Logged(h, names, row), o)
<1> DEFINE Datum(m, n) == LogExternal(m, n, row[n])
           closed == [s \in SUBSET names |-> Logger(d, Logged(h, s, row), o)]
           Equation(g) == g = [done \in SUBSET names |->
                                  IF done = {} THEN Logger(d, h, o)
                                  ELSE Datum(g[done \ {Pick(done)}], Pick(done))]
           each == CHOOSE g : Equation(g)
<1>1. LogOthers(Logger(d, h, o), names, row) = each[names]
  BY DEF LogOthers, ForEach, Pick
<1>2. closed[{}] = Logger(d, h, o)
  <2>1. Logged(h, {}, row) = h
    BY LoggedFacts
  <2>2. QED
    BY <2>1
<1>3. ASSUME NEW s \in SUBSET names, NEW n \in s
      PROVE  Datum(closed[s \ {n}], n) = closed[s]
  <2> DEFINE before == Logged(h, s \ {n}, row)
  <2>1. before \in Histories /\ n \in Names \cap o /\ Logged(before, {n}, row) = Logged(h, s, row)
    <3>1. (s \ {n}) \cap {n} = {} /\ (s \ {n}) \cup {n} = s /\ n \in Names \cap o
      OBVIOUS
    <3>2. QED
      BY <3>1, LoggedFacts
  <2>2. closed[s \ {n}] = Logger(d, before, o)
    OBVIOUS
  <2> HIDE DEF before
  <2>3. Datum(Logger(d, before, o), n) = Logger(d, Logged(before, {n}, row), o)
    BY <2>1, Logging DEF LogExternal
  <2>4. QED
    BY <2>1, <2>2, <2>3
<1>4. \A s \in SUBSET names : s # {} => Pick(s) \in s
  BY DEF Pick
<1>5. Equation(closed)
  <2>1. ASSUME NEW s \in SUBSET names
        PROVE  closed[s] = IF s = {} THEN Logger(d, h, o) ELSE Datum(closed[s \ {Pick(s)}], Pick(s))
    BY <1>2, <1>3, <1>4
  <2> DEFINE right == [s \in SUBSET names |->
                          IF s = {} THEN Logger(d, h, o) ELSE Datum(closed[s \ {Pick(s)}], Pick(s))]
  <2>2. \A s \in SUBSET names : right[s] = closed[s]
    BY <2>1
  <2>3. closed = [s \in SUBSET names |-> closed[s]] /\ right = [s \in SUBSET names |-> right[s]]
    OBVIOUS
  <2> HIDE DEF closed, right
  <2>4. closed = right
    BY <2>2, <2>3
  <2>5. QED
    BY <2>4 DEF right
<1> HIDE DEF closed, Datum
<1>6. Equation(each)
  BY <1>5
<1> HIDE DEF each
<1> DEFINE T == {s \in SUBSET names : each[s] = closed[s]}
<1>7. {} \in T
  BY <1>2, <1>6
<1>8. ASSUME NEW s \in SUBSET names, s # {}, s \ {Pick(s)} \in T
      PROVE  s \in T
  <2>1. each[s] = Datum(each[s \ {Pick(s)}], Pick(s))
    BY <1>6, <1>8
  <2>2. each[s \ {Pick(s)}] = closed[s \ {Pick(s)}]
    BY <1>8
  <2>3. QED
    BY <1>3, <1>4, <1>8, <2>1, <2>2
<1> HIDE DEF T
<1>9. names \in T
  BY <1>7, <1>8, SubsetInduction
<1>10. QED
  BY <1>1, <1>9 DEF T, closed, Datum

\* There are a few files.
LEMMA FilesFinite ==
  /\ IsFiniteSet(Items) /\ IsFiniteSet(DOMAIN LogCalls) /\ IsFiniteSet(Files)
  /\ Files \subseteq Names /\ Items \cap DOMAIN LogCalls = {}
<1>1. /\ DOMAIN LogCalls = (({} \cup {"robot"}) \cup {"data"}) \cup {"more"}
      /\ Items = ({} \cup {"constraint"}) \cup {"generator"}
  BY DEF Items, LogCalls
<1>2. IsFiniteSet({})
  BY FS_EmptySet
<1>3. IsFiniteSet({} \cup {"robot"}) /\ IsFiniteSet({} \cup {"constraint"})
  BY <1>2, FS_AddElement
<1>4. IsFiniteSet(({} \cup {"robot"}) \cup {"data"})
      /\ IsFiniteSet(({} \cup {"constraint"}) \cup {"generator"})
  BY <1>3, FS_AddElement
<1>5. IsFiniteSet((({} \cup {"robot"}) \cup {"data"}) \cup {"more"})
  BY <1>4, FS_AddElement
<1>6. IsFiniteSet(Items) /\ IsFiniteSet(DOMAIN LogCalls)
  BY <1>1, <1>4, <1>5
<1>7. IsFiniteSet(Files)
  BY <1>6, FS_Union DEF Files
<1>8. QED
  BY <1>1, <1>6, <1>7, NamesAssumption DEF Files

\* A round of logging: a row for each of the items and data the logger was asked for.
LEMMA Processing ==
  ASSUME NEW d \in BOOLEAN, NEW h \in Histories, NEW o \in SUBSET Files,
         h.data \subseteq o, \A n \in Names \ o : h.rows[n] = <<>>,
         NEW row \in [Names -> Rows], NEW items \in SUBSET Items
  PROVE  LET asked == IF h.controller THEN items ELSE {} IN
         Process(Logger(d, h, o), items, row)
            = Logger(d, Logged(h, h.data \cup asked, row), o \cup asked)
<1> DEFINE asked == IF h.controller THEN items ELSE {}
           middle == Logged(h, asked, row)
<1>1. /\ asked \in SUBSET Names /\ h.data \in SUBSET (Names \cap (o \cup asked))
      /\ IsFiniteSet(asked) /\ IsFiniteSet(h.data) /\ asked \cap h.data = {}
  <2>1. h.data \subseteq DOMAIN LogCalls /\ asked \subseteq Items
    BY DEF Histories
  <2> HIDE DEF asked
  <2>2. IsFiniteSet(asked) /\ IsFiniteSet(h.data)
    BY <2>1, FilesFinite, FS_Subset
  <2>3. QED
    BY <2>1, <2>2, FilesFinite DEF Files
<1>2. /\ Logger(d, h, o).controller = h.controller /\ Logger(d, h, o).external = h.data
  BY DEF Logger
<1>3. /\ middle \in Histories
      /\ Logged(middle, h.data, row) = Logged(h, asked \cup h.data, row)
  BY <1>1, LoggedFacts
<1>4. LogItems(Logger(d, h, o), asked, row) = Logger(d, middle, o \cup asked)
  <2> HIDE DEF asked
  <2>1. QED
    BY <1>1, EachItem DEF middle
<1>5. LogOthers(Logger(d, middle, o \cup asked), h.data, row)
         = Logger(d, Logged(middle, h.data, row), o \cup asked)
  <2> HIDE DEF asked, middle
  <2>1. QED
    BY <1>1, <1>3, EachDatum
<1>6. asked \cup h.data = h.data \cup asked
  OBVIOUS
<1>7. Process(Logger(d, h, o), items, row)
         = LogOthers(LogItems(Logger(d, h, o), asked, row), h.data, row)
  BY <1>2, ProcessIs
<1> HIDE DEF middle, asked
<1>8. Process(Logger(d, h, o), items, row)
         = Logger(d, Logged(h, h.data \cup asked, row), o \cup asked)
  BY <1>3, <1>4, <1>5, <1>6, <1>7
<1>9. QED
  BY <1>8 DEF asked

\* What write-back writes: the rows of the files in s.
OnDisk(h, s) == [n \in Names |-> IF n \in s THEN h.rows[n] ELSE <<>>]

\* The destructor leaves what was logged on the disk, whether it was delayed or not.
LEMMA Destroying ==
  ASSUME NEW d \in BOOLEAN, NEW h \in Histories, NEW o \in SUBSET Files,
         \A n \in Names \ o : h.rows[n] = <<>>
  PROVE  Destroy(Logger(d, h, o)).disk = h.rows
<1> DEFINE l == Logger(d, h, o)
           names == l.kept
           WriteName(m, n) == Write(m, n, m.stored[n])
           closed == [s \in SUBSET names |-> [l EXCEPT !.disk = IF d THEN OnDisk(h, s) ELSE h.rows]]
           Equation(g) == g = [done \in SUBSET names |->
                                  IF done = {} THEN l
                                  ELSE WriteName(g[done \ {Pick(done)}], Pick(done))]
           each == CHOOSE g : Equation(g)
<1>1. WriteStoredDataToDisk(l) = each[names]
  BY DEF WriteStoredDataToDisk, ForEach, Pick
<1>2. IsFiniteSet(names) /\ names \subseteq Names /\ names \subseteq o /\ (names # {} => d)
  <2>1. names = IF d THEN o ELSE {}
    BY DEF Logger
  <2>2. QED
    BY <2>1, FilesFinite, FS_Subset, FS_EmptySet
<1>3. /\ h.rows \in [Names -> Seq(Rows)] /\ l.delay = d /\ l.open = o /\ l.failed = {}
      /\ d => l.stored = h.rows /\ l.disk = Nothing
      /\ ~d => l.disk = h.rows
  BY DEF Histories, Logger
<1>4. closed[{}] = l
  <2>1. l.disk = IF d THEN OnDisk(h, {}) ELSE h.rows
    BY <1>3 DEF OnDisk, Nothing
  <2>2. l = [l EXCEPT !.disk = l.disk]
    BY DEF Logger
  <2>3. {} \in SUBSET names
    OBVIOUS
  <2> HIDE DEF l
  <2>4. QED
    BY <2>1, <2>2, <2>3
<1>5. ASSUME NEW s \in SUBSET names, NEW n \in s
      PROVE  WriteName(closed[s \ {n}], n) = closed[s]
  <2> DEFINE before == OnDisk(h, s \ {n})
  <2>1. /\ d /\ n \in Names /\ n \in o
        /\ before[n] = <<>> /\ <<>> \o h.rows[n] = h.rows[n]
    BY <1>2, <1>3 DEF OnDisk
  <2>2. closed[s \ {n}] = [l EXCEPT !.disk = before] /\ closed[s] = [l EXCEPT !.disk = OnDisk(h, s)]
    BY <2>1
  <2>3. [before EXCEPT ![n] = @ \o h.rows[n]] = OnDisk(h, s)
    <3>1. before[n] \o h.rows[n] = h.rows[n]
      BY <2>1
    <3>2. [before EXCEPT ![n] = h.rows[n]] = OnDisk(h, s)
      BY <2>1 DEF OnDisk
    <3>3. QED
      BY <3>1, <3>2
  <2> DEFINE m == [l EXCEPT !.disk = before]
  <2>4. m.open = o /\ m.failed = {} /\ m.stored = h.rows /\ m.disk = before
    BY <1>3, <2>1 DEF Logger
  <2>5. [m EXCEPT !.disk = OnDisk(h, s)] = [l EXCEPT !.disk = OnDisk(h, s)]
    BY DEF Logger
  <2> HIDE DEF m, before, closed
  <2>6. WriteName(m, n) = [m EXCEPT !.disk[n] = @ \o h.rows[n]]
    BY <2>1, <2>4 DEF Write
  <2>7. [m EXCEPT !.disk[n] = @ \o h.rows[n]] = [m EXCEPT !.disk = OnDisk(h, s)]
    BY <2>3, <2>4
  <2>8. QED
    BY <2>2, <2>5, <2>6, <2>7 DEF m
<1>6. \A s \in SUBSET names : s # {} => Pick(s) \in s
  BY DEF Pick
<1>7. Equation(closed)
  <2>1. ASSUME NEW s \in SUBSET names
        PROVE  closed[s] = IF s = {} THEN l ELSE WriteName(closed[s \ {Pick(s)}], Pick(s))
    <3> HIDE DEF closed, WriteName
    <3>1. QED
      BY <1>4, <1>5, <1>6
  <2> DEFINE right == [s \in SUBSET names |->
                          IF s = {} THEN l ELSE WriteName(closed[s \ {Pick(s)}], Pick(s))]
  <2> HIDE DEF WriteName, l
  <2>2. closed = [s \in SUBSET names |-> closed[s]]
    OBVIOUS
  <2> HIDE DEF closed
  <2>3. \A s \in SUBSET names : right[s] = closed[s]
    BY <2>1
  <2>4. right = [s \in SUBSET names |-> right[s]]
    OBVIOUS
  <2> HIDE DEF right
  <2>5. closed = right
    BY <2>2, <2>3, <2>4
  <2>6. QED
    BY <2>5 DEF right
<1> DEFINE last == closed[names]
<1>8. last.disk = h.rows /\ last = [l EXCEPT !.disk = h.rows]
  <2>1. last = [l EXCEPT !.disk = IF d THEN OnDisk(h, names) ELSE h.rows]
    OBVIOUS
  <2>2. (IF d THEN OnDisk(h, names) ELSE h.rows) = h.rows
    <3>1. CASE d
      <4>1. names = o
        BY <3>1 DEF Logger
      <4> HIDE DEF names
      <4>2. \A n \in Names : OnDisk(h, o)[n] = h.rows[n]
        BY DEF OnDisk
      <4>3. OnDisk(h, o) = [n \in Names |-> OnDisk(h, o)[n]] /\ h.rows = [n \in Names |-> h.rows[n]]
        BY <1>3 DEF OnDisk
      <4>4. OnDisk(h, o) = h.rows
        BY <4>2, <4>3
      <4>5. QED
        BY <3>1, <4>1, <4>4
    <3>2. QED
      BY <3>1
  <2>3. last = [l EXCEPT !.disk = h.rows]
    BY <2>1, <2>2
  <2>4. [l EXCEPT !.disk = h.rows].disk = h.rows
    BY DEF Logger
  <2>5. QED
    BY <2>3, <2>4
<1> HIDE DEF closed, WriteName
<1>9. Equation(each)
  BY <1>7
<1> HIDE DEF each
<1> DEFINE T == {s \in SUBSET names : each[s] = closed[s]}
<1>10. {} \in T
  BY <1>4, <1>9
<1>11. ASSUME NEW s \in SUBSET names, s # {}, s \ {Pick(s)} \in T
      PROVE  s \in T
  <2>1. each[s] = WriteName(each[s \ {Pick(s)}], Pick(s))
    BY <1>9, <1>11
  <2>2. each[s \ {Pick(s)}] = closed[s \ {Pick(s)}]
    BY <1>11
  <2>3. QED
    BY <1>5, <1>6, <1>11, <2>1, <2>2
<1> HIDE DEF T
<1>12. names \in T
  <2> HIDE DEF names
  <2>1. QED
    BY <1>2, <1>10, <1>11, SubsetInduction
<1>13. WriteStoredDataToDisk(l) = last
  BY <1>1, <1>12 DEF T
<1> HIDE DEF last
<1>14. CloseFiles(last).disk = last.disk
  <2>1. last = [l EXCEPT !.disk = h.rows]
    BY <1>8
  <2>2. QED
    BY <2>1 DEF CloseFiles, Logger
<1>15. QED
  BY <1>8, <1>13, <1>14 DEF Destroy

-----------------------------------------------------------------------------
(* How the programs log                                                     *)

\* A row is logged after the clock and the controller have gone on.
RowsApart(calls) ==
    \A i \in 1 .. Len(calls) : calls[i] = "log" =>
        \A c \in {"clock", "compute"} :
            \E m \in 1 .. i - 1 : calls[m] = c /\ \A k \in m + 1 .. i - 1 : calls[k] # "log"

\* A name is registered once, and the controller before anything was logged; the clock goes
\* back only then or where the logger is reset as well.
RegisteredOnce(calls) ==
    /\ \A i, j \in 1 .. Len(calls) :
          i < j /\ calls[i] \in {"log_robot", "log_data", "log_more"} => calls[j] # calls[i]
    /\ \A i \in 1 .. Len(calls) :
          /\ calls[i] = "clock_reset" =>
                \/ i < Len(calls) /\ calls[i + 1] = "reset"
                \/ \A k \in 1 .. i - 1 : calls[k] # "log"
          /\ calls[i] = "log_control" => \A k \in 1 .. i - 1 : calls[k] # "log"

LogsWell(code) == RowsApart(code.setup) /\ RowsApart(code.cycle) /\ RegisteredOnce(code.setup)

\* Force control.
LEMMA ForceControlLogsWell == LogsWell(ForceControlExample)
BY SMTT(60) DEF LogsWell, RowsApart, RegisteredOnce, ForceControlExample, Main

\* Obstacle avoidance.
LEMMA ObstacleAvoidanceLogsWell == LogsWell(ObstacleAvoidanceExample)
BY SMTT(60) DEF LogsWell, RowsApart, RegisteredOnce, ObstacleAvoidanceExample, Main

\* Stop constraint.
LEMMA StopConstraintLogsWell == LogsWell(StopConstraintExample)
BY SMTT(60) DEF LogsWell, RowsApart, RegisteredOnce, StopConstraintExample, Main

\* Null space motion.
LEMMA NullSpaceMotionLogsWell == LogsWell(NullSpaceMotionExample)
BY SMTT(60) DEF LogsWell, RowsApart, RegisteredOnce, NullSpaceMotionExample, Main

\* Path follower.
LEMMA PathFollowerLogsWell == LogsWell(PathFollowerExample)
BY SMTT(60) DEF LogsWell, RowsApart, RegisteredOnce, PathFollowerExample, Main

\* The demo.
LEMMA DemoLogsWell == LogsWell(Demo)
BY SMTT(60) DEF LogsWell, RowsApart, RegisteredOnce, Demo, Main

\* The benchmark of the controller.
LEMMA ControllerBenchmarkLogsWell == LogsWell(ControllerBenchmark)
BY SMTT(60) DEF LogsWell, RowsApart, RegisteredOnce, ControllerBenchmark, Main

\* The benchmark of the trajectory generator, which resets the clock and the logger together.
LEMMA TrajectoryBenchmarkLogsWell == LogsWell(TrajectoryGeneratorBenchmark)
BY SMTT(60) DEF LogsWell, RowsApart, RegisteredOnce, TrajectoryGeneratorBenchmark, Main

\* Velocity constraint: what AppMaker adds is all it calls.
LEMMA VelocityLogsWell == LogsWell(VelocityConstraintExample)
BY SMTT(60) DEF LogsWell, RowsApart, RegisteredOnce, VelocityConstraintExample, AppMaker, Main

\* A concatenation is known by its length and its elements.
LEMMA ConcatenationIs ==
  ASSUME NEW S, NEW a \in Seq(S), NEW b \in Seq(S), NEW c \in Seq(S), Len(c) = Len(a) + Len(b),
         \A i \in 1 .. Len(a) : c[i] = a[i], \A i \in 1 .. Len(b) : c[Len(a) + i] = b[i]
  PROVE  a \o b = c
<1>1. /\ a \o b \in Seq(S) /\ Len(a \o b) = Len(a) + Len(b)
      /\ \A i \in 1 .. Len(a) + Len(b) : (a \o b)[i] = IF i <= Len(a) THEN a[i] ELSE b[i - Len(a)]
  BY ConcatProperties
<1>2. ASSUME NEW i \in 1 .. Len(a \o b)
      PROVE  (a \o b)[i] = c[i]
  <2>1. CASE i <= Len(a)
    BY <1>1, <2>1
  <2>2. CASE i > Len(a)
    <3>1. i - Len(a) \in 1 .. Len(b) /\ Len(a) + (i - Len(a)) = i
      BY <1>1, <2>2
    <3>2. QED
      BY <1>1, <2>2, <3>1
  <2>3. QED
    BY <1>1, <2>1, <2>2
<1>3. QED
  BY <1>1, <1>2, SeqEqual

\* The calls of the programs made with AppMaker, written out.
AppBegins ==
    <<"driver", "handles", "start", "log_control", "log_robot">>
AppSetup ==
    <<"driver", "handles", "start", "log_control", "log_robot", "init", "signal">>
JointSetup ==
    <<"driver", "handles", "start", "log_control", "log_robot", "init", "signal", "timings">>
TrajectoryBegins ==
    <<"driver", "handles", "start", "log_control", "log_robot", "timings_or_stop",
      "log_data">>
TrajectorySetup ==
    <<"driver", "handles", "start", "log_control", "log_robot", "timings_or_stop",
      "log_data", "init", "signal">>
TrajectoryRound ==
    <<"trajectory", "compute", "send", "clock", "log">>

\* What they are made of.
LEMMA Concatenations ==
  /\ AppBegins \o <<"timings_or_stop", "log_data">> = TrajectoryBegins
  /\ TrajectoryBegins \o <<"init", "signal">> = TrajectorySetup
  /\ AppBegins \o <<"init", "signal">> = AppSetup
  /\ AppSetup \o <<"timings">> = JointSetup
  /\ <<"trajectory">> \o <<"compute", "send", "clock", "log">> = TrajectoryRound
<1>1. AppBegins \o <<"timings_or_stop", "log_data">> = TrajectoryBegins
  <2> DEFINE a == AppBegins
             b == <<"timings_or_stop", "log_data">>
             c == TrajectoryBegins
  <2>1. a \in Seq(AllCalls) /\ b \in Seq(AllCalls) /\ c \in Seq(AllCalls)
    BY DEF AppBegins, TrajectoryBegins, AllCalls, SetupCalls, Silent, CycleCalls
  <2>2. Len(a) = 5 /\ Len(b) = 2 /\ Len(c) = 7
    BY DEF AppBegins, TrajectoryBegins
  <2>3. (\A i \in 1 .. 5 : c[i] = a[i]) /\ (\A j \in 1 .. 2 : c[5 + j] = b[j])
    BY DEF AppBegins, TrajectoryBegins
  <2> HIDE DEF a, b, c
  <2>4. /\ \A i \in 1 .. Len(a) : c[i] = a[i]
        /\ \A j \in 1 .. Len(b) : c[Len(a) + j] = b[j]
        /\ Len(c) = Len(a) + Len(b)
    BY <2>2, <2>3
  <2>5. a \o b = c
    BY <2>1, <2>4, ConcatenationIs
  <2>6. QED
    BY <2>5 DEF a, b, c
<1>2. TrajectoryBegins \o <<"init", "signal">> = TrajectorySetup
  <2> DEFINE a == TrajectoryBegins
             b == <<"init", "signal">>
             c == TrajectorySetup
  <2>1. a \in Seq(AllCalls) /\ b \in Seq(AllCalls) /\ c \in Seq(AllCalls)
    BY DEF TrajectoryBegins, TrajectorySetup, AllCalls, SetupCalls, Silent, CycleCalls
  <2>2. Len(a) = 7 /\ Len(b) = 2 /\ Len(c) = 9
    BY DEF TrajectoryBegins, TrajectorySetup
  <2>3. (\A i \in 1 .. 7 : c[i] = a[i]) /\ (\A j \in 1 .. 2 : c[7 + j] = b[j])
    BY DEF TrajectoryBegins, TrajectorySetup
  <2> HIDE DEF a, b, c
  <2>4. /\ \A i \in 1 .. Len(a) : c[i] = a[i]
        /\ \A j \in 1 .. Len(b) : c[Len(a) + j] = b[j]
        /\ Len(c) = Len(a) + Len(b)
    BY <2>2, <2>3
  <2>5. a \o b = c
    BY <2>1, <2>4, ConcatenationIs
  <2>6. QED
    BY <2>5 DEF a, b, c
<1>3. AppBegins \o <<"init", "signal">> = AppSetup
  <2> DEFINE a == AppBegins
             b == <<"init", "signal">>
             c == AppSetup
  <2>1. a \in Seq(AllCalls) /\ b \in Seq(AllCalls) /\ c \in Seq(AllCalls)
    BY DEF AppBegins, AppSetup, AllCalls, SetupCalls, Silent, CycleCalls
  <2>2. Len(a) = 5 /\ Len(b) = 2 /\ Len(c) = 7
    BY DEF AppBegins, AppSetup
  <2>3. (\A i \in 1 .. 5 : c[i] = a[i]) /\ (\A j \in 1 .. 2 : c[5 + j] = b[j])
    BY DEF AppBegins, AppSetup
  <2> HIDE DEF a, b, c
  <2>4. /\ \A i \in 1 .. Len(a) : c[i] = a[i]
        /\ \A j \in 1 .. Len(b) : c[Len(a) + j] = b[j]
        /\ Len(c) = Len(a) + Len(b)
    BY <2>2, <2>3
  <2>5. a \o b = c
    BY <2>1, <2>4, ConcatenationIs
  <2>6. QED
    BY <2>5 DEF a, b, c
<1>4. AppSetup \o <<"timings">> = JointSetup
  <2> DEFINE a == AppSetup
             b == <<"timings">>
             c == JointSetup
  <2>1. a \in Seq(AllCalls) /\ b \in Seq(AllCalls) /\ c \in Seq(AllCalls)
    BY DEF AppSetup, JointSetup, AllCalls, SetupCalls, Silent, CycleCalls
  <2>2. Len(a) = 7 /\ Len(b) = 1 /\ Len(c) = 8
    BY DEF AppSetup, JointSetup
  <2>3. (\A i \in 1 .. 7 : c[i] = a[i]) /\ (\A j \in 1 .. 1 : c[7 + j] = b[j])
    BY DEF AppSetup, JointSetup
  <2> HIDE DEF a, b, c
  <2>4. /\ \A i \in 1 .. Len(a) : c[i] = a[i]
        /\ \A j \in 1 .. Len(b) : c[Len(a) + j] = b[j]
        /\ Len(c) = Len(a) + Len(b)
    BY <2>2, <2>3
  <2>5. a \o b = c
    BY <2>1, <2>4, ConcatenationIs
  <2>6. QED
    BY <2>5 DEF a, b, c
<1>5. <<"trajectory">> \o <<"compute", "send", "clock", "log">> = TrajectoryRound
  <2> DEFINE a == <<"trajectory">>
             b == <<"compute", "send", "clock", "log">>
             c == TrajectoryRound
  <2>1. a \in Seq(AllCalls) /\ b \in Seq(AllCalls) /\ c \in Seq(AllCalls)
    BY DEF TrajectoryRound, AllCalls, SetupCalls, Silent, CycleCalls
  <2>2. Len(a) = 1 /\ Len(b) = 4 /\ Len(c) = 5
    BY DEF TrajectoryRound
  <2>3. (\A i \in 1 .. 1 : c[i] = a[i]) /\ (\A j \in 1 .. 4 : c[1 + j] = b[j])
    BY DEF TrajectoryRound
  <2> HIDE DEF a, b, c
  <2>4. /\ \A i \in 1 .. Len(a) : c[i] = a[i]
        /\ \A j \in 1 .. Len(b) : c[Len(a) + j] = b[j]
        /\ Len(c) = Len(a) + Len(b)
    BY <2>2, <2>3
  <2>5. a \o b = c
    BY <2>1, <2>4, ConcatenationIs
  <2>6. QED
    BY <2>5 DEF a, b, c
<1>6. QED
  BY <1>1, <1>2, <1>3, <1>4, <1>5

\* The two trajectory generator examples.
LEMMA TrajectoryLogsWell ==
  LogsWell(TrajectoryGeneratorExample) /\ LogsWell(JointTrajectoryGeneratorExample)
<1>1. /\ RowsApart(TrajectorySetup) /\ RowsApart(JointSetup) /\ RowsApart(TrajectoryRound)
      /\ RegisteredOnce(TrajectorySetup) /\ RegisteredOnce(JointSetup)
  BY SMTT(60) DEF RowsApart, RegisteredOnce, TrajectorySetup, JointSetup, TrajectoryRound
<1>2. TrajectorySetup \in Seq(AllCalls) /\ AppBegins \in Seq(AllCalls)
  BY DEF TrajectorySetup, AppBegins, AllCalls, SetupCalls, Silent, CycleCalls
<1>3. AppBegins \o <<>> = AppBegins /\ TrajectorySetup \o <<>> = TrajectorySetup
  BY <1>2, ConcatEmptySeq
<1>4. /\ TrajectoryGeneratorExample.setup = TrajectorySetup
      /\ TrajectoryGeneratorExample.cycle = TrajectoryRound
  BY <1>3, Concatenations DEF TrajectoryGeneratorExample, AppMaker, Main, AppBegins
<1>5. /\ JointTrajectoryGeneratorExample.setup = JointSetup
      /\ JointTrajectoryGeneratorExample.cycle = TrajectoryRound
  BY <1>3, Concatenations DEF JointTrajectoryGeneratorExample, AppMaker, Main, AppBegins
<1>6. QED
  BY <1>1, <1>4, <1>5 DEF LogsWell

\* Every program logs in that way.
LEMMA ProgramsLogWell == \A p \in DOMAIN Calls : LogsWell(Calls[p])
BY ForceControlLogsWell, ObstacleAvoidanceLogsWell, StopConstraintLogsWell, NullSpaceMotionLogsWell,
   PathFollowerLogsWell, DemoLogsWell, ControllerBenchmarkLogsWell, TrajectoryBenchmarkLogsWell,
   VelocityLogsWell, TrajectoryLogsWell
DEF Calls, SeparationDistanceExample

-----------------------------------------------------------------------------
(* What the files hold                                                      *)

\* The calls of the stage that are past, and one of them since the last row was logged.
Done == Len(Stage) - Len(main.todo)
Since(call) == \E m \in 1 .. Done : Stage[m] = call /\ \A k \in m + 1 .. Done : Stage[k] # "log"
Fresh(call) == main.stage \in {"setup", "cycle"} /\ Since(call)

\* What is logged now, and whether all of it is about to be forgotten.
Live == history.data \cup (IF history.controller THEN Items ELSE {})
Discarding == Len(main.todo) > 0 /\ main.todo[1] = "reset"

HistoryOK == history \in Histories /\ time \in Nat /\ cycle \in Nat

\* Until the end the logger is one that was asked for what the history says and has opened the
\* files of all that was logged; ...
LoggerAgrees ==
    main.outcome # "returned" =>
        /\ logger.open \subseteq Files /\ history.data \subseteq logger.open
        /\ logger = Logger(Code.delay, history, logger.open)
        /\ \A n \in Names \ logger.open : history.rows[n] = <<>>

\* ... then everything is on the disk.
Written == main.outcome = "returned" => logger.disk = history.rows

\* In the setup files are opened by the calls that are past.
Opened ==
    main.stage = "setup" /\ ~GivenUp =>
        /\ \A n \in DOMAIN LogCalls : n \in logger.open => Past(LogCalls[n])
        /\ ~Past("log") => \A n \in Names : history.rows[n] = <<>>

\* What is logged now was logged before at an earlier time and cycle, or else the clock and
\* the controller are still to go on.
Older ==
    ~GivenUp => \A n \in Live : \A i \in 1 .. Len(history.rows[n]) :
        /\ history.rows[n][i].cycle <= cycle
        /\ Fresh("compute") => history.rows[n][i].cycle < cycle
        /\ ~Discarding => /\ history.rows[n][i].time <= time
                          /\ Fresh("clock") => history.rows[n][i].time < time

\* Rows are in the order of their times and cycles.
InOrder(rows) ==
    \A i, j \in 1 .. Len(rows) :
        i < j => rows[i].time < rows[j].time /\ rows[i].cycle < rows[j].cycle
Ordered == \A n \in Names : InOrder(history.rows[n])

FilesInv == HistoryOK /\ LoggerAgrees /\ Written /\ Opened /\ Older /\ Ordered

\* The calls that log nothing and change neither the clock nor what is logged.
LoggingCalls == {"compute", "clock", "clock_reset", "log", "log_control", "log_robot", "log_data",
            "log_more", "reset"}

\* A step without such a call.
Idle ==
    /\ logger' = logger /\ history' = history /\ time' = time /\ cycle' = cycle
    /\ program' = program
    /\ main'.outcome = "returned" <=> main.outcome = "returned"
    /\ \/ \E c \in AllCalls \ LoggingCalls : Makes(c)
       \/ main'.todo = main.todo /\ main'.stage = main.stage
       \/ GivenUp'
       \/ /\ main.todo = <<>> /\ main'.stage \in {"loop", "cycle", "pause", "finish"}
          /\ main'.stage = "cycle" => main'.todo = Code.cycle

\* What a call that is made changes in what is past since the last row.
LEMMA MadeSince ==
  ASSUME TypeOK, TodoIsTheRest, NEW c, Makes(c), ~GivenUp
  PROVE  /\ Done' = Done + 1 /\ Done \in Int /\ Stage' = Stage /\ Stage[Done + 1] = c
         /\ \A x : c # "log" => (Since(x)' <=> Since(x) \/ x = c)
         /\ \A x : c = "log" /\ x # "log" => ~Since(x)'
<1>1. Stage' = Stage
  BY StageStays DEF Makes
<1>2. Len(Stage) \in Nat /\ Len(main.todo) \in Nat /\ Len(main'.todo) = Len(main.todo) - 1
      /\ Len(main.todo) <= Len(Stage)
  BY CodeFacts, MadeFacts DEF TodoIsTheRest
<1>3. Done' = Done + 1 /\ Done \in Nat
  BY <1>1, <1>2 DEF Done
<1>4. Stage[Done + 1] = c
  BY NextCall DEF Makes, Done
<1>5. ASSUME NEW x, c # "log"
      PROVE  Since(x)' <=> Since(x) \/ x = c
  <2>1. ASSUME Since(x) PROVE Since(x)'
    <3>1. PICK m \in 1 .. Done : Stage[m] = x /\ \A k \in m + 1 .. Done : Stage[k] # "log"
      BY <2>1 DEF Since
    <3>2. \A k \in m + 1 .. Done + 1 : Stage[k] # "log"
      BY <1>3, <1>4, <1>5, <3>1
    <3>3. m \in 1 .. Done + 1
      BY <1>3
    <3>4. QED
      BY <1>1, <1>3, <3>1, <3>2, <3>3 DEF Since
  <2>2. ASSUME x = c PROVE Since(x)'
    <3>1. Done + 1 \in 1 .. Done + 1 /\ \A k \in Done + 1 + 1 .. Done + 1 : FALSE
      BY <1>3
    <3>2. QED
      BY <1>1, <1>3, <1>4, <2>2, <3>1 DEF Since
  <2>3. ASSUME Since(x)', x # c PROVE Since(x)
    <3>1. PICK m \in 1 .. Done + 1 : Stage[m] = x /\ \A k \in m + 1 .. Done + 1 : Stage[k] # "log"
      BY <1>1, <1>3, <2>3 DEF Since
    <3>2. m \in 1 .. Done /\ \A k \in m + 1 .. Done : k \in m + 1 .. Done + 1
      BY <1>3, <1>4, <2>3, <3>1
    <3>3. QED
      BY <3>1, <3>2 DEF Since
  <2>4. QED
    BY <2>1, <2>2, <2>3
<1>6. ASSUME NEW x, c = "log", x # "log"
      PROVE  ~Since(x)'
  <2>1. SUFFICES ASSUME NEW m \in 1 .. Done + 1, Stage[m] = x,
                        \A k \in m + 1 .. Done + 1 : Stage[k] # "log"
                 PROVE  FALSE
    BY <1>1, <1>3 DEF Since
  <2>2. m # Done + 1
    BY <1>4, <1>6, <2>1
  <2>3. Done + 1 \in m + 1 .. Done + 1
    BY <1>3, <2>1, <2>2
  <2>4. QED
    BY <1>4, <1>6, <2>1, <2>3
<1>7. QED
  BY <1>1, <1>3, <1>4, <1>5, <1>6

\* Where the calls that log are, and what is past there.
LEMMA WhereLogged ==
  ASSUME TypeOK, TodoIsTheRest, NEW c, IsNext(c), c \in LoggingCalls
  PROVE  /\ ~GivenUp /\ main.stage \in {"setup", "cycle"}
         /\ c \notin {"compute", "clock", "log"} => main.stage = "setup"
         /\ c \in {"log_robot", "log_data", "log_more"} => ~Past(c)
         /\ c = "log_control" => ~Past("log")
         /\ c = "clock_reset" => ~Past("log") \/ (Len(main.todo) > 1 /\ main.todo[2] = "reset")
         /\ c = "log" => Since("clock") /\ Since("compute")
         /\ Discarding => c = "reset"
<1> DEFINE next == Done + 1
<1>1. /\ GivenUp => c \in {"free", "stop", "rethrow"}
      /\ main.stage \in {"setup", "cycle", "pause", "finish"}
      /\ main.stage = "cycle" => c \in CycleCalls
      /\ main.stage = "pause" => c = "nextStep"
      /\ main.stage = "finish" => c \in FinishCalls
      /\ main.todo[1] = c
  BY NextCall, WhichCall
<1>2. /\ ~GivenUp /\ main.stage \in {"setup", "cycle"}
      /\ c \notin {"compute", "clock", "log"} => main.stage = "setup"
      /\ Discarding => c = "reset"
  BY <1>1 DEF LoggingCalls, CycleCalls, FinishCalls, Discarding
<1>3. /\ next \in 1 .. Len(Stage) /\ Stage[next] = c /\ Done \in Int
      /\ Len(Stage) \in Nat /\ Len(main.todo) \in Nat /\ Done = Len(Stage) - Len(main.todo)
  <2>1. /\ Len(Stage) - Len(main.todo) + 1 \in 1 .. Len(Stage)
        /\ Stage[Len(Stage) - Len(main.todo) + 1] = c
    BY <1>2, NextCall
  <2>2. Len(Stage) \in Nat /\ Len(main.todo) \in Nat
    BY CodeFacts
  <2>3. QED
    BY <2>1, <2>2 DEF Done
<1>4. LogsWell(Code)
  BY ProgramsLogWell, NamesAssumption DEF TypeOK, Code
<1>5. RowsApart(Stage) /\ (main.stage = "setup" => RegisteredOnce(Stage))
  <2>1. Stage = IF main.stage = "setup" THEN Code.setup ELSE Code.cycle
    BY <1>2 DEF Stage
  <2>2. QED
    BY <1>4, <2>1 DEF LogsWell
<1>6. \A x : Past(x) <=> \E k \in 1 .. Done : Stage[k] = x
  BY DEF Past, Done
<1> HIDE DEF next
<1>7. next - 1 = Done
  BY <1>3 DEF next
<1>8. ASSUME c \in {"log_robot", "log_data", "log_more"}, Past(c)
      PROVE  FALSE
  <2>1. PICK k \in 1 .. Done : Stage[k] = c
    BY <1>6, <1>8
  <2>2. main.stage = "setup" /\ k \in 1 .. Len(Stage) /\ k < next
    BY <1>2, <1>3, <1>7, <1>8
  <2>3. QED
    BY <1>3, <1>5, <1>8, <2>1, <2>2 DEF RegisteredOnce
<1>9. ASSUME c = "log_control"
      PROVE  ~Past("log")
  <2>1. \A k \in 1 .. next - 1 : Stage[k] # "log"
    BY <1>2, <1>3, <1>5, <1>9 DEF RegisteredOnce
  <2>2. QED
    BY <1>6, <1>7, <2>1
<1>10. ASSUME c = "clock_reset"
       PROVE  ~Past("log") \/ (Len(main.todo) > 1 /\ main.todo[2] = "reset")
  <2>1. CASE \A k \in 1 .. next - 1 : Stage[k] # "log"
    BY <1>6, <1>7, <2>1
  <2>2. CASE next < Len(Stage) /\ Stage[next + 1] = "reset"
    <3> DEFINE all == Len(Stage)
               rest == Len(main.todo)
    <3>0. next < all /\ next \in Int /\ all \in Int /\ rest \in Int /\ next - 1 = all - rest
      BY <1>3, <1>7, <2>2
    <3> HIDE DEF all, rest
    <3>1. rest > 1 /\ 2 + (all - rest) = next + 1
      BY <3>0
    <3>2. Len(main.todo) > 1 /\ 2 + (Len(Stage) - Len(main.todo)) = next + 1
      BY <3>1 DEF all, rest
    <3>3. 2 \in 1 .. Len(main.todo)
      BY <1>3, <3>2
    <3>4. \A i \in 1 .. Len(main.todo) : main.todo[i] = Stage[i + (Len(Stage) - Len(main.todo))]
      BY <1>2 DEF TodoIsTheRest
    <3>5. QED
      BY <2>2, <3>2, <3>3, <3>4
  <2>3. QED
    BY <1>2, <1>3, <1>5, <1>10, <2>1, <2>2 DEF RegisteredOnce
<1>11. ASSUME c = "log", NEW x \in {"clock", "compute"}
       PROVE  Since(x)
  <2>1. PICK m \in 1 .. next - 1 : Stage[m] = x /\ \A k \in m + 1 .. next - 1 : Stage[k] # "log"
    BY <1>3, <1>5, <1>11 DEF RowsApart
  <2>2. QED
    BY <1>7, <2>1 DEF Since
<1>12. QED
  BY <1>2, <1>8, <1>9, <1>10, <1>11

\* The steps that log nothing are idle.
LEMMA IdleSteps ==
  ASSUME TypeOK, TypeOK', TodoIsTheRest, [Next]_vars,
         ~Compute, ~UpdateClock, ~Register, ~Log, ~Return
  PROVE  Idle
<1> DEFINE Still == /\ logger' = logger /\ history' = history /\ time' = time /\ cycle' = cycle
                    /\ program' = program
<1>1. ASSUME NEW c \in AllCalls \ LoggingCalls, Makes(c), Still PROVE Idle
  BY <1>1 DEF Idle, Makes
<1>2. ASSUME main'.todo = main.todo, main'.stage = main.stage, Still,
             main'.outcome = "returned" <=> main.outcome = "returned"
      PROVE  Idle
  BY <1>2 DEF Idle
<1>3. /\ {"driver", "handles", "track", "start", "nextStep", "init", "synchronous", "free", "wait",
          "state_machine", "send", "stop", "trajectory", "timings", "timings_or_stop", "signal",
          "signal_off"} \subseteq AllCalls \ LoggingCalls
  BY DEF AllCalls, SetupCalls, CycleCalls, FinishCalls, Silent, LoggingCalls
<1>4. ASSUME Dies, Still, main.outcome = "running" PROVE Idle
  <2>1. main'.todo = main.todo /\ main'.stage = main.stage /\ main'.outcome = "thrown"
    BY <1>4 DEF Dies, TypeOK
  <2>2. QED
    BY <1>2, <1>4, <2>1
<1>5. CASE ConstructDriver \/ GetObjectHandles \/ TrackObjectPosition
  <2>1. Still /\ main.outcome = "running"
    BY <1>5 DEF ConstructDriver, GetObjectHandles, TrackObjectPosition, IsNext
  <2>2. PICK c \in {"driver", "handles", "track"} : IsNext(c) /\ (main' = Made \/ Dies)
    BY <1>5 DEF ConstructDriver, GetObjectHandles, TrackObjectPosition
  <2>3. CASE main' = Made
    <3>1. Makes(c)
      BY <2>1, <2>2, <2>3, MadeMakes
    <3>2. QED
      BY <1>1, <1>3, <2>1, <3>1
  <2>4. QED
    BY <1>4, <2>1, <2>2, <2>3
<1>6. CASE \/ Start \/ NextStep \/ InitDriver \/ EnableSynchronous("synchronous", TRUE)
           \/ EnableSynchronous("free", FALSE) \/ InitStateMachine \/ Stop \/ Send
  <2>1. Still
    BY <1>6 DEF Start, NextStep, InitDriver, EnableSynchronous, InitStateMachine, Stop, Send
  <2>2. PICK c \in {"start", "nextStep", "init", "synchronous", "free", "state_machine", "stop",
                   "send"} :
           Makes(c)
    BY <1>6, LoudCalls
  <2>3. QED
    BY <1>1, <1>3, <2>1, <2>2
<1>7. CASE WaitForRead
  <2>1. Still
    BY <1>7 DEF WaitForRead
  <2>2. CASE Makes("wait")
    BY <1>1, <1>3, <2>1, <2>2
  <2>3. CASE main' = main
    BY <1>2, <2>1, <2>3
  <2>4. QED
    BY <1>7, <2>2, <2>3, WaitCalls
<1>8. CASE Trajectory
  <2>1. Still /\ IsNext("trajectory")
    BY <1>8 DEF Trajectory
  <2>2. Makes("trajectory")
    BY <1>8, <2>1, MadeMakes DEF Trajectory
  <2>3. QED
    BY <1>1, <1>3, <2>1, <2>2
<1>9. CASE ComputeTimings
  <2>1. Still
    BY <1>9 DEF ComputeTimings
  <2>2. CASE main' = Made
    <3>1. PICK c \in {"timings", "timings_or_stop", "rethrow"} :
             IsNext(c) /\ (c = "rethrow" => Dies)
      BY <1>9 DEF ComputeTimings
    <3>2. CASE c = "rethrow"
      BY <1>4, <2>1, <3>1, <3>2 DEF IsNext
    <3>3. CASE c # "rethrow"
      <4>1. Makes(c)
        BY <2>1, <2>2, <3>1, <3>3, MadeMakes
      <4>2. QED
        BY <1>1, <1>3, <2>1, <3>1, <3>3, <4>1
    <3>4. QED
      BY <3>2, <3>3
  <2>3. CASE Dies
    <3>1. main.outcome = "running"
      BY <1>9 DEF ComputeTimings, IsNext
    <3>2. QED
      BY <1>4, <2>1, <2>3, <3>1
  <2>4. CASE /\ IsNext("timings_or_stop")
             /\ main' = [main EXCEPT !.todo = <<"free", "stop", "rethrow">>]
    <3>0. /\ GivenUp => "timings_or_stop" \in {"free", "stop", "rethrow"}
          /\ main.outcome = "running"
      BY <2>4, NextCall
    <3>1. ~GivenUp /\ main.outcome = "running"
      BY <3>0
    <3>2. main.stage = "setup"
      BY <2>4, <3>1, WhichCall DEF CycleCalls, FinishCalls
    <3>3. GivesUp
      BY <2>4, <3>1, <3>2 DEF GivesUp, TypeOK
    <3>4. GivenUp' /\ main'.outcome = "running"
      BY <3>3, TodoGivenUp DEF GivesUp
    <3>5. QED
      BY <2>1, <3>1, <3>4 DEF Idle
  <2>5. QED
    BY <1>9, <2>2, <2>3, <2>4 DEF ComputeTimings
<1>10. CASE SetHandler
  <2>1. Still
    BY <1>10 DEF SetHandler
  <2>2. CASE IsNext("signal") /\ main' = [Made EXCEPT !.handler = TRUE]
    <3>1. Makes("signal")
      BY <2>1, <2>2, MadeMakes
    <3>2. QED
      BY <1>1, <1>3, <2>1, <3>1
  <2>3. CASE IsNext("signal_off") /\ main' = [Made EXCEPT !.handler = FALSE]
    <3>1. Makes("signal_off")
      BY <2>1, <2>3, MadeMakes
    <3>2. QED
      BY <1>1, <1>3, <2>1, <3>1
  <2>4. QED
    BY <1>10, <2>2, <2>3 DEF SetHandler
<1>11. CASE NextStage
  <2>1. Still
    BY <1>11 DEF NextStage
  <2>2. /\ main.todo = <<>> /\ main'.outcome = main.outcome
        /\ main'.stage \in {"loop", "pause", "finish"}
    BY <1>11, StageBegins
  <2>3. QED
    BY <2>1, <2>2 DEF Idle
<1>12. CASE ReadInLoop
  <2>1. Still /\ main.todo = <<>> /\ main.outcome = "running"
    BY <1>12 DEF ReadInLoop, AtLoop
  <2>2. /\ main'.stage \in {"loop", "cycle", "pause"} /\ main'.outcome \in {"running", "thrown"}
        /\ main'.stage = "cycle" => main'.todo = Code.cycle
    BY <1>12, RoundBegins
  <2>3. QED
    BY <2>1, <2>2 DEF Idle
<1>13. CASE Interrupt
  <2>1. Still /\ main'.todo = main.todo /\ main'.stage = main.stage
        /\ main'.outcome \in {"running", "killed"} /\ main.outcome = "running"
    BY <1>13 DEF Interrupt, TypeOK
  <2>2. QED
    BY <1>2, <2>1
<1>14. CASE ConnectionLost \/ SimulateFreely \/ UNCHANGED vars
  BY <1>2, <1>14 DEF ConnectionLost, SimulateFreely, vars
<1>15. QED
  BY <1>5, <1>6, <1>7, <1>8, <1>9, <1>10, <1>11, <1>12, <1>13, <1>14 DEF Next

\* Idle steps keep the invariant.
LEMMA FilesIdle ==
  ASSUME TypeOK, TypeOK', TodoIsTheRest, FilesInv, Idle
  PROVE  FilesInv'
<1> USE DEF FilesInv
<1>1. /\ logger' = logger /\ history' = history /\ time' = time /\ cycle' = cycle
      /\ program' = program
      /\ main'.outcome = "returned" <=> main.outcome = "returned"
      /\ Code' = Code
  BY DEF Idle, Code
<1>2. HistoryOK' /\ Written' /\ Ordered'
  BY <1>1 DEF HistoryOK, Written, Ordered
<1>3. LoggerAgrees'
  BY <1>1 DEF LoggerAgrees
<1>4. Live' = Live
  BY <1>1 DEF Live
<1>5. CASE GivenUp'
  BY <1>2, <1>3, <1>5 DEF Opened, Older
<1>6. CASE main'.todo = main.todo /\ main'.stage = main.stage
  <2>1. Stage' = Stage
    BY <1>1, <1>6, StageStays
  <2>2. (GivenUp' <=> GivenUp) /\ \A x : Past(x)' <=> Past(x)
    BY <1>1, <1>6, TodoKept
  <2>3. \A x : Fresh(x)' <=> Fresh(x)
    BY <1>6, <2>1 DEF Fresh, Since, Done
  <2>4. Discarding' <=> Discarding
    BY <1>6 DEF Discarding
  <2>5. Opened'
    BY <1>1, <1>6, <2>2 DEF Opened
  <2>6. Older'
    BY <1>1, <1>4, <2>2, <2>3, <2>4 DEF Older
  <2>7. QED
    BY <1>2, <1>3, <2>5, <2>6
<1>7. CASE ~GivenUp' /\ \E c \in AllCalls \ LoggingCalls : Makes(c)
  <2>1. PICK c \in AllCalls \ LoggingCalls : Makes(c)
    BY <1>7
  <2>2. c # "log" /\ c # "clock" /\ c # "compute" /\ c # "reset"
    BY <2>1 DEF LoggingCalls
  <2>3. (GivenUp' <=> GivenUp) /\ ~GivenUp /\ main'.stage = main.stage
    BY <1>7, <2>1, MadeFacts DEF Makes
  <2>4. (\A x : Past(x)' <=> Past(x) \/ x = c) /\ \A x : Since(x)' <=> Since(x) \/ x = c
    BY <2>1, <2>2, <2>3, MadeFacts, MadeSince
  <2>5. Fresh("clock")' <=> Fresh("clock")
    BY <2>2, <2>3, <2>4 DEF Fresh
  <2>6. Fresh("compute")' <=> Fresh("compute")
    BY <2>2, <2>3, <2>4 DEF Fresh
  <2>7. ~Discarding
    BY <2>1, <2>2, NextCall DEF Discarding, Makes
  <2>8. Opened'
    BY <1>1, <2>2, <2>3, <2>4 DEF Opened
  <2>9. Older'
    BY <1>1, <1>4, <2>3, <2>5, <2>6, <2>7 DEF Older
  <2>10. QED
    BY <1>2, <1>3, <2>8, <2>9
<1>8. CASE /\ main.todo = <<>> /\ main'.stage \in {"loop", "cycle", "pause", "finish"}
           /\ main'.stage = "cycle" => main'.todo = Code.cycle
  <2>1. ~GivenUp /\ Len(main.todo) = 0
    BY <1>8, AllPast
  <2>2. ~Discarding
    BY <2>1 DEF Discarding
  <2>3. \A x : ~Fresh(x)'
    <3>1. SUFFICES ASSUME main'.stage = "cycle" PROVE \A x : ~Since(x)'
      BY <1>8 DEF Fresh
    <3>2. Stage' = Code.cycle /\ Len(main'.todo) \in Nat
      BY <1>1, <3>1 DEF Stage, TypeOK
    <3>3. Done' = 0
      BY <1>8, <3>1, <3>2 DEF Done
    <3>4. QED
      BY <3>3 DEF Since
  <2>4. Opened'
    BY <1>8 DEF Opened
  <2>5. Older'
    BY <1>1, <1>4, <2>1, <2>2, <2>3 DEF Older
  <2>6. QED
    BY <1>2, <1>3, <2>4, <2>5
<1>9. QED
  BY <1>5, <1>6, <1>7, <1>8 DEF Idle

\* Only names of files are logged.
LEMMA LiveFacts == HistoryOK => Live \subseteq Names
BY FilesFinite DEF HistoryOK, Histories, Live, Files

\* Whether writing is delayed.
LEMMA DelayIsBoolean == ASSUME TypeOK PROVE Code.delay \in BOOLEAN
<1>1. ASSUME NEW a, NEW b, NEW c, NEW d
      PROVE  Main(a, b, c, d).delay = FALSE
  BY DEF Main
<1>2. ASSUME NEW before, NEW after, NEW callback
      PROVE  AppMaker(before, after, callback).delay = FALSE
  <2> DEFINE setup == <<"driver", "handles", "start", "log_control", "log_robot">> \o before
                         \o <<"init", "signal">> \o after
             cycles == callback \o <<"compute", "send", "clock", "log">>
             finish == <<"stop">>
  <2>1. AppMaker(before, after, callback)
           = [Main(setup, cycles, <<>>, finish) EXCEPT !.readOrStop = TRUE]
    BY DEF AppMaker
  <2> HIDE DEF setup, cycles, finish
  <2>2. [Main(setup, cycles, <<>>, finish) EXCEPT !.readOrStop = TRUE].delay = FALSE
    BY DEF Main
  <2>3. QED
    BY <2>1, <2>2
<1>3. /\ VelocityConstraintExample.delay = FALSE
      /\ JointTrajectoryGeneratorExample.delay = FALSE
  BY <1>2 DEF VelocityConstraintExample, JointTrajectoryGeneratorExample
<1>4. TrajectoryGeneratorExample.delay = FALSE
  <2> DEFINE made == AppMaker(<<"timings_or_stop", "log_data">>, <<>>, <<"trajectory">>)
  <2>1. made.delay = FALSE
    BY <1>2
  <2>2. TrajectoryGeneratorExample.delay = made.delay
    BY DEF TrajectoryGeneratorExample, AppMaker, Main
  <2>3. QED
    BY <2>1, <2>2
<1>5. /\ ForceControlExample.delay = FALSE /\ ObstacleAvoidanceExample.delay = FALSE
      /\ StopConstraintExample.delay = FALSE /\ NullSpaceMotionExample.delay = FALSE
      /\ PathFollowerExample.delay = FALSE
  BY DEF ForceControlExample, ObstacleAvoidanceExample, StopConstraintExample,
     NullSpaceMotionExample, PathFollowerExample, Main
<1>6. /\ Demo.delay = TRUE /\ ControllerBenchmark.delay = TRUE
      /\ TrajectoryGeneratorBenchmark.delay = TRUE
  BY DEF Demo, ControllerBenchmark, TrajectoryGeneratorBenchmark, Main
<1>7. \A p \in DOMAIN Calls : Calls[p].delay \in BOOLEAN
  <2> DEFINE Delays(code) == code.delay \in BOOLEAN
  <2>1. /\ Delays(VelocityConstraintExample) /\ Delays(JointTrajectoryGeneratorExample)
        /\ Delays(TrajectoryGeneratorExample) /\ Delays(ForceControlExample)
        /\ Delays(ObstacleAvoidanceExample) /\ Delays(StopConstraintExample)
        /\ Delays(NullSpaceMotionExample) /\ Delays(PathFollowerExample) /\ Delays(Demo)
        /\ Delays(ControllerBenchmark) /\ Delays(TrajectoryGeneratorBenchmark)
    BY <1>3, <1>4, <1>5, <1>6
  <2> HIDE DEF Delays
  <2>2. \A p \in DOMAIN Calls : Delays(Calls[p])
    BY <2>1 DEF Calls, SeparationDistanceExample
  <2>3. QED
    BY <2>2 DEF Delays
<1>8. QED
  BY <1>7, NamesAssumption DEF TypeOK, Code

\* Rows are rows, and what is logged has a name.
LEMMA RowFacts ==
  ASSUME HistoryOK, NEW n \in Live, NEW i \in 1 .. Len(history.rows[n])
  PROVE  history.rows[n][i].time \in Nat /\ history.rows[n][i].cycle \in Nat
<1>1. n \in Names
  BY LiveFacts
<1>2. history.rows[n] \in Seq(Rows)
  BY <1>1 DEF HistoryOK, Histories
<1>3. history.rows[n][i] \in Rows
  BY <1>2
<1>4. QED
  BY <1>3 DEF Rows

\* compute() goes on by a cycle.
LEMMA FilesCompute ==
  ASSUME TypeOK, TypeOK', TodoIsTheRest, FilesInv, Compute
  PROVE  FilesInv'
<1> USE DEF FilesInv
<1>1. /\ logger' = logger /\ history' = history /\ time' = time /\ cycle' = cycle + 1
      /\ program' = program
      /\ Code' = Code /\ Live' = Live
  BY DEF Compute, Code, Live
<1>2. /\ Makes("compute") /\ IsNext("compute")
      /\ main'.outcome = main.outcome /\ main'.stage = main.stage
  BY LoudCalls DEF Makes
<1>3. ~GivenUp /\ ~GivenUp' /\ ~Discarding
  BY <1>2, MadeFacts, WhereLogged DEF LoggingCalls
<1>4. HistoryOK' /\ Written' /\ Ordered' /\ LoggerAgrees'
  BY <1>1, <1>2 DEF HistoryOK, Written, Ordered, LoggerAgrees
<1>5. \A x : Past(x)' <=> Past(x) \/ x = "compute"
  BY <1>2, <1>3, MadeFacts
<1>6. Opened'
  BY <1>1, <1>2, <1>3, <1>5 DEF Opened
<1>7. Fresh("clock")' <=> Fresh("clock")
  BY <1>2, <1>3, MadeSince DEF Fresh
<1>8. Older'
  <2>1. SUFFICES ASSUME NEW n \in Live, NEW i \in 1 .. Len(history.rows[n])
                 PROVE  /\ history.rows[n][i].cycle < cycle + 1
                        /\ history.rows[n][i].time <= time
                        /\ Fresh("clock") => history.rows[n][i].time < time
    BY <1>1, <1>7, RowFacts DEF Older
  <2>2. history.rows[n][i].cycle <= cycle /\ history.rows[n][i].cycle \in Nat /\ cycle \in Nat
    BY <1>3, RowFacts DEF Older, HistoryOK
  <2>3. QED
    BY <1>3, <2>2 DEF Older
<1>9. QED
  BY <1>4, <1>6, <1>8

\* The clock goes on, or begins anew where nothing is logged that has a row.
LEMMA FilesClock ==
  ASSUME TypeOK, TypeOK', TodoIsTheRest, FilesInv, UpdateClock
  PROVE  FilesInv'
<1> USE DEF FilesInv
<1>1. /\ logger' = logger /\ history' = history /\ cycle' = cycle /\ program' = program
      /\ Code' = Code /\ Live' = Live
  BY DEF UpdateClock, Code, Live
<1>2. PICK c \in {"clock", "clock_reset"} :
         Makes(c) /\ IsNext(c) /\ time' = IF c = "clock" THEN time + 1 ELSE 0
  <2>1. PICK c \in {"clock", "clock_reset"} : IsNext(c)
    BY DEF UpdateClock
  <2>2. IsNext("clock") <=> c = "clock"
    BY <2>1 DEF IsNext
  <2>3. Makes(c)
    BY <2>1, MadeMakes DEF UpdateClock
  <2>4. QED
    BY <2>1, <2>2, <2>3 DEF UpdateClock
<1>3. /\ ~GivenUp /\ ~GivenUp' /\ ~Discarding
      /\ main'.outcome = main.outcome /\ main'.stage = main.stage
      /\ main.todo \in Seq(AllCalls) /\ main.todo # <<>> /\ main'.todo = Tail(main.todo)
  BY <1>2, MadeFacts, WhereLogged, CodeFacts DEF LoggingCalls, Makes, IsNext
<1>4. HistoryOK' /\ Written' /\ Ordered' /\ LoggerAgrees'
  BY <1>1, <1>2, <1>3 DEF HistoryOK, Written, Ordered, LoggerAgrees
<1>5. \A x : Past(x)' <=> Past(x) \/ x = c
  BY <1>2, <1>3, MadeFacts
<1>6. Opened'
  BY <1>1, <1>2, <1>3, <1>5 DEF Opened
<1>7. Fresh("compute")' <=> Fresh("compute")
  BY <1>2, <1>3, MadeSince DEF Fresh
<1>8. CASE c = "clock"
  <2>1. SUFFICES ASSUME NEW n \in Live, NEW i \in 1 .. Len(history.rows[n])
                 PROVE  /\ history.rows[n][i].cycle <= cycle
                        /\ Fresh("compute") => history.rows[n][i].cycle < cycle
                        /\ history.rows[n][i].time < time + 1 /\ history.rows[n][i].time <= time + 1
    BY <1>1, <1>2, <1>4, <1>6, <1>7, <1>8 DEF Older
  <2>2. history.rows[n][i].time <= time /\ history.rows[n][i].time \in Nat /\ time \in Nat
    BY <1>3, RowFacts DEF Older, HistoryOK
  <2>3. QED
    BY <1>3, <2>2 DEF Older
<1>9. CASE c = "clock_reset" /\ ~Past("log")
  <2>1. main.stage = "setup"
    BY <1>2, <1>9, WhereLogged DEF LoggingCalls
  <2>2. \A n \in Live : history.rows[n] = <<>>
    BY <1>3, <1>9, <2>1, LiveFacts DEF Opened
  <2>3. Older'
    BY <1>1, <2>2 DEF Older
  <2>4. QED
    BY <1>4, <1>6, <2>3
<1>10. CASE c = "clock_reset" /\ Len(main.todo) > 1 /\ main.todo[2] = "reset"
  <2>1. Discarding'
    BY <1>3, <1>10, TailFacts DEF Discarding
  <2>2. Older'
    BY <1>1, <1>3, <1>7, <2>1 DEF Older
  <2>3. QED
    BY <1>4, <1>6, <2>2
<1>11. c = "clock_reset" => ~Past("log") \/ (Len(main.todo) > 1 /\ main.todo[2] = "reset")
  BY <1>2, WhereLogged DEF LoggingCalls
<1>12. QED
  BY <1>8, <1>9, <1>10, <1>11

\* The destructors write what is left.
LEMMA FilesReturn ==
  ASSUME TypeOK, TypeOK', TodoIsTheRest, FilesInv, Return
  PROVE  FilesInv'
<1> USE DEF FilesInv
<1>1. /\ logger' = Destroy(logger) /\ history' = history /\ time' = time /\ cycle' = cycle
      /\ Live' = Live /\ main.outcome = "running" /\ main'.outcome = "returned"
  BY DEF Return, Live, TypeOK
<1>2. /\ (GivenUp' <=> GivenUp) /\ \A x : Past(x)' <=> Past(x)
      /\ main'.stage = main.stage /\ main'.todo = main.todo /\ program' = program
      /\ main.stage = "finish"
  BY Standing DEF Return
<1>3. Code' = Code /\ Stage' = Stage
  BY <1>2, StageStays DEF Code
<1>4. HistoryOK' /\ Ordered' /\ LoggerAgrees' /\ Opened'
  BY <1>1, <1>2 DEF HistoryOK, Ordered, LoggerAgrees, Opened
<1>5. Older'
  <2>1. (\A x : Fresh(x)' <=> Fresh(x)) /\ (Discarding' <=> Discarding)
    BY <1>2, <1>3 DEF Fresh, Since, Done, Discarding
  <2>2. QED
    BY <1>1, <1>2, <2>1 DEF Older
<1>6. Written'
  <2>1. /\ logger.open \in SUBSET Files /\ history \in Histories
        /\ logger = Logger(Code.delay, history, logger.open)
        /\ \A n \in Names \ logger.open : history.rows[n] = <<>>
    BY <1>1 DEF LoggerAgrees, HistoryOK
  <2>2. Code.delay \in BOOLEAN
    BY DelayIsBoolean
  <2> DEFINE d == Code.delay
             o == logger.open
  <2>3. /\ o \in SUBSET Files /\ d \in BOOLEAN /\ logger = Logger(d, history, o)
        /\ \A n \in Names \ o : history.rows[n] = <<>>
    BY <2>1, <2>2
  <2> HIDE DEF d, o
  <2>4. Destroy(logger).disk = history.rows
    BY <2>1, <2>3, Destroying
  <2>5. QED
    BY <1>1, <2>4 DEF Written
<1>7. QED
  BY <1>4, <1>5, <1>6

\* A history in which this name was asked for as well, ...
AskedFor(h, n) == [h EXCEPT !.data = @ \cup {n}]
\* ... one with what the controller holds, and one without anything.
ControllerAsked(h) == [h EXCEPT !.controller = TRUE]
Forgotten(h) == [h EXCEPT !.controller = FALSE, !.data = {}]

\* Registering a name opens its file, and neither that nor forgetting everything loses a row.
LEMMA Registering ==
  ASSUME NEW d \in BOOLEAN, NEW h \in Histories, NEW o
  PROVE  /\ LET after == ControllerAsked(h) IN
            LogSafetyControllerData(Logger(d, h, o)) = Logger(d, after, o) /\ after \in Histories
         /\ LET after == Forgotten(h) IN
            Reset(Logger(d, h, o)) = Logger(d, after, o) /\ after \in Histories
         /\ \A n \in DOMAIN LogCalls : n \in Names \ o /\ h.rows[n] = <<>> =>
               LET after == AskedFor(h, n) IN
               /\ LogExternalData(Logger(d, h, o), n) = Logger(d, after, o \cup {n})
               /\ after \in Histories
<1> DEFINE After(controller, data) == [controller |-> controller, data |-> data, rows |-> h.rows]
           Record(controller, data, open) ==
              [delay |-> d, controller |-> controller, external |-> data, open |-> open,
               failed |-> {}, kept |-> IF d THEN open ELSE {},
               stored |-> IF d THEN h.rows ELSE Nothing, disk |-> IF d THEN Nothing ELSE h.rows]
<1>1. /\ h = After(h.controller, h.data)
      /\ h.controller \in BOOLEAN /\ h.data \in SUBSET DOMAIN LogCalls
      /\ h.rows \in [Names -> Seq(Rows)]
  BY DEF Histories
<1>2. ASSUME NEW controller \in BOOLEAN, NEW data \in SUBSET DOMAIN LogCalls, NEW open
      PROVE  /\ Logger(d, After(controller, data), open) = Record(controller, data, open)
             /\ After(controller, data) \in Histories
  <2>1. After(controller, data) \in Histories
    BY <1>1 DEF Histories
  <2>2. QED
    BY <2>1 DEF Logger
<1>3. Logger(d, h, o) = Record(h.controller, h.data, o)
  BY <1>1, <1>2
<1>4. ASSUME NEW was, NEW asked, NEW now
      PROVE  /\ [After(was, asked) EXCEPT !.controller = now] = After(now, asked)
             /\ [After(was, asked) EXCEPT !.data = now] = After(was, now)
  OBVIOUS
<1>5. ASSUME NEW was, NEW asked, NEW open, NEW now
      PROVE  /\ [Record(was, asked, open) EXCEPT !.controller = now] = Record(now, asked, open)
             /\ [Record(was, asked, open) EXCEPT !.external = now] = Record(was, now, open)
             /\ Record(was, asked, open).external = asked
  <2> DEFINE kept == IF d THEN open ELSE {}
             stored == IF d THEN h.rows ELSE Nothing
             disk == IF d THEN Nothing ELSE h.rows
  <2> HIDE DEF kept, stored, disk
  <2> DEFINE Fields(c, e) == [delay |-> d, controller |-> c, external |-> e, open |-> open,
                              failed |-> {}, kept |-> kept, stored |-> stored, disk |-> disk]
  <2>1. [Fields(was, asked) EXCEPT !.controller = now] = Fields(now, asked)
    OBVIOUS
  <2>2. [Fields(was, asked) EXCEPT !.external = now] = Fields(was, now)
    OBVIOUS
  <2>3. Fields(was, asked).external = asked
    OBVIOUS
  <2>4. QED
    BY <2>1, <2>2, <2>3 DEF kept, stored, disk
<1> HIDE DEF After, Record
<1>6. LET after == ControllerAsked(h) IN
      LogSafetyControllerData(Logger(d, h, o)) = Logger(d, after, o) /\ after \in Histories
  <2> DEFINE yes == TRUE
  <2>1. yes \in BOOLEAN
    OBVIOUS
  <2> HIDE DEF yes
  <2>2. [h EXCEPT !.controller = yes] = After(yes, h.data)
    BY <1>1, <1>4
  <2>3. [Logger(d, h, o) EXCEPT !.controller = yes] = Record(yes, h.data, o)
    BY <1>3, <1>5
  <2>4. /\ Logger(d, After(yes, h.data), o) = Record(yes, h.data, o)
        /\ After(yes, h.data) \in Histories
    BY <1>1, <1>2, <2>1
  <2>5. /\ [Logger(d, h, o) EXCEPT !.controller = yes] = Logger(d, [h EXCEPT !.controller = yes], o)
        /\ [h EXCEPT !.controller = yes] \in Histories
    BY <2>2, <2>3, <2>4
  <2>6. QED
    BY <2>5, Zenon DEF LogSafetyControllerData, ControllerAsked, yes
<1>7. LET after == Forgotten(h) IN
      Reset(Logger(d, h, o)) = Logger(d, after, o) /\ after \in Histories
  <2> DEFINE no == FALSE
  <2>1. no \in BOOLEAN /\ {} \in SUBSET DOMAIN LogCalls
    OBVIOUS
  <2> HIDE DEF no
  <2>2. /\ [After(no, h.data) EXCEPT !.data = {}] = After(no, {})
        /\ [h EXCEPT !.controller = no] = After(no, h.data)
    <3>1. [After(no, h.data) EXCEPT !.data = {}] = After(no, {})
      BY <1>4
    <3>2. [After(h.controller, h.data) EXCEPT !.controller = no] = After(no, h.data)
      BY <1>4
    <3>3. QED
      BY <1>1, <3>1, <3>2
  <2>3. /\ [Record(no, h.data, o) EXCEPT !.external = {}] = Record(no, {}, o)
        /\ [Logger(d, h, o) EXCEPT !.controller = no] = Record(no, h.data, o)
    BY <1>3, <1>5
  <2>4. Logger(d, After(no, {}), o) = Record(no, {}, o) /\ After(no, {}) \in Histories
    BY <1>2, <2>1
  <2>5. /\ [Logger(d, h, o) EXCEPT !.controller = no, !.external = {}]
              = Logger(d, [h EXCEPT !.controller = no, !.data = {}], o)
        /\ [h EXCEPT !.controller = no, !.data = {}] \in Histories
    BY <2>2, <2>3, <2>4
  <2>6. QED
    BY <2>5, Zenon DEF Reset, Forgotten, no
<1>8. ASSUME NEW n \in DOMAIN LogCalls, n \in Names \ o, h.rows[n] = <<>>
      PROVE  LET after == AskedFor(h, n) IN
             /\ LogExternalData(Logger(d, h, o), n) = Logger(d, after, o \cup {n})
             /\ after \in Histories
  <2> DEFINE opened == o \cup {n}
             data == h.data \cup {n}
  <2>1. CreateLog(Logger(d, h, o), n) = Record(h.controller, h.data, opened)
    <3>1. Logger(d, After(h.controller, h.data), opened) = Record(h.controller, h.data, opened)
      BY <1>1, <1>2
    <3>2. CreateLog(Logger(d, h, o), n) = Logger(d, h, opened)
      BY <1>8, Creating
    <3>3. QED
      BY <1>1, <3>1, <3>2, Zenon
  <2>2. data \in SUBSET DOMAIN LogCalls
    BY <1>1, <1>8
  <2> HIDE DEF opened
  <2> HIDE DEF data
  <2>3. [h EXCEPT !.data = data] = After(h.controller, data)
    <3>1. [After(h.controller, h.data) EXCEPT !.data = data] = After(h.controller, data)
      BY <1>4
    <3>2. QED
      BY <1>1, <3>1
  <2>4. [Record(h.controller, h.data, opened) EXCEPT !.external = data]
           = Record(h.controller, data, opened)
    BY <1>5
  <2>5. Logger(d, After(h.controller, data), opened) = Record(h.controller, data, opened)
        /\ After(h.controller, data) \in Histories
    BY <1>1, <1>2, <2>2
  <2>6. Record(h.controller, h.data, opened).external = h.data
    BY <1>5
  <2>7. LogExternalData(Logger(d, h, o), n)
           = [Record(h.controller, h.data, opened) EXCEPT !.external = data]
    BY <2>1, <2>6, Zenon DEF LogExternalData, data
  <2>8. LogExternalData(Logger(d, h, o), n) = Logger(d, [h EXCEPT !.data = data], opened)
        /\ [h EXCEPT !.data = data] \in Histories
    BY <2>3, <2>4, <2>5, <2>7
  <2>9. AskedFor(h, n) = [h EXCEPT !.data = data]
    BY DEF AskedFor, data
  <2>10. QED
    BY <2>8, <2>9 DEF opened
<1>9. QED
  BY <1>6, <1>7, <1>8, Zenon

\* Registering and forgetting keep the invariant: what has no file has no row.
LEMMA FilesRegister ==
  ASSUME TypeOK, TypeOK', TodoIsTheRest, FilesInv, Register
  PROVE  FilesInv'
<1> USE DEF FilesInv
<1>1. /\ main' = Made /\ program' = program /\ time' = time /\ cycle' = cycle /\ Code' = Code
  BY DEF Register, Code
<1>2. PICK c \in {"log_control", "log_robot", "log_data", "log_more", "reset"} :
         /\ IsNext(c)
         /\ \/ /\ c = "log_control" /\ logger' = LogSafetyControllerData(logger)
               /\ history' = [history EXCEPT !.controller = TRUE]
            \/ \E n \in DOMAIN LogCalls :
                  /\ c = LogCalls[n] /\ logger' = LogExternalData(logger, n)
                  /\ history' = [history EXCEPT !.data = @ \cup {n}]
            \/ /\ c = "reset" /\ logger' = Reset(logger)
               /\ history' = [history EXCEPT !.controller = FALSE, !.data = {}]
  <2>1. \A n \in DOMAIN LogCalls : LogCalls[n] \in {"log_robot", "log_data", "log_more"}
    BY DEF LogCalls
  <2>2. QED
    BY <2>1 DEF Register
<1>3. Makes(c)
  BY <1>1, <1>2, MadeMakes
<1>4. /\ ~GivenUp /\ ~GivenUp' /\ main.stage = "setup" /\ main'.stage = "setup"
      /\ main.outcome = "running" /\ main'.outcome = "running"
      /\ Discarding => c = "reset"
      /\ c = "log_control" => ~Past("log")
      /\ c \in {"log_robot", "log_data", "log_more"} => ~Past(c)
  BY <1>2, <1>3, MadeFacts, WhereLogged DEF LoggingCalls, Makes, IsNext
<1>5. \A x : Past(x)' <=> Past(x) \/ x = c
  BY <1>3, <1>4, MadeFacts
<1>6. /\ Fresh("compute")' <=> Fresh("compute")
      /\ Fresh("clock")' <=> Fresh("clock")
  BY <1>2, <1>3, <1>4, MadeSince DEF Fresh
<1> DEFINE d == Code.delay
           o == logger.open
<1>7. /\ d \in BOOLEAN /\ history \in Histories /\ o \subseteq Files /\ history.data \subseteq o
      /\ logger = Logger(d, history, o) /\ d' = d
      /\ \A n \in Names \ o : history.rows[n] = <<>>
  BY <1>1, <1>4, DelayIsBoolean DEF LoggerAgrees, HistoryOK
<1>8. \A n \in Live : \A i \in 1 .. Len(history.rows[n]) :
         /\ history.rows[n][i].cycle <= cycle
         /\ Fresh("compute") => history.rows[n][i].cycle < cycle
         /\ c # "reset" => /\ history.rows[n][i].time <= time
                           /\ Fresh("clock") => history.rows[n][i].time < time
  BY <1>4 DEF Older
<1>9. ASSUME history' \in Histories, history'.rows = history.rows, logger'.open \subseteq Files,
             history'.data \subseteq logger'.open, o \subseteq logger'.open,
             logger' = Logger(d, history', logger'.open),
             \A n \in DOMAIN LogCalls : n \in logger'.open => n \in o \/ c = LogCalls[n]
      PROVE  HistoryOK' /\ LoggerAgrees' /\ Written' /\ Opened' /\ Ordered'
  <2>1. HistoryOK' /\ Ordered' /\ Written'
    BY <1>1, <1>4, <1>9 DEF HistoryOK, Ordered, Written
  <2>2. LoggerAgrees'
    <3> HIDE DEF o
    <3>1. \A n \in Names \ logger'.open : history'.rows[n] = <<>>
      BY <1>7, <1>9
    <3>2. Code'.delay = d
      BY <1>7
    <3> HIDE DEF d
    <3>3. QED
      BY <1>9, <3>1, <3>2 DEF LoggerAgrees
  <2>3. Opened'
    BY <1>4, <1>5, <1>9 DEF Opened
  <2>4. QED
    BY <2>1, <2>2, <2>3
<1>10. CASE /\ c = "log_control" /\ logger' = LogSafetyControllerData(logger)
            /\ history' = [history EXCEPT !.controller = TRUE]
  <2> HIDE DEF d, o
  <2>1. /\ logger' = Logger(d, history', o) /\ history' \in Histories
    <3>1. /\ history' = ControllerAsked(history)
          /\ logger' = LogSafetyControllerData(Logger(d, history, o))
      BY <1>7, <1>10 DEF ControllerAsked
    <3>2. QED
      BY <1>7, <3>1, Registering
  <2>2. /\ logger'.open = o /\ history'.rows = history.rows /\ history'.data = history.data
    BY <1>7, <1>10, <2>1 DEF Logger, Histories
  <2>3. HistoryOK' /\ LoggerAgrees' /\ Written' /\ Opened' /\ Ordered'
    BY <1>7, <1>9, <2>1, <2>2
  <2>4. Older'
    <3>1. \A n \in Names : history'.rows[n] = <<>>
      BY <1>4, <1>10, <2>2 DEF Opened
    <3>2. Live' \subseteq Names
      <4>1. HistoryOK' => Live' \subseteq Names
        BY FilesFinite DEF HistoryOK, Histories, Live, Files
      <4>2. QED
        BY <2>3, <4>1
    <3>3. QED
      BY <3>1, <3>2 DEF Older
  <2>5. QED
    BY <2>3, <2>4
<1>11. CASE \E n \in DOMAIN LogCalls :
              /\ c = LogCalls[n] /\ logger' = LogExternalData(logger, n)
              /\ history' = [history EXCEPT !.data = @ \cup {n}]
  <2>1. PICK n \in DOMAIN LogCalls :
              /\ c = LogCalls[n] /\ logger' = LogExternalData(logger, n)
              /\ history' = [history EXCEPT !.data = @ \cup {n}]
    BY <1>11
  <2>2. /\ c \in {"log_robot", "log_data", "log_more"} /\ n \in Files /\ n \in Names
        /\ \A m \in DOMAIN LogCalls : c = LogCalls[m] => m = n
    BY <2>1, FilesFinite DEF LogCalls, Files
  <2>3. n \notin o
    BY <1>4, <2>1, <2>2 DEF Opened
  <2>4. history.rows[n] = <<>>
    BY <1>7, <2>2, <2>3
  <2> HIDE DEF d, o
  <2>5. logger' = Logger(d, history', o \cup {n}) /\ history' \in Histories
    <3>1. history' = AskedFor(history, n) /\ logger' = LogExternalData(Logger(d, history, o), n)
      BY <1>7, <2>1 DEF AskedFor
    <3>2. n \in Names \ o
      BY <2>2, <2>3
    <3>3. /\ LogExternalData(Logger(d, history, o), n) = Logger(d, AskedFor(history, n), o \cup {n})
          /\ AskedFor(history, n) \in Histories
      BY <1>7, <2>4, <3>2, Registering
    <3>4. QED
      BY <3>1, <3>3, Zenon
  <2>6. /\ logger'.open = o \cup {n} /\ history'.rows = history.rows
        /\ history'.data = history.data \cup {n} /\ history'.controller = history.controller
    <3>1. logger'.open = o \cup {n}
      BY <2>5 DEF Logger
    <3>2. QED
      BY <1>7, <2>1, <3>1 DEF Histories
  <2>7. HistoryOK' /\ LoggerAgrees' /\ Written' /\ Opened' /\ Ordered'
    BY <1>7, <1>9, <2>1, <2>2, <2>5, <2>6
  <2>8. Older'
    <3>1. Live' = Live \cup {n} /\ Len(history.rows[n]) = 0
      BY <2>4, <2>6 DEF Live
    <3>2. c # "reset"
      BY <2>2
    <3>3. QED
      BY <1>1, <1>6, <1>8, <2>6, <3>1, <3>2 DEF Older
  <2>9. QED
    BY <2>7, <2>8
<1>12. CASE /\ c = "reset" /\ logger' = Reset(logger)
            /\ history' = [history EXCEPT !.controller = FALSE, !.data = {}]
  <2> HIDE DEF d, o
  <2>1. /\ logger' = Logger(d, history', o) /\ history' \in Histories
    <3>1. history' = Forgotten(history) /\ logger' = Reset(Logger(d, history, o))
      BY <1>7, <1>12 DEF Forgotten
    <3>2. QED
      BY <1>7, <3>1, Registering
  <2>2. /\ logger'.open = o /\ history'.rows = history.rows /\ history'.data = {}
        /\ history'.controller = FALSE
    BY <1>7, <1>12, <2>1 DEF Logger, Histories
  <2>3. HistoryOK' /\ LoggerAgrees' /\ Written' /\ Opened' /\ Ordered'
    BY <1>7, <1>9, <2>1, <2>2
  <2>4. Live' = {}
    BY <2>2 DEF Live
  <2>5. QED
    BY <2>3, <2>4 DEF Older
<1>13. QED
  BY <1>2, <1>10, <1>11, <1>12

\* A row more in the files of what is logged keeps them in order.
LEMMA LoggedInOrder ==
  ASSUME NEW h \in Histories, NEW names, NEW row \in Rows, NEW n \in Names, InOrder(h.rows[n]),
         n \in names => \A i \in 1 .. Len(h.rows[n]) :
            h.rows[n][i].time < row.time /\ h.rows[n][i].cycle < row.cycle
  PROVE  LET after == Logged(h, names, [m \in Names |-> row]).rows[n] IN
         /\ InOrder(after)
         /\ n \in names => \A i \in 1 .. Len(after) :
               after[i].time <= row.time /\ after[i].cycle <= row.cycle
<1> DEFINE rows == h.rows[n]
           after == Logged(h, names, [m \in Names |-> row]).rows[n]
<1>1. rows \in Seq(Rows)
  BY DEF Histories
<1>2. after = IF n \in names THEN Append(rows, row) ELSE rows
  <2>1. [m \in Names |-> row] \in [Names -> Rows]
    OBVIOUS
  <2>2. QED
    BY <2>1, LoggedFacts
<1> HIDE DEF rows, after
<1>3. CASE n \notin names
  BY <1>2, <1>3 DEF rows, after
<1>4. CASE n \in names
  <2>1. /\ Len(after) = Len(rows) + 1 /\ Len(rows) \in Nat
        /\ \A i \in 1 .. Len(rows) : after[i] = rows[i] /\ rows[i] \in Rows
        /\ after[Len(rows) + 1] = row
    BY <1>1, <1>2, <1>4
  <2>2. \A i \in 1 .. Len(rows) : rows[i].time < row.time /\ rows[i].cycle < row.cycle
    BY <1>4 DEF rows
  <2>3. InOrder(rows)
    BY DEF rows
  <2>4. \A r \in Rows : r.time \in Nat /\ r.cycle \in Nat
    BY DEF Rows
  <2>5. InOrder(after)
    <3>1. SUFFICES ASSUME NEW i \in 1 .. Len(rows) + 1, NEW j \in 1 .. Len(rows) + 1, i < j
                   PROVE  after[i].time < after[j].time /\ after[i].cycle < after[j].cycle
      BY <2>1 DEF InOrder
    <3>2. i \in 1 .. Len(rows)
      BY <2>1, <3>1
    <3>3. CASE j = Len(rows) + 1
      BY <2>1, <2>2, <3>2, <3>3
    <3>4. CASE j # Len(rows) + 1
      <4>1. j \in 1 .. Len(rows)
        BY <2>1, <3>4
      <4>2. QED
        BY <2>1, <2>3, <3>1, <3>2, <4>1 DEF InOrder
    <3>5. QED
      BY <3>3, <3>4
  <2>6. ASSUME NEW i \in 1 .. Len(after)
        PROVE  after[i].time <= row.time /\ after[i].cycle <= row.cycle
    <3>1. CASE i = Len(rows) + 1
      BY <2>1, <2>4, <3>1
    <3>2. CASE i # Len(rows) + 1
      <4>1. i \in 1 .. Len(rows)
        BY <2>1, <3>2
      <4>2. QED
        BY <2>1, <2>2, <2>4, <4>1
    <3>3. QED
      BY <3>1, <3>2
  <2>7. QED
    BY <2>5, <2>6 DEF after
<1>5. QED
  BY <1>3, <1>4

\* A row goes to each file of what is logged, later and of another cycle than those there.
LEMMA FilesLog ==
  ASSUME TypeOK, TypeOK', TodoIsTheRest, FilesInv, Log
  PROVE  FilesInv'
<1> USE DEF FilesInv
<1> DEFINE r == [time |-> time, cycle |-> cycle]
           row == [n \in Names |-> r]
           d == Code.delay
           o == logger.open
<1>1. /\ main' = Made /\ program' = program /\ time' = time /\ cycle' = cycle /\ Code' = Code
      /\ IsNext("log") /\ Makes("log")
  BY MadeMakes DEF Log, Code
<1>2. PICK items \in SUBSET Items :
         LET asked == IF history.controller THEN items ELSE {} IN
         /\ logger' = Process(logger, items, row)
         /\ history' = Logged(history, history.data \cup asked, row)
  BY DEF Log, Logged
<1> DEFINE asked == IF history.controller THEN items ELSE {}
           names == history.data \cup asked
<1>3. /\ ~GivenUp /\ ~GivenUp' /\ ~Discarding /\ Since("clock") /\ Since("compute")
      /\ main.stage \in {"setup", "cycle"} /\ main'.stage = main.stage
      /\ main.outcome = "running" /\ main'.outcome = "running"
  BY <1>1, MadeFacts, WhereLogged DEF LoggingCalls, Makes, IsNext
<1>4. /\ \A x : Past(x)' <=> Past(x) \/ x = "log"
      /\ ~Since("clock")' /\ ~Since("compute")'
  BY <1>1, <1>3, MadeFacts, MadeSince
<1>5. /\ d \in BOOLEAN /\ history \in Histories /\ o \in SUBSET Files /\ history.data \subseteq o
      /\ logger = Logger(d, history, o)
      /\ \A n \in Names \ o : history.rows[n] = <<>>
      /\ r \in Rows /\ row \in [Names -> Rows]
  BY <1>3, DelayIsBoolean DEF LoggerAgrees, HistoryOK, Rows
<1>6. /\ names \subseteq Live /\ asked \subseteq Files /\ asked \cap DOMAIN LogCalls = {}
      /\ Live \subseteq Names
  BY FilesFinite, LiveFacts DEF Live, Files
<1>7. \A n \in names : \A i \in 1 .. Len(history.rows[n]) :
         history.rows[n][i].time < r.time /\ history.rows[n][i].cycle < r.cycle
  BY <1>3, <1>6 DEF Older, Fresh
<1>8. history' = Logged(history, names, row)
  BY <1>2
<1>9. logger' = Logger(d, history', o \cup asked)
  <2> HIDE DEF d, o, row
  <2>1. Process(Logger(d, history, o), items, row)
           = Logger(d, Logged(history, names, row), o \cup asked)
    BY <1>5, Processing
  <2>2. QED
    BY <1>2, <1>5, <1>8, <2>1
<1> HIDE DEF names, asked, row, d, o, r
<1>10. /\ history' \in Histories /\ history'.data = history.data
       /\ history'.controller = history.controller
       /\ \A n \in Names : history'.rows[n] =
             IF n \in names THEN Append(history.rows[n], row[n]) ELSE history.rows[n]
  BY <1>5, <1>8, LoggedFacts
<1>11. logger'.open = o \cup asked
  BY <1>9 DEF Logger
<1>12. HistoryOK' /\ Written'
  BY <1>1, <1>3, <1>10 DEF HistoryOK, Written
<1>13. LoggerAgrees'
  <2>1. /\ o \cup asked \subseteq Files /\ history'.data \subseteq o \cup asked
        /\ names = history.data \cup asked
    BY <1>5, <1>6, <1>10 DEF names
  <2>2. \A n \in Names \ (o \cup asked) : history'.rows[n] = <<>>
    BY <1>5, <1>10, <2>1
  <2>3. Code'.delay = d
    BY <1>1 DEF d
  <2>4. QED
    BY <1>9, <1>11, <2>1, <2>2, <2>3 DEF LoggerAgrees
<1>14. Opened'
  <2>1. \A n \in DOMAIN LogCalls : n \in logger'.open => n \in logger.open
    BY <1>6, <1>11 DEF o
  <2>2. QED
    BY <1>3, <1>4, <2>1 DEF Opened
<1>15. ASSUME NEW n \in Names
       PROVE  /\ InOrder(history'.rows[n])
              /\ n \in names => \A i \in 1 .. Len(history'.rows[n]) :
                    history'.rows[n][i].time <= r.time /\ history'.rows[n][i].cycle <= r.cycle
  <2>1. InOrder(history.rows[n])
    BY DEF Ordered
  <2>2. row = [m \in Names |-> r]
    BY DEF row
  <2>3. QED
    BY <1>5, <1>7, <1>8, <2>1, <2>2, LoggedInOrder
<1>16. Ordered'
  BY <1>15 DEF Ordered
<1>17. Older'
  <2>1. Live' = Live /\ ~Fresh("clock")' /\ ~Fresh("compute")' /\ r.time = time /\ r.cycle = cycle
    BY <1>4, <1>10 DEF Live, Fresh, r
  <2>2. ASSUME NEW n \in Live, NEW i \in 1 .. Len(history'.rows[n])
        PROVE  history'.rows[n][i].cycle <= cycle /\ history'.rows[n][i].time <= time
    <3>1. CASE n \in names
      BY <1>6, <1>15, <2>1, <3>1
    <3>2. CASE n \notin names
      <4>1. history'.rows[n] = history.rows[n]
        BY <1>6, <1>10, <3>2
      <4>2. QED
        BY <1>3, <2>2, <4>1 DEF Older
    <3>3. QED
      BY <3>1, <3>2
  <2>3. QED
    BY <1>1, <2>1, <2>2 DEF Older
<1>18. QED
  BY <1>12, <1>13, <1>14, <1>16, <1>17

\* A logger begins with nothing asked for, nothing open and nothing logged.
LEMMA FilesInit == Init => FilesInv
<1> SUFFICES ASSUME Init PROVE FilesInv
  OBVIOUS
<1>1. /\ time = 0 /\ cycle = 0 /\ main.outcome = "running" /\ main.stage = "setup"
      /\ logger = NewLogger(Code.delay)
      /\ history = [controller |-> FALSE, data |-> {}, rows |-> Nothing]
  BY DEF Init, Nothing
<1>2. HistoryOK
  BY <1>1 DEF HistoryOK, Histories, Nothing
<1>3. logger = Logger(Code.delay, history, {}) /\ logger.open = {}
  <2> DEFINE d == Code.delay
  <2> HIDE DEF d
  <2>1. NewLogger(d) = Logger(d, [controller |-> FALSE, data |-> {}, rows |-> Nothing], {})
    BY DEF NewLogger, Logger, Nothing
  <2>2. QED
    BY <1>1, <2>1 DEF d, NewLogger
<1>4. \A n \in Names : history.rows[n] = <<>>
  BY <1>1 DEF Nothing
<1>5. LoggerAgrees /\ Written /\ Opened
  BY <1>1, <1>3, <1>4 DEF LoggerAgrees, Written, Opened
<1>6. Older /\ Ordered
  BY <1>1, <1>4 DEF Older, Ordered, InOrder, Live
<1>7. QED
  BY <1>2, <1>5, <1>6 DEF FilesInv

\* The invariant of the files is kept by every step.
LEMMA FilesStep == Inv /\ FilesInv /\ [Next]_vars => FilesInv'
<1> SUFFICES ASSUME Inv, FilesInv, [Next]_vars PROVE FilesInv'
  OBVIOUS
<1>1. TypeOK /\ TodoIsTheRest /\ TypeOK'
  BY TypeStep DEF Inv
<1>2. CASE Compute
  BY <1>1, <1>2, FilesCompute
<1>3. CASE UpdateClock
  BY <1>1, <1>3, FilesClock
<1>4. CASE Register
  BY <1>1, <1>4, FilesRegister
<1>5. CASE Log
  BY <1>1, <1>5, FilesLog
<1>6. CASE Return
  BY <1>1, <1>6, FilesReturn
<1>7. CASE ~Compute /\ ~UpdateClock /\ ~Register /\ ~Log /\ ~Return
  BY <1>1, <1>7, IdleSteps, FilesIdle
<1>8. QED
  BY <1>2, <1>3, <1>4, <1>5, <1>6, <1>7

\* When a program has returned, each of its files holds exactly the rows that were logged
\* under its name, in the order of their times and of different cycles: whether the rows were
\* written at once or kept by the logger until its destructor, however often the items of the
\* controller came and went, and across a reset().
THEOREM FilesHoldRows == Spec => []FilesHoldWhatWasLogged
<1>1. FilesInv => FilesHoldWhatWasLogged
  <2>1. SUFFICES ASSUME FilesInv, main.outcome = "returned"
                 PROVE  /\ logger.disk = history.rows
                        /\ \A n \in Names : \A i, j \in DOMAIN logger.disk[n] :
                              i < j => /\ logger.disk[n][i].time < logger.disk[n][j].time
                                       /\ logger.disk[n][i].cycle < logger.disk[n][j].cycle
    BY DEF FilesHoldWhatWasLogged
  <2>2. logger.disk = history.rows
    BY <2>1 DEF FilesInv, Written
  <2>3. \A n \in Names : DOMAIN history.rows[n] = 1 .. Len(history.rows[n])
    BY <2>1 DEF FilesInv, HistoryOK, Histories
  <2>4. QED
    BY <2>1, <2>2, <2>3 DEF FilesInv, Ordered, InOrder
<1>2. Init => FilesInv
  BY FilesInit
<1>3. Inv /\ FilesInv /\ [Next]_vars => FilesInv'
  BY FilesStep
<1>4. QED
  BY <1>1, <1>2, <1>3, Invariance, PTL DEF Spec
=============================================================================
