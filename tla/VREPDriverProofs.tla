------------------------- MODULE VREPDriverProofs -------------------------
(***************************************************************************)
(* For any number of joints, any velocities and whatever is read when the  *)
(* connection breaks, the simulator only ever has the targets of one whole *)
(* command, and the commands lead on from where the robot stood.           *)
(*                                                                         *)
(* The argument: as long as the connection holds, init() finds the joints  *)
(* at Home, so that the target of the driver is Home plus every velocity   *)
(* sent; the messages that wait are those of one command except between    *)
(* simxPauseCommunication(true) and (false), when none leaves.             *)
(*                                                                         *)
(* In synchronous mode, moreover, the simulator never is more than one     *)
(* command behind what was sent: no step of it takes a joint further than  *)
(* two commands, and the controller computes with joints one command old.  *)
(***************************************************************************)
EXTENDS VREPDriver, TLAPS

None == \A j \in Joints : outbox[j] = NoCommand
AllOf(c) == \A j \in Joints : outbox[j] = Command(c[j])

\* Cycles are counted in phase "run", and there are at most MaxCycles.
CyclesBounded ==
    /\ phase = "init" => time = 0 /\ pc \notin {"loop", "compute", "send", "put", "sent"}
    /\ pc \in {"start", "init"} => phase = "init"
    /\ phase = "run" /\ pc \notin {"loop", "stop", "ended"} => time < MaxCycles

\* Before the first command everything is at Home, and what was read of it too.
AtHome ==
    phase = "init" =>
        /\ simTarget = Home /\ simPosition = Home /\ inbox = Home /\ expected = Home
        /\ None
        /\ connected /\ pc = "position" =>
              \A j \in 1 .. joint - 1 : jointCurrentPosition[j] = Home[j]
        /\ connected /\ pc = "decide" => jointCurrentPosition = Home

\* The target of the driver is where its velocities lead.
TargetExpected == connected /\ phase = "run" => jointTargetPosition = expected

PausedWhileSending == paused <=> pc \in {"put", "sent"}

\* What waits to be sent.
OutboxWhole ==
    connected =>
        /\ ~paused => None \/ \E c \in commands : AllOf(c)
        /\ pc = "put" => \A j \in 1 .. joint - 1 : outbox[j] = Command(expected[j])
        /\ pc = "sent" => AllOf(expected)

Recorded == expected \in commands

Inv == /\ TypeOK /\ CyclesBounded /\ AtHome /\ TargetExpected /\ PausedWhileSending
       /\ OutboxWhole /\ Recorded /\ CommandsComeWhole

-----------------------------------------------------------------------------
(* Types                                                                    *)

\* The first joint is one, and every joint before another one too.
LEMMA JointFacts ==
  /\ 1 \in Joints
  /\ \A j \in Joints : j < JointCount => j + 1 \in Joints
  /\ Joints \subseteq Nat
BY DriverAssumption DEF Joints

\* A message from the simulator is one of its positions, and what it receives are
\* positions.
LEMMA ExchangedTypes ==
  ASSUME TypeOK, Exchanged
  PROVE  simTarget' \in Vectors /\ inbox' \in Vectors
         /\ outbox' \in Messages
<1>1. \A j \in Joints : ~outbox[j].none => outbox[j].position \in Int
  BY DEF TypeOK, Messages
<1>2. simTarget \in Vectors /\ simPosition \in Vectors
  BY DEF TypeOK
<1>3. QED
  BY <1>1, <1>2 DEF Exchanged, Vectors, Messages, NoCommand

\* Every step keeps the types, and the count of cycles below its bound.
LEMMA TypeStep ==
  ASSUME TypeOK, CyclesBounded, [Next]_vars
  PROVE  TypeOK' /\ CyclesBounded'
<1> USE DEF TypeOK, program, driver, robot, api, simulator, history
<1>1. CASE Start
  <2>1. TypeOK'
    BY <1>1, ExchangedTypes DEF Start
  <2>2. CyclesBounded'
    BY <1>1 DEF CyclesBounded, Start
  <2>3. QED
    BY <2>1, <2>2
<1>2. CASE InitDriver
  <2>1. TypeOK'
    BY <1>2, DriverAssumption DEF InitDriver, EnableSynchronous
  <2>2. CyclesBounded'
    BY <1>2 DEF CyclesBounded, InitDriver, EnableSynchronous
  <2>3. QED
    BY <2>1, <2>2
<1>3. CASE NextStep
  <2>1. TypeOK'
    BY <1>3, ExchangedTypes DEF NextStep, Streams
  <2>2. CyclesBounded'
    BY <1>3 DEF CyclesBounded, NextStep
  <2>3. QED
    BY <2>1, <2>2
<1>4. CASE ReadTCPVelocity
  <2>1. TypeOK'
    BY <1>4 DEF ReadTCPVelocity, Streams
  <2>2. CyclesBounded'
    BY <1>4 DEF CyclesBounded, ReadTCPVelocity
  <2>3. QED
    BY <2>1, <2>2
<1>5. CASE ReadTCPWrench
  <2>1. TypeOK'
    BY <1>5, JointFacts DEF ReadTCPWrench, Streams
  <2>2. CyclesBounded'
    BY <1>5 DEF CyclesBounded, ReadTCPWrench
  <2>3. QED
    BY <2>1, <2>2
<1>6. CASE ReadJointPosition
  <2>1. TypeOK'
    BY <1>6, JointFacts, DriverAssumption DEF ReadJointPosition, AnotherJoint, Streams, Vectors
  <2>2. CyclesBounded'
    BY <1>6 DEF CyclesBounded, ReadJointPosition, AnotherJoint
  <2>3. QED
    BY <2>1, <2>2
<1>7. CASE WaitForRobot
  <2>1. TypeOK'
    BY <1>7, DriverAssumption DEF WaitForRobot, TimeLeft, TargetAtRobot
  <2>2. CyclesBounded'
    BY <1>7 DEF CyclesBounded, WaitForRobot, TimeLeft
  <2>3. QED
    BY <2>1, <2>2
<1>8. CASE Loop
  <2>1. TypeOK'
    BY <1>8 DEF Loop
  <2>2. CyclesBounded'
    BY <1>8, DriverAssumption DEF CyclesBounded, Loop
  <2>3. QED
    BY <2>1, <2>2
<1>9. CASE Decide
  <2>1. TypeOK'
    BY <1>9 DEF Decide
  <2>2. CyclesBounded'
    BY <1>9 DEF CyclesBounded, Decide
  <2>3. QED
    BY <2>1, <2>2
<1>10. CASE Compute
  <2>1. TypeOK'
    BY <1>10, DriverAssumption DEF Compute, Vectors
  <2>2. CyclesBounded'
    BY <1>10 DEF CyclesBounded, Compute
  <2>3. QED
    BY <2>1, <2>2
<1>11. CASE Send
  <2>1. TypeOK'
    BY <1>11, JointFacts DEF Send, PauseCommunication, Vectors
  <2>2. CyclesBounded'
    BY <1>11 DEF CyclesBounded, Send, PauseCommunication
  <2>3. QED
    BY <2>1, <2>2
<1>12. CASE SendJointTargetPosition
  <2>1. TypeOK'
    BY <1>12, JointFacts DEF SendJointTargetPosition, AnotherJoint, Command, Vectors, Messages
  <2>2. CyclesBounded'
    BY <1>12 DEF CyclesBounded, SendJointTargetPosition, AnotherJoint, Command
  <2>3. QED
    BY <2>1, <2>2
<1>13. CASE Sent
  <2>1. TypeOK'
    <3>1. time' \in 0 .. MaxCycles
      BY <1>13, DriverAssumption DEF Sent, CyclesBounded
    <3>2. QED
      BY <1>13, <3>1 DEF Sent
  <2>2. CyclesBounded'
    BY <1>13, DriverAssumption DEF CyclesBounded, Sent
  <2>3. QED
    BY <2>1, <2>2
<1>14. CASE Stop
  <2>1. TypeOK'
    BY <1>14 DEF Stop, EnableSynchronous
  <2>2. CyclesBounded'
    BY <1>14 DEF CyclesBounded, Stop, EnableSynchronous
  <2>3. QED
    BY <2>1, <2>2
<1>15. CASE Exchange
  <2>1. TypeOK'
    BY <1>15, ExchangedTypes DEF Exchange
  <2>2. CyclesBounded'
    BY <1>15 DEF CyclesBounded, Exchange
  <2>3. QED
    BY <2>1, <2>2
<1>16. CASE ConnectionLost
  <2>1. TypeOK'
    BY <1>16 DEF ConnectionLost
  <2>2. CyclesBounded'
    BY <1>16 DEF CyclesBounded, ConnectionLost
  <2>3. QED
    BY <2>1, <2>2
<1>17. CASE Simulate
  <2>1. TypeOK'
    <3>1. steps' \in Nat
      BY <1>17 DEF Simulate
    <3>2. QED
      BY <1>17, <3>1 DEF Simulate
  <2>2. CyclesBounded'
    BY <1>17 DEF CyclesBounded, Simulate
  <2>3. QED
    BY <2>1, <2>2
<1>18. CASE Interrupt
  <2>1. TypeOK'
    BY <1>18 DEF Interrupt
  <2>2. CyclesBounded'
    BY <1>18 DEF CyclesBounded, Interrupt
  <2>3. QED
    BY <2>1, <2>2
<1>19. CASE UNCHANGED vars
  <2>1. TypeOK'
    BY <1>19 DEF vars
  <2>2. CyclesBounded'
    BY <1>19 DEF CyclesBounded, vars
  <2>3. QED
    BY <2>1, <2>2
<1>20. QED
  BY <1>1, <1>2, <1>3, <1>4, <1>5, <1>6, <1>7, <1>8, <1>9, <1>10, <1>11, <1>12,
     <1>13, <1>14, <1>15, <1>16, <1>17, <1>18, <1>19 DEF Next, Program

-----------------------------------------------------------------------------
(* Messages                                                                 *)

\* A message without commands leaves the targets alone, and afterwards none wait.
LEMMA ExchangedNone ==
  ASSUME TypeOK, None, Exchanged
  PROVE  simTarget' = simTarget /\ None'
<1>1. simTarget \in Vectors
  BY DEF TypeOK
<1>2. \A j \in Joints : outbox[j].none
  BY DEF None, NoCommand
<1>3. None'
  BY DEF Exchanged, None
<1>4. QED
  BY <1>1, <1>2, <1>3 DEF Exchanged, Vectors

\* A message with the commands of all joints makes them the targets.
LEMMA ExchangedWhole ==
  ASSUME TypeOK, NEW c \in Vectors, AllOf(c), Exchanged
  PROVE  simTarget' = c /\ None'
<1>1. \A j \in Joints : ~outbox[j].none /\ outbox[j].position = c[j]
  <2> TAKE j \in Joints
  <2>1. outbox[j] = [none |-> FALSE, position |-> c[j]]
    BY DEF AllOf, Command
  <2>2. QED
    BY <2>1
<1>2. None'
  BY DEF Exchanged, None
<1>3. QED
  BY <1>1, <1>2 DEF Exchanged, Vectors

\* What leaves while nothing is paused is whole.
LEMMA ExchangedCommands ==
  ASSUME Inv, connected, ~paused, Exchanged
  PROVE  simTarget' \in commands /\ None'
<1>1. CASE None
  BY <1>1, ExchangedNone DEF Inv, CommandsComeWhole
<1>2. CASE \E c \in commands : AllOf(c)
  <2>1. PICK c \in commands : AllOf(c)
    BY <1>2
  <2>2. c \in Vectors
    BY DEF Inv, TypeOK
  <2>3. QED
    BY <2>1, <2>2, ExchangedWhole DEF Inv
<1>3. QED
  BY <1>1, <1>2 DEF Inv, OutboxWhole

-----------------------------------------------------------------------------
(* The parts of the invariant                                               *)

\* The program holds messages back exactly while it is sending.
LEMMA PausedStep ==
  ASSUME Inv, [Next]_vars
  PROVE  PausedWhileSending'
<1> USE DEF Inv, PausedWhileSending, program, driver, robot, api, simulator, history
<1>1. CASE Start \/ InitDriver \/ NextStep \/ ReadTCPVelocity \/ ReadTCPWrench
  BY <1>1 DEF Start, InitDriver, NextStep, ReadTCPVelocity, ReadTCPWrench
<1>2. CASE ReadJointPosition
  BY <1>2 DEF ReadJointPosition
<1>3. CASE WaitForRobot
  BY <1>3 DEF WaitForRobot
<1>4. CASE Loop \/ Decide
  BY <1>4 DEF Loop, Decide
<1>5. CASE Compute
  BY <1>5 DEF Compute
<1>6. CASE Stop
  BY <1>6 DEF Stop
<1>7. CASE Send \/ Sent
  BY <1>7 DEF Send, PauseCommunication, Sent
<1>8. CASE SendJointTargetPosition
  BY <1>8 DEF SendJointTargetPosition
<1>9. CASE Exchange \/ ConnectionLost \/ Simulate \/ Interrupt \/ UNCHANGED vars
  BY <1>9 DEF Exchange, ConnectionLost, Simulate, Interrupt, vars
<1>10. QED
  BY <1>1, <1>2, <1>3, <1>4, <1>5, <1>6, <1>7, <1>8, <1>9 DEF Next, Program

\* Until init() succeeds nothing moves, and what is read is Home.
LEMMA AtHomeStep ==
  ASSUME Inv, [Next]_vars, TypeOK'
  PROVE  AtHome'
<1> USE DEF Inv, AtHome, CyclesBounded, None,
        program, driver, robot, api, simulator, history
<1>1. CASE InitDriver \/ ReadTCPVelocity \/ WaitForRobot \/ Loop \/ Decide \/ Compute \/
         Send \/ SendJointTargetPosition \/ Sent \/ Stop \/ ConnectionLost \/ Simulate
         \/ Interrupt \/ UNCHANGED vars
  BY <1>1 DEF InitDriver, ReadTCPVelocity, WaitForRobot, Loop, Decide, Compute, Send,
     SendJointTargetPosition, Sent, Stop, ConnectionLost, Simulate, Interrupt, vars
<1>2. CASE Start
  BY <1>2, ExchangedNone DEF Start, Exchanged
<1>3. CASE NextStep
  BY <1>3, ExchangedNone DEF NextStep, Exchanged
<1>4. CASE Exchange
  BY <1>4, ExchangedNone DEF Exchange, Exchanged
<1>5. CASE ReadTCPWrench
  BY <1>5 DEF ReadTCPWrench
<1>6. CASE ReadJointPosition
  <2> SUFFICES ASSUME phase = "init"
               PROVE  AtHome'
    BY <1>6 DEF ReadJointPosition
  <2>1. ASSUME connected
        PROVE  \A j \in 1 .. joint : jointCurrentPosition'[j] = Home[j]
    <3>1. jointCurrentPosition' = [jointCurrentPosition EXCEPT ![joint] = Home[joint]]
      BY <1>6, <2>1 DEF ReadJointPosition
    <3>2. \A j \in 1 .. joint - 1 : jointCurrentPosition[j] = Home[j]
      BY <1>6, <2>1 DEF ReadJointPosition
    <3>3. joint \in Joints /\ jointCurrentPosition \in Vectors
      BY DEF TypeOK
    <3>4. QED
      BY <3>1, <3>2, <3>3, DriverAssumption DEF Vectors, Joints
  <2>2. joint \in Joints /\ jointCurrentPosition' \in Vectors
    BY DEF TypeOK
  <2>3. CASE AnotherJoint
    BY <1>6, <2>1, <2>2, <2>3 DEF ReadJointPosition, Joints
  <2>4. CASE ~AnotherJoint
    <3>1. joint = JointCount
      BY <2>2, <2>4, DriverAssumption DEF AnotherJoint, Joints
    <3>2. connected => jointCurrentPosition' = Home
      BY <2>1, <2>2, <3>1, DriverAssumption DEF Vectors, Joints
    <3>3. QED
      BY <1>6, <2>4, <3>2 DEF ReadJointPosition
  <2>5. QED
    BY <2>3, <2>4
<1>7. QED
  BY <1>1, <1>2, <1>3, <1>4, <1>5, <1>6 DEF Next, Program

\* The target of the driver starts at Home and moves with the velocities.
LEMMA TargetStep ==
  ASSUME Inv, [Next]_vars
  PROVE  TargetExpected'
<1> USE DEF Inv, TargetExpected, program, driver, robot, api, simulator, history
<1>1. CASE Start \/ InitDriver \/ NextStep \/ ReadTCPVelocity \/ ReadTCPWrench \/
         ReadJointPosition \/ Loop \/ Decide \/ Compute \/ SendJointTargetPosition \/
         Sent \/ Stop \/ Exchange \/ ConnectionLost \/ Simulate \/ Interrupt \/
         UNCHANGED vars
  BY <1>1 DEF Start, InitDriver, NextStep, ReadTCPVelocity, ReadTCPWrench,
     ReadJointPosition, Loop, Decide, Compute, SendJointTargetPosition, Sent, Stop,
     Exchange, ConnectionLost, Simulate, Interrupt, vars
<1>2. CASE WaitForRobot
  BY <1>2 DEF WaitForRobot, TargetAtRobot, AtHome
<1>3. CASE Send
  BY <1>3 DEF Send
<1>4. QED
  BY <1>1, <1>2, <1>3 DEF Next, Program

\* Commands are put one by one while messages are held back, and are whole after.
LEMMA OutboxStep ==
  ASSUME Inv, [Next]_vars, PausedWhileSending'
  PROVE  OutboxWhole'
<1> USE DEF Inv, OutboxWhole, PausedWhileSending, AllOf, None,
        program, driver, robot, api, simulator, history
<1>1. CASE InitDriver \/ ReadTCPVelocity \/ ReadTCPWrench \/ ReadJointPosition \/
         WaitForRobot \/ Loop \/ Decide \/ Compute \/ Stop \/ ConnectionLost \/ Simulate
         \/ Interrupt \/ UNCHANGED vars
  BY <1>1 DEF InitDriver, ReadTCPVelocity, ReadTCPWrench, ReadJointPosition,
     WaitForRobot, Loop, Decide, Compute, Stop, ConnectionLost, Simulate, Interrupt,
     vars
<1>2. CASE Start
  BY <1>2, ExchangedCommands DEF Start
<1>3. CASE NextStep
  BY <1>3, ExchangedCommands DEF NextStep
<1>4. CASE Exchange
  BY <1>4, ExchangedCommands DEF Exchange
<1>5. CASE Send
  BY <1>5 DEF Send
<1>6. CASE Sent
  BY <1>6 DEF Sent, Recorded
<1>7. CASE SendJointTargetPosition
  <2> SUFFICES ASSUME connected
               PROVE  OutboxWhole'
    BY <1>7 DEF SendJointTargetPosition
  <2>1. paused' /\ joint \in Joints
    BY <1>7 DEF SendJointTargetPosition, TypeOK
  <2>2. jointTargetPosition = expected
    BY <1>7 DEF SendJointTargetPosition, CyclesBounded, TargetExpected, TypeOK
  <2>3. \A j \in 1 .. joint : outbox'[j] = Command(expected[j])
    BY <1>7, <2>1, <2>2, DriverAssumption DEF SendJointTargetPosition, TypeOK, Messages, Joints
  <2>4. CASE AnotherJoint
    BY <1>7, <2>1, <2>3, <2>4 DEF SendJointTargetPosition, Joints
  <2>5. CASE ~AnotherJoint
    <3>1. joint = JointCount
      BY <2>1, <2>5, DriverAssumption DEF AnotherJoint, Joints
    <3>2. QED
      BY <1>7, <2>1, <2>3, <2>5, <3>1 DEF SendJointTargetPosition, Joints
  <2>6. QED
    BY <2>4, <2>5
<1>8. QED
  BY <1>1, <1>2, <1>3, <1>4, <1>5, <1>6, <1>7 DEF Next, Program

\* The simulator takes whole commands, and every command sent is recorded.
LEMMA CommandsStep ==
  ASSUME Inv, [Next]_vars
  PROVE  Recorded' /\ CommandsComeWhole'
<1> USE DEF Inv, Recorded, CommandsComeWhole, PausedWhileSending,
        program, driver, robot, api, simulator, history
<1>1. CASE InitDriver \/ ReadTCPVelocity \/ ReadTCPWrench \/ ReadJointPosition \/
         WaitForRobot \/ Loop \/ Decide \/ Compute \/ Send \/ SendJointTargetPosition \/
         Sent \/ Stop \/ ConnectionLost \/ Simulate \/ Interrupt \/ UNCHANGED vars
  BY <1>1 DEF InitDriver, ReadTCPVelocity, ReadTCPWrench, ReadJointPosition,
     WaitForRobot, Loop, Decide, Compute, Send, SendJointTargetPosition, Sent, Stop,
     ConnectionLost, Simulate, Interrupt, vars
<1>2. CASE Start
  BY <1>2, ExchangedCommands DEF Start
<1>3. CASE NextStep
  BY <1>3, ExchangedCommands DEF NextStep
<1>4. CASE Exchange
  BY <1>4, ExchangedCommands DEF Exchange
<1>5. QED
  BY <1>1, <1>2, <1>3, <1>4 DEF Next, Program

-----------------------------------------------------------------------------
(* Theorems                                                                 *)

\* The invariant: Init establishes it and every step keeps it.
THEOREM InvHolds == Spec => []Inv
<1>1. Init => Inv
  <2> SUFFICES ASSUME Init
               PROVE  Inv
    OBVIOUS
  <2>1. TypeOK
    <3>1. /\ Home \in Vectors /\ [j \in Joints |-> 0] \in Vectors
          /\ [j \in Joints |-> NoCommand] \in Messages
      BY DriverAssumption DEF Vectors, Messages, NoCommand
    <3>2. 1 \in Joints /\ 0 \in 0 .. Timeout /\ 0 \in 0 .. MaxCycles
      BY JointFacts, DriverAssumption
    <3>3. QED
      BY <3>1, <3>2 DEF Init, TypeOK
  <2>2. CyclesBounded /\ AtHome /\ TargetExpected /\ PausedWhileSending
    BY DEF Init, CyclesBounded, AtHome, None, TargetExpected, PausedWhileSending
  <2>3. OutboxWhole /\ Recorded /\ CommandsComeWhole
    BY DEF Init, OutboxWhole, None, Recorded, CommandsComeWhole
  <2>4. QED
    BY <2>1, <2>2, <2>3 DEF Inv
<1>2. Inv /\ [Next]_vars => Inv'
  <2> SUFFICES ASSUME Inv, [Next]_vars
               PROVE  Inv'
    OBVIOUS
  <2>1. TypeOK' /\ CyclesBounded'
    BY TypeStep DEF Inv
  <2>2. AtHome' /\ TargetExpected' /\ PausedWhileSending'
    BY <2>1, AtHomeStep, TargetStep, PausedStep
  <2>3. OutboxWhole' /\ Recorded' /\ CommandsComeWhole'
    BY <2>2, OutboxStep, CommandsStep
  <2>4. QED
    BY <2>1, <2>2, <2>3 DEF Inv
<1>3. QED
  BY <1>1, <1>2, PTL DEF Spec

\* Type correctness: no loop over the joints leaves them, no cycle is beyond the bound.
THEOREM TypeCorrect == Spec => []TypeOK
<1>1. Inv => TypeOK
  BY DEF Inv
<1>2. QED
  BY <1>1, InvHolds, PTL

\* The simulator's targets are those of one whole command that leads on from where
\* the robot stood.
THEOREM CommandsAlwaysWhole == Spec => []CommandsComeWhole
<1>1. Inv => CommandsComeWhole
  BY DEF Inv
<1>2. QED
  BY <1>1, InvHolds, PTL

-----------------------------------------------------------------------------
(* In synchronous mode the simulator is one command behind.                 *)
(*                                                                          *)
(* nextStep() waits for the step before, so that its message takes along    *)
(* the command of the last send() and every position before it.  The step   *)
(* it asks for may be made before the next send(), or after that command    *)
(* has arrived: what the simulator moves to, and what is read of it, is     *)
(* never more than the one command behind that is under way.                *)

Reading == {"velocity", "wrench", "position", "decide"}

OneCommand == Velocities \union {0}
Behind(p, c) == \A j \in Joints : c[j] - p[j] \in OneCommand

\* Where the driver's velocities led before the last send().
Before == [j \in Joints |-> expected[j] - jointVelocity[j]]

VelocityAllowed ==
    /\ \A j \in Joints : jointVelocity[j] \in OneCommand
    /\ phase = "init" => \A j \in Joints : jointVelocity[j] = 0

\* With a connection the simulator runs; a program that reads has made it synchronous,
\* and stop() ends that.
SimulatorReady ==
    /\ connected /\ pc \notin {"start", "ended"} => running
    /\ /\ sync_mode_ /\ pc \notin {"start", "init"}
       /\ connected \/ phase = "run" \/ (all_ok /\ pc \in Reading)
       => simSync
    /\ pc = "ended" => ~sync_mode_

\* The last command is the simulator's target.
Arrived ==
    /\ simTarget = expected /\ None
    /\ Behind(simPosition, expected)
    /\ ~triggered => simPosition = expected

\* The last command is held back while it is put together.
Waiting ==
    /\ simTarget = Before
    /\ triggered => Behind(simPosition, Before)
    /\ ~triggered => simPosition = Before

\* The last command leaves with a message of the communication thread.
OnTheWay ==
    /\ \/ simTarget = Before /\ AllOf(expected)
       \/ simTarget = expected /\ None
    /\ triggered => Behind(simPosition, Before)
    /\ ~triggered => simPosition \in {Before, expected}

CommandBehind ==
    sync_mode_ /\ phase = "run" =>
        /\ connected /\ pc \in Reading \union {"compute", "send"} => Arrived
        /\ connected /\ pc \in {"put", "sent"} => Waiting
        /\ connected /\ pc \in {"loop", "read"} => OnTheWay
        /\ connected /\ pc = "stop" => Arrived \/ OnTheWay
        /\ triggered => \A j \in Joints : simTarget[j] - simPosition[j] \in TwoCommands

\* What read() finds is what the simulator had reached, as long as it is connected.
ReadingBehind ==
    sync_mode_ /\ phase = "run" =>
        /\ connected /\ pc \in Reading => Behind(inbox, expected)
        /\ "position" \in got =>
              /\ pc = "position" =>
                    \A j \in 1 .. joint - 1 :
                        expected[j] - jointCurrentPosition[j] \in OneCommand
              /\ pc \in {"decide", "compute"} => Behind(jointCurrentPosition, expected)

LagInv == VelocityAllowed /\ SimulatorReady /\ CommandBehind /\ ReadingBehind

\* The velocity of a joint is one that was computed.
LEMMA VelocityStep ==
  ASSUME Inv, VelocityAllowed, [Next]_vars
  PROVE  VelocityAllowed'
<1> USE DEF VelocityAllowed, OneCommand, program, driver, robot, api, simulator, history
<1>1. CASE Compute
  BY <1>1 DEF Compute, Inv, CyclesBounded
<1>2. CASE Start \/ InitDriver \/ NextStep \/ ReadTCPVelocity \/ ReadTCPWrench \/
         ReadJointPosition \/ Loop \/ Decide \/ Send \/ SendJointTargetPosition
  BY <1>2 DEF Start, InitDriver, NextStep, ReadTCPVelocity, ReadTCPWrench,
     ReadJointPosition, Loop, Decide, Send, SendJointTargetPosition
<1>3. CASE WaitForRobot \/ Sent \/ Stop \/ Exchange \/ ConnectionLost \/ Simulate \/
         Interrupt \/ UNCHANGED vars
  BY <1>3 DEF WaitForRobot, Sent, Stop, Exchange, ConnectionLost, Simulate, Interrupt,
     vars
<1>4. QED
  BY <1>1, <1>2, <1>3 DEF Next, Program

\* init() makes the simulator synchronous, and stop() ends both.
LEMMA SimulatorStep ==
  ASSUME Inv, SimulatorReady, [Next]_vars
  PROVE  SimulatorReady'
<1> USE DEF SimulatorReady, Reading, program, driver, robot, api, simulator, history
<1>1. CASE Start
  BY <1>1 DEF Start
<1>2. CASE InitDriver
  BY <1>2 DEF InitDriver, EnableSynchronous, Inv, CyclesBounded
<1>3. CASE NextStep
  BY <1>3 DEF NextStep
<1>4. CASE ReadTCPVelocity \/ ReadTCPWrench
  BY <1>4 DEF ReadTCPVelocity, ReadTCPWrench, Inv, TypeOK
<1>5. CASE ReadJointPosition
  BY <1>5 DEF ReadJointPosition
<1>6. CASE WaitForRobot
  BY <1>6 DEF WaitForRobot
<1>7. CASE Loop \/ Decide \/ Compute \/ Send \/ SendJointTargetPosition \/ Sent
  BY <1>7 DEF Loop, Decide, Compute, Send, SendJointTargetPosition, Sent
<1>8. CASE Stop
  BY <1>8 DEF Stop, EnableSynchronous
<1>9. CASE Exchange \/ ConnectionLost \/ Simulate \/ Interrupt \/ UNCHANGED vars
  BY <1>9 DEF Exchange, ConnectionLost, Simulate, Interrupt, vars
<1>10. QED
  BY <1>1, <1>2, <1>3, <1>4, <1>5, <1>6, <1>7, <1>8, <1>9 DEF Next, Program

\* One command is a case of two, and so is one after another.
LEMMA TwoCommandsFacts ==
  /\ 0 \in OneCommand /\ OneCommand \subseteq TwoCommands /\ OneCommand \subseteq Int
  /\ \A v, w \in OneCommand : v + w \in TwoCommands
<1>1. 0 \in OneCommand /\ OneCommand \subseteq Int
  BY DriverAssumption DEF OneCommand
<1>2. \A v, w \in OneCommand : v + w \in TwoCommands
  BY DEF OneCommand, TwoCommands
<1>3. \A v \in OneCommand : v + 0 = v
  BY <1>1
<1>4. QED
  BY <1>1, <1>2, <1>3

\* The command before the last one is one command behind it.
LEMMA BeforeFacts ==
  ASSUME TypeOK, VelocityAllowed
  PROVE  /\ Before \in Vectors /\ Behind(Before, expected) /\ Behind(expected, expected)
         /\ Behind(Before, Before)
         /\ \A p \in Vectors : Behind(p, Before) =>
               \A j \in Joints : expected[j] - p[j] \in TwoCommands
<1>1. expected \in [Joints -> Int] /\ jointVelocity \in [Joints -> Int]
  BY DEF TypeOK, Vectors
<1>2. Before \in Vectors /\ \A j \in Joints : Before[j] = expected[j] - jointVelocity[j]
  BY <1>1 DEF Before, Vectors
<1>3. \A j \in Joints : jointVelocity[j] \in OneCommand
  BY DEF VelocityAllowed
<1>4. Behind(Before, expected)
  <2>1. \A j \in Joints : expected[j] - Before[j] = jointVelocity[j]
    BY <1>1, <1>2
  <2>2. QED
    BY <2>1, <1>3 DEF Behind
<1>5. Behind(expected, expected) /\ Behind(Before, Before)
  <2>1. \A j \in Joints : expected[j] - expected[j] = 0 /\ Before[j] - Before[j] = 0
    BY <1>1, <1>2
  <2>2. QED
    BY <2>1, TwoCommandsFacts DEF Behind
<1>6. ASSUME NEW p \in Vectors, Behind(p, Before), NEW j \in Joints
      PROVE  expected[j] - p[j] \in TwoCommands
  <2>1. Before[j] - p[j] \in OneCommand /\ jointVelocity[j] \in OneCommand
    BY <1>3, <1>6 DEF Behind
  <2>2. expected[j] - p[j] = (Before[j] - p[j]) + jointVelocity[j]
    BY <1>1, <1>2, <1>6 DEF Vectors
  <2>3. QED
    BY <2>1, <2>2, TwoCommandsFacts
<1>7. QED
  BY <1>2, <1>4, <1>5, <1>6

\* While commands wait, every message makes the simulator's target the last command.
LEMMA ExchangedOnTheWay ==
  ASSUME Inv, VelocityAllowed, OnTheWay, Exchanged
  PROVE  simTarget' = expected /\ None'
<1>1. TypeOK /\ expected \in Vectors
  BY DEF Inv, TypeOK
<1>2. CASE AllOf(expected)
  BY <1>1, <1>2, ExchangedWhole
<1>3. CASE simTarget = expected /\ None
  BY <1>1, <1>3, ExchangedNone
<1>4. QED
  BY <1>2, <1>3 DEF OnTheWay

\* A message moves no joint and leaves the last command with the simulator.
LEMMA ExchangedArrived ==
  ASSUME Inv, Arrived, Exchanged
  PROVE  simTarget' = expected /\ None'
BY ExchangedNone DEF Inv, Arrived

\* At the end of a step the joints are where their targets were, one or two commands on.
LEMMA CommandStep ==
  ASSUME Inv, LagInv, [Next]_vars
  PROVE  CommandBehind'
<1> USE DEF LagInv, Reading, program, driver, robot, api, simulator, history
<1>1. /\ TypeOK /\ simTarget \in Vectors /\ simPosition \in Vectors /\ expected \in Vectors
      /\ jointVelocity \in Vectors
  BY DEF Inv, TypeOK
<1> DEFINE Synchronous == sync_mode_ /\ phase = "run"
           Short == \A j \in Joints : simTarget[j] - simPosition[j] \in TwoCommands
<1>2. /\ Arrived => Short
      /\ Waiting => Short
      /\ OnTheWay /\ triggered => Short
  <2>1. Behind(simPosition, expected) => \A j \in Joints : expected[j] - simPosition[j] \in TwoCommands
    BY TwoCommandsFacts DEF Behind
  <2>2. Behind(simPosition, Before) =>
           \A j \in Joints : Before[j] - simPosition[j] \in TwoCommands /\ expected[j] - simPosition[j] \in TwoCommands
    BY <1>1, TwoCommandsFacts, BeforeFacts DEF Behind
  <2>3. simPosition = Before => \A j \in Joints : Before[j] - simPosition[j] \in TwoCommands
    <3>1. \A j \in Joints : Before[j] - Before[j] \in OneCommand
      BY <1>1, BeforeFacts DEF Behind
    <3>2. QED
      BY <3>1, TwoCommandsFacts
  <2>4. QED
    BY <2>1, <2>2, <2>3 DEF Arrived, Waiting, OnTheWay
<1>3. CASE Start \/ InitDriver
  BY <1>3 DEF Start, InitDriver, CommandBehind, Inv, CyclesBounded
<1>4. CASE NextStep
  <2> SUFFICES ASSUME Synchronous
               PROVE  CommandBehind'
    BY <1>4 DEF NextStep, CommandBehind
  <2>1. CASE connected
    <3>1. OnTheWay /\ Exchanged /\ ~triggered
      BY <1>4, <2>1 DEF NextStep, CommandBehind
    <3>2. simTarget' = expected /\ None'
      BY <3>1, ExchangedOnTheWay
    <3>3. Behind(simPosition, expected)
      BY <1>1, <3>1, BeforeFacts DEF OnTheWay
    <3>4. triggered'
      BY <1>4, <2>1 DEF NextStep, SimulatorReady
    <3>5. Arrived'
      BY <1>4, <3>2, <3>3, <3>4 DEF NextStep, Arrived, Behind
    <3>6. \A j \in Joints : simTarget'[j] - simPosition'[j] \in TwoCommands
      BY <1>4, <3>2, <3>3, TwoCommandsFacts DEF NextStep, Behind
    <3>7. QED
      BY <1>4, <3>5, <3>6 DEF NextStep, CommandBehind
  <2>2. CASE ~connected
    BY <1>4, <2>2 DEF NextStep, CommandBehind
  <2>3. QED
    BY <2>1, <2>2
<1>5. CASE ReadTCPVelocity
  BY <1>5 DEF ReadTCPVelocity, CommandBehind, Arrived, None
<1>6. CASE ReadTCPWrench
  BY <1>6 DEF ReadTCPWrench, CommandBehind, Arrived, None
<1>7. CASE ReadJointPosition
  BY <1>7 DEF ReadJointPosition, CommandBehind, Arrived, None
<1>8. CASE WaitForRobot
  <2> SUFFICES ASSUME phase' = "run", sync_mode_
               PROVE  CommandBehind'
    BY <1>8 DEF WaitForRobot, CommandBehind
  <2>1. phase = "init" /\ pc' = "loop"
    BY <1>8 DEF WaitForRobot
  <2>2. simTarget = expected /\ simPosition = expected /\ None
    BY <2>1 DEF Inv, AtHome
  <2>3. Before = expected
    <3>1. \A j \in Joints : expected[j] - jointVelocity[j] = expected[j]
      BY <1>1, <2>1 DEF VelocityAllowed, Vectors
    <3>2. QED
      BY <1>1, <3>1 DEF Before, Vectors
  <2>4. OnTheWay /\ Short
    BY <1>1, <2>2, <2>3, BeforeFacts, TwoCommandsFacts DEF OnTheWay, Behind
  <2>5. OnTheWay' /\ Short'
    BY <1>8, <2>4 DEF WaitForRobot, OnTheWay, AllOf, None, Before, Behind
  <2>6. QED
    BY <1>8, <2>1, <2>5 DEF WaitForRobot, CommandBehind
<1>9. CASE Loop
  BY <1>9 DEF Loop, CommandBehind, OnTheWay, AllOf, None, Before, Behind
<1>10. CASE Decide
  BY <1>10 DEF Decide, CommandBehind, Arrived, None, Behind
<1>11. CASE Compute
  BY <1>11 DEF Compute, CommandBehind, Arrived, None, Behind
<1>12. CASE Send
  <2> SUFFICES ASSUME Synchronous
               PROVE  CommandBehind'
    BY <1>12 DEF Send, CommandBehind
  <2>1. connected => Waiting'
    <3> SUFFICES ASSUME connected
                 PROVE  Waiting'
      OBVIOUS
    <3>1. Arrived
      BY <1>12 DEF Send, CommandBehind
    <3>2. Before' = expected
      <4>1. expected' = [j \in Joints |-> expected[j] + jointVelocity[j]]
            /\ jointVelocity' = jointVelocity
        BY <1>12 DEF Send
      <4>2. \A j \in Joints : expected'[j] - jointVelocity'[j] = expected[j]
        BY <1>1, <4>1 DEF Vectors
      <4>3. QED
        BY <1>1, <4>2 DEF Before, Vectors
    <3>3. QED
      BY <1>12, <3>1, <3>2 DEF Send, Arrived, Waiting, Behind
  <2>2. QED
    BY <1>12, <2>1 DEF Send, CommandBehind
<1>13. CASE SendJointTargetPosition
  BY <1>13 DEF SendJointTargetPosition, CommandBehind, Waiting, Before, Behind
<1>14. CASE Sent
  <2> SUFFICES ASSUME Synchronous
               PROVE  CommandBehind'
    BY <1>14 DEF Sent, CommandBehind
  <2>1. connected => OnTheWay'
    BY <1>14 DEF Sent, CommandBehind, Waiting, OnTheWay, Inv, OutboxWhole, AllOf, Before, Behind
  <2>2. QED
    BY <1>14, <2>1 DEF Sent, CommandBehind
<1>15. CASE Stop
  BY <1>15 DEF Stop, EnableSynchronous, CommandBehind
<1>16. CASE Exchange
  <2> SUFFICES ASSUME Synchronous
               PROVE  CommandBehind'
    BY <1>16 DEF Exchange, CommandBehind
  <2>1. connected /\ ~paused /\ Exchanged /\ pc \notin {"put", "sent"}
    BY <1>16 DEF Exchange, Inv, PausedWhileSending
  <2>2. Arrived => Arrived'
    BY <1>16, <2>1, ExchangedArrived DEF Exchange, Arrived, Behind
  <2>3. OnTheWay => OnTheWay'
    BY <1>16, <2>1, ExchangedOnTheWay DEF Exchange, OnTheWay, Before, Behind
  <2>4. triggered /\ (Arrived \/ OnTheWay) => Short'
    <3>1. triggered /\ (Arrived \/ OnTheWay) => \A j \in Joints : expected[j] - simPosition[j] \in TwoCommands
      BY <1>1, BeforeFacts, TwoCommandsFacts DEF Arrived, OnTheWay, Behind
    <3>2. QED
      BY <1>16, <2>1, <3>1, ExchangedArrived, ExchangedOnTheWay DEF Exchange
  <2>6. QED
    BY <1>16, <2>1, <2>2, <2>3, <2>4 DEF Exchange, CommandBehind, SimulatorReady, Inv, TypeOK, CyclesBounded
<1>17. CASE ConnectionLost
  BY <1>17 DEF ConnectionLost, CommandBehind
<1>18. CASE Simulate
  <2> SUFFICES ASSUME Synchronous
               PROVE  CommandBehind'
    BY <1>18 DEF Simulate, CommandBehind
  <2>1. ~triggered' /\ simPosition' = simTarget
    BY <1>18 DEF Simulate
  <2>2. Arrived => Arrived'
    BY <1>1, <1>18, <2>1, BeforeFacts DEF Simulate, Arrived, None, Behind
  <2>3. Waiting => Waiting'
    BY <1>18, <2>1 DEF Simulate, Waiting, Before
  <2>4. OnTheWay => OnTheWay'
    BY <1>18, <2>1 DEF Simulate, OnTheWay, AllOf, None, Before
  <2>5. QED
    BY <1>18, <2>1, <2>2, <2>3, <2>4 DEF Simulate, CommandBehind
<1>19. CASE Interrupt
  BY <1>19 DEF Interrupt, CommandBehind, Arrived, Waiting, OnTheWay, AllOf, None, Before, Behind
<1>20. CASE UNCHANGED vars
  BY <1>20 DEF vars, CommandBehind, Arrived, Waiting, OnTheWay, AllOf, None, Before, Behind
<1>21. QED
  BY <1>3, <1>4, <1>5, <1>6, <1>7, <1>8, <1>9, <1>10, <1>11, <1>12, <1>13, <1>14, <1>15,
     <1>16, <1>17, <1>18, <1>19, <1>20 DEF Next, Program

\* read() finds the positions of the last message, and the connection may be gone.
LEMMA ReadingStep ==
  ASSUME Inv, LagInv, [Next]_vars
  PROVE  ReadingBehind'
<1> USE DEF LagInv, Reading, program, driver, robot, api, simulator, history
<1>1. /\ TypeOK /\ simPosition \in Vectors /\ expected \in Vectors
      /\ jointCurrentPosition \in Vectors /\ joint \in Joints
  BY DEF Inv, TypeOK
<1>2. CASE Start \/ InitDriver
  BY <1>2 DEF Start, InitDriver, ReadingBehind, Inv, CyclesBounded
<1>3. CASE NextStep
  <2> SUFFICES ASSUME sync_mode_, phase = "run"
               PROVE  ReadingBehind'
    BY <1>3 DEF NextStep, ReadingBehind
  <2>1. connected => Behind(simPosition, expected) /\ inbox' = simPosition
    <3>1. connected => OnTheWay /\ ~triggered /\ inbox' = simPosition
      BY <1>3 DEF NextStep, CommandBehind, Exchanged
    <3>2. QED
      BY <1>1, <3>1, BeforeFacts DEF OnTheWay
  <2>2. QED
    BY <1>3, <2>1 DEF NextStep, ReadingBehind, Behind
<1>4. CASE ReadTCPVelocity
  BY <1>4 DEF ReadTCPVelocity, ReadingBehind, Behind
<1>5. CASE ReadTCPWrench
  BY <1>5 DEF ReadTCPWrench, ReadingBehind, Behind
<1>6. CASE ReadJointPosition
  <2> SUFFICES ASSUME sync_mode_, phase = "run"
               PROVE  ReadingBehind'
    BY <1>6 DEF ReadJointPosition, ReadingBehind
  <2>1. connected => Behind(inbox, expected) /\ inbox' = inbox
    BY <1>6 DEF ReadJointPosition, ReadingBehind
  <2>2. ASSUME "position" \in got'
        PROVE  \A j \in 1 .. joint : expected[j] - jointCurrentPosition'[j] \in OneCommand
    <3>1. connected /\ jointCurrentPosition' = [jointCurrentPosition EXCEPT ![joint] = inbox[joint]]
      BY <1>6, <2>2 DEF ReadJointPosition
    <3>2. joint = 1 \/ "position" \in got
      BY <1>6, <2>2 DEF ReadJointPosition
    <3>3. \A j \in 1 .. joint - 1 : expected[j] - jointCurrentPosition[j] \in OneCommand
      BY <1>6, <3>2 DEF ReadJointPosition, ReadingBehind
    <3>4. expected[joint] - inbox[joint] \in OneCommand
      BY <1>1, <2>1, <3>1 DEF Behind
    <3>5. QED
      BY <1>1, <3>1, <3>3, <3>4, DriverAssumption DEF Vectors, Joints
  <2>3. CASE AnotherJoint
    BY <1>1, <1>6, <2>1, <2>2, <2>3 DEF ReadJointPosition, ReadingBehind, Joints, Behind
  <2>4. CASE ~AnotherJoint
    <3>1. joint = JointCount
      BY <1>1, <2>4, DriverAssumption DEF AnotherJoint, Joints
    <3>2. "position" \in got' => Behind(jointCurrentPosition', expected)
      BY <2>2, <3>1 DEF Behind, Joints
    <3>3. QED
      BY <1>6, <2>1, <2>4, <3>2 DEF ReadJointPosition, ReadingBehind, Behind
  <2>5. QED
    BY <2>3, <2>4
<1>7. CASE WaitForRobot
  BY <1>7 DEF WaitForRobot, ReadingBehind
<1>8. CASE Loop \/ Decide \/ Compute
  BY <1>8 DEF Loop, Decide, Compute, ReadingBehind, Behind
<1>9. CASE Send \/ SendJointTargetPosition \/ Sent \/ Stop
  BY <1>9 DEF Send, SendJointTargetPosition, Sent, Stop, ReadingBehind
<1>10. CASE Exchange
  <2>1. sync_mode_ /\ phase = "run" /\ pc \in Reading => Behind(simPosition, expected)
    BY <1>10 DEF Exchange, CommandBehind, Arrived
  <2>2. QED
    BY <1>10, <2>1 DEF Exchange, Exchanged, ReadingBehind, Behind
<1>11. CASE ConnectionLost \/ Simulate \/ Interrupt \/ UNCHANGED vars
  BY <1>11 DEF ConnectionLost, Simulate, Interrupt, vars, ReadingBehind, Behind
<1>12. QED
  BY <1>2, <1>3, <1>4, <1>5, <1>6, <1>7, <1>8, <1>9, <1>10, <1>11 DEF Next, Program

\* Init establishes the lag and every step keeps it.
THEOREM LagHolds == Spec => []LagInv
<1>1. Init => LagInv
  BY DriverAssumption DEF Init, LagInv, VelocityAllowed, OneCommand, SimulatorReady, Reading,
     CommandBehind, ReadingBehind
<1>2. Inv /\ LagInv /\ [Next]_vars => LagInv'
  BY VelocityStep, SimulatorStep, CommandStep, ReadingStep DEF LagInv
<1>3. QED
  BY <1>1, <1>2, InvHolds, PTL DEF Spec

\* In synchronous mode no step of the simulator takes a joint further than the commands
\* of two cycles, whatever the two threads and the connection do meanwhile.
THEOREM JointsNeverJump == Spec => NoJump
<1>1. Inv /\ LagInv /\ [Next]_vars =>
         [sync_mode_ => \A j \in Joints : simPosition'[j] - simPosition[j] \in TwoCommands]_vars
  <2> SUFFICES ASSUME Inv, LagInv, Next, sync_mode_, NEW j \in Joints
               PROVE  simPosition'[j] - simPosition[j] \in TwoCommands
    OBVIOUS
  <2>1. simPosition[j] \in Int
    BY DEF Inv, TypeOK, Vectors
  <2>2. simPosition[j] - simPosition[j] \in TwoCommands
    BY <2>1, TwoCommandsFacts
  <2>3. CASE Simulate
    <3>1. simPosition' = simTarget
      BY <2>3 DEF Simulate
    <3>2. CASE phase = "init"
      BY <2>2, <3>1, <3>2 DEF Inv, AtHome
    <3>3. CASE phase = "run"
      <4>1. simSync
        BY <3>3 DEF LagInv, SimulatorReady, Inv, CyclesBounded
      <4>2. triggered
        BY <2>3, <4>1 DEF Simulate
      <4>3. QED
        BY <3>1, <3>3, <4>2 DEF LagInv, CommandBehind
    <3>4. QED
      BY <3>2, <3>3 DEF Inv, TypeOK
  <2>4. CASE ~Simulate
    <3>1. simPosition' = simPosition
      BY <2>4 DEF Next, Program, Start, InitDriver, NextStep, ReadTCPVelocity, ReadTCPWrench,
         ReadJointPosition, WaitForRobot, Loop, Decide, Compute, Send,
         SendJointTargetPosition, Sent, Stop, Exchange, ConnectionLost, Interrupt, simulator
    <3>2. QED
      BY <2>2, <3>1
  <2>5. QED
    BY <2>3, <2>4
<1>2. QED
  BY <1>1, InvHolds, LagHolds, PTL DEF Spec, NoJump

\* In synchronous mode the controller computes with joints that are at most one command
\* behind the last one sent, if they were read at all.
THEOREM JointsOneCommandBehind == Spec => []OneCommandBehind
<1>1. LagInv => OneCommandBehind
  BY DEF LagInv, ReadingBehind, OneCommandBehind, Behind, OneCommand, Streams
<1>2. QED
  BY <1>1, LagHolds, PTL
===========================================================================
