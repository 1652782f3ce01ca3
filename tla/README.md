# OpenPHRI in TLA+

OpenPHRI is a C++ library for the safe control of robots that share their space with people. In every
cycle a controller sums the forces, torques and velocities that *generators* ask for, and scales the
result by the least factor its *constraints* allow. Around it are a trajectory generator, drivers that
read a robot and send it commands, a logger, and programs that put them together.

This directory holds specifications of the parts whose order of events, memory or failures decide
whether the robot is safe, the configurations with which TLC checks them, and proofs for TLAPS of what
matters most. Paths below are relative to the root of the repository (`src/...` in `PROJECT.json` is
that root).

    tlc -config Control.cfg MCSafetyController.tla     # a run
    tlapm DemoStateMachineProofs.tla                   # the proofs of a module

## 1. Inventory

### Components

| Component | State | Operations | Correct if |
|---|---|---|---|
| `SafetyController` (`src/OpenPHRI/safety_controller.cpp`) | five registries, the last value of each constraint and generator, the mode of the Jacobian inverse, the robot it shares | add/remove/get/removeAll, `compute`, modes of the inverse | each constraint's promise holds of the motion commanded, all of them at once; motion is slowed down and never deflected |
| `ObjectCollection` (`utilities/object_collection.hpp`) | a map from names to items | `add` (with `force`), `remove` (throws), `get` (throws), `removeAll` | a name has one item; an operation that fails changes nothing |
| Constraints (`src/OpenPHRI/constraints/`) | parameters; of the previous cycle, what the robot object holds | `compute` | the factor is enough for its limit, also when the previous cycle was scaled by another one |
| `EmergencyStopConstraint` | `previous_constraint_value_` | `compute` | stops at activation, is released at deactivation, with two channels on one latch |
| Generators (force, torque, velocity, joint velocity) | previous error of force control; otherwise what the program gave them | `compute`, `transformForward`, `transformVelocity` | the robot moves as asked, in whichever frame that was said, and the same after its head has turned |
| Laser scanner detector | the scene without people | `init`, `compute` | the operator found is the nearest one the scanner can see, brought to the robot's frame |
| `TrajectoryGenerator<T>`, `TaskSpaceTrajectoryGenerator` | segments and their clocks, current segment and error state of each component, outputs | `addPathTo`, `computeTimings`, `updateLimits`, `compute`, `reset`, `removeAllPoints`, error tracking | components stay synchronised, outputs never jump, a robot that strays is waited for, the end is reached |
| Demo state machine and `main` (`apps/demo/`) | teach and replay states, waypoints and the flag that says which half of a pair is next, clocks, and through the controller its registries | one handler per cycle | the registries are what the state needs, in every state; no handler throws; force control happens where it was taught and for its time |
| `Driver`, `VREPDriver` (`drivers/driver.cpp`, `src/vrep_driver/`) | joint targets, synchronous mode, a connection with a thread of its own | `start`, `init`, `read`, `send`, `stop` | commands reach the robot whole, from where it stands; what is read is what the robot did |
| `DummyDriver`, `Robot`, forward kinematics | joint positions, control point state | `read`, `send`, `forwardKinematics` | what a cycle asked for is what the next one measures |
| `AppMaker` and the programs of `apps/` | the objects above | constructor, `init`, `run`, `stop`; twelve `main()` | a failure ends the loop; the robot is left stopped; one step of the simulation for each cycle |
| `DataLogger`, `Clock` | streams, delayed samples, time | `log*`, `process`, `reset`, destructor | every sample ends in its file, once and in order |
| `FifthOrderPolynomial` | none | `computeParameters`, `computeParametersWithConstraints`, evaluation, maxima | segments meet their ends; the shortest one within the limits is found |
| Root finder (`utilities/polynomial_root_finder.cpp`) | none between calls; loops and flags within one | `rpoly_ak1` | it returns, and with as many roots as it says; its steps are the algorithm's |
| Derivator, integrator, deadband, interpolators, low pass filter | the last input, the sum | `compute`, `reset`, `force` | they follow their input, however they are called |

### How they interact

There is one control thread. A cycle is: `driver.read()` writes the measurements into the shared
`Robot`; the application (demo: one handler of the state machine) changes the registries;
`SafetyController::compute()` reads the robot and the registries and writes velocities back;
`driver.send()` integrates them into joint targets; the clock and the logger follow. Objects share
pointers to doubles and vectors: nothing tells a reader that a value is of the previous cycle. Beside this
thread there are the SIGINT handler, which sets `_stop`, the communication thread of the V-REP remote API,
which exchanges the buffers with the simulator whenever it likes, and the simulator, which in synchronous
mode makes one step for each trigger.

### What is hard

- *State of the previous cycle.* Acceleration limits and the emergency stop remember what they returned,
  which another constraint, or a change of the registries, may have overruled.
- *Registries changed while in use.* The demo adds and removes constraints by name, in different handlers,
  guided by a flag. A miscounted waypoint removes a name that is not there (an exception out of the control
  loop) or leaves a way unguarded.
- *Clocks of a trajectory.* Each component has a clock in each segment; waypoints, pauses, recomputed
  segments and calls in an unusual order must keep them in step.
- *Three threads and a connection that breaks* between any two calls of `read()` or `send()`.
- *Algorithms whose control is intricate.* The root finder was translated from a program with jumps: flags
  set on one way through its loops and tested on another decide whether it ends, and how many roots its
  arrays hold.
- *Frames.* A velocity, a force or the position of a person may be given in one of two frames, and an error
  of rotation shows only once the robot has turned.
- *Calls in an order each program chooses*: a driver whose `read()` steps the simulation used by loops that
  step it themselves, files opened twice, objects that come and go.
- *Deadlines.* `init()` and the waits of the demo compare times in the cycle after the one they are about.

Every hazard, at its line, is in `PROJECT.json` ("hazards") with the properties that guard against it,
or the reason why none does.

## 2. Plan

In order of importance; 1 to 11 are done, 12 and 13 are left.

1. `Rationals`, `ObjectCollection`, `Constraints`, `SafetyController` - the controller: every promise at once.
2. `EmergencyStop` with the abstract `StopPolicy`, composed in `EmergencyStopRefinement` - the latch, with proofs.
3. `DemoStateMachine` - teach and replay over the registries, with proofs.
4. `TrajectoryGenerator` - synchronisation and error tracking.
5. `VREPDriver` - AppMaker, driver, communication thread and simulator, with proofs.
6. `RootFinder` - the control of the root finder, its termination and the number of its roots, with proofs.
7. `Polynomials`, `QuadraticShift`, `FifthOrderPolynomial`, `PosePaths`, composed in `Numerics` - arithmetic
   against its mathematics.
8. `DataLogger`, composed with the driver's calls, the clock and the controller in `Applications` - every program of
   `apps/`, with the specification of the log as a history variable.
9. `Generators`, composed with `DummyDriver` and forward kinematics in `RobotLoop` - the closed loop.
10. Proofs of every safety and action property that the passing runs check: about `SafetyController` on laws
    of `Rationals`, `TrajectoryGenerator`, `Applications` with its files, `RobotLoop`, the lag of `VREPDriver`.
11. The same for the arithmetic: divisions, zeros, segments, paths of poses and the search of `Numerics`, for
    polynomials of any degree the model holds and any fractions.
12. A composition of the demo, the controller's latch and the driver, so that the theorem about whole
    commands and the one about guarded motion speak of one program.
13. The low pass filter and the equivalent mass of a manipulator.

## 3. Modules and the code

**`Rationals`.** Fractions in lowest terms, so that quotients are exact and equal numbers are equal values.
`GCD` is Euclid's algorithm as a recursive function, of which proofs are possible; `Rat` is the set of all
fractions.

**`ObjectCollection`.** A collection is a function from the names in use; each operation gives the new
collection and what the caller sees. `removeAll` erases from a map inside a loop over it, which is undefined:
its outcomes are the empty collection, or a crash with any part of the items left.

**`Constraints`.** One operator for each class, on a record with what `compute()` reads. The robot has one
control point axis, so that a norm is an absolute value; joints are a tuple.

**`SafetyController`.** `constraints` and `generators` are the registries with the `last_value` that
`print()` and the logger show; `robot` is the shared object; `previous` is the latch of each emergency stop
object, which survives its removal from the registry. There is one action for each public operation.
`Compute` is the whole function: inverse, sums with any outputs of the generators, every constraint in turn,
scaling, and the velocities it stores. Between calls the driver and the forward kinematics change the
measurements (`UpdateRobotState`). `setup` is what is built around the controller - names, constraint
objects, outputs, situations, modes of the inverse - and is chosen at the beginning from `Setups`, so that
one run covers applications with different bounds. `SetupsAssumption` says what a setup is made of: limits
that can be kept at all (`ConstraintObject`: no negative power, an interpolation that saturates), whole
commands and forces, and names of which none is the one the controller takes for itself. There are more
joints than axes (`JointsAssumption`): the inverse of a square Jacobian divides by zero at a singularity.

**`EmergencyStop`, `StopPolicy`, `EmergencyStopRefinement`.** The life of one object with any set of
channels. The policy has a latch per channel; the implementation has one for all of them. The refinement
adds the latches as a history variable. Names of the implementation (`StopInit`, `ComputeStop`, `StopSpec`,
`stopVars`) leave the usual ones to the controller, whose proofs are in the same module.

**`DemoStateMachine`.** An action per handler of `StateMachine::compute`, each with the registry operations
it makes and the call of `SafetyController::compute()` that follows in the same cycle (`Completes`, or
`Throws` when a name is missing). `Read` is the cycle's `driver.read()`, which takes some time and finds any
measurement; `ReadFails` and `Interrupt` are the other ways of `main`'s loop. Durations are counted in
units; the three waits keep their order of size. A waypoint is a pose by name.

**`TrajectoryGenerator`.** The segments with the minimum, padding and current time of each component. A
position on the path is a segment and a time in it: what the code can get wrong are the clocks that index the
polynomials, not the polynomials. `Compute` is one call of `compute()`, from the check of every error to
the result; the other methods may be called in any order in between.

**`VREPDriver`.** `pc` is the program's next call into the API; each action is the code between two
exchanges with another thread. `connected`, `paused`, `outbox` and `inbox` are the remote API;
`Exchange`, `ConnectionLost` and `Simulate` are not in this repository and are modelled from how the driver uses
them. Positions are counted in steps of the fastest joint. The latest command for a joint replaces the one
that waits, as in the API's one-shot mode.

**`RootFinder`.** `pc` names the procedure of `polynomial_root_finder.cpp` that runs, at the head or the end
of one of its loops; the flags and counters keep their names. What decides a numeric test may answer either
way. `written` is the set of elements of the arrays that have been assigned.

**`Polynomials`, `QuadraticShift`, `FifthOrderPolynomial`, `PosePaths`, `Numerics`.** Coefficients are
functions from the index the code uses to exact fractions. `QuadraticShift` has the steps of the root finder
(`QuadSD`, `calcSC`, `nextK`, `newest`, the linear step, `Quad`); `FifthOrderPolynomial` the coefficients,
the evaluation and the search, one round of its loop at a time; `PosePaths` how poses become vectors and
back, with one axis and quarter turns. `Numerics` takes a call of one of them (`task`) and answers it, the
search round by round. The arguments are constants, and the assumptions say what the callers see to: `K`
has one degree less than `p`, whose leading coefficient is not zero; the product of a shift is not zero (it is
the square of a bound on the zeros; an iteration that finds `v = 0` gives up); a segment ends after it begins.
Two assumptions are those of exact arithmetic: the discriminant of `Quad_ak1` has a square root in `Roots`, and
a search is one whose ratios have roots in `FourthRoots` (`CanFollow`). Both are constants, any sets of fractions
that are not negative (positive); for TLC they have small numerators and denominators.

**`DataLogger`, `Applications`.** A logger is a record and each method an operator that gives the logger
after it, over streams that fail as those of the C++ library do. `Applications` writes each `main()` as the
sequence of the calls it makes: before its loop, in a round that has read, at the end of a round, and after.
An action makes the next call. A call may fail where it can: no connection, no data, an exception; SIGINT
comes at any time. One joint stands for all, and a call is atomic, since `VREPDriver` takes it apart.

**`Generators`, `RobotLoop`.** Generators on a plane whose orientations are quarter turns, so that vectors
stay on a lattice; positions, forces and accelerations are vectors of it. `RobotLoop` is the loop over
`DummyDriver`: `Read` with `forwardKinematics()`, `Compute` with one generator, `Send`. The robot has two
joints on one axis, one on the other, and a head that turns by a quarter in every cycle. `NearOperator` is
the demo's way from a scan to the operator's position under a separation constraint. `asked` is a history
variable: what was asked for in the last cycle, and where the robot was then.

`force_control` is the program's object: its type, the inverse of its filter coefficient, and the error it keeps,
filtered after the selection as in `update()`. A filter whose time constant is `n` samples weighs the new error
by `1/(n + 1)`; a force control whose filter is not configured is `n = 0`. `ByForceControl` runs where the weighted
errors are whole (`IsFilterable`). `RenewForceControl` makes another, as the demo does each time it begins to
control a force. `controlled` is its history: the axes it was given when it last ran, the velocity it gave, and
the largest error measured on each axis while it was given.

Mutants, used to make sure that each property can fail, are defined in the modules beside the definition they
are a variant of, and named as such.

## 4. Runs

| Run | Distinct states | What it shows |
|---|---|---|
| `control` | 309,175 | two setups: three registry operations and two cycles of six kinds of constraints; three cycles of those with memory, while registrations, force and inverse change: every limit is kept, the published velocity is the executed one |
| `emergency_stop` | 180 | the shared latch implements the policy, and is released and held as it should be |
| `demo` | 26,558 | registries, waypoints, stops and force control in every state; teaching and replay end |
| `trajectory` | 82,116 | synchronisation, no jump, pauses with hysteresis, arrival |
| `driver` | 242,791 | whole commands, no jump, fresh state, the end |
| `roots` | 27,404 | the root finder returns, with as many roots as it says |
| `numerics` | 20,564 | each step of the root finder, each segment, path of poses and search against its mathematics |
| `applications` | 68,026 | twelve programs: what their files hold, how far the simulation goes, how they end |
| `robot_loop` | 1,591,676 | every generator in either frame, force control with its memory, while the head turns |
| `joint_acceleration`, `trajectory_resume`, `driver_read` | - | one statement of a comment each, which the code does not keep (section 6) |

### The properties

*Controller.* `EveryPromiseKept` is the point of the library. It is stated about the motion after scaling,
the limit each constraint documents, and the state before the cycle; it says nothing of how the factor is found.
`PublishedVelocityIsExecuted` ties the velocity the constraints looked at to the joints' motion; it is
stated for an inverse without damping, or whose dynamic damping is above its threshold, because it is false of
a damped one (section 6). `OnlySlowsDown` is the sign and
the size of the factor, and the direction of the motion.

*Emergency stop.* `NeverLooser` and `ImplementsPolicy` compare the one latch with one for each channel.
`CalmReleases` and `PushStops` are its liveness.

*Demo.* `RegistryMatchesState` is the contract between handlers that nobody wrote down. `WaypointsArePaired`
is what the flag that alternates rests on, and `NoUncaughtException` what it is for.
`StopDroppedOnlyForForceControl` is about objects that are replaced: a new emergency stop starts open.
`ForceHeldOrStalled` is what the comparison of a stale `dt` still guarantees. `TeachingEnds` and
`ReplayEnds` are liveness. What follows from these - the stop is missing only on the way back, force is
controlled only where it was taught, motion is never without its limits - is stated as theorems (section 5).

*Trajectory.* `SynchronizedTogether` and `OneSamplePerWaypoint` are about the clocks;
`AdvancesOneSample` about the outputs across waypoints and pauses; `StrayStandsStill` about the hysteresis,
against a history variable of the errors; `ResumesFromRest` about the segment computed again;
`TrueAtTheEnd` and `Arrives` about the result.

*Driver.* `CommandsComeWhole` says that the targets of the simulator are always those of one command that
leads on from where the robot stood. `NoJump` bounds a step of the simulator, `OneCommandBehind` the age of
what the controller computes with; `Ends` says that no wait is for ever.

*Root finder.* `ArraysMatchDegree` relates the degree that is returned to the elements that were written,
over every way the zeros can be found, one, two or by formula. `RootsReadAreWritten` is what the callers,
which only ask whether the degree is zero, need of it. `Returns` is termination, whatever the tests answer.

*Numerics.* `StepsDivideByTheShift` and `NewestIsTheNextQuadratic` compare a step, scaled or not, in each of
the three cases `calcSC` tells apart, with the definition of Jenkins and Traub. `QuadFindsBothZeros` has
sum, product and order of the zeros. `SegmentMeetsItsEnds` has value, velocity and acceleration at both
ends, and outside, and says at which waypoints a path of poses has their orientation. `SearchIsTight` says
that the search ends with a segment that keeps both limits and reaches one of them.

*Programs.* `FilesHoldWhatWasLogged` compares files with the history of what was logged, over delayed
writes, files that are opened late, items that come and go, and `reset()`. `StepsPerRound` counts the steps
of the simulation: two in the programs that call `nextStep()` beside `read()`. `OnlyDeathLeavesItRunning` is
about how a program ends. `TargetMovesByVelocity` is about those that call `init()`.

*Closed loop.* `MovesAsAsked` gives each generator its meaning in the base frame, independently of the frame
its values were given in, and looks at the motion a cycle later. For the operator it is the meaning of the
scanner: whoever is nearest to the scanner and in view. `DeselectedAxisFades` is about the memory of force
control: an axis it is given no longer goes on moving from the error it kept, and comes to rest as the filter
lets it, whatever is measured and whatever runs since. `OdometryAgrees` is about the signals that follow the
robot.

### Bounds

- `MaxOperations`, `MaxCycles` (controller): two constraints and a generator, or two generators and a
  constraint, are registered at once; a pair is enough for one limit to be lost to another. The memory of a
  constraint is one cycle, and three cycles let it be set, used and left. Numbers are chosen so that each
  limit is above, at and below what is asked for. Both are fields of a setup, as are the objects.
- `MaxReading` = 5 (emergency stop) has a reading in each of the intervals the thresholds make, for both
  channels.
- `MaxTaught` = 2 pairs of waypoints (demo), or the four taught ones of the constructor: two ways with a
  stop, two without and the appended initial pose. `Delays` has a normal cycle and one that is longer than
  the times waited for.
- Two components and two segments (trajectory), with durations shorter and longer than a sample, so that a
  segment may end within a sample; `MaxCalls` = 4 allows two points, the timings and one more call in any
  place, or the error tracking.
- Two joints, three cycles and a timeout of one sample (driver). Commands of the cycles before the last can
  only matter through the target. Two joints are enough for half of a command.
- Degrees 2 to 6 with `MaxDegree` = 5 (root finder): every degree its callers use, one above, and one too
  large. Two shifts, two fixed steps for each, three steps of an iteration: each loop goes on, ends early,
  and runs out. The proofs need no bound.
- Polynomials of degree 2 to 4 with coefficients of one digit (numerics), of both signs and zero, so that
  each case of `calcSC` occurs, scaled and unscaled. `MAXDEGREE` is 3; the definitions and the proofs hold up
  to degree 11, as far as `Degree` of `Polynomials` looks. The search is followed where its ratios are
  fractions: between points at rest, at a common velocity, or refused.
- `MaxRounds` = 3 (programs): enough for a sample of an item that left and came back. The joint stands at 3
  and not at 0; it is asked to move both ways.
- `MaxCycles` = 3 (closed loop): force control given an axis that is given up for two cycles, or given again
  after one; every turn of the head is seen, as it begins at 0 or 2. `Controls` has a force control without a
  filter for the robot's force and one with a filter (a time constant of one sample) for that of the
  environment; the forces and gains are chosen so that errors are whole after a filter and again after that,
  and that what an axis keeps moves the robot. `Workspace` keeps the robot where potentials can be computed. Three sets of
  people: one in view, one of which hides another from the answer, and one behind a wall.

`CHECK_DEADLOCK FALSE` is set where the bounds, or the end of the program, stop the system; the
emergency stop never stops.

### Fairness

- *Emergency stop*: weak fairness of `compute()`, which the loop calls in every cycle. The readings are
  under no fairness.
- *Demo*: weak fairness of `Read` and of the control step. A driver that fails to read is asked again by the
  loop, so the assumption is that it does not fail for ever; what the robot does is an explicit hypothesis of
  `TeachingEnds` and `ReplayEnds`.
- *Trajectory*: weak fairness of a `compute()` that finds the errors under their bands, since the loop calls
  it in every cycle. `Arrives` assumes that the errors stay so from some time on.
- *Driver*: weak fairness of the program's thread and of the simulator's step. Nothing is assumed of the
  communication thread, nor of SIGINT. In synchronous mode `nextStep()` waits for the simulator, hence its
  fairness; if the connection is lost the wait ends.
- *Root finder*: weak fairness of `Next`; it runs in the thread of its caller.

## 5. Proofs

TLAPS checks 28,052 obligations in eight modules. Nothing is assumed but the constants' assumptions, which
each run evaluates; the theorems hold for every value of the constants that satisfies them.

The provers do not instantiate an induction theorem over an operator. They do reason about sets, so every
induction here goes over the set of the numbers (or of the subsets of a finite set) for which a statement
holds: were it not all of them, there would be a least one outside of it (`SetInduction`, `LeastOf`). In the
same way a recursive function, of which TLA+ says nothing until one is known to exist, is first shown to
exist up to each argument (`PartialExists`, Euclid's algorithm).

**`SafetyControllerProofs`, the emergency stop** - any finite or infinite set of channels, any thresholds in any
order. `HTypeOK` and `NeverLooser` are inductive together with the types of the latches. `ReleaseNeedsCalm` and
`StopNeedsActivation` follow from the type and the lemma `CombinedIsZero`. `Refinement` shows that every
step of the constraint is a step of `StopPolicy` or leaves its variables alone; it needs `NeverLooser` in the
state before.

**`DemoStateMachineProofs`** - any number of waypoints, taught poses and durations. None of the safety
properties is inductive alone. The invariant is

    TypeOK /\ RegistryMatchesState /\ WaypointsArePaired /\ NoUncaughtException
           /\ LatchNeedsStop /\ TimePointIsKnown

whose parts hold each other up: the waypoints stay in pairs as they are recorded, hence the flag tells
whether the next is the first of a pair, hence the emergency stop is registered when `ForceControlInit`
removes it, hence no handler throws and the next state finds its registry. `LatchNeedsStop` gives
`StopDroppedOnlyForForceControl`, `TimePointIsKnown` gives `ForceHeldOrStalled`. The lemmas are about lists:
what the head and the tail of a list in pairs are, and that appending a pair, or the initial pose, keeps it
so.

**`VREPDriverProofs`** - any number of joints, home, velocities, timeout and number of cycles, and any
values read when the connection breaks. `CommandsComeWhole` needs

    TypeOK /\ CyclesBounded /\ AtHome /\ TargetExpected /\ PausedWhileSending /\ OutboxWhole /\ Recorded

`AtHome`: until `init()` succeeds no command has left, so whatever is read over a living connection is where
the robot stands. `TargetExpected`: hence the target is home plus every velocity sent, as long as the
connection lives. `OutboxWhole` and `PausedWhileSending`: what waits in the buffer is one whole command
whenever it may leave. When the connection is lost nothing leaves any more, which is why garbage joints read
at that moment, which `read()` accepts, never reach the simulator.

`NoJump` and `OneCommandBehind` are about age, and about synchronous mode. They need a second invariant,

    VelocityAllowed /\ SimulatorReady /\ CommandBehind /\ ReadingBehind

which says, for each place in the program, which command the simulator has been given, which one it has
executed, and which one the buffer of readings shows: while commands are put (`put`, `sent`) the last one
waits; from `nextStep()` on it is on its way; when `read()` looks, the simulator has arrived at it or at the
one before. A step of the simulator hence makes up for two commands at most.

**`NumericsProofs`, the control** - polynomials of any degree, any `MaxDegree` of at least 3, any numbers of shifts and
steps. The invariant is

    NumbersOK /\ FoundSoFar /\ SearchesCubics /\ ArraysMatchDegree
              /\ (Returned => degree \in {0, op.degree} or op.degree > 3) /\ FlagsOK

`FoundSoFar`: while the search goes on, exactly the first `degree - N` elements are written.
`SearchesCubics`: it runs only with `N > 2`, since what is left is solved by formula, and comes to deflation
with one zero or two; so a pair is never stored past the end. A cubic or a quadratic is searched only before
any of its zeros is known; when that fails the degree is zero, hence the last conjunct, and
`RootsReadAreWritten`. The steps of the search touch only flags and counters, which two lemmas treat
together.

`StepsAreBounded` is termination without a fairness assumption: `Remaining`, a number with five digits, gets
smaller in every step. Its digits are the zeros still to find, the shifts, the fixed shift steps, the attempts
between two of these, and the steps of the iteration that runs. The loops within loops have bounds of their own;
the digit that needs an argument is the fourth, where the original jumped: it has to know that the linear iteration
fails at most once in a step (`stry`), and that the loop over the iterations is entered again only before the
quadratic one was tried (`vtry`) or after the linear one found a cluster (`LoopsBounded`, an invariant with `IInv`).
With the fairness of `FairSpec` this is `Returns`, whose run also shows that the program does not stop halfway.

**`FractionProofs`, `NumericsProofs`, the arithmetic** - polynomials of degree 3 to 11, any fractions, any set
of calls that meets the assumptions of `Numerics`. Four of the five properties rest on one invariant,

    AnswerIsOfTask     a call that is done has the answer the code makes of its arguments

so that what remains is about operators, and there the work is. The provers have no normal form for terms of
`Rat`, whose every operation divides by a greatest common divisor. The method is always the same: the
recursions of the model are shown to exist and to compute what their terms say (`SumTo`, `Power`, `Value`, the
divisions of `QuadSD`, Horner's rule), coefficient by coefficient; each coefficient becomes an identity between
few fractions; the identity is brought over a power of one common denominator (`CommonDenominator`, and `IsPlus` and its like about
numerators), or, if it divides, multiplied by what it divides by; and what is left is an identity
between integers, which the SMT solver decides. These identities are lemmas of `FractionProofs`, which know
nothing of the model.

- `SegmentsMeetTheirEnds`: value, velocity and acceleration at both ends are three sums of six terms each, with
  the fifth power of the duration as denominator. A path of poses is an induction over its waypoints.
- `BothZerosAreFound`: sum, product and order of the zeros, from `d d = |discriminant|`. The order is where the
  cancellation matters: the larger zero adds two numbers of one sign.
- `StepsDivide`: the coefficients of `K` times the shift are those of the combination of `p` and `K`, in each of
  the three cases of `calcSC` and with the two scalings of each; at both ends of the sequence the remainders
  vanish.
- `NewestIsNext`: the remainders of K1 and K2 are those of K and p combined (division is linear), so that the
  cross products are polynomials in the remainders of K and p, the shift, and the ratios of the leading and last
  coefficients. The formulas of `newest_ak1` share their factors, which cancel.

`SearchesAreTight` is about several rounds and has an invariant of its own,

    SearchInvariant    a running search is between points at rest, has made one round, and both durations are
                       those at which the limits are reached; or it has ended with the exception

A segment between points at rest has its greatest velocity in the middle and its greatest acceleration at the
zeros of its jerk, whatever its duration (the square of it is a fraction, though the zeros are not); both shrink with the duration as
`1/T` and `1/T^2`, so one round of the search finds the duration, the next one sees that it has, and the longer of
the two segments keeps the other limit too.

**`SafetyControllerProofs`, the controller** - any setups as above, any number of joints, any Jacobian, any outputs of the
generators, any damping and sample time, and calls in any order. The proof has layers:

- *Euclid* (in `FractionProofs`): the greatest common divisor is the least positive number its arguments
  combine to, hence it divides both, and a fraction divided by it is in lowest terms. *Fractions*: two in
  lowest terms that are equal as numbers are the same value; with it the laws of addition, multiplication and
  order of `Rat`, which the provers lack.
- *Folds*: sums over generators and the minimum over constraints, by induction over the subsets of a finite
  set.
- *Constraints*: for each class, the motion scaled by its factor keeps its promise, **and so does the motion
  scaled by any smaller factor that is not negative**. The second half is what makes many constraints work
  together: the controller takes the least factor. An
  acceleration limit is about speed, the last one and a sample of acceleration, so that braking keeps it.
- *Types*: the invariant (`TypeCorrect`): registries, latches in {0, 1}, and a robot whose fields are
  fractions.
- *Linearity*: the joints' motion is linear in the factor, and the undamped inverse is one (J J+ = 1, unless J
  = 0), so what was scaled is what is executed.

`PromisesKept` (`EveryPromiseKept`), `SlowsDown` (`OnlySlowsDown`) and `PublishedIsExecuted` are the three
properties of the controller, now for every application.

**`TrajectoryGeneratorProofs`** - any number of components, limits, segments and calls. The assumption `d %
n = 0` of `TimesAssumption` says that the padding of a segment can be divided evenly over the segments to
come, as doubles can. The invariant has parts, each established on the ones before it:

    TypeOK                         indices and clocks in their ranges
    StatesAgree                    the states of check_error are the history of the errors
    ClockBounded                   a clock is at most a sample past its segment
    AtEnd                          who is done stands at the end of the path
    Placed, Follows                the output is where the clock was a sample ago
    Measures                       the times are those the limits impose
    EvenWaypoints, EvenTrajectory  synchronised components have come equally far

`ClockBounded` bounds how far an output can get past a waypoint, for `AdvancesOneSample`. `EvenTrajectory`
counts how far a component has come: the segments behind it, its clock, and one
sample for each waypoint. When the segments of two components, with the padding of `computeTimings`, add up to the
same, they run out in the same call: `SynchronizedTogether`.

**`ApplicationsProofs`** - any of the programs, for any number of rounds. The programs are literal lists of
calls. A first part shows that each has the few features the argument needs (`WellMade`); the ones
`AppMaker` builds have them whatever their callback is. The invariant says that what is left to call is the
rest of the program's list (`TodoIsTheRest`), so that *has already called* (`Past`) is a predicate of the
state, and ties to it the mode of the simulation (`Modes`), the `stop()` still to come (`StopsYet`), the
steps made (`Counts`) and the target (`AtHome`, `Holds`, `Chosen`). From it follow `StoppedUnlessKilled`,
`StepsCounted` and `TargetsMoveByVelocities`.

`FilesHoldRows` needs a second invariant,

    HistoryOK /\ LoggerAgrees /\ Written /\ Opened /\ Older /\ Ordered

`LoggerAgrees`: until the program returns, the logger - streams, positions, delayed samples - is a function
of the history of what was logged and of the files that are open. It takes induction over the names that
`process()` and the destructor walk through. `Written`: then the destructor has left just the rows. `Older`
and `Ordered`: between two rows of a file the clock and the controller go on, also over `reset()`; this
rests on the shape of the programs again (`LogsWell`: a call of `clock` and of `compute` between two of
`log`, and a name registered once).

**`RobotLoopProofs`** - any velocities, forces, targets and selections on the plane, any offset, workspace,
scanner, walls and people. The Jacobian undoes its inverse and a turn undoes the turn back, so the motion a
command will make is known when it is computed (`Moving`, towards `Heading`); the invariant carries what it
means (`Means`, `Fades`) over `send()` to the next `read()`. For force control it says what the object keeps
(`Kept`): on an axis that was given, an error of at most the largest measured; on one given up, that error
once more through the filter for each run since, which is what its velocity is made of, to the factor that the
gains and the filter make. `DeselectedAxesFade` holds of any gains and of any time constants. For the operator the proof is about the scan: a
beam ends at the first thing in it, so what is new in a beam is the person who is seen there, and the least
of the new distances is whoever is nearest. `GeneratorsMoveAsAsked` has a hypothesis for these cycles,
`Detectable`: no wall stands at exactly the minimum distance, which `init()` drops (`>`) and `compute()`
takes for a person (`>=`); persons stand between the minimum and the walls less the threshold; several
equally near are all in reach or none is, since the first beam wins; and with nobody there, the point ahead
that is reported is out of reach. Each has a scene in which `MovesAsAsked` fails without it. Every scene of
the run satisfies it in every cycle.

**Only model-checked.** Every invariant and every action property of the passing runs is stated by a theorem.
What is left to TLC is:

- Liveness (`CalmReleases`, `PushStops`, `TeachingEnds`, `ReplayEnds`, `Arrives`, `Ends`, `Returns`): TLAPS
  1.4 does not prove formulas under fairness, whose meaning is in ENABLED.
- The three statements of section 6, of which TLC finds counterexamples.

## 6. Findings

| Run | The comment | The code |
|---|---|---|
| `joint_acceleration` | limits the joint acceleration | a joint that is asked to move backwards is never compared: the sign was not dropped |
| `trajectory_resume` | when all components are back, trajectories are recomputed from the current position | the lambda that pauses takes its state by value, so nothing is recomputed with synchronisation: the trajectory goes on in the middle of its segment at full speed |
| `driver_read` | `read()` returns true on success | `readJointPosition` accepts every answer but -1; the errors of the API are positive |

What else was met while modelling, and has no run of its own:

- With a damped inverse the constraints look at the velocity asked for; the joints' motion gives another,
  which may exceed the limit (`safety_controller.cpp:230`). `PublishedVelocityIsExecuted` is stated where
  nothing is damped.
- A path of poses turns to each waypoint by the angle from the waypoint before, but counted from the
  orientation of the start (`task_space_trajectory_generator.h:157`, `:90`): past a waypoint that turned,
  orientations are missed, and one that is to be kept is turned back. `SegmentMeetsItsEnds` states where
  they are met. The overload of `enableErrorTracking` for plain pointers (`:120`) drops its hysteresis.
- Force control keeps its error as filtered after the selection (`force_control.cpp:75`, `:80`): with the filter
  the demo configures (`state_machine.cpp:336`), an axis that is given up while it runs goes on moving for many
  cycles, however it is pushed meanwhile. `DeselectedAxisFades` says how fast it comes to rest. The demo itself
  never changes the selection of a force control that runs.
- `removeAll` erases from a map inside the loop over it: undefined for a collection that is not empty.
- A torque between its thresholds, which never asked for a stop, holds one that the force asked for.
- `read()` makes the step that the documentation of `enableSynchonous` leaves to `nextStep()`; programs that
  call both go on by two steps in each round, while their clocks and trajectories go on by one
  (`StepsPerRound` counts them).
- The identifier of a connection that failed stays in the cache, and the destructor's `simxFinish(-1)` ends
  every connection.
- An exception out of `read()` - a tracked object that is not there - leaves the simulation running.
- Only `AppMaker` calls `forwardKinematics()`: the programs that use a driver directly, the demo among them,
  control with the pose and the Jacobian that their `Robot` was made with.
- `Clock` tests its sample time with `< 0` in one place and `<= 0` in another; a deadband constructed from
  three pointers leaves its threshold null; the low pass filter is a mean of its last two inputs, without
  memory of its output.
- An explicit `writeStoredDataToDisk()` writes what the destructor writes again. A name that is logged again
  after `reset()` opens a stream that is open: its rows are lost.
- `RobotModel` writes every limit it parses to the lower position limit; the others stay zero.
- The scanner's detector takes whoever is nearest to the scanner, who may be further from the robot than
  another; an empty scene is reported as a point ahead, at the largest distance. A wall at exactly the
  minimum distance is dropped by `init()` (`laser_scanner_detector.cpp:53`) and found by `compute()`
  (`:65`).
- `ForceConstraint` uses a robot in its constructor that is set only when a controller adopts the
  constraint: none can be constructed.

## 7. Not modelled

- *Floating point*: rounding, NaN and overflow are listed as hazards where the code meets them; arithmetic
  is exact. The scaling of coefficients in the root finder and its bounds of rounding errors only feed tests
  that may answer either way here.
- *Root finder*: that its iterations converge to zeros of the polynomial is analysis, not control.
- *Trajectory*: `setSynchronizationMethod` (called only where no trajectory is computed), outputs other than
  `All`, a second `enableErrorTracking`; rotations about more than one axis.
- *Demo*: `goToInitPose`, which no program calls, and the gradient in the null space, which none registers.
  Timings that
  cannot be computed (`computeTimings()` throwing in `setupTrajectoryGenerator` or
  `setupJointTrajectoryGenerator`, `state_machine.cpp:431`, `:447`).
  The laser scanner is compiled out of the demo as it is in the repository; `RobotLoop` has it as built with
  it.
- *Driver*: the cache of connections, `pause()`, and the reads that the loops do not use (pose, Jacobian,
  transformation). That a scanner never changes its number of beams is an assumption on the scene.
- *Generators*: torques and errors of orientation, `TorqueProxy`, and filtered errors that are not whole numbers. The
  derivator and the integrator are called once in each cycle. `LowPassFilter`, `ManipulatorEquivalentMass` and the limits of `RobotModel`: no loop
  of a program depends on them.
- *ForceConstraint*: it cannot be constructed.
- *YAML, printing, gnuplot files, Python bindings, tests, CMake*: input and output, declarations without
  state, or users of the library.
