------------------------ MODULE TrajectoryGenerator ------------------------
(***************************************************************************)
(* TrajectoryGenerator<T> and its specialisation for poses: segments of    *)
(* fifth order polynomials, one per component, their synchronisation, and  *)
(* the error tracking that pauses the components whose reference strays.   *)
(*                                                                         *)
(* A position on the path is a segment and a time in it, not a number: the *)
(* polynomials are monotone data, the clocks that index them are what the  *)
(* code can get wrong.  Times are integers, a multiple of a unit.  A       *)
(* program calls the methods in any order; the output type is All and the  *)
(* synchronisation method is the constructor's, as in every program of the *)
(* repository that computes a trajectory.                                  *)
(***************************************************************************)
EXTENDS Integers, Sequences, FiniteSetsExt

CONSTANTS
    Count,          \* number of components
    SampleTime,     \* sample_time_
    Limits,         \* per component, the times the limits of a segment may impose
    FixedTimes,     \* the durations a segment may be given
    Durations,      \* times the limits may impose on the rest of a segment
    MaxSegments,    \* bound: segments of a trajectory
    MaxCalls        \* bound: calls other than compute()

Components == 1 .. Count

Methods == {"NoSynchronization", "SynchronizeWaypoints", "SynchronizeTrajectory"}

\* The padding of SynchronizeTrajectory is a quotient by a number of segments; in
\* these units it is exact.
ASSUME TimesAssumption ==
    /\ Count \in Nat \ {0} /\ SampleTime \in Nat \ {0}
    /\ Durations \subseteq Nat \ {0} /\ FixedTimes \subseteq Durations
    /\ Limits \subseteq [Components -> Durations]
    /\ MaxSegments \in Nat /\ MaxCalls \in Nat
    /\ \A d \in Durations, n \in 1 .. MaxSegments : d % n = 0

VARIABLES
    options,            \* sync_, and whether T is Pose
    waypoints_,         \* Pose: segments to create at the next computeTimings()
    segment_params_,    \* sequence of segments, times per component
    current_segement_,  \* per component, from 1
    tracking,           \* "never" enabled, "on", "off"
    recompute_when_resumed,
    state, previous_state,
    output,             \* per component: the segment and the time in it
    velocity,           \* per component: the derivative on the "path", or "zero"
    result,             \* what compute() returned last
    error,              \* per component: |output - reference| against the
                        \* hysteresis band, as compute() found it last
    ready,              \* computeTimings() has seen every segment
    calls,              \* calls other than compute()
    regular,            \* history: the timings are those of a trajectory at its start
    fresh,              \* history: another call came since compute() last set the outputs
    stray,              \* history: the error was over the band after it was last under
    elapsed             \* history: samples taken since the timings were computed,
                        \* until error tracking is enabled

clocks   == <<segment_params_, current_segement_>>
outputs  == <<output, velocity, result>>
errors   == <<tracking, recompute_when_resumed, state, previous_state, error, stray>>
vars == <<options, waypoints_, clocks, errors, outputs, ready, calls, regular, fresh, elapsed>>

All(value) == [c \in Components |-> value]
Start == [segment |-> 1, time |-> 0]

Init ==
    /\ options \in [sync : Methods, pose : BOOLEAN]
    /\ waypoints_ = <<>>
    /\ segment_params_ = <<>>
    /\ current_segement_ = All(1)
    /\ tracking = "never" /\ recompute_when_resumed = FALSE
    /\ state = All("Running") /\ previous_state = All("Running")
    /\ output = All(Start) /\ velocity = All("path") /\ result = FALSE
    /\ error = All("under") /\ stray = All(FALSE)
    /\ ready = TRUE /\ calls = 0
    /\ regular = TRUE /\ fresh = TRUE /\ elapsed = All(0)

-----------------------------------------------------------------------------
(* Timings                                                                  *)

SegmentDuration(segments, s, c) == segments[s].minimum_time[c] + segments[s].padding_time[c]

Longest(segments, s) == Max({segments[s].minimum_time[c] : c \in Components})

Sum(f, first, last) ==
    LET sum[i \in first - 1 .. last] == IF i < first THEN 0 ELSE sum[i - 1] + f[i]
    IN  sum[last]

TrajectoryMinimumTime(segments, from) ==
    Sum([s \in DOMAIN segments |-> Longest(segments, s)], from, Len(segments))

ComponentMinimumTime(segments, c, from) ==
    Sum([s \in DOMAIN segments |-> segments[s].minimum_time[c]], from, Len(segments))

\* Mutant: the padding of the whole trajectory in every segment.
UndividedPadding(segments, from, s, c) ==
    CASE options.sync = "SynchronizeWaypoints" ->
            Longest(segments, s) - segments[s].minimum_time[c]
      [] options.sync = "SynchronizeTrajectory" ->
            TrajectoryMinimumTime(segments, from) - ComponentMinimumTime(segments, c, from)
      [] OTHER -> 0

PaddingTime(segments, from, s, c) ==
    CASE options.sync = "SynchronizeWaypoints" ->
            Longest(segments, s) - segments[s].minimum_time[c]
      [] options.sync = "SynchronizeTrajectory" ->
            (TrajectoryMinimumTime(segments, from) - ComponentMinimumTime(segments, c, from))
              \div (Len(segments) - from + 1)
      [] OTHER -> 0

\* From the segment each component is in; the ones before keep theirs.
ComputePaddingTime(segments, at) ==
    [s \in DOMAIN segments |-> [segments[s] EXCEPT !.padding_time =
        [c \in Components |-> IF s >= at[c] THEN PaddingTime(segments, at[c], s, c) ELSE @[c]]]]

\* computeParameters() rewinds every clock and sets the outputs to the first
\* point, but leaves current_segement_ where it is.
ComputeParameters(segments) ==
    /\ segment_params_' = [s \in DOMAIN segments |-> [segments[s] EXCEPT !.current_time = All(0)]]
    /\ output' = All(Start)
    /\ velocity' = All("path")

Call ==
    /\ calls < MaxCalls
    /\ calls' = calls + 1
    /\ fresh' = TRUE
    /\ UNCHANGED options

Restarted == regular' = (current_segement_' = All(1)) /\ elapsed' = All(0)

\* A segment lasts a given time, or what its limits impose on each component.  A
\* pose is only stored, until computeTimings().
AddPathTo ==
    /\ Len(segment_params_) < MaxSegments /\ Len(waypoints_) < MaxSegments
    /\ \E needed \in Limits \union {All(d) : d \in FixedTimes}, fixed \in BOOLEAN :
          /\ IF fixed THEN needed[1] \in FixedTimes /\ needed = All(needed[1]) /\ ~options.pose
                      ELSE needed \in Limits
          /\ LET segment == [fixed |-> fixed, needed |-> needed,
                             minimum_time |-> IF fixed THEN needed ELSE All(0),
                             padding_time |-> All(0), current_time |-> All(0)]
             IN  IF options.pose
                 THEN /\ waypoints_' = Append(waypoints_, segment)
                      /\ UNCHANGED <<segment_params_, ready>>
                 ELSE /\ segment_params_' = Append(segment_params_, segment)
                      /\ ready' = FALSE
                      /\ UNCHANGED waypoints_
    /\ UNCHANGED <<current_segement_, errors, outputs, regular, elapsed>>
    /\ Call

\* The time a fixed segment was given, or the least that keeps the limits of each
\* component.  A waypoint whose velocity or acceleration is over them is an exception
\* which no program survives; here no limit is that low.
Timed(segment) == [segment EXCEPT !.minimum_time = segment.needed]

\* For poses, updatePoints() makes the segments again and starts at the first.
ComputeTimings ==
    /\ segment_params_ # <<>> \/ waypoints_ # <<>>
    /\ LET points   == IF options.pose THEN waypoints_ ELSE segment_params_
           segments == [s \in DOMAIN points |-> Timed(points[s])]
           at       == IF options.pose THEN All(1) ELSE current_segement_
       IN  /\ current_segement_' = at
           /\ ComputeParameters(ComputePaddingTime(segments, at))
    /\ ready' = TRUE
    /\ Restarted
    /\ UNCHANGED <<waypoints_, errors, result>>
    /\ Call

\* The new limits go to a copy of the segment, which is dropped: what is left is
\* the padding and the rewinding.  A component past the last segment would read
\* past the end of the list of points.
UpdateLimits ==
    /\ ready
    /\ \A c \in Components : current_segement_[c] <= Len(segment_params_)
    /\ ComputeParameters(ComputePaddingTime(segment_params_, current_segement_))
    /\ UNCHANGED current_segement_
    /\ Restarted
    /\ UNCHANGED <<waypoints_, errors, result, ready>>
    /\ Call

Reset ==
    /\ current_segement_' = All(1)
    /\ segment_params_' = [s \in DOMAIN segment_params_ |->
                             [segment_params_[s] EXCEPT !.current_time = All(0)]]
    /\ elapsed' = All(0)
    /\ UNCHANGED <<waypoints_, errors, outputs, ready, regular>>
    /\ Call

RemoveAllPoints ==
    /\ waypoints_' = <<>>
    /\ segment_params_' = <<>>
    /\ current_segement_' = All(1)
    /\ ready' = TRUE
    /\ Restarted
    /\ UNCHANGED <<errors, outputs>>
    /\ Call

\* Called once: the references of a first call stay in front of those of another.
EnableErrorTracking ==
    /\ tracking = "never"
    /\ tracking' = "on"
    /\ recompute_when_resumed' \in BOOLEAN
    /\ elapsed' = All(0)
    /\ UNCHANGED <<state, previous_state, error, stray>>
    /\ UNCHANGED <<waypoints_, clocks, outputs, ready, regular>>
    /\ Call

DisableErrorTracking ==
    /\ tracking = "on"
    /\ tracking' = "off"
    /\ UNCHANGED recompute_when_resumed
    /\ state' = All("Running") /\ previous_state' = All("Running")
    /\ stray' = All(FALSE)
    /\ UNCHANGED error
    /\ UNCHANGED <<waypoints_, clocks, outputs, ready, regular, elapsed>>
    /\ Call

-----------------------------------------------------------------------------
(* compute()                                                                *)

\* Mutant: a component is done in its last segment.
DoneInLast(c) == current_segement_[c] >= Len(segment_params_)
Done(c) == current_segement_[c] > Len(segment_params_)

\* check_error: what previous_state becomes.  Mutants: no hysteresis; no way back.
CheckedWithoutBand(c, e) == IF e[c] = "under" THEN "Running" ELSE "Paused"
CheckedForGood(c, e) == IF e[c] = "over" THEN "Paused" ELSE previous_state[c]

Checked(c, e) ==
    CASE e[c] = "over"  -> "Paused"
      [] e[c] = "under" -> "Running"
      [] OTHER          -> previous_state[c]

Blocked(c, e) == tracking = "on" /\ Checked(c, e) = "Paused"

\* With synchronisation, the first component in error stops them all; those after
\* it are not checked.  The states to pause are copies, so none changes.
PauseAll(e) ==
    LET first == Min({c \in Components : Blocked(c, e)})
    IN  /\ previous_state' = [c \in Components |->
                                IF c <= first THEN Checked(c, e) ELSE previous_state[c]]
        /\ velocity' = All("zero")
        /\ result' = FALSE
        /\ UNCHANGED <<clocks, state, output, fresh, elapsed>>

\* The clock of a segment that is left is not carried over by a whole sample.
\* Mutants: it is; it is lost.
CarriedWithSample(dt) == SampleTime - dt
CarriedNothing(dt) == 0
Carried(dt) == -dt

\* The segments once the components that resume start again from where they are.
\* Mutant: they go on where they were.
GoOn(resuming, minimum) == segment_params_

RecomputeFromHere(resuming, minimum) ==
    [s \in DOMAIN segment_params_ |->
       LET Restarts(c) == c \in resuming /\ s = current_segement_[c]
       IN  [segment_params_[s] EXCEPT
              !.minimum_time = [c \in Components |->
                  IF Restarts(c) /\ ~segment_params_[s].fixed THEN minimum[c] ELSE @[c]],
              !.current_time = [c \in Components |-> IF Restarts(c) THEN 0 ELSE @[c]]]]

\* Every component that is neither done nor held takes a sample from the clock it
\* has; the clock then moves on, in its segment or to the next one.
Moving(e)   == {c \in Components : ~Done(c) /\ ~Blocked(c, e)}
Resuming(e) == {c \in Moving(e) : state[c] = "Paused" /\ recompute_when_resumed}

TakeSample(e, segments) ==
    LET time     == [c \in Moving(e) |-> segments[current_segement_[c]].current_time[c]]
        duration == [c \in Moving(e) |-> SegmentDuration(segments, current_segement_[c], c)]
        Over(c)  == c \in Moving(e) /\ duration[c] < time[c]
        Clock(s, c) ==
            CASE c \in Moving(e) /\ s = current_segement_[c] -> time[c] + SampleTime
              [] Over(c) /\ s = current_segement_[c] + 1 -> Carried(duration[c] - time[c])
              [] OTHER -> segments[s].current_time[c]
    IN /\ segment_params_' = [s \in DOMAIN segments |->
             [segments[s] EXCEPT !.current_time = [c \in Components |-> Clock(s, c)]]]
       /\ current_segement_' = [c \in Components |->
             IF Over(c) THEN current_segement_[c] + 1 ELSE current_segement_[c]]
       /\ output' = [c \in Components |->
             IF c \in Moving(e) THEN [segment |-> current_segement_[c],
                                         time    |-> Min({time[c], duration[c]})]
                             ELSE output[c]]
       /\ velocity' = [c \in Components |->
             CASE Blocked(c, e) -> "zero" [] c \in Moving(e) -> "path" [] OTHER -> velocity[c]]
       /\ state' = [c \in Components |->
             CASE Blocked(c, e) -> "Paused" [] c \in Moving(e) -> "Running" [] OTHER -> state[c]]
       /\ previous_state' = [c \in Components |->
             IF tracking = "on" THEN Checked(c, e) ELSE previous_state[c]]
       /\ result' = \A c \in Components : Done(c)
       /\ fresh' = FALSE
       /\ elapsed' = [c \in Components |->
             IF c \in Moving(e) /\ tracking = "never" THEN elapsed[c] + 1 ELSE elapsed[c]]

Advance(e) ==
    \E minimum \in [Resuming(e) -> Durations] :
        TakeSample(e, RecomputeFromHere(Resuming(e), minimum))

\* Without error tracking nothing is measured.
Measured(e) == tracking # "on" => e = All("under")

\* With synchronisation one component in error stops them all.
StopsAll(e) ==
    options.sync # "NoSynchronization" /\ \E c \in Components : Blocked(c, e)

Compute ==
    /\ ready
    /\ \E e \in [Components -> {"under", "band", "over"}] :
          /\ Measured(e)
          /\ error' = e
          /\ stray' = [c \in Components |->
                         CASE e[c] = "over" -> TRUE [] e[c] = "under" -> FALSE [] OTHER -> stray[c]]
          /\ IF StopsAll(e) THEN PauseAll(e) ELSE Advance(e)
    /\ UNCHANGED <<options, waypoints_, tracking, recompute_when_resumed, ready, calls, regular>>

Next == \/ AddPathTo \/ ComputeTimings \/ UpdateLimits \/ Reset \/ RemoveAllPoints
        \/ EnableErrorTracking \/ DisableErrorTracking \/ Compute

Spec == Init /\ [][Next]_vars

\* The control loop calls compute() in every cycle, and the reference does not
\* always stray: fairness of Compute alone would be spent on changes of the error.
FairSpec == Spec /\ WF_vars(Compute /\ error' = All("under"))

-----------------------------------------------------------------------------
(* Properties                                                               *)

Segment == [fixed : BOOLEAN, needed : [Components -> Durations],
            minimum_time : [Components -> Nat], padding_time : [Components -> Nat],
            current_time : [Components -> Nat]]

TypeOK ==
    /\ options \in [sync : Methods, pose : BOOLEAN]
    /\ waypoints_ \in Seq(Segment) /\ segment_params_ \in Seq(Segment)
    /\ Len(waypoints_) <= MaxSegments /\ Len(segment_params_) <= MaxSegments
    /\ current_segement_ \in [Components -> 1 .. Len(segment_params_) + 1]
    /\ tracking \in {"never", "on", "off"} /\ recompute_when_resumed \in BOOLEAN
    /\ state \in [Components -> {"Running", "Paused"}]
    /\ previous_state \in [Components -> {"Running", "Paused"}]
    /\ output \in [Components -> [segment : Nat, time : Nat]]
    /\ velocity \in [Components -> {"path", "zero"}] /\ result \in BOOLEAN
    /\ error \in [Components -> {"under", "band", "over"}]
    /\ stray \in [Components -> BOOLEAN]
    /\ ready \in BOOLEAN /\ regular \in BOOLEAN /\ fresh \in BOOLEAN
    /\ calls \in 0 .. MaxCalls /\ elapsed \in [Components -> Nat]

\* Components that are synchronised pass their waypoints, or at least arrive, in
\* the same call to compute(), pauses included.
SynchronizedTogether ==
    regular /\ ready =>
        /\ options.sync = "SynchronizeWaypoints" =>
              \A c, d \in Components : current_segement_[c] = current_segement_[d]
        /\ options.sync = "SynchronizeTrajectory" =>
              \A c, d \in Components : Done(c) <=> Done(d)

\* A step that is no other call is one of compute().
Computes == calls' = calls

\* compute() returns true only with every output at the end of its path, unless
\* computeTimings() has rewound the clocks of a trajectory on its way and left it
\* in its last segments.
TrueAtTheEnd ==
    [][Computes /\ result' /\ regular /\ segment_params_ # <<>> =>
          \A c \in Components :
             output'[c] = [segment |-> Len(segment_params_),
                           time |-> SegmentDuration(segment_params_, Len(segment_params_), c)]]_vars

\* Without synchronisation a component stands still exactly while its error has
\* not come back under the band; with it all of them do while one is over.
StrayStandsStill ==
    [][Computes /\ tracking = "on" =>
          \A c \in Components :
             LET Still == output'[c] = output[c] /\ velocity'[c] = "zero"
             IN  IF options.sync = "NoSynchronization"
                 THEN (stray'[c] => Still) /\ (~stray'[c] /\ ~Done(c) => velocity'[c] = "path")
                 ELSE (\E d \in Components : error'[d] = "over") => Still]_vars

\* A trajectory that resumes after a pause, and has been asked to recompute,
\* starts from rest where the robot is.
Resumes(c) == velocity[c] = "zero" /\ velocity'[c] = "path"
FromRest(c) == output'[c].time = 0
ResumesFromRest ==
    [][Computes /\ tracking = "on" /\ recompute_when_resumed /\ options.sync = "NoSynchronization" =>
          \A c \in Components : Resumes(c) => FromRest(c)]_vars

\* The same of a synchronised trajectory.
SynchronizedResumesFromRest ==
    [][Computes /\ tracking = "on" /\ recompute_when_resumed /\ options.sync # "NoSynchronization" =>
          \A c \in Components : Resumes(c) => FromRest(c)]_vars

Before(segments, s, c) ==
    Sum([i \in DOMAIN segments |-> SegmentDuration(segments, i, c)], 1, s - 1)

\* How far along its path a component's output is, in time.
Along(segments, at, c) == Before(segments, at.segment, c) + at.time

\* From one compute() to the next an output advances by at most one sample along
\* its path, waypoints included, and never goes back; a component that starts
\* again from where it is has a path of its own.
AdvancesOneSample ==
    [][Computes /\ ~fresh /\ segment_params_ # <<>> =>
          \A c \in Components : state[c] = "Running" =>
             Along(segment_params_, output'[c], c) - Along(segment_params_, output[c], c)
                \in 0 .. SampleTime]_vars

\* A trajectory that is not disturbed takes the duration of its segments plus one
\* sample for each waypoint it passes.
OneSamplePerWaypoint ==
    regular /\ ready /\ tracking = "never" =>
        \A c \in Components :
           LET s    == current_segement_[c]
               took == elapsed[c] * SampleTime
               due  == Before(segment_params_, s, c) + (s - 1) * SampleTime
           IN  IF Done(c) THEN s > 1 => took > due /\ took <= due + SampleTime
               ELSE took = due + segment_params_[s].current_time[c]

\* Once every error stays under the band, the trajectory comes to its end.
Arrives ==
    <>[](error = All("under")) /\ <>[]ready => <>result
=============================================================================
