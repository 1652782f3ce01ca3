---------------------------- MODULE EmergencyStop ----------------------------
(***************************************************************************)
(* phri::EmergencyStopConstraint over the life of one object.  The checked *)
(* channels (external force, external joint torque) each have an           *)
(* activation and a deactivation threshold; between the two, a channel     *)
(* votes what the whole constraint returned last: one latch is shared by   *)
(* the channels.                                                           *)
(***************************************************************************)
EXTENDS Naturals

CONSTANTS
    Channels,       \* the channels check_type_ selects
    Activation,     \* channel -> activation threshold
    Deactivation,   \* channel -> deactivation threshold
    MaxReading      \* bound: the largest norm a channel reports

ASSUME ThresholdsAssumption ==
    /\ Activation \in [Channels -> Nat]
    /\ Deactivation \in [Channels -> Nat]
    /\ MaxReading \in Nat

VARIABLES
    norm,                       \* channel -> norm of the current measurement
    previous_constraint_value   \* 0 or 1, the value compute() returned last

stopVars == <<norm, previous_constraint_value>>

Readings == 0 .. MaxReading

Over(c) == norm[c] >= Activation[c]
Calm(c) == norm[c] <= Deactivation[c]

\* Mutants of Vote: strict comparisons; no release.
StrictCalmVote(c)  == IF Over(c) THEN 0
                      ELSE IF norm[c] < Deactivation[c] THEN 1
                      ELSE previous_constraint_value
StrictOverVote(c)  == IF norm[c] > Activation[c] THEN 0
                      ELSE IF Calm(c) THEN 1
                      ELSE previous_constraint_value
NoReleaseVote(c)   == IF Over(c) THEN 0 ELSE previous_constraint_value

\* force_constraint and torque_constraint in compute().
Vote(c) == IF Over(c) THEN 0
           ELSE IF Calm(c) THEN 1
           ELSE previous_constraint_value

\* Mutant: one vote is enough.
AnyVote == IF \E c \in Channels : Vote(c) = 1 THEN 1 ELSE 0

\* force_constraint + torque_constraint > 1.5; an unchecked channel votes 1.
Combined == IF \A c \in Channels : Vote(c) = 1 THEN 1 ELSE 0

StopInit ==
    /\ norm \in [Channels -> Readings]
    /\ previous_constraint_value = 1

\* The driver's read writes a new measurement into the shared robot object.
Measure ==
    /\ norm' \in [Channels -> Readings]
    /\ UNCHANGED previous_constraint_value

ComputeStop ==
    /\ previous_constraint_value' = Combined
    /\ UNCHANGED norm

StopNext == Measure \/ ComputeStop

StopSpec == StopInit /\ [][StopNext]_stopVars

-----------------------------------------------------------------------------
(* Properties                                                               *)

\* The measurements are readings and the latch holds 0 or 1.
StopTypeOK ==
    /\ norm \in [Channels -> Readings]
    /\ previous_constraint_value \in {0, 1}

\* compute() lets a stopped robot move again only in a cycle where every
\* checked channel is at or below its own deactivation threshold: no channel
\* releases the stop another one still holds.
ReleasedOnlyWhenCalm ==
    [][previous_constraint_value = 0 /\ previous_constraint_value' = 1 =>
          \A c \in Channels : Calm(c) /\ ~Over(c)]_stopVars

\* compute() stops a moving robot only when some channel reaches its activation
\* threshold: a channel between its thresholds never stops it by itself.
StoppedOnlyWhenOver ==
    [][previous_constraint_value = 1 /\ previous_constraint_value' = 0 =>
          \E c \in Channels : Over(c)]_stopVars

\* A robot stopped by a contact that ends for good moves again, and one that is
\* pushed for good is stopped for good.
CalmReleases ==
    <>[](\A c \in Channels : Calm(c) /\ ~Over(c)) => <>[](previous_constraint_value = 1)
PushStops ==
    <>[](\E c \in Channels : Over(c)) => <>[](previous_constraint_value = 0)
=============================================================================
