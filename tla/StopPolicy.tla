------------------------------ MODULE StopPolicy -----------------------------
(***************************************************************************)
(* What an emergency stop with activation and deactivation thresholds      *)
(* promises, whatever its implementation: every channel has a latch of its *)
(* own, set at the activation threshold and cleared at the deactivation    *)
(* threshold; the robot is stopped while any latch is set and free once    *)
(* every channel is calm.  In between the implementation may keep a        *)
(* stopped robot stopped, but stops a free one only for a latch.           *)
(***************************************************************************)
EXTENDS Naturals

CONSTANTS Channels, Activation, Deactivation, MaxReading

VARIABLES norm, latched, stopped

vars == <<norm, latched, stopped>>

LatchOf(c) == IF norm[c] >= Activation[c] THEN TRUE
              ELSE IF norm[c] <= Deactivation[c] THEN FALSE
              ELSE latched[c]

Init ==
    /\ norm \in [Channels -> 0 .. MaxReading]
    /\ latched = [c \in Channels |-> FALSE]
    /\ stopped = FALSE

Measure ==
    /\ norm' \in [Channels -> 0 .. MaxReading]
    /\ UNCHANGED <<latched, stopped>>

Evaluate ==
    /\ latched' = [c \in Channels |-> LatchOf(c)]
    /\ stopped' \in BOOLEAN
    /\ (\E c \in Channels : LatchOf(c)) => stopped'
    /\ (\A c \in Channels : norm[c] <= Deactivation[c] /\ norm[c] < Activation[c]) => ~stopped'
    /\ ~stopped /\ stopped' => \E c \in Channels : LatchOf(c)
    /\ UNCHANGED norm

Next == Measure \/ Evaluate

Spec == Init /\ [][Next]_vars
=============================================================================
