--------------------------- MODULE MCEmergencyStop ---------------------------
(***************************************************************************)
(* EmergencyStop with both channels checked, each with readings below, at, *)
(* between and above its thresholds; with the history variable.            *)
(***************************************************************************)
EXTENDS EmergencyStopRefinement

MCChannels     == {"force", "torque"}
MCActivation   == [c \in MCChannels |-> IF c = "force" THEN 4 ELSE 3]
MCDeactivation == [c \in MCChannels |-> IF c = "force" THEN 2 ELSE 1]
=============================================================================
