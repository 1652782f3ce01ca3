--------------------------- MODULE MCApplications ---------------------------
(* Every program of src/apps/ that talks to a robot or logs, three rounds. *)
EXTENDS Applications

MCNames == Items \cup {"robot", "data", "more"}
MCPrograms == DOMAIN Calls
MCVelocities == {-1, 2}
=============================================================================
