--------------------------- MODULE MCVREPDriver ---------------------------
(***************************************************************************)
(* Two joints that do not stand at zero and move both ways, one value that *)
(* no joint can have, time for one failed read, and three cycles.          *)
(***************************************************************************)
EXTENDS VREPDriver

MCHome == <<4, 7>>
MCVelocities == {-1, 1}
MCGarbage == {-20}
===========================================================================
