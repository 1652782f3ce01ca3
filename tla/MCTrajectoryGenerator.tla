---------------------- MODULE MCTrajectoryGenerator ----------------------
(***************************************************************************)
(* Two components, two segments; with samples of 4 and durations of 2 and  *)
(* 6 units a segment may end within a sample, and a sample span one.       *)
(***************************************************************************)
EXTENDS TrajectoryGenerator

MCDurations == {2, 6}
MCLimits == {<<2, 6>>}
MCFixedTimes == {6}
==========================================================================
