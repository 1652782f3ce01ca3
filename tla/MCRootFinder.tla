---------------------------- MODULE MCRootFinder ----------------------------
(***************************************************************************)
(* Small instance of RootFinder for TLC: polynomials from one degree more  *)
(* than the code's callers use to one above the largest allowed.           *)
(***************************************************************************)
EXTENDS RootFinder

MCDegrees == 2 .. 6
=============================================================================
