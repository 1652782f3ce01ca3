------------------------- MODULE MCDemoStateMachine -------------------------
(***************************************************************************)
(* DemoStateMachine for TLC: the taught poses of a demo started with       *)
(* teaching skipped, in pairs as the constructor stores them.              *)
(***************************************************************************)
EXTENDS DemoStateMachine

TwoTaughtPoses == <<1, 1, 2, 2>>
=============================================================================
