---------------------------- MODULE MCRobotLoop ----------------------------
(* Three cycles of the closed loop on a small lattice. *)
EXTENDS RobotLoop

MCDisplacements == {<<1, 0>>, <<-1, 2>>}
MCTargets == {<<4, 0>>, <<2, -1>>}
MCForces == {<<4, 0>>, <<-4, 4>>}
MCGains == [p |-> <<1, 2>>, d |-> <<2, 0>>]
MCControls == {<<"Robot", 0>>, <<"Environment", 1>>}
MCSelections == {<<1, 0>>, <<0, 1>>}
MCOffset == <<1, 0>>
MCLaser == [at |-> <<0, -6>>, rotation |-> 1, minimum |-> 1, maximum |-> 26, threshold |-> 0]
MCWalls == {<<0, 4>>}
MCPeople == {{<<0, 1>>}, {<<0, 1>>, <<4, -6>>}, {<<0, 6>>}}
MCWorkspace == -14 .. 14
=============================================================================
