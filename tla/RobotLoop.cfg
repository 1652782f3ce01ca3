SPECIFICATION Spec
CONSTANTS
    Displacements <- MCDisplacements
    Targets <- MCTargets
    Forces <- MCForces
    Gains <- MCGains
    Controls <- MCControls
    Selections <- MCSelections
    Offset <- MCOffset
    Laser <- MCLaser
    Walls <- MCWalls
    People <- MCPeople
    Reach = 3
    Workspace <- MCWorkspace
    MaxCycles = 3
INVARIANTS
    MovesAsAsked
    DeselectedAxisFades
    OdometryAgrees
CHECK_DEADLOCK FALSE
