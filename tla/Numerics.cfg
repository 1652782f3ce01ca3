\* The arithmetic of the root finder and of the fifth order polynomials.
SPECIFICATION NumericsSpec
CHECK_DEADLOCK FALSE
CONSTANTS
    Roots <- MCRoots
    FourthRoots <- MCFourthRoots
    ShiftTasks <- MCShiftTasks
    LinearTasks <- MCLinearTasks
    ZerosTasks <- MCZerosTasks
    SegmentTasks <- MCSegmentTasks
    PoseTasks <- MCPoseTasks
    SearchTasks <- MCSearchTasks
    MaxIterations = 4
INVARIANTS
    StepsDivideByTheShift
    NewestIsTheNextQuadratic
    QuadFindsBothZeros
    SegmentMeetsItsEnds
    SearchIsTight
