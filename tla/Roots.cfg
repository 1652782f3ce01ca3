SPECIFICATION FairSpec
CONSTANTS
    Degrees <- MCDegrees
    MaxDegree = 5
    MaxShifts = 2
    FixedSteps = 2
    QuadraticSteps = 3
    LinearSteps = 3
INVARIANTS
    ArraysMatchDegree
    RootsReadAreWritten
PROPERTIES
    Returns
CHECK_DEADLOCK FALSE
