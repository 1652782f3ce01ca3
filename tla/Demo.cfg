SPECIFICATION FairSpec
CONSTANTS
    MaxTaught = 2
    TaughtPoses <- TwoTaughtPoses
    Delays = {1, 3}
INVARIANTS
    NoUncaughtException
    RegistryMatchesState
    WaypointsArePaired
PROPERTIES
    StopDroppedOnlyForForceControl
    ForceHeldOrStalled
    TeachingEnds
    ReplayEnds
CHECK_DEADLOCK FALSE
