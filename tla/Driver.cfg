SPECIFICATION FairSpec
CONSTANTS
    JointCount = 2
    Home <- MCHome
    Velocities <- MCVelocities
    Garbage <- MCGarbage
    Timeout = 1
    MaxCycles = 3
INVARIANTS
    CommandsComeWhole
    OneCommandBehind
PROPERTIES
    NoJump
    Ends
CHECK_DEADLOCK FALSE
