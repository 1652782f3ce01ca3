SPECIFICATION Spec
CONSTANTS
    JointCount = 2
    Home <- MCHome
    Velocities <- MCVelocities
    Garbage <- MCGarbage
    Timeout = 1
    MaxCycles = 3
INVARIANTS
    ReadTrueMeansRead
CHECK_DEADLOCK FALSE
