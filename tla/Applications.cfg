SPECIFICATION Spec
CONSTANTS
    Names <- MCNames
    Programs <- MCPrograms
    Home = 3
    Velocities <- MCVelocities
    MaxRounds = 3
INVARIANTS
    FilesHoldWhatWasLogged
    StepsPerRound
    OnlyDeathLeavesItRunning
PROPERTY
    TargetMovesByVelocity
CHECK_DEADLOCK FALSE
