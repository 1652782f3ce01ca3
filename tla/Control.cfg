SPECIFICATION Spec
CONSTANTS
    Setups <- BothSetups
    GeneratorNames = {"g"}
    Joints <- MCJoints
    CpDamping = 2
    JointDamping = 2
    SampleTime <- One
PROPERTIES
    EveryPromiseKept
    PublishedVelocityIsExecuted
    OnlySlowsDown
CHECK_DEADLOCK FALSE
