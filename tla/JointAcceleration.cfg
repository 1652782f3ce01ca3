SPECIFICATION Spec
CONSTANTS
    Setups <- MemorySetup
    GeneratorNames = {"g"}
    Joints <- MCJoints
    CpDamping = 2
    JointDamping = 2
    SampleTime <- One
PROPERTIES
    JointAccelerationLimited
CHECK_DEADLOCK FALSE
