SPECIFICATION Spec
CONSTANTS
    Count = 2
    SampleTime = 4
    Durations <- MCDurations
    Limits <- MCLimits
    FixedTimes <- MCFixedTimes
    MaxSegments = 2
    MaxCalls = 4
PROPERTIES
    SynchronizedResumesFromRest
CHECK_DEADLOCK FALSE
