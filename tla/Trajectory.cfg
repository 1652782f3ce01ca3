SPECIFICATION FairSpec
CONSTANTS
    Count = 2
    SampleTime = 4
    Durations <- MCDurations
    Limits <- MCLimits
    FixedTimes <- MCFixedTimes
    MaxSegments = 2
    MaxCalls = 4
INVARIANTS
    SynchronizedTogether
    OneSamplePerWaypoint
PROPERTIES
    TrueAtTheEnd
    AdvancesOneSample
    StrayStandsStill
    ResumesFromRest
    Arrives
CHECK_DEADLOCK FALSE
