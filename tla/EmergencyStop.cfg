SPECIFICATION FairHSpec
CONSTANTS
    Channels <- MCChannels
    Activation <- MCActivation
    Deactivation <- MCDeactivation
    MaxReading = 5
INVARIANTS
    NeverLooser
PROPERTIES
    ImplementsPolicy
    CalmReleases
    PushStops
