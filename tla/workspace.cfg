SPECIFICATION Spec
CONSTANTS
    FailsAt <- Commands
    Touching <- SecondTouches
    MaxBase = 2
    MaxRounds = 2
    MaxFaults = 3
INVARIANTS TypeOK HostedReady FirstRoundFresh CacheTracksWorkspace
PROPERTY LeftoversHeal
CHECK_DEADLOCK FALSE
