SPECIFICATION Spec
CONSTANTS
    FailsAt = {}
    DiesAt <- Steps
    LosesWorkspace = FALSE
    Conflicting = {}
    MaxBase = 1
    MaxFaults = 1
INVARIANT PublishedTested
CHECK_DEADLOCK FALSE
