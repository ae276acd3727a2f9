SPECIFICATION Spec
CONSTANTS
    FailsAt <- AllButStore
    DiesAt <- Steps
    LosesWorkspace = TRUE
    Conflicting <- SecondConflicts
    MaxBase = 3
    MaxFaults = 3
INVARIANTS TypeOK TestedUnlessCut
PROPERTIES PushKeepsHistory PrBranchFrozen
CHECK_DEADLOCK FALSE
