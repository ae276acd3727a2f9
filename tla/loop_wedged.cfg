SPECIFICATION Spec
CONSTANTS
    Engine = "stub"
    MaxRounds = 3
    MaxPlans = 2
    MaxContents = 4
    Calls <- SessionCalls
INVARIANTS SessionLoopOpen
CHECK_DEADLOCK FALSE
