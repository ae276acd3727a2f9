SPECIFICATION Spec
CONSTANTS
    Engine = "stub"
    MaxRounds = 2
    MaxPlans = 2
    MaxContents = 3
    Calls <- AllButInterrupt
INVARIANTS EngineOutputTested
PROPERTIES ImplementsGate RepairSpent
CHECK_DEADLOCK FALSE
