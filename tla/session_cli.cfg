SPECIFICATION Spec
CONSTANTS
    Engine = "cli"
    MaxRounds = 3
    MaxPlans = 2
    MaxContents = 4
    Calls <- SessionAndFailures
INVARIANTS TypeOK ReviewGate ApprovedRunStands ApprovedPlanInForce RoundLedger CompletedRounds SessionStatusSynced PrCarriesRecorded
PROPERTIES UntestedOnlyByFailure
CHECK_DEADLOCK FALSE
