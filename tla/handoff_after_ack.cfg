SPECIFICATION Spec
CONSTANTS
    Engine = "stub"
    MaxRounds = 3
    MaxPlans = 2
    MaxContents = 4
    Calls <- EditedSession
INVARIANTS PrCarriesApproved
CHECK_DEADLOCK FALSE
