SPECIFICATION StoriesSpec
CONSTANTS
    MaxRuns = 2
    MaxDesigns = 3
    MaxPlans = 2
    MaxComments = 2
    MaxCases = 2
    HasProject = TRUE
    Calls <- AllCalls
INVARIANTS TypeOK OpenDesignIsCurrent StatusTold ApprovedPlanIsLatest CasesApproved ApprovedIsRecorded
PROPERTIES DecisionStands ImplementsDesignGate
CHECK_DEADLOCK FALSE
