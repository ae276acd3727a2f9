SPECIFICATION Spec
CONSTANTS
    MaxRuns = 2
    MaxDesigns = 2
    MaxPlans = 0
    MaxComments = 0
    MaxCases = 1
    HasProject = TRUE
    Calls <- StoryCalls
INVARIANT RegistryPerRun
CHECK_DEADLOCK FALSE
