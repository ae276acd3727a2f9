SPECIFICATION ConcurrentSpec
CONSTANTS
    MaxRuns = 1
    MaxDesigns = 3
    MaxPlans = 1
    MaxComments = 1
    MaxCases = 1
    HasProject = TRUE
    MaxIssues = 0
    Clients <- TwoClients
    c1 = c1
    c2 = c2
    Calls <- RunCalls
INVARIANTS NewestIsCurrent StatusTold
PROPERTIES VersionsStand CommentOnce CasesStand StartedRunEnds
CHECK_DEADLOCK FALSE
