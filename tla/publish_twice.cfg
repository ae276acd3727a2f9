SPECIFICATION ConcurrentSpec
CONSTANTS
    MaxRuns = 1
    MaxDesigns = 1
    MaxPlans = 1
    MaxComments = 1
    MaxCases = 1
    HasProject = TRUE
    MaxIssues = 2
    Clients <- TwoClients
    c1 = c1
    c2 = c2
    Calls <- PublishCalls
INVARIANT OneIssuePerCase
CHECK_DEADLOCK FALSE
