SPECIFICATION ConcurrentSpec
CONSTANTS
    Engine = "stub"
    MaxRounds = 2
    MaxPlans = 2
    MaxContents = 3
    c1 = c1
    c2 = c2
    Clients = {c1, c2}
    Calls <- SessionCalls
SYMMETRY ClientSymmetry
INVARIANTS CompletedRounds PlanPause
PROPERTIES RoundsClosedOnce CountedWhenClosed PrOnce
CHECK_DEADLOCK FALSE
