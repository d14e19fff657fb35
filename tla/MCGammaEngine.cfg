SPECIFICATION MCSpec
CONSTANTS
    r1 = r1
    r2 = r2
    w1 = w1
    w2 = w2
    Requests = {r1, r2}
    Workers = {w1, w2}
    Kinds <- AllKinds
    JobKinds <- AllJobs
    MaxEngines = 3
    MaxCalls = 2
    TimeOuts = TRUE
    Faults = TRUE
INVARIANTS CountedUsesLive CalmSafe
PROPERTY CloseEnds
CHECK_DEADLOCK FALSE
