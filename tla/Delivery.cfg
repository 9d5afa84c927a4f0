SPECIFICATION FairSpec
CONSTANTS
    w1 = w1  w2 = w2
    Workers = {w1, w2}
    RunOf <- TwoRuns
    Budget <- TwoOfThem
INVARIANTS
    TypeOK
    JobsAccounted
    CancelReachesAgents
    BeatsStandForJobs
PROPERTIES
    JobsAreAnswered
CHECK_DEADLOCK FALSE
