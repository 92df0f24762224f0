SPECIFICATION DagFairSpec
CONSTANTS
    g1 = g1
    g2 = g2
    u1 = u1
    u2 = u2
    u3 = u3
    c1 = c1
    c2 = c2
    None = None
    Generation <- MCGeneration
    Uri <- MCUri
    Approved <- MCApproved
    Partition <- MCPartition
    Requests <- MCRequests
    Caller <- MCCaller
    NullTextAccepted = TRUE
    MaxBuilds = 3
    MaxRuns = 3
    MaxFaults = 2
CHECK_DEADLOCK FALSE
INVARIANTS
    SuccessIsPublished
    FailureHasReason
    RerunNeverPublishes
PROPERTIES
    RunEnds
    CleanRunPublishes
