SPECIFICATION FairSpec
CONSTANTS
    t1 = t1
    t2 = t2
    w1 = w1
    w2 = w2
    Null = Null
    Nobody = Nobody
    None = None
    Absent = Absent
    Users = {u1, u2}
    Tokens = {k1, k2}
    Threads <- MCThreads
    Workers <- MCWorkers
    Limits <- MCLimits
    MaxInt = 3
    PageSize = 1
    MaxPageSize = 2
    MaxRequests = 4
    MaxFailures = 1
INVARIANTS
    TypeOK
    DevicesKept
    TokensUnique
    NothingSkipped
PROPERTIES
    RemovedForCause
    EveryJobEnds
CHECK_DEADLOCK FALSE
