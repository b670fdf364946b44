SPECIFICATION FairSpec
CONSTANTS
    w1 = w1
    w2 = w2
    j1 = j1
    j2 = j2
    j3 = j3
    j4 = j4
    NoJob = NoJob
    Workers <- MCWorkers
    Jobs <- MCJobs
    Fatal <- MCFatal
INVARIANTS
    TypeOK
    EnoughWoken
    JobsAccounted
PROPERTIES
    ImplementsPool
    EveryJobEnds
