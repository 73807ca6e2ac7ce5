SPECIFICATION FairSpec
CONSTANTS
    c1 = c1
    c2 = c2
    r1 = r1
    r2 = r2
    n1 = n1
    n2 = n2
    None = None
    Coord <- TwoCoords
    Jobs <- RivalJobs
    N = 2
    Runs <- BothRuns
    Nonces <- BothNonces
    MemValues <- OneMemory
    MinMem = 7
    Spread = 1
    Reserve = 2
    Foreign <- ForeignWorker
    Imaged <- AllHosts
    LossProne <- NoCoords
    MaxFaults = 0
    MaxFails = 2
    MaxKills = 1
INVARIANTS
    TypeOK
    FailStopOwnAttemptOnly
    FailStopOnlyFailedRanks
    CoordinatorStoppedLast
PROPERTIES
    ReadinessIsOwn
    StopPassMeansStopped
    EveryScriptEnds
CHECK_DEADLOCK FALSE
