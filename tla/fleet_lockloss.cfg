SPECIFICATION Spec
CONSTANTS
    c1 = c1
    c2 = c2
    r1 = r1
    r2 = r2
    n1 = n1
    n2 = n2
    None = None
    Coord <- TwoCoords
    Jobs <- SizingJobs
    N = 2
    Runs <- BothRuns
    Nonces <- BothNonces
    MemValues <- MovingMemory
    MinMem = 7
    Spread = 1
    Reserve = 2
    Foreign <- ForeignWorker
    Imaged <- AllHosts
    LossProne <- TwoCoords
    MaxFaults = 1
    MaxFails = 0
    MaxKills = 0
INVARIANTS
    NonceOneUse
    OneCreatorPerRun
    FloorsUniformAndFit
PROPERTY PinReportTrue
CHECK_DEADLOCK FALSE
