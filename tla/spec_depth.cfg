SPECIFICATION FairSpec
CONSTANTS
    r1 = r1
    r2 = r2
    Req <- Requests
    Configs <- All
    MaxChanges = 3
INVARIANTS
    TypeOK
    StaleShareBounded
    UniformStepsReplay
    LookupsKept
PROPERTY DepthSettles
CHECK_DEADLOCK FALSE
