SPECIFICATION FairSpec
CONSTANTS
    r1 = r1
    r2 = r2
    b1 = b1
    b2 = b2
    Req <- Requests
    Block <- TwoBlocks
    Batches = 2
    MaxSteps = 3
INVARIANTS
    TypeOK
    NoFreeBlockInUse
    LoadsExclusive
PROPERTY DeferredReturned
CHECK_DEADLOCK FALSE
