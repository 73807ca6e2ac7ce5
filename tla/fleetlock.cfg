SPECIFICATION FairSpec
CONSTANTS
    c1 = c1
    c2 = c2
    Coord <- TwoCoords
    ReadyAttempts = 2
    ReleaseAttempts = 1
    MaxWork = 2
    MaxDrops = 2
    MaxCrashes = 1
INVARIANTS
    TypeOK
    LockCoversMutation
    MutationsExclusive
PROPERTIES
    ImplementsLockService
    EveryCoordinatorLeaves
    FlockAlwaysFreed
CHECK_DEADLOCK FALSE
