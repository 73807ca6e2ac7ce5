SPECIFICATION FairSpec
CONSTANTS
    Configs <- All
    MaxRequests = 3
INVARIANTS
    TypeOK
    DeliveredInOrder
    CountersMatchPipeline
    SettledWhenDrained
    PrefillWithinBudget
    UnfinishedIsQueued
PROPERTY EveryRequestServed
CHECK_DEADLOCK FALSE
