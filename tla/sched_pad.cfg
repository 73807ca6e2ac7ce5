SPECIFICATION Spec
CONSTANTS
    Configs <- PaddedUnderBudget
    MaxRequests = 3
INVARIANT DraftsFitShare
CHECK_DEADLOCK FALSE
