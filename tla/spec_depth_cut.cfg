SPECIFICATION Spec
CONSTANTS
    r1 = r1
    r2 = r2
    Req <- Requests
    Configs <- Ends
    MaxChanges = 3
INVARIANT EveryShapeCaptured
CHECK_DEADLOCK FALSE
