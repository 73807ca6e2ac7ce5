SPECIFICATION Spec
CONSTANTS
    Configs <- PreemptedSession
    MaxRequests = 3
INVARIANT UnfinishedIsQueued
CHECK_DEADLOCK FALSE
