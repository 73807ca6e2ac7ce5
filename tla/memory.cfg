SPECIFICATION Spec
CONSTANTS
    None = None
    Configs <- All
    MaxChanges = 2
INVARIANTS
    TypeOK
    HostReserveKept
    RoomyStartSucceeds
CHECK_DEADLOCK FALSE
