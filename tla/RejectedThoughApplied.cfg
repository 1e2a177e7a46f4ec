CONSTANTS
    MaxPendingWrites = 3
    LastWrite = 3
    MaxCloses = 2
    MaxRelaunches = 1
SPECIFICATION Spec
INVARIANTS
    RejectedWereRefused
CHECK_DEADLOCK FALSE
