CONSTANTS
    Devices = {d1, d2}
    Nobody = nobody
    OldRooms = 0
    LastRoom = 1
    MayFail = FALSE
SPECIFICATION FairSpec
CHECK_DEADLOCK FALSE
PROPERTIES
    HostEventuallyOpens
