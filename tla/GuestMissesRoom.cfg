CONSTANTS
    Devices = {d1, d2}
    Nobody = nobody
    OldRooms = 0
    LastRoom = 1
    MayFail = FALSE
SPECIFICATION Spec
CHECK_DEADLOCK FALSE
PROPERTIES
    GuestJoinsExistingRoom
