CONSTANTS
    Devices = {d1, d2, d3}
    Nobody = nobody
    OldRooms = 1
    LastRoom = 3
    MayFail = TRUE
SPECIFICATION Spec
SYMMETRY DeviceSymmetry
CHECK_DEADLOCK FALSE
INVARIANTS
    TypeOK
    LobbyReadable
    SeatsAreExclusive
    NamesAgree
    GuestFollowsHost
PROPERTIES
    PairsInOrder
