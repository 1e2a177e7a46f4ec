CONSTANTS
    Devices = {d1, d2}
    Players = {d1}
    Names = {ann, bob}
    Passwords = {p, q}
    None = None
    MaxTries = 2
    MaxWins = 1
    MaxLaunches = 1
SPECIFICATION Spec
SYMMETRY Symmetry
INVARIANTS
    TypeOK
    SessionsAreAuthentic
    PageIsOfTheSession
    BoardIsRanked
PROPERTIES
    ExistingNamesAreSafe
CHECK_DEADLOCK FALSE
