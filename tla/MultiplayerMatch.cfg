CONSTANTS
    Hands = {"Paper"}
    Watching = {"guest"}
    Rotating = {"guest"}
    MinRounds = 1
    MaxFights = 3
    MaxFailures = 1
SPECIFICATION Spec
CHECK_DEADLOCK FALSE
CONSTRAINT Undisturbed
INVARIANTS
    TypeOK
    WinnerLeads
    StatsBalance
PROPERTIES
    RoundsAreAtomic
