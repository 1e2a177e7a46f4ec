CONSTANTS
    Hands = {"Paper"}
    Watching = {"host", "guest"}
    Rotating = {"host", "guest"}
    MinRounds = 1
    MaxFights = 2
    MaxFailures = 0
SPECIFICATION FairSpec
CHECK_DEADLOCK FALSE
PROPERTIES
    WinnerAnnounced
