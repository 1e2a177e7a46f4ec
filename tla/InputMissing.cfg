CONSTANTS
    Hands = {"Paper"}
    Watching = {"host", "guest"}
    Rotating = {}
    MinRounds = 1
    MaxFights = 2
    MaxFailures = 0
SPECIFICATION Spec
CHECK_DEADLOCK FALSE
INVARIANTS
    InputsPresent
