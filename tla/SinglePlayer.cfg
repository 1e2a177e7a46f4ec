CONSTANTS
    MinRounds = 4
    MaxRound = 7
SPECIFICATION Spec
INVARIANTS
    TypeOK
    ScoresAddUp
    AlertNamesLeader
    LabelsNeverMix
PROPERTIES
    PointsFollowTheRules
    MatchSpec
