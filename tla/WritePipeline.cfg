CONSTANTS
    MaxPendingWrites = 3
    LastWrite = 4
    MaxCloses = 2
    MaxRelaunches = 1
SPECIFICATION FairSpec
INVARIANTS
    TypeOK
    PipelineIsOldestPart
    AnswersMatchPipeline
    NothingIsForgotten
    CredentialsAreOfThisStart
    AcknowledgedStands
    SettledInOrder
    RejectionHasCause
PROPERTIES
    KeepsOrder
    EveryWriteSettles
CHECK_DEADLOCK FALSE
