CONSTANTS
    MaxReads = 2
    MaxWrites = 1
    MaxVersion = 1
    MaxBreaks = 1
SPECIFICATION FairSpec
PROPERTIES
    EveryReadAnswers
CHECK_DEADLOCK FALSE
