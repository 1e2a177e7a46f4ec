CONSTANTS
    MaxReads = 2
    MaxWrites = 1
    MaxVersion = 2
    MaxBreaks = 1
SPECIFICATION Spec
INVARIANTS
    TypeOK
    ReadsAreFresh
    ReadYourWrites
    VersionsNeverGoBack
    TrackerAssertions
PROPERTIES
    ReadsAreHonest
CHECK_DEADLOCK FALSE
