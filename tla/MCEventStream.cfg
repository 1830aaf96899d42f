CONSTANTS
    Topic <- TwoTopics
    MaxVersion = 1
    MaxFailures = 2
SPECIFICATION FairSpec
INVARIANTS
    TypeOK
    ToldIsShown
    FallbackOnlyOffline
PROPERTIES
    NeverOlder
    OfflineCatchesUp
CHECK_DEADLOCK FALSE
