SPECIFICATION FairSpec
CONSTANTS
    Jobs = {1, 2}
    Lanes = 2
    QueueCap = 1
    Configs <- SomeConfigs
INVARIANTS
    OutstandingExact
    StreamWellFormed
    LaneIsOwn
PROPERTIES
    EveryJobAnswered
CHECK_DEADLOCK FALSE
