SPECIFICATION Spec
CONSTANTS
    MaxItem = 1
    MaxResp = 3
    Configs <- EagerConfigs
    MaxOps = 3
    MaxDeltas = 1
INVARIANTS
    DoneForEachCreated
CHECK_DEADLOCK FALSE
