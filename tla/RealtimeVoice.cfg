SPECIFICATION FairSpec
CONSTANTS
    MaxItem = 2
    MaxResp = 1
    Configs <- VoiceConfigs
    MaxOps = 1
    MaxDeltas = 1
INVARIANTS
    ItemOrder
    
PROPERTIES
    ResponseEnds
    TurnSettled
ACTION_CONSTRAINT ClientsBounded
CHECK_DEADLOCK FALSE
