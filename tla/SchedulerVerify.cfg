CONSTANTS
    Seqs = {1, 2}
    Token = {1, 2}
    Eos = 2
    Prompts <- CrowdingPrompts
    MaxNews = {0, 4}
    Drafts <- OneOrTwoDrafts
    NumBlocks = 3
    BlockSize = 2
    MaxBatchSize = 2
    MaxBatchedTokens = 3
    PrefillChunkMin = 2
    PrefixCacheReuse = TRUE
SPECIFICATION FairSpec
INVARIANTS
    OnePlace
    OnlyRunningHoldBlocks
    RunningKvIsOwn
    RunningCanStep
    OutputStopsInTime
PROPERTIES
    PoolImplemented
    EverySequenceFinishes
CHECK_DEADLOCK FALSE
