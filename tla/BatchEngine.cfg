CONSTANTS
    Seqs = {1, 2}
    Token = {1, 2}
    Eos = 2
    Prompts <- EnginePrompts
    MaxNews = {0, 4}
    Drafts <- NoDrafts
    NumBlocks = 3
    BlockSize = 2
    MaxBatchSize = 2
    MaxBatchedTokens = 2
    PrefillChunkMin = 0
    PrefixCacheReuse = FALSE
    MaxWaiting = 1
SPECIFICATION FairEngineSpec
INVARIANTS
    MetaMatchesScheduler
    StepperStateReleased
    StreamWellFormed
    ListenerGetsTheEnd
    AdmittedFitsPool
PROPERTIES
    EveryRequestCloses
CHECK_DEADLOCK FALSE
