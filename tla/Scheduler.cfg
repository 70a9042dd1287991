CONSTANTS
    Seqs = {1, 2, 3}
    Token = {1, 2}
    Eos = 2
    Prompts <- SharedPrompts
    MaxNews = {3}
    Drafts <- NoDrafts
    NumBlocks = 3
    BlockSize = 2
    MaxBatchSize = 2
    MaxBatchedTokens = 3
    PrefillChunkMin = 0
    PrefixCacheReuse = TRUE
SPECIFICATION Spec
INVARIANTS
    SchedulerInv
    CachedKvMatchesHash
    OldestFirst
CHECK_DEADLOCK FALSE
