CONSTANTS
    Seqs = {1}
    Token = {1, 2}
    Eos = 2
    Prompts <- CrowdingPrompts
    MaxNews = {0, 4}
    Drafts <- OneOrTwoDrafts
    NumBlocks = 3
    BlockSize = 2
    MaxBatchSize = 2
    MaxBatchedTokens = 3
    PrefillChunkMin = 0
    PrefixCacheReuse = TRUE
SPECIFICATION Spec
INVARIANTS
    DraftCountExact
CHECK_DEADLOCK FALSE
