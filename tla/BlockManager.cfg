CONSTANTS
    Seqs = {s1, s2}
    Token = {1, 2}
    Prompts <- MCPrompts
    NumBlocks = 3
    BlockSize = 2
SYMMETRY Symmetry
SPECIFICATION MCSpec
INVARIANTS
    RefCountsHolders
    FreeListExact
    MapPointsAtItsHash
    SharedPrefixIsOwn
    AllocationNeverFailsMidway
    CachedTokensAreComputed
CHECK_DEADLOCK FALSE
