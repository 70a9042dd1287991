---------------------------- MODULE BlockManager ----------------------------
(***************************************************************************)
(* The paged KV-cache pool of nv-engine (block_manager.rs): a fixed pool   *)
(* of reference-counted blocks, a free list, and a map from the hash of a  *)
(* token prefix to the block that holds it, through which sequences with a *)
(* common prefix share blocks.                                             *)
(*                                                                         *)
(* The pool is used by one thread at a time, so an operation is never      *)
(* interleaved with another; each loop of the code (allocation, extension, *)
(* deallocation) is one step per iteration here, and `op' names the loop   *)
(* that is under way.                                                      *)
(*                                                                         *)
(* A block's 64-bit chained hash is modelled by what it stands for, the    *)
(* whole token prefix up to the end of the block: hash collisions are not  *)
(* modelled, and neither is the per-adapter seed (nothing passes one).     *)
(***************************************************************************)
EXTENDS Integers, Sequences, FiniteSets, Functions, Queues

CONSTANTS
    Seqs,       \* the sequences that use the pool
    Token,      \* the token vocabulary
    Prompts,    \* the prompts requests arrive with
    NumBlocks,  \* SchedulerConfig::num_blocks
    BlockSize   \* SchedulerConfig::block_size

ASSUME PoolAssumption ==
    /\ IsFiniteSet(Seqs)
    /\ Prompts \subseteq Seq(Token)
    /\ NumBlocks \in Nat
    /\ BlockSize \in Nat \ {0}

VARIABLES
    refCount,     \* Block::ref_count
    hash,         \* Block::hash (NoHash for None) and, with it, Block::tokens
    kvComputed,   \* Block::kv_computed
    free,         \* BlockManager::free, front first
    hashToBlock,  \* BlockManager::hash_to_block
    toks,         \* Sequence::tokens(), prompt then output
    table,        \* Sequence::block_table
    op            \* the pool loop that is under way

poolVars == <<refCount, hash, kvComputed, free, hashToBlock, toks, table, op>>

Blocks == 0 .. NumBlocks - 1
NoHash == <<>>
Idle == [kind |-> "idle"]

-----------------------------------------------------------------------------
(* Sequence and hash helpers.                                              *)

NumBlocksNeeded(n) == (n + BlockSize - 1) \div BlockSize

FullBlocks(s) == Len(toks[s]) \div BlockSize

\* Mutant: the hash of a block alone, not chained to its prefix.
BlockHashUnchained(t, i) == SubSeq(t, (i - 1) * BlockSize + 1, i * BlockSize)

\* The chained hash of the i-th full block of token sequence t.
BlockHash(t, i) == SubSeq(t, 1, i * BlockSize)

Mapped(h) == h \in DOMAIN hashToBlock

Unmap(h) == [g \in DOMAIN hashToBlock \ {h} |-> hashToBlock[g]]

-----------------------------------------------------------------------------
PoolInit ==
    /\ refCount = [b \in Blocks |-> 0]
    /\ hash = [b \in Blocks |-> NoHash]
    /\ kvComputed = [b \in Blocks |-> FALSE]
    /\ free = [i \in 1 .. NumBlocks |-> i - 1]
    /\ hashToBlock = [h \in {} |-> 0]
    /\ toks = [s \in Seqs |-> <<>>]
    /\ table = [s \in Seqs |-> <<>>]
    /\ op = Idle

\* Mutant: the recycled block stays in the prefix map.
PopFreeKeepsMapping(s, h) ==
    LET b == Head(free)
    IN  /\ free # <<>>
        /\ free' = Tail(free)
        /\ refCount' = [refCount EXCEPT ![b] = 1]
        /\ hash' = [hash EXCEPT ![b] = h]
        /\ kvComputed' = [kvComputed EXCEPT ![b] = FALSE]
        /\ hashToBlock' = IF h = NoHash THEN hashToBlock
                          ELSE [g \in DOMAIN hashToBlock \cup {h} |->
                                   IF g = h THEN b ELSE hashToBlock[g]]
        /\ table' = [table EXCEPT ![s] = Append(@, b)]

\* pop_free: the front of the free list loses its hash, its mapping if the
\* map still points at it, and its computed flag, and becomes sequence s's
\* next block with hash h (NoHash: none).
PopFree(s, h) ==
    LET b == Head(free)
        kept == IF Mapped(hash[b]) /\ hashToBlock[hash[b]] = b
                THEN Unmap(hash[b]) ELSE hashToBlock
    IN  /\ free # <<>>
        /\ free' = Tail(free)
        /\ refCount' = [refCount EXCEPT ![b] = 1]
        /\ hash' = [hash EXCEPT ![b] = h]
        /\ kvComputed' = [kvComputed EXCEPT ![b] = FALSE]
        /\ hashToBlock' = IF h = NoHash THEN kept
                          ELSE [g \in DOMAIN kept \cup {h} |->
                                   IF g = h THEN b ELSE kept[g]]
        /\ table' = [table EXCEPT ![s] = Append(@, b)]

\* Mutant: a revived block stays on the free list.
ShareLeavesFree(s, b) ==
    /\ refCount' = [refCount EXCEPT ![b] = @ + 1]
    /\ table' = [table EXCEPT ![s] = Append(@, b)]
    /\ UNCHANGED <<free, hash, kvComputed, hashToBlock>>

\* The shared branch of share_or_pop: take another reference to block b,
\* reviving it from the free list if nobody holds it.
Share(s, b) ==
    /\ refCount' = [refCount EXCEPT ![b] = @ + 1]
    /\ free' = IF refCount[b] = 0 THEN Without(free, b) ELSE free
    /\ table' = [table EXCEPT ![s] = Append(@, b)]
    /\ UNCHANGED <<hash, kvComputed, hashToBlock>>

-----------------------------------------------------------------------------
(* allocate_with_prefix.                                                   *)

\* Mutant: a shared block that has to be revived is not counted.
RequiredFreshNoRevived(s) ==
    Cardinality({i \in 1 .. FullBlocks(s) : ~Mapped(BlockHash(toks[s], i))})
      + (IF Len(toks[s]) % BlockSize # 0 THEN 1 ELSE 0)

\* Blocks the allocation takes off the free list: the full blocks that are
\* not shared with a live holder, and the partial tail.
RequiredFresh(s) ==
    LET taken == {i \in 1 .. FullBlocks(s) :
                    LET h == BlockHash(toks[s], i)
                    IN  Mapped(h) => refCount[hashToBlock[h]] = 0}
    IN  Cardinality(taken)
          + (IF Len(toks[s]) % BlockSize # 0 THEN 1 ELSE 0)

CanAllocate(s) == RequiredFresh(s) <= Len(free)

AllocateBegin(s) ==
    /\ op = Idle
    /\ table[s] = <<>>
    /\ toks[s] # <<>>
    /\ CanAllocate(s)
    /\ op' = [kind |-> "alloc", seq |-> s, cached |-> 0, leading |-> TRUE]
    /\ UNCHANGED <<refCount, hash, kvComputed, free, hashToBlock, toks, table>>

\* Mutant: a shared block counts as cached whether or not it was computed.
AcquireSharedUncomputed ==
    /\ op.kind = "alloc"
    /\ LET s == op.seq
           i == Len(table[s]) + 1
           h == BlockHash(toks[s], i)
       IN  /\ i <= FullBlocks(s)
           /\ Mapped(h)
           /\ Share(s, hashToBlock[h])
           /\ op' = [op EXCEPT !.cached = IF op.leading THEN @ + BlockSize ELSE @]
    /\ UNCHANGED toks

\* One iteration of the acquisition loop for a block already in the map: it
\* counts as cached while every block so far was shared and computed.
AcquireShared ==
    /\ op.kind = "alloc"
    /\ LET s == op.seq
           i == Len(table[s]) + 1
           h == BlockHash(toks[s], i)
           hit == op.leading /\ kvComputed[hashToBlock[h]]
       IN  /\ i <= FullBlocks(s)
           /\ Mapped(h)
           /\ Share(s, hashToBlock[h])
           /\ op' = [op EXCEPT !.leading = hit,
                               !.cached = IF hit THEN @ + BlockSize ELSE @]
    /\ UNCHANGED toks

\* One iteration for a full block that is not in the map, or for the
\* partial tail, which carries no hash.
AcquireFresh ==
    /\ op.kind = "alloc"
    /\ LET s == op.seq
           i == Len(table[s]) + 1
           h == BlockHash(toks[s], i)
       IN  /\ i <= NumBlocksNeeded(Len(toks[s]))
           /\ i <= FullBlocks(s) => ~Mapped(h)
           /\ PopFree(s, IF i <= FullBlocks(s) THEN h ELSE NoHash)
           /\ op' = [op EXCEPT !.leading = FALSE]
    /\ UNCHANGED toks

Allocated ==
    /\ op.kind = "alloc"
    /\ Len(table[op.seq]) = NumBlocksNeeded(Len(toks[op.seq]))

\* Mutant: a fully cached prompt leaves nothing to recompute.
CachedTokensWhole == op.cached

\* Allocation::cached_tokens: a prompt that is cached to its last token
\* still recomputes its last block.
CachedTokens ==
    IF op.cached + 1 > Len(toks[op.seq])
    THEN op.cached - BlockSize ELSE op.cached

AllocateEnd ==
    /\ Allocated
    /\ op' = Idle
    /\ UNCHANGED <<refCount, hash, kvComputed, free, hashToBlock, toks, table>>

-----------------------------------------------------------------------------
(* The other operations.                                                   *)

\* extend_for and extend_for_slots grow s's table to goal blocks; the second
\* pops nothing unless every block it needs is free. Goals beyond the pool
\* are all the same: every block there is, and then a failure.
ExtendFor(s, goal) ==
    LET aim == IF goal <= NumBlocks THEN goal ELSE NumBlocks + 1
    IN  /\ op = Idle
        /\ Len(table[s]) < aim
        /\ PopFree(s, NoHash)
        /\ op' = IF Len(table[s]) + 1 = aim THEN Idle
                 ELSE [kind |-> "extend", seq |-> s, goal |-> aim]
        /\ UNCHANGED toks

ExtendNext ==
    /\ op.kind = "extend"
    /\ PopFree(op.seq, NoHash)
    /\ op' = IF Len(table[op.seq]) + 1 = op.goal THEN Idle ELSE op
    /\ UNCHANGED toks

\* extend_for runs out of blocks half way and keeps the ones it got.
ExtendFail ==
    /\ op.kind = "extend"
    /\ free = <<>>
    /\ op' = Idle
    /\ UNCHANGED <<refCount, hash, kvComputed, free, hashToBlock, toks, table>>

\* deallocate: give the blocks back, last first. `table' is what a sequence
\* holds; the ids a finished Sequence keeps in its block_table are not read.
DeallocateBegin(s) ==
    /\ op = Idle
    /\ op' = IF table[s] = <<>> THEN Idle ELSE [kind |-> "release", seq |-> s]
    /\ UNCHANGED <<refCount, hash, kvComputed, free, hashToBlock, toks, table>>

ReleaseLast ==
    /\ op.kind = "release"
    /\ LET s == op.seq
           n == Len(table[s])
           b == table[s][n]
       IN  /\ refCount' = [refCount EXCEPT ![b] = @ - 1]
           /\ free' = IF refCount[b] = 1 THEN Append(free, b) ELSE free
           /\ table' = [table EXCEPT ![s] = SubSeq(@, 1, n - 1)]
           /\ op' = IF n = 1 THEN Idle ELSE op
    /\ UNCHANGED <<hash, kvComputed, hashToBlock, toks>>

\* fully_computed_blocks: the blocks of s whose n tokens' KV fill them.
ComputedBlocks(s, n) ==
    {i \in 1 .. Len(table[s]) : i <= n \div BlockSize}

MarkedComputed(s, n) ==
    [b \in Blocks |->
        kvComputed[b] \/ \E i \in ComputedBlocks(s, n) : table[s][i] = b]

\* publish_computed_blocks and commit_filled_block: name the computed blocks
\* of s that have no hash yet; an existing mapping of that hash stays.
Publishable(s, t, n) ==
    {i \in ComputedBlocks(s, n) :
        hash[table[s][i]] = NoHash /\ i * BlockSize <= Len(t)}

PublishedHash(s, t, n) ==
    [b \in Blocks |->
        IF \E i \in Publishable(s, t, n) : table[s][i] = b
        THEN BlockHash(t, CHOOSE i \in Publishable(s, t, n) : table[s][i] = b)
        ELSE hash[b]]

PublishedMap(s, t, n) ==
    LET idx == Publishable(s, t, n)
        new == {BlockHash(t, i) : i \in idx}
    IN  [h \in DOMAIN hashToBlock \cup new |->
            IF Mapped(h) THEN hashToBlock[h]
            ELSE table[s][CHOOSE i \in idx : BlockHash(t, i) = h]]

\* Mutant: the sampled token counts as computed.
AppendTokenMarksNew(s, t, publish) ==
    LET grown == Append(toks[s], t)
        n == Len(grown)
    IN  /\ op = Idle
        /\ table[s] # <<>>
        /\ toks' = [toks EXCEPT ![s] = grown]
        /\ kvComputed' = MarkedComputed(s, n)
        /\ IF publish
           THEN /\ hash' = PublishedHash(s, grown, n)
                /\ hashToBlock' = PublishedMap(s, grown, n)
           ELSE UNCHANGED <<hash, hashToBlock>>
        /\ UNCHANGED <<refCount, free, table, op>>

\* A model step appends the sampled token and marks, and if asked publishes,
\* the blocks whose KV is now complete: every token but the new one has KV.
AppendToken(s, t, publish) ==
    LET grown == Append(toks[s], t)
        n == Len(toks[s])
    IN  /\ op = Idle
        /\ table[s] # <<>>
        /\ toks' = [toks EXCEPT ![s] = grown]
        /\ kvComputed' = MarkedComputed(s, n)
        /\ IF publish
           THEN /\ hash' = PublishedHash(s, grown, n)
                /\ hashToBlock' = PublishedMap(s, grown, n)
           ELSE UNCHANGED <<hash, hashToBlock>>
        /\ UNCHANGED <<refCount, free, table, op>>

\* Mutant: the fork keeps its reference to the block it replaces.
ForkTailKeepsReference(s) ==
    LET n == Len(table[s])
        b == Head(free)
    IN  /\ op = Idle
        /\ n > 0
        /\ refCount[table[s][n]] > 1
        /\ free # <<>>
        /\ free' = Tail(free)
        /\ refCount' = [refCount EXCEPT ![b] = 1]
        /\ hash' = [hash EXCEPT ![b] = NoHash]
        /\ kvComputed' = [kvComputed EXCEPT ![b] = FALSE]
        /\ hashToBlock' = IF Mapped(hash[b]) /\ hashToBlock[hash[b]] = b
                          THEN Unmap(hash[b]) ELSE hashToBlock
        /\ table' = [table EXCEPT ![s][n] = b]
        /\ UNCHANGED <<toks, op>>

\* fork_tail_for_write: a shared tail is replaced by a private copy.
ForkTail(s) ==
    LET n == Len(table[s])
        tail == table[s][n]
        b == Head(free)
    IN  /\ op = Idle
        /\ n > 0
        /\ refCount[tail] > 1
        /\ free # <<>>
        /\ free' = Tail(free)
        /\ refCount' = [refCount EXCEPT ![b] = 1, ![tail] = @ - 1]
        /\ hash' = [hash EXCEPT ![b] = NoHash]
        /\ kvComputed' = [kvComputed EXCEPT ![b] = FALSE]
        /\ hashToBlock' = IF Mapped(hash[b]) /\ hashToBlock[hash[b]] = b
                          THEN Unmap(hash[b]) ELSE hashToBlock
        /\ table' = [table EXCEPT ![s][n] = b]
        /\ UNCHANGED <<toks, op>>

-----------------------------------------------------------------------------
(* The users of the pool: sequences arrive with a prompt, take a table,    *)
(* grow, give the table back, and either take one again (preemption) or    *)
(* are gone.                                                               *)

Arrive(s, p) ==
    /\ op = Idle
    /\ toks[s] = <<>>
    /\ table[s] = <<>>
    /\ toks' = [toks EXCEPT ![s] = p]
    /\ UNCHANGED <<refCount, hash, kvComputed, free, hashToBlock, table, op>>

Forget(s) ==
    /\ op = Idle
    /\ table[s] = <<>>
    /\ toks' = [toks EXCEPT ![s] = <<>>]
    /\ UNCHANGED <<refCount, hash, kvComputed, free, hashToBlock, table, op>>

\* A verify step accepts a token without marking anything computed.
AcceptToken(s, t) ==
    /\ op = Idle
    /\ table[s] # <<>>
    /\ toks' = [toks EXCEPT ![s] = Append(@, t)]
    /\ UNCHANGED <<refCount, hash, kvComputed, free, hashToBlock, table, op>>

PoolLoop ==
    \/ AcquireShared
    \/ AcquireFresh
    \/ AllocateEnd
    \/ ExtendNext
    \/ ExtendFail
    \/ ReleaseLast

PoolCall(s) ==
    \/ \E p \in Prompts : Arrive(s, p)
    \/ Forget(s)
    \/ AllocateBegin(s)
    \/ \E goal \in 1 .. NumBlocks + 1 : ExtendFor(s, goal)
    \/ DeallocateBegin(s)
    \/ \E t \in Token : AcceptToken(s, t)
    \/ \E t \in Token, publish \in BOOLEAN : AppendToken(s, t, publish)
    \/ ForkTail(s)

PoolNext ==
    \/ PoolLoop
    \/ \E s \in Seqs : PoolCall(s)

PoolSpec == PoolInit /\ [][PoolNext]_poolVars

-----------------------------------------------------------------------------
(* Properties.                                                             *)

Op ==
    {Idle}
      \cup [kind : {"alloc"}, seq : Seqs, cached : Nat, leading : BOOLEAN]
      \cup [kind : {"extend"}, seq : Seqs, goal : Nat]
      \cup [kind : {"release"}, seq : Seqs]

\* The fields of the pool and of its sequences have the shape of their Rust
\* types.
PoolDataOK ==
    /\ refCount \in [Blocks -> Nat]
    /\ hash \in [Blocks -> Seq(Token)]
    /\ kvComputed \in [Blocks -> BOOLEAN]
    /\ free \in Seq(Blocks)
    /\ hashToBlock \in [DOMAIN hashToBlock -> Blocks]
    /\ toks \in [Seqs -> Seq(Token)]
    /\ table \in [Seqs -> Seq(Blocks)]

\* Every variable of the pool has its type; a release loop has a block left.
PoolTypeOK ==
    /\ PoolDataOK
    /\ op \in Op
    /\ op.kind = "release" => table[op.seq] # <<>>

\* The sequences whose table holds block b.
Holders(b) == {s \in Seqs : b \in Range(table[s])}

\* ref_count is exact: it is the number of sequences whose table holds the
\* block, at every point of every allocation, release and fork.
RefCountsHolders ==
    \A b \in Blocks : refCount[b] = Cardinality(Holders(b))

\* The free list holds the blocks with ref_count 0, each once: no block is
\* freed twice, leaked, or handed out while somebody holds it.
FreeListExact ==
    /\ \A b \in Blocks : refCount[b] = 0 <=> b \in Range(free)
    /\ IsInjective(free)

\* The prefix map never points at a block that has been recycled: the block
\* a hash maps to still carries that hash.
MapPointsAtItsHash ==
    \A h \in DOMAIN hashToBlock : h # NoHash /\ hash[hashToBlock[h]] = h

\* A held block that carries a hash carries the hash of its holder's own
\* prefix, at that place of its table: sharing never splices in a block that
\* was filled under a different prefix, and no table holds a block twice.
SharedPrefixIsOwn ==
    \A s \in Seqs :
        /\ IsInjective(table[s])
        /\ \A i \in 1 .. Len(table[s]) :
              hash[table[s][i]] # NoHash =>
                 /\ i <= FullBlocks(s)
                 /\ hash[table[s][i]] = BlockHash(toks[s], i)

\* Only a block with a hash is ever shared: a block a sequence still writes
\* to (its tail, or one that decode is filling) has a single holder.
UnhashedIsPrivate ==
    \A b \in Blocks : hash[b] = NoHash =>
        \A s1, s2 \in Holders(b) : s1 = s2

\* Once allocate_with_prefix has found enough free blocks, its loop never
\* runs out: the release_ids path on a failing pop_free is dead code, even
\* when an earlier pop evicts a block the plan meant to share.
AllocationNeverFailsMidway ==
    op.kind = "alloc" =>
        \/ Allocated
        \/ free # <<>>
        \/ /\ Len(table[op.seq]) < FullBlocks(op.seq)
           /\ Mapped(BlockHash(toks[op.seq], Len(table[op.seq]) + 1))

\* cached_tokens never claims a block whose KV was not computed, and leaves
\* at least one token to recompute.
CachedTokensAreComputed ==
    Allocated =>
        /\ CachedTokens \in 0 .. Len(toks[op.seq]) - 1
        /\ \A i \in 1 .. CachedTokens \div BlockSize :
              kvComputed[table[op.seq][i]]
=============================================================================
