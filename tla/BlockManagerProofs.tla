------------------------- MODULE BlockManagerProofs -------------------------
(***************************************************************************)
(* The invariants of the block pool, for every number of blocks, every     *)
(* block size and every finite set of sequences.                           *)
(***************************************************************************)
EXTENDS BlockManager, QueueProofs

(* Two different full blocks of one token sequence have different chained  *)
(* hashes, none of them empty.                                             *)
LEMMA BlockHashDistinct ==
    ASSUME NEW t \in Seq(Token),
           NEW i \in Nat, i >= 1, i * BlockSize <= Len(t),
           NEW j \in Nat, j >= 1, j * BlockSize <= Len(t),
           BlockHash(t, i) = BlockHash(t, j)
    PROVE  i = j
<1> USE PoolAssumption
<1>0. /\ i * BlockSize \in Nat /\ j * BlockSize \in Nat
  OBVIOUS
<1>1. Len(BlockHash(t, i)) = i * BlockSize /\ Len(BlockHash(t, j)) = j * BlockSize
  BY <1>0 DEF BlockHash
<1>2. i * BlockSize = j * BlockSize
  BY <1>1
<1> QED BY <1>2

(* The hash of a full block is a non-empty text.                           *)
LEMMA BlockHashType ==
    ASSUME NEW t \in Seq(Token),
           NEW i \in Nat, i >= 1, i * BlockSize <= Len(t)
    PROVE  BlockHash(t, i) \in Seq(Token) /\ BlockHash(t, i) # NoHash
<1> USE PoolAssumption
<1>0. i * BlockSize \in Nat /\ i * BlockSize >= 1
  OBVIOUS
<1>1. BlockHash(t, i) \in Seq(Token) /\ Len(BlockHash(t, i)) = i * BlockSize
  BY <1>0 DEF BlockHash
<1> QED BY <1>0, <1>1 DEF NoHash

(* A full block's hash does not change when the sequence grows.            *)
LEMMA BlockHashStable ==
    ASSUME NEW t \in Seq(Token), NEW e \in Token,
           NEW i \in Nat, i >= 1, i * BlockSize <= Len(t)
    PROVE  BlockHash(Append(t, e), i) = BlockHash(t, i)
<1> USE PoolAssumption
<1>1. i * BlockSize \in Nat
  OBVIOUS
<1> QED BY <1>1 DEF BlockHash

(* i is at most the number of full blocks exactly if its tokens are there. *)
LEMMA FullBlocksBound ==
    ASSUME NEW n \in Nat, NEW i \in Nat
    PROVE  (i <= n \div BlockSize) <=> (i * BlockSize <= n)
<1> USE PoolAssumption
<1> DEFINE d == n \div BlockSize
<1>1. d \in Nat /\ d * BlockSize <= n /\ n < (d + 1) * BlockSize
  BY SMTT(30)
<1> HIDE DEF d
<1>2. ASSUME i <= d PROVE i * BlockSize <= n
  <2>1. i * BlockSize <= d * BlockSize
    BY <1>1, <1>2, SMTT(30)
  <2> QED BY <1>1, <2>1
<1>3. ASSUME i > d PROVE i * BlockSize > n
  <2>1. i * BlockSize >= (d + 1) * BlockSize
    BY <1>1, <1>3, SMTT(30)
  <2> QED BY <1>1, <2>1
<1> QED BY <1>1, <1>2, <1>3 DEF d

-----------------------------------------------------------------------------
(* The inductive invariant. Each part needs the others: a reference count  *)
(* is exact because the free list only hands out unheld blocks, a shared   *)
(* block is new to the table because its hash tells its place, and a hash  *)
(* is published safely because an unnamed block has one holder.            *)
PoolCore ==
    /\ PoolDataOK
    /\ RefCountsHolders
    /\ FreeListExact
    /\ MapPointsAtItsHash
    /\ SharedPrefixIsOwn
    /\ UnhashedIsPrivate

PoolInv == PoolTypeOK /\ PoolCore

(* Holders of a block form a finite set, empty exactly if nobody refers to *)
(* the block.                                                              *)
LEMMA HoldersFinite ==
    ASSUME PoolCore, NEW b \in Blocks
    PROVE  /\ IsFiniteSet(Holders(b))
           /\ refCount[b] = 0 <=> Holders(b) = {}
<1>1. IsFiniteSet(Holders(b))
  BY PoolAssumption, FS_Subset DEF Holders
<1> QED BY <1>1, FS_EmptySet DEF PoolCore, RefCountsHolders

(* pop_free keeps the invariant when the block it hands to s gets either   *)
(* no hash or the hash of the full block of s that it becomes.             *)
LEMMA PopFreeKeepsCore ==
    ASSUME PoolCore, NEW s \in Seqs, NEW h \in Seq(Token), PopFree(s, h),
           UNCHANGED toks,
           h # NoHash => /\ Len(table[s]) + 1 <= FullBlocks(s)
                         /\ h = BlockHash(toks[s], Len(table[s]) + 1)
    PROVE  PoolCore'
<1> DEFINE b == Head(free)
           n == Len(table[s])
<1> USE DEF PoolCore
<1>1. /\ free # <<>> /\ free \in Seq(Blocks) /\ IsInjective(free)
      /\ free' = Tail(free)
  BY DEF PopFree, PoolDataOK, FreeListExact
<1>2. /\ b \in Blocks /\ b \in Range(free)
      /\ free' \in Seq(Blocks) /\ IsInjective(free')
      /\ Range(free') = Range(free) \ {b}
  BY <1>1, TailInjective
<1>3. refCount[b] = 0 /\ Holders(b) = {}
  BY <1>2, HoldersFinite DEF FreeListExact
<1>4. \A u \in Seqs : b \notin Range(table[u])
  BY <1>3 DEF Holders
<1>5. table[s] \in Seq(Blocks) /\ IsInjective(table[s])
  BY DEF PoolDataOK, SharedPrefixIsOwn
<1>6. /\ table' = [table EXCEPT ![s] = Append(table[s], b)]
      /\ table'[s] = Append(table[s], b)
      /\ \A u \in Seqs : u # s => table'[u] = table[u]
  BY DEF PopFree, PoolDataOK
<1>7. /\ table'[s] \in Seq(Blocks) /\ IsInjective(table'[s])
      /\ Range(table'[s]) = Range(table[s]) \cup {b}
  BY <1>2, <1>4, <1>5, <1>6, AppendInjective2
<1>8. /\ n \in Nat /\ Len(table'[s]) = n + 1 /\ table'[s][n + 1] = b
      /\ \A i \in 1 .. n : table'[s][i] = table[s][i] /\ table[s][i] # b
  <2>1. \A i \in 1 .. n : table[s][i] \in Range(table[s])
    BY <1>5 DEF Range
  <2> QED BY <1>2, <1>4, <1>5, <1>6, <2>1
<1>9. /\ refCount' = [refCount EXCEPT ![b] = 1]
      /\ hash' = [hash EXCEPT ![b] = h]
      /\ kvComputed' = [kvComputed EXCEPT ![b] = FALSE]
  BY DEF PopFree
<1>10. /\ hash' \in [Blocks -> Seq(Token)] /\ hash'[b] = h
       /\ \A c \in Blocks : c # b => hash'[c] = hash[c]
  BY <1>2, <1>9 DEF PoolDataOK
<1> DEFINE kept == IF Mapped(hash[b]) /\ hashToBlock[hash[b]] = b
                   THEN Unmap(hash[b]) ELSE hashToBlock
<1>11. /\ kept = [g \in DOMAIN kept |-> kept[g]]
       /\ \A g \in DOMAIN kept : /\ g \in DOMAIN hashToBlock
                                 /\ kept[g] = hashToBlock[g]
                                 /\ kept[g] \in Blocks
                                 /\ kept[g] # b
  <2>1. \A g \in DOMAIN hashToBlock : hashToBlock[g] \in Blocks
    BY DEF PoolDataOK
  <2>2. \A g \in DOMAIN hashToBlock : hashToBlock[g] = b => g = hash[b]
    BY DEF MapPointsAtItsHash
  <2>3. hashToBlock = [g \in DOMAIN hashToBlock |-> hashToBlock[g]]
    BY DEF PoolDataOK
  <2> QED BY <2>1, <2>2, <2>3 DEF Mapped, Unmap
<1>12. hashToBlock' = IF h = NoHash THEN kept
                      ELSE [g \in DOMAIN kept \cup {h} |->
                               IF g = h THEN b ELSE kept[g]]
  BY DEF PopFree
<1> HIDE DEF b, kept
<1>13. /\ hashToBlock' \in [DOMAIN hashToBlock' -> Blocks]
       /\ \A g \in DOMAIN hashToBlock' :
             \/ g = h /\ h # NoHash /\ hashToBlock'[g] = b
             \/ g \in DOMAIN kept /\ hashToBlock'[g] = kept[g]
  <2>1. CASE h = NoHash
    <3>1. hashToBlock' = kept
      BY <1>12, <2>1
    <3> QED BY <3>1, <1>11
  <2>2. CASE h # NoHash
    <3>1. hashToBlock' = [g \in DOMAIN kept \cup {h} |->
                               IF g = h THEN b ELSE kept[g]]
      BY <1>12, <2>2
    <3> QED BY <3>1, <2>2, <1>2, <1>11
  <2> QED BY <2>1, <2>2
<1>14. PoolDataOK'
  <2>1. refCount' \in [Blocks -> Nat]
    BY <1>9 DEF PoolDataOK
  <2>2. kvComputed' \in [Blocks -> BOOLEAN]
    BY <1>9 DEF PoolDataOK
  <2>3. table' \in [Seqs -> Seq(Blocks)]
    BY <1>6, <1>7 DEF PoolDataOK
  <2> QED BY <1>2, <1>10, <1>13, <2>1, <2>2, <2>3 DEF PoolDataOK
<1>15. RefCountsHolders'
  <2> SUFFICES ASSUME NEW c \in Blocks
               PROVE  refCount'[c] = Cardinality(Holders(c)')
    BY DEF RefCountsHolders
  <2>1. CASE c = b
    <3>1. Holders(c)' = {s}
      BY <1>4, <1>6, <1>7, <2>1 DEF Holders
    <3> QED BY <1>2, <1>9, <2>1, <3>1, FS_Singleton DEF PoolDataOK
  <2>2. CASE c # b
    <3>1. Holders(c)' = Holders(c)
      BY <1>6, <1>7, <2>2 DEF Holders
    <3>2. refCount'[c] = refCount[c]
      BY <1>9, <2>2 DEF PoolDataOK
    <3> QED BY <3>1, <3>2 DEF RefCountsHolders
  <2> QED BY <2>1, <2>2
<1>16. FreeListExact'
  <2>1. \A c \in Blocks : refCount'[c] = IF c = b THEN 1 ELSE refCount[c]
    BY <1>9 DEF PoolDataOK
  <2> QED BY <1>2, <2>1 DEF FreeListExact
<1>17. MapPointsAtItsHash'
  BY <1>10, <1>11, <1>13, <1>2 DEF MapPointsAtItsHash
<1>18. SharedPrefixIsOwn'
  <2> SUFFICES ASSUME NEW u \in Seqs
               PROVE  /\ IsInjective(table'[u])
                      /\ \A i \in 1 .. Len(table'[u]) :
                            hash'[table'[u][i]] # NoHash =>
                               /\ i <= FullBlocks(u)
                               /\ hash'[table'[u][i]] = BlockHash(toks[u], i)
    BY DEF SharedPrefixIsOwn, FullBlocks
  <2>1. CASE u # s
    <3>1. \A i \in 1 .. Len(table[u]) : table[u][i] \in Blocks /\ table[u][i] # b
      BY <1>4 DEF Range, PoolDataOK
    <3> QED BY <1>6, <1>10, <2>1, <3>1 DEF SharedPrefixIsOwn
  <2>2. CASE u = s
    <3> SUFFICES ASSUME NEW i \in 1 .. n + 1, hash'[table'[s][i]] # NoHash
                 PROVE  /\ i <= FullBlocks(s)
                        /\ hash'[table'[s][i]] = BlockHash(toks[s], i)
      BY <1>7, <1>8, <2>2
    <3>1. CASE i = n + 1
      BY <1>8, <1>10, <3>1
    <3>2. CASE i \in 1 .. n
      <4>1. table'[s][i] = table[s][i] /\ table[s][i] # b /\ table[s][i] \in Blocks
        BY <1>5, <1>8, <3>2
      <4> QED BY <1>10, <3>2, <4>1 DEF SharedPrefixIsOwn
    <3> QED BY <1>8, <3>1, <3>2
  <2> QED BY <2>1, <2>2
<1>19. UnhashedIsPrivate'
  <2> SUFFICES ASSUME NEW c \in Blocks, hash'[c] = NoHash,
                      NEW s1 \in Holders(c)', NEW s2 \in Holders(c)'
               PROVE  s1 = s2
    BY DEF UnhashedIsPrivate
  <2>1. CASE c = b
    BY <1>4, <1>6, <1>7, <2>1 DEF Holders
  <2>2. CASE c # b
    <3>1. Holders(c)' = Holders(c)
      BY <1>6, <1>7, <2>2 DEF Holders
    <3> QED BY <1>10, <2>2, <3>1 DEF UnhashedIsPrivate
  <2> QED BY <2>1, <2>2
<1> QED BY <1>14, <1>15, <1>16, <1>17, <1>18, <1>19

(* Sharing the block that the hash of s's next full block maps to.         *)
LEMMA ShareKeepsCore ==
    ASSUME PoolCore, NEW s \in Seqs,
           Len(table[s]) + 1 <= FullBlocks(s),
           Mapped(BlockHash(toks[s], Len(table[s]) + 1)),
           Share(s, hashToBlock[BlockHash(toks[s], Len(table[s]) + 1)]),
           UNCHANGED toks
    PROVE  PoolCore'
<1> DEFINE n == Len(table[s])
           h == BlockHash(toks[s], n + 1)
           b == hashToBlock[h]
<1> USE DEF PoolCore
<1>1. /\ table[s] \in Seq(Blocks) /\ IsInjective(table[s])
      /\ toks[s] \in Seq(Token)
      /\ n \in Nat
  BY DEF PoolDataOK, SharedPrefixIsOwn
<1>2. b \in Blocks /\ hash[b] = h /\ h # NoHash
  BY DEF PoolDataOK, Mapped, MapPointsAtItsHash
<1>3. /\ refCount' = [refCount EXCEPT ![b] = refCount[b] + 1]
      /\ free' = IF refCount[b] = 0 THEN Without(free, b) ELSE free
      /\ table' = [table EXCEPT ![s] = Append(table[s], b)]
      /\ UNCHANGED <<hash, kvComputed, hashToBlock, toks>>
  BY DEF Share
<1>4. \A i \in 1 .. n : table[s][i] # b
  <2> SUFFICES ASSUME NEW i \in 1 .. n, table[s][i] = b PROVE FALSE
    OBVIOUS
  <2>1. i <= FullBlocks(s) /\ h = BlockHash(toks[s], i)
    BY <1>2 DEF SharedPrefixIsOwn
  <2>2. i * BlockSize <= Len(toks[s]) /\ (n + 1) * BlockSize <= Len(toks[s])
    BY <1>1, <2>1, FullBlocksBound DEF FullBlocks
  <2> HIDE DEF n
  <2>3. i = n + 1
    BY <1>1, <2>1, <2>2, BlockHashDistinct
  <2> QED BY <1>1, <2>3
<1>5. b \notin Range(table[s])
  BY <1>1, <1>4 DEF Range
<1> HIDE DEF b, h
<1>6. /\ table'[s] = Append(table[s], b)
      /\ \A u \in Seqs : u # s => table'[u] = table[u]
  BY <1>3 DEF PoolDataOK
<1>7. /\ table'[s] \in Seq(Blocks) /\ IsInjective(table'[s])
      /\ Range(table'[s]) = Range(table[s]) \cup {b}
  BY <1>1, <1>2, <1>5, <1>6, AppendInjective2
<1>8. /\ Len(table'[s]) = n + 1 /\ table'[s][n + 1] = b
      /\ \A i \in 1 .. n : table'[s][i] = table[s][i]
  BY <1>1, <1>2, <1>6
<1>9. /\ free' \in Seq(Blocks) /\ IsInjective(free')
      /\ Range(free') = Range(free) \ {b}
  <2>1. free \in Seq(Blocks) /\ IsInjective(free)
    BY DEF PoolDataOK, FreeListExact
  <2>2. CASE refCount[b] = 0
    BY <1>2, <1>3, <2>1, <2>2, WithoutInjective DEF FreeListExact
  <2>3. CASE refCount[b] # 0
    BY <1>2, <1>3, <2>1, <2>3 DEF FreeListExact
  <2> QED BY <2>2, <2>3
<1>10. \A c \in Blocks : /\ refCount[c] \in Nat
                         /\ refCount'[c] = IF c = b THEN refCount[c] + 1
                                           ELSE refCount[c]
  BY <1>3 DEF PoolDataOK
<1>11. PoolDataOK'
  <2>1. refCount' \in [Blocks -> Nat]
    BY <1>2, <1>3 DEF PoolDataOK
  <2>2. table' \in [Seqs -> Seq(Blocks)]
    BY <1>3, <1>6, <1>7 DEF PoolDataOK
  <2> QED BY <1>3, <1>9, <2>1, <2>2 DEF PoolDataOK
<1>12. /\ s \notin Holders(b)
       /\ \A c \in Blocks : c = b => Holders(c)' = Holders(b) \cup {s}
  BY <1>5, <1>6, <1>7 DEF Holders
<1>13. \A c \in Blocks : c # b => Holders(c)' = Holders(c)
  BY <1>6, <1>7 DEF Holders
<1>14. RefCountsHolders'
  <2> SUFFICES ASSUME NEW c \in Blocks
               PROVE  refCount'[c] = Cardinality(Holders(c)')
    BY DEF RefCountsHolders
  <2>1. CASE c = b
    <3>1. IsFiniteSet(Holders(b)) /\ refCount[b] = Cardinality(Holders(b))
      BY <1>2, HoldersFinite DEF RefCountsHolders
    <3>2. Cardinality(Holders(b) \cup {s}) = Cardinality(Holders(b)) + 1
      BY <1>12, <3>1, FS_AddElement
    <3> QED BY <1>10, <1>12, <2>1, <3>1, <3>2
  <2>2. CASE c # b
    BY <1>10, <1>13, <2>2 DEF RefCountsHolders
  <2> QED BY <2>1, <2>2
<1>15. FreeListExact'
  <2>1. \A c \in Blocks : refCount[c] + 1 # 0
    BY <1>10
  <2> QED BY <1>9, <1>10, <2>1 DEF FreeListExact
<1>16. MapPointsAtItsHash'
  BY <1>3 DEF MapPointsAtItsHash
<1>17. SharedPrefixIsOwn'
  <2> SUFFICES ASSUME NEW u \in Seqs
               PROVE  /\ IsInjective(table'[u])
                      /\ \A i \in 1 .. Len(table'[u]) :
                            hash[table'[u][i]] # NoHash =>
                               /\ i <= FullBlocks(u)
                               /\ hash[table'[u][i]] = BlockHash(toks[u], i)
    BY <1>3 DEF SharedPrefixIsOwn, FullBlocks
  <2>1. CASE u # s
    BY <1>6, <2>1 DEF SharedPrefixIsOwn
  <2>2. CASE u = s
    <3> SUFFICES ASSUME NEW i \in 1 .. n + 1, hash[table'[s][i]] # NoHash
                 PROVE  /\ i <= FullBlocks(s)
                        /\ hash[table'[s][i]] = BlockHash(toks[s], i)
      BY <1>7, <1>8, <2>2
    <3>1. CASE i = n + 1
      BY <1>2, <1>8, <3>1 DEF h
    <3>2. CASE i \in 1 .. n
      BY <1>8, <3>2 DEF SharedPrefixIsOwn
    <3> QED BY <1>1, <3>1, <3>2
  <2> QED BY <2>1, <2>2
<1>18. UnhashedIsPrivate'
  BY <1>2, <1>3, <1>13 DEF UnhashedIsPrivate
<1> QED BY <1>11, <1>14, <1>15, <1>16, <1>17, <1>18

(* deallocate gives the last block of a table back.                        *)
LEMMA ReleaseKeepsCore ==
    ASSUME PoolCore, op \in Op, op.kind = "release", table[op.seq] # <<>>,
           ReleaseLast
    PROVE  PoolCore'
<1> DEFINE s == op.seq
           n == Len(table[s])
           b == table[s][n]
<1> USE DEF PoolCore
<1>0. s \in Seqs
  BY DEF Op, Idle
<1>1. /\ table[s] \in Seq(Blocks) /\ IsInjective(table[s]) /\ n \in Nat
  BY <1>0 DEF PoolDataOK, SharedPrefixIsOwn
<1>2. /\ refCount' = [refCount EXCEPT ![b] = refCount[b] - 1]
      /\ free' = IF refCount[b] = 1 THEN Append(free, b) ELSE free
      /\ table' = [table EXCEPT ![s] = SubSeq(table[s], 1, n - 1)]
      /\ UNCHANGED <<hash, kvComputed, hashToBlock, toks>>
  BY DEF ReleaseLast
<1>3. /\ table'[s] = SubSeq(table[s], 1, n - 1)
      /\ \A u \in Seqs : u # s => table'[u] = table[u]
  BY <1>0, <1>2 DEF PoolDataOK
<1> HIDE DEF s
<1>4. /\ table'[s] \in Seq(Blocks) /\ b \in Blocks /\ b \in Range(table[s])
      /\ IsInjective(table'[s]) /\ Len(table'[s]) = n - 1
      /\ \A i \in 1 .. n - 1 : table'[s][i] = table[s][i]
      /\ Range(table'[s]) = Range(table[s]) \ {b}
  <2>1. table[s] # <<>>
    BY DEF s
  <2> QED BY <1>1, <1>3, <2>1, FrontInjective
<1> HIDE DEF b
<1>5. /\ s \in Holders(b)
      /\ \A c \in Blocks : c = b => Holders(c)' = Holders(b) \ {s}
  BY <1>0, <1>3, <1>4 DEF Holders
<1>6. \A c \in Blocks : c # b => Holders(c)' = Holders(c)
  BY <1>3, <1>4 DEF Holders
<1>7. refCount[b] \in Nat /\ refCount[b] # 0
  BY <1>4, <1>5, HoldersFinite DEF PoolDataOK
<1>8. \A c \in Blocks : /\ refCount[c] \in Nat
                        /\ refCount'[c] = IF c = b THEN refCount[c] - 1
                                          ELSE refCount[c]
  BY <1>2 DEF PoolDataOK
<1>9. /\ free' \in Seq(Blocks) /\ IsInjective(free')
      /\ Range(free') = IF refCount[b] = 1 THEN Range(free) \cup {b}
                        ELSE Range(free)
  <2>1. free \in Seq(Blocks) /\ IsInjective(free) /\ b \notin Range(free)
    BY <1>4, <1>7 DEF PoolDataOK, FreeListExact
  <2>2. CASE refCount[b] = 1
    BY <1>2, <1>4, <2>1, <2>2, AppendInjective2
  <2>3. CASE refCount[b] # 1
    BY <1>2, <2>1, <2>3
  <2> QED BY <2>2, <2>3
<1>10. PoolDataOK'
  <2>0. refCount[b] - 1 \in Nat
    BY <1>7
  <2>1. refCount' \in [Blocks -> Nat]
    BY <1>2, <2>0 DEF PoolDataOK
  <2>2. table' \in [Seqs -> Seq(Blocks)]
    BY <1>2, <1>3, <1>4 DEF PoolDataOK
  <2> QED BY <1>2, <1>9, <2>1, <2>2 DEF PoolDataOK
<1>11. RefCountsHolders'
  <2> SUFFICES ASSUME NEW c \in Blocks
               PROVE  refCount'[c] = Cardinality(Holders(c)')
    BY DEF RefCountsHolders
  <2>1. CASE c = b
    <3>1. IsFiniteSet(Holders(b)) /\ refCount[b] = Cardinality(Holders(b))
      BY <1>4, HoldersFinite DEF RefCountsHolders
    <3>2. Cardinality(Holders(b) \ {s}) = Cardinality(Holders(b)) - 1
      BY <1>5, <3>1, FS_RemoveElement
    <3> QED BY <1>5, <1>8, <2>1, <3>1, <3>2
  <2>2. CASE c # b
    BY <1>6, <1>8, <2>2 DEF RefCountsHolders
  <2> QED BY <2>1, <2>2
<1>12. FreeListExact'
  <2> SUFFICES ASSUME NEW c \in Blocks
               PROVE  refCount'[c] = 0 <=> c \in Range(free')
    BY <1>9 DEF FreeListExact
  <2>1. refCount[c] = 0 <=> c \in Range(free)
    BY DEF FreeListExact
  <2>2. CASE c # b
    BY <1>8, <1>9, <2>1, <2>2
  <2>3. CASE c = b
    BY <1>7, <1>8, <1>9, <2>1, <2>3
  <2> QED BY <2>2, <2>3
<1>13. MapPointsAtItsHash'
  BY <1>2 DEF MapPointsAtItsHash
<1>14. SharedPrefixIsOwn'
  <2> SUFFICES ASSUME NEW u \in Seqs
               PROVE  /\ IsInjective(table'[u])
                      /\ \A i \in 1 .. Len(table'[u]) :
                            hash[table'[u][i]] # NoHash =>
                               /\ i <= FullBlocks(u)
                               /\ hash[table'[u][i]] = BlockHash(toks[u], i)
    BY <1>2 DEF SharedPrefixIsOwn, FullBlocks
  <2>1. CASE u # s
    BY <1>3, <2>1 DEF SharedPrefixIsOwn
  <2>2. CASE u = s
    <3>1. 1 .. n - 1 \subseteq 1 .. n
      BY <1>1
    <3> QED BY <1>0, <1>4, <2>2, <3>1 DEF SharedPrefixIsOwn
  <2> QED BY <2>1, <2>2
<1>15. UnhashedIsPrivate'
  BY <1>2, <1>5, <1>6 DEF UnhashedIsPrivate
<1> QED BY <1>10, <1>11, <1>12, <1>13, <1>14, <1>15

(* When s grows by a token, the full blocks it had keep their hashes.      *)
LEMMA GrowKeepsHashes ==
    ASSUME PoolDataOK, NEW s \in Seqs, NEW t \in Token,
           toks' = [toks EXCEPT ![s] = Append(toks[s], t)]
    PROVE  /\ toks' \in [Seqs -> Seq(Token)]
           /\ toks'[s] = Append(toks[s], t)
           /\ \A u \in Seqs, i \in Nat :
                 i >= 1 /\ i <= FullBlocks(u) =>
                    /\ i <= FullBlocks(u)'
                    /\ BlockHash(toks'[u], i) = BlockHash(toks[u], i)
<1>1. /\ toks \in [Seqs -> Seq(Token)] /\ toks[s] \in Seq(Token)
      /\ Len(toks[s]) \in Nat
  BY DEF PoolDataOK
<1>2. /\ toks' \in [Seqs -> Seq(Token)] /\ toks'[s] = Append(toks[s], t)
      /\ \A u \in Seqs : u # s => toks'[u] = toks[u]
  BY <1>1
<1>3. ASSUME NEW u \in Seqs, NEW i \in Nat, i >= 1, i <= FullBlocks(u)
      PROVE  /\ i <= FullBlocks(u)'
             /\ BlockHash(toks'[u], i) = BlockHash(toks[u], i)
  <2>1. CASE u # s
    BY <1>2, <1>3, <2>1 DEF FullBlocks
  <2>2. CASE u = s
    <3>1. i * BlockSize <= Len(toks[s])
      BY <1>1, <1>3, <2>2, FullBlocksBound DEF FullBlocks
    <3>2. BlockHash(toks'[s], i) = BlockHash(toks[s], i)
      BY <1>1, <1>2, <1>3, <3>1, BlockHashStable
    <3>3. /\ i * BlockSize \in Nat
          /\ Len(toks'[s]) = Len(toks[s]) + 1
      BY <1>1, <1>2, PoolAssumption
    <3>4. i * BlockSize <= Len(toks'[s]) /\ Len(toks'[s]) \in Nat
      BY <1>1, <3>1, <3>3
    <3>5. i <= Len(toks'[s]) \div BlockSize
      BY <3>4, FullBlocksBound
    <3> QED BY <2>2, <3>2, <3>5 DEF FullBlocks
  <2> QED BY <2>1, <2>2
<1> QED BY <1>2, <1>3

(* A token is appended, and nothing but computed flags changes.            *)
LEMMA GrowKeepsCore ==
    ASSUME PoolCore, NEW s \in Seqs, NEW t \in Token,
           toks' = [toks EXCEPT ![s] = Append(toks[s], t)],
           kvComputed' \in [Blocks -> BOOLEAN],
           UNCHANGED <<refCount, hash, free, hashToBlock, table>>
    PROVE  PoolCore'
<1> USE DEF PoolCore
<1>1. /\ toks' \in [Seqs -> Seq(Token)]
      /\ \A u \in Seqs, i \in Nat :
            i >= 1 /\ i <= FullBlocks(u) =>
               /\ i <= FullBlocks(u)'
               /\ BlockHash(toks'[u], i) = BlockHash(toks[u], i)
  BY GrowKeepsHashes
<1>2. PoolDataOK'
  BY <1>1 DEF PoolDataOK
<1>3. SharedPrefixIsOwn'
  <2> SUFFICES ASSUME NEW u \in Seqs, NEW i \in 1 .. Len(table[u]),
                      hash[table[u][i]] # NoHash
               PROVE  /\ i <= FullBlocks(u)'
                      /\ hash[table[u][i]] = BlockHash(toks'[u], i)
    BY DEF SharedPrefixIsOwn
  <2>1. i \in Nat /\ i >= 1
    BY DEF PoolDataOK
  <2> QED BY <1>1, <2>1 DEF SharedPrefixIsOwn
<1>4. \A c \in Blocks : Holders(c)' = Holders(c)
  BY DEF Holders
<1>5. RefCountsHolders' /\ UnhashedIsPrivate'
  BY <1>4 DEF RefCountsHolders, UnhashedIsPrivate
<1>6. FreeListExact' /\ MapPointsAtItsHash'
  BY DEF FreeListExact, MapPointsAtItsHash
<1> QED BY <1>2, <1>3, <1>5, <1>6

(* A token is appended and the computed blocks of s that had no hash get   *)
(* the hash of their place.                                                *)
LEMMA PublishKeepsCore ==
    ASSUME PoolCore, NEW s \in Seqs, NEW t \in Token, NEW n \in Nat,
           toks' = [toks EXCEPT ![s] = Append(toks[s], t)],
           hash' = PublishedHash(s, Append(toks[s], t), n),
           hashToBlock' = PublishedMap(s, Append(toks[s], t), n),
           kvComputed' \in [Blocks -> BOOLEAN],
           UNCHANGED <<refCount, free, table>>
    PROVE  PoolCore'
<1> DEFINE g == Append(toks[s], t)
           idx == Publishable(s, g, n)
<1> USE DEF PoolCore
<1>1. /\ toks' \in [Seqs -> Seq(Token)] /\ toks'[s] = g
      /\ \A u \in Seqs, i \in Nat :
            i >= 1 /\ i <= FullBlocks(u) =>
               /\ i <= FullBlocks(u)'
               /\ BlockHash(toks'[u], i) = BlockHash(toks[u], i)
  BY GrowKeepsHashes
<1>2. /\ table[s] \in Seq(Blocks) /\ IsInjective(table[s])
      /\ g \in Seq(Token) /\ Len(g) \in Nat
  BY <1>1 DEF PoolDataOK, SharedPrefixIsOwn
<1> HIDE DEF g
<1>3. \A i \in idx : /\ i \in 1 .. Len(table[s]) /\ i \in Nat /\ i >= 1
                     /\ table[s][i] \in Blocks
                     /\ hash[table[s][i]] = NoHash
                     /\ i * BlockSize <= Len(g)
                     /\ s \in Holders(table[s][i])
  <2>1. \A i \in 1 .. Len(table[s]) : /\ table[s][i] \in Blocks /\ i \in Nat
                                      /\ i >= 1
                                      /\ table[s][i] \in Range(table[s])
    BY <1>2 DEF Range
  <2> QED BY <2>1 DEF Publishable, ComputedBlocks, Holders
<1>4. \A i, j \in idx : table[s][i] = table[s][j] => i = j
  BY <1>2, <1>3 DEF IsInjective
<1>5. \A i \in idx : /\ BlockHash(g, i) \in Seq(Token)
                     /\ BlockHash(g, i) # NoHash
  BY <1>2, <1>3, BlockHashType
<1>6. hash' = [b \in Blocks |->
                 IF \E i \in idx : table[s][i] = b
                 THEN BlockHash(g, CHOOSE i \in idx : table[s][i] = b)
                 ELSE hash[b]]
  BY DEF PublishedHash, g
<1>7. hashToBlock' =
         [h \in DOMAIN hashToBlock \cup {BlockHash(g, i) : i \in idx} |->
            IF Mapped(h) THEN hashToBlock[h]
            ELSE table[s][CHOOSE i \in idx : BlockHash(g, i) = h]]
  BY DEF PublishedMap, g
<1> HIDE DEF idx
<1>8. \A i \in idx : hash'[table[s][i]] = BlockHash(g, i)
  <2> TAKE i \in idx
  <2>1. (CHOOSE j \in idx : table[s][j] = table[s][i]) = i
    BY <1>4
  <2> QED BY <1>3, <1>6, <2>1
<1>9. \A b \in Blocks : hash[b] # NoHash => hash'[b] = hash[b]
  BY <1>3, <1>6
<1>10. \A b \in Blocks : (\A i \in idx : table[s][i] # b) => hash'[b] = hash[b]
  BY <1>6
<1>11. hash' \in [Blocks -> Seq(Token)]
  <2> SUFFICES ASSUME NEW b \in Blocks PROVE hash'[b] \in Seq(Token)
    BY <1>6
  <2>1. CASE \E i \in idx : table[s][i] = b
    BY <1>5, <1>8, <2>1
  <2>2. CASE ~ \E i \in idx : table[s][i] = b
    BY <1>10, <2>2 DEF PoolDataOK
  <2> QED BY <2>1, <2>2
<1>12. \A h \in DOMAIN hashToBlock' :
          /\ h \in DOMAIN hashToBlock => hashToBlock'[h] = hashToBlock[h]
          /\ h \notin DOMAIN hashToBlock =>
                \E i \in idx : h = BlockHash(g, i) /\ hashToBlock'[h] = table[s][i]
  <2> SUFFICES ASSUME NEW h \in DOMAIN hashToBlock', h \notin DOMAIN hashToBlock
               PROVE  \E i \in idx : /\ h = BlockHash(g, i)
                                     /\ hashToBlock'[h] = table[s][i]
    BY <1>7 DEF Mapped
  <2>1. \E i \in idx : BlockHash(g, i) = h
    BY <1>7
  <2> DEFINE j == CHOOSE i \in idx : BlockHash(g, i) = h
  <2>2. j \in idx /\ BlockHash(g, j) = h
    BY <2>1
  <2>3. hashToBlock'[h] = table[s][j]
    BY <1>7 DEF Mapped
  <2> QED BY <2>2, <2>3
<1>13. hashToBlock' \in [DOMAIN hashToBlock' -> Blocks]
  <2>1. \A h \in DOMAIN hashToBlock' : hashToBlock'[h] \in Blocks
    BY <1>3, <1>12 DEF PoolDataOK
  <2> QED BY <1>7, <2>1
<1>14. PoolDataOK'
  BY <1>1, <1>11, <1>13 DEF PoolDataOK
<1>15. \A c \in Blocks : Holders(c)' = Holders(c)
  BY DEF Holders
<1>16. RefCountsHolders' /\ FreeListExact'
  BY <1>15 DEF RefCountsHolders, FreeListExact
<1>17. MapPointsAtItsHash'
  <2> SUFFICES ASSUME NEW h \in DOMAIN hashToBlock'
               PROVE  h # NoHash /\ hash'[hashToBlock'[h]] = h
    BY DEF MapPointsAtItsHash
  <2>1. CASE h \in DOMAIN hashToBlock
    <3>1. /\ hashToBlock'[h] = hashToBlock[h] /\ hashToBlock[h] \in Blocks
          /\ h # NoHash /\ hash[hashToBlock[h]] = h
      BY <1>12, <2>1 DEF PoolDataOK, MapPointsAtItsHash
    <3> QED BY <1>9, <3>1
  <2>2. CASE h \notin DOMAIN hashToBlock
    BY <1>5, <1>8, <1>12, <2>2
  <2> QED BY <2>1, <2>2
<1>18. SharedPrefixIsOwn'
  <2> SUFFICES ASSUME NEW u \in Seqs, NEW i \in 1 .. Len(table[u]),
                      hash'[table[u][i]] # NoHash
               PROVE  /\ i <= FullBlocks(u)'
                      /\ hash'[table[u][i]] = BlockHash(toks'[u], i)
    BY DEF SharedPrefixIsOwn
  <2>1. /\ i \in Nat /\ i >= 1 /\ table[u][i] \in Blocks
        /\ table[u][i] \in Range(table[u])
    BY DEF PoolDataOK, Range
  <2>2. CASE hash[table[u][i]] # NoHash
    <3>1. /\ i <= FullBlocks(u)
          /\ hash'[table[u][i]] = BlockHash(toks[u], i)
      BY <1>9, <2>1, <2>2 DEF SharedPrefixIsOwn
    <3> QED BY <1>1, <2>1, <3>1
  <2>3. CASE hash[table[u][i]] = NoHash
    <3>1. PICK j \in idx : table[s][j] = table[u][i]
      BY <1>10, <2>1, <2>3
    <3>2. u = s
      <4>1. u \in Holders(table[u][i]) /\ s \in Holders(table[u][i])
        BY <1>3, <2>1, <3>1 DEF Holders
      <4> QED BY <2>1, <2>3, <4>1 DEF UnhashedIsPrivate
    <3>3. i = j
      BY <1>2, <1>3, <3>1, <3>2 DEF IsInjective
    <3>4. hash'[table[u][i]] = BlockHash(toks'[u], i)
      BY <1>1, <1>8, <3>2, <3>3
    <3>5. i <= FullBlocks(u)'
      BY <1>1, <1>2, <1>3, <3>2, <3>3, FullBlocksBound DEF FullBlocks
    <3> QED BY <3>4, <3>5
  <2> QED BY <2>2, <2>3
<1>19. UnhashedIsPrivate'
  BY <1>9, <1>15 DEF UnhashedIsPrivate
<1> QED BY <1>14, <1>16, <1>17, <1>18, <1>19

(* Replacing the last element of a table by a new block.                   *)
LEMMA ReplaceLastInjective ==
    ASSUME NEW S, NEW q \in Seq(S), q # <<>>, IsInjective(q),
           NEW e \in S, e \notin Range(q), NEW r, r = [q EXCEPT ![Len(q)] = e]
    PROVE  /\ r \in Seq(S)
           /\ IsInjective(r)
           /\ Len(r) = Len(q)
           /\ r[Len(q)] = e
           /\ \A i \in 1 .. Len(q) - 1 : r[i] = q[i] /\ q[i] # q[Len(q)]
           /\ Range(r) = (Range(q) \ {q[Len(q)]}) \cup {e}
<1>1. /\ Len(q) \in Nat /\ Len(q) > 0 /\ DOMAIN q = 1 .. Len(q)
      /\ \A i \in 1 .. Len(q) : q[i] \in S /\ q[i] \in Range(q)
      /\ \A i, j \in 1 .. Len(q) : q[i] = q[j] => i = j
  BY DEF Range, IsInjective
<1>2. /\ r \in Seq(S) /\ Len(r) = Len(q)
      /\ \A i \in 1 .. Len(q) : r[i] = IF i = Len(q) THEN e ELSE q[i]
  BY <1>1, ExceptSeq
<1>3. DOMAIN r = 1 .. Len(q)
  BY <1>2, LenProperties
<1>4. IsInjective(r)
  BY <1>1, <1>2, <1>3 DEF IsInjective
<1>5. Range(r) \subseteq (Range(q) \ {q[Len(q)]}) \cup {e}
  BY <1>1, <1>2, <1>3 DEF Range
<1>6. (Range(q) \ {q[Len(q)]}) \cup {e} \subseteq Range(r)
  BY <1>1, <1>2, <1>3 DEF Range
<1>7. \A i \in 1 .. Len(q) - 1 : r[i] = q[i] /\ q[i] # q[Len(q)]
  <2> TAKE k \in 1 .. Len(q) - 1
  <2>0. Len(q) \in Nat /\ Len(q) > 0
    BY <1>1
  <2>1. k \in 1 .. Len(q) /\ Len(q) \in 1 .. Len(q) /\ k # Len(q)
    BY <2>0
  <2>2. r[k] = q[k]
    BY <1>2, <2>1
  <2>3. q[k] # q[Len(q)]
    BY <1>1, <2>1
  <2> QED BY <2>2, <2>3
<1>8. r[Len(q)] = e
  BY <1>1, <1>2
<1> QED BY <1>2, <1>4, <1>5, <1>6, <1>7, <1>8

(* fork_tail_for_write swaps a shared tail for a free block.               *)
LEMMA ForkKeepsCore ==
    ASSUME PoolCore, NEW s \in Seqs, ForkTail(s)
    PROVE  PoolCore'
<1> DEFINE n == Len(table[s])
           old == table[s][n]
           b == Head(free)
<1> USE DEF PoolCore
<1>1. /\ free # <<>> /\ free \in Seq(Blocks) /\ IsInjective(free)
      /\ free' = Tail(free) /\ n > 0 /\ refCount[old] > 1
  BY DEF ForkTail, PoolDataOK, FreeListExact
<1>2. /\ b \in Blocks /\ b \in Range(free)
      /\ free' \in Seq(Blocks) /\ IsInjective(free')
      /\ Range(free') = Range(free) \ {b}
  BY <1>1, TailInjective
<1>3. refCount[b] = 0 /\ Holders(b) = {}
  BY <1>2, HoldersFinite DEF FreeListExact
<1>4. \A u \in Seqs : b \notin Range(table[u])
  BY <1>3 DEF Holders
<1>5. /\ table[s] \in Seq(Blocks) /\ IsInjective(table[s]) /\ n \in Nat
      /\ table[s] # <<>> /\ old \in Blocks /\ old \in Range(table[s])
  BY <1>1 DEF PoolDataOK, SharedPrefixIsOwn, Range
<1>6. /\ table' = [table EXCEPT ![s] = [table[s] EXCEPT ![n] = b]]
      /\ refCount' = [refCount EXCEPT ![b] = 1, ![old] = refCount[old] - 1]
      /\ hash' = [hash EXCEPT ![b] = NoHash]
      /\ kvComputed' = [kvComputed EXCEPT ![b] = FALSE]
      /\ UNCHANGED toks
  <2>1. old # b
    BY <1>4, <1>5
  <2> QED BY <2>1 DEF ForkTail
<1>7. /\ table'[s] = [table[s] EXCEPT ![n] = b]
      /\ \A u \in Seqs : u # s => table'[u] = table[u]
  BY <1>6 DEF PoolDataOK
<1>8. hashToBlock' = IF Mapped(hash[b]) /\ hashToBlock[hash[b]] = b
                     THEN Unmap(hash[b]) ELSE hashToBlock
  BY DEF ForkTail
<1> HIDE DEF b
<1>9. /\ table'[s] \in Seq(Blocks) /\ IsInjective(table'[s])
      /\ Len(table'[s]) = n /\ table'[s][n] = b
      /\ \A i \in 1 .. n - 1 : /\ table'[s][i] = table[s][i]
                               /\ table[s][i] # old
      /\ Range(table'[s]) = (Range(table[s]) \ {old}) \cup {b}
  BY <1>2, <1>4, <1>5, <1>7, ReplaceLastInjective
<1> HIDE DEF old
<1>10. old # b
  BY <1>4, <1>5
<1>11. \A c \in Blocks : /\ refCount[c] \in Nat
                         /\ refCount'[c] = IF c = b THEN 1
                                           ELSE IF c = old THEN refCount[c] - 1
                                           ELSE refCount[c]
  BY <1>2, <1>5, <1>6, <1>10 DEF PoolDataOK
<1>12. /\ hash' \in [Blocks -> Seq(Token)] /\ hash'[b] = NoHash
       /\ \A c \in Blocks : c # b => hash'[c] = hash[c]
  <2>1. NoHash \in Seq(Token)
    BY DEF NoHash
  <2> QED BY <1>2, <1>6, <2>1 DEF PoolDataOK
<1>13. /\ hashToBlock' \in [DOMAIN hashToBlock' -> Blocks]
       /\ \A g \in DOMAIN hashToBlock' : /\ g \in DOMAIN hashToBlock
                                         /\ hashToBlock'[g] = hashToBlock[g]
                                         /\ hashToBlock'[g] # b
  <2>1. \A g \in DOMAIN hashToBlock : hashToBlock[g] = b => g = hash[b]
    BY DEF MapPointsAtItsHash
  <2>2. /\ hashToBlock = [g \in DOMAIN hashToBlock |-> hashToBlock[g]]
        /\ \A g \in DOMAIN hashToBlock : hashToBlock[g] \in Blocks
    BY DEF PoolDataOK
  <2> QED BY <1>8, <2>1, <2>2 DEF Mapped, Unmap
<1>14. PoolDataOK'
  <2>1. refCount[old] - 1 \in Nat
    BY <1>1, <1>5, <1>11 DEF old
  <2>2. refCount' \in [Blocks -> Nat]
    BY <1>6, <2>1 DEF PoolDataOK
  <2>3. kvComputed' \in [Blocks -> BOOLEAN]
    BY <1>6 DEF PoolDataOK
  <2>4. table' \in [Seqs -> Seq(Blocks)]
    BY <1>6, <1>7, <1>9 DEF PoolDataOK
  <2> QED BY <1>2, <1>6, <1>12, <1>13, <2>2, <2>3, <2>4 DEF PoolDataOK
<1>15. \A c \in Blocks :
          /\ c = b => Holders(c)' = {s}
          /\ c = old => Holders(c)' = Holders(c) \ {s} /\ s \in Holders(c)
          /\ c # b /\ c # old => Holders(c)' = Holders(c)
  BY <1>4, <1>5, <1>7, <1>9, <1>10 DEF Holders
<1>16. RefCountsHolders'
  <2> SUFFICES ASSUME NEW c \in Blocks
               PROVE  refCount'[c] = Cardinality(Holders(c)')
    BY DEF RefCountsHolders
  <2>0. IsFiniteSet(Holders(c)) /\ refCount[c] = Cardinality(Holders(c))
    BY HoldersFinite DEF RefCountsHolders
  <2>1. CASE c = b
    BY <1>11, <1>15, <2>1, FS_Singleton
  <2>2. CASE c = old
    <3>1. Cardinality(Holders(c) \ {s}) = Cardinality(Holders(c)) - 1
      BY <1>15, <2>0, <2>2, FS_RemoveElement
    <3> QED BY <1>10, <1>11, <1>15, <2>0, <2>2, <3>1
  <2>3. CASE c # b /\ c # old
    BY <1>11, <1>15, <2>0, <2>3
  <2> QED BY <2>1, <2>2, <2>3
<1>17. FreeListExact'
  <2> SUFFICES ASSUME NEW c \in Blocks
               PROVE  refCount'[c] = 0 <=> c \in Range(free')
    BY <1>2 DEF FreeListExact
  <2>1. refCount[c] = 0 <=> c \in Range(free)
    BY DEF FreeListExact
  <2>2. CASE c = old
    <3>1. refCount[c] # 0 /\ refCount[c] - 1 # 0
      BY <1>1, <1>11, <2>2 DEF old
    <3> QED BY <1>2, <1>10, <1>11, <2>1, <2>2, <3>1
  <2>3. CASE c # old
    BY <1>2, <1>11, <2>1, <2>3
  <2> QED BY <2>2, <2>3
<1>18. MapPointsAtItsHash'
  <2>1. \A g \in DOMAIN hashToBlock' :
           g # NoHash /\ hashToBlock'[g] \in Blocks /\ hash[hashToBlock'[g]] = g
    BY <1>13 DEF MapPointsAtItsHash, PoolDataOK
  <2> QED BY <1>12, <1>13, <2>1 DEF MapPointsAtItsHash
<1>19. SharedPrefixIsOwn'
  <2> SUFFICES ASSUME NEW u \in Seqs
               PROVE  /\ IsInjective(table'[u])
                      /\ \A i \in 1 .. Len(table'[u]) :
                            hash'[table'[u][i]] # NoHash =>
                               /\ i <= FullBlocks(u)
                               /\ hash'[table'[u][i]] = BlockHash(toks[u], i)
    BY <1>6 DEF SharedPrefixIsOwn, FullBlocks
  <2>1. CASE u # s
    <3>1. \A i \in 1 .. Len(table[u]) : table[u][i] \in Blocks /\ table[u][i] # b
      BY <1>4 DEF Range, PoolDataOK
    <3>2. /\ table'[u] = table[u]
          /\ \A i \in 1 .. Len(table[u]) : hash'[table[u][i]] = hash[table[u][i]]
      BY <1>7, <1>12, <2>1, <3>1
    <3> QED BY <3>2 DEF SharedPrefixIsOwn
  <2>2. CASE u = s
    <3> SUFFICES ASSUME NEW i \in 1 .. n, hash'[table'[s][i]] # NoHash
                 PROVE  /\ i <= FullBlocks(s)
                        /\ hash'[table'[s][i]] = BlockHash(toks[s], i)
      BY <1>9, <2>2
    <3>1. i \in 1 .. n - 1 /\ i \in 1 .. Len(table[s])
      BY <1>5, <1>9, <1>12
    <3>2. /\ table'[s][i] = table[s][i] /\ table[s][i] \in Blocks
          /\ table[s][i] # b
      <4>1. table[s][i] \in Range(table[s])
        BY <1>5, <3>1 DEF Range
      <4> QED BY <1>4, <1>5, <1>9, <3>1, <4>1
    <3> QED BY <1>12, <3>1, <3>2 DEF SharedPrefixIsOwn
  <2> QED BY <2>1, <2>2
<1>20. UnhashedIsPrivate'
  <2> SUFFICES ASSUME NEW c \in Blocks, hash'[c] = NoHash,
                      NEW s1 \in Holders(c)', NEW s2 \in Holders(c)'
               PROVE  s1 = s2
    BY DEF UnhashedIsPrivate
  <2>1. CASE c = b
    BY <1>15, <2>1
  <2>2. CASE c # b
    BY <1>12, <1>15, <2>2 DEF UnhashedIsPrivate
  <2> QED BY <2>1, <2>2
<1> QED BY <1>14, <1>16, <1>17, <1>18, <1>19, <1>20

-----------------------------------------------------------------------------
(* BlockManager::new establishes the invariant.                            *)
LEMMA PoolInitInv == PoolInit => PoolInv
<1> SUFFICES ASSUME PoolInit PROVE PoolInv
  OBVIOUS
<1> USE PoolAssumption DEF PoolInit
<1>1. free \in Seq(Blocks) /\ IsInjective(free) /\ Range(free) = Blocks
  <2>1. free \in [1 .. NumBlocks -> Blocks]
    BY DEF Blocks
  <2>2. free \in Seq(Blocks)
    BY <2>1
  <2>3. IsInjective(free)
    BY DEF IsInjective
  <2>4. \A b \in Blocks : b + 1 \in DOMAIN free /\ free[b + 1] = b
    BY DEF Blocks
  <2>5. Range(free) = Blocks
    BY <2>1, <2>4 DEF Range
  <2> QED BY <2>2, <2>3, <2>5
<1>2. PoolDataOK
  <2>1. NoHash \in Seq(Token) /\ <<>> \in Seq(Token) /\ <<>> \in Seq(Blocks)
    BY DEF NoHash
  <2>2. hashToBlock \in [DOMAIN hashToBlock -> Blocks]
    OBVIOUS
  <2> QED BY <1>1, <2>1, <2>2 DEF PoolDataOK
<1>3. PoolTypeOK
  BY <1>2 DEF PoolTypeOK, Op, Idle
<1>4. \A s \in Seqs : Range(table[s]) = {}
  BY DEF Range
<1>5. RefCountsHolders
  <2>1. \A b \in Blocks : Holders(b) = {}
    BY <1>4 DEF Holders
  <2> QED BY <2>1, FS_EmptySet DEF RefCountsHolders
<1>6. FreeListExact
  BY <1>1 DEF FreeListExact
<1>7. MapPointsAtItsHash
  BY DEF MapPointsAtItsHash
<1>8. SharedPrefixIsOwn
  BY DEF SharedPrefixIsOwn, IsInjective
<1>9. UnhashedIsPrivate
  BY <1>4 DEF UnhashedIsPrivate, Holders
<1> QED BY <1>2, <1>3, <1>5, <1>6, <1>7, <1>8, <1>9 DEF PoolInv, PoolCore

(* A step that changes nothing but op, or a text with an empty table.      *)
LEMMA UnchangedKeepsCore ==
    ASSUME PoolCore,
           UNCHANGED <<refCount, hash, kvComputed, free, hashToBlock, table>>,
           toks' \in [Seqs -> Seq(Token)],
           \A s \in Seqs : toks'[s] = toks[s] \/ table[s] = <<>>
    PROVE  PoolCore'
<1> USE DEF PoolCore
<1>1. PoolDataOK' /\ FreeListExact' /\ MapPointsAtItsHash'
  BY DEF PoolDataOK, FreeListExact, MapPointsAtItsHash
<1>2. \A c \in Blocks : Holders(c)' = Holders(c)
  BY DEF Holders
<1>3. RefCountsHolders' /\ UnhashedIsPrivate'
  BY <1>2 DEF RefCountsHolders, UnhashedIsPrivate
<1>4. SharedPrefixIsOwn'
  <2> SUFFICES ASSUME NEW u \in Seqs, NEW i \in 1 .. Len(table[u]),
                      hash[table[u][i]] # NoHash
               PROVE  /\ i <= FullBlocks(u)'
                      /\ hash[table[u][i]] = BlockHash(toks'[u], i)
    BY DEF SharedPrefixIsOwn
  <2>1. table[u] # <<>>
    <3>1. i \in Nat /\ i >= 1 /\ i <= Len(table[u])
      BY DEF PoolDataOK
    <3> QED BY <3>1
  <2>2. toks'[u] = toks[u]
    BY <2>1
  <2> QED BY <2>2 DEF SharedPrefixIsOwn, FullBlocks
<1> QED BY <1>1, <1>3, <1>4

(* Every operation, and every iteration of every loop, keeps the invariant. *)
LEMMA PoolNextInv == PoolInv /\ [PoolNext]_poolVars => PoolInv'
<1> SUFFICES ASSUME PoolInv, [PoolNext]_poolVars PROVE PoolInv'
  OBVIOUS
<1> USE DEF PoolInv
<1>0. /\ op \in Op /\ PoolCore /\ PoolDataOK
      /\ op.kind = "release" => table[op.seq] # <<>>
      /\ toks \in [Seqs -> Seq(Token)]
      /\ \A s \in Seqs : /\ table[s] \in Seq(Blocks) /\ Len(table[s]) \in Nat
                         /\ toks[s] \in Seq(Token) /\ Len(toks[s]) \in Nat
  BY DEF PoolTypeOK, PoolCore, PoolDataOK
<1>a. /\ op.kind = "alloc" => /\ op \in [kind : {"alloc"}, seq : Seqs, cached : Nat, leading : BOOLEAN]
                              /\ op.seq \in Seqs /\ op.cached \in Nat
                              /\ op.leading \in BOOLEAN
      /\ op.kind = "extend" => /\ op \in [kind : {"extend"}, seq : Seqs, goal : Nat]
                               /\ op.seq \in Seqs
      /\ op.kind = "release" => /\ op \in [kind : {"release"}, seq : Seqs]
                                /\ op.seq \in Seqs
  BY <1>0 DEF Op, Idle
<1>b. ASSUME PoolCore', op' \in Op, op'.kind # "release" PROVE PoolInv'
  BY <1>b DEF PoolTypeOK, PoolCore
<1>1. CASE AcquireShared
  <2> DEFINE s == op.seq
             i == Len(table[s]) + 1
             h == BlockHash(toks[s], i)
             hit == op.leading /\ kvComputed[hashToBlock[h]]
  <2>1. /\ s \in Seqs /\ i <= FullBlocks(s) /\ Mapped(h)
        /\ Share(s, hashToBlock[h]) /\ UNCHANGED toks
    BY <1>1, <1>a DEF AcquireShared
  <2>2. PoolCore'
    BY <1>0, <2>1, ShareKeepsCore
  <2>3. op' \in Op /\ op'.kind = "alloc"
    <3>1. hit \in BOOLEAN
      <4>1. op.leading \in BOOLEAN
        BY <1>1, <1>a DEF AcquireShared
      <4> QED BY <4>1
    <3>2. (IF hit THEN op.cached + BlockSize ELSE op.cached) \in Nat
      BY <1>1, <1>a, PoolAssumption DEF AcquireShared
    <3>3. op' = [op EXCEPT !.leading = hit,
                           !.cached = IF hit THEN op.cached + BlockSize
                                      ELSE op.cached]
      BY <1>1 DEF AcquireShared
    <3> HIDE DEF hit
    <3> QED BY <1>1, <1>a, <3>1, <3>2, <3>3 DEF AcquireShared, Op
  <2> QED BY <1>b, <2>2, <2>3
<1>2. CASE AcquireFresh
  <2> DEFINE s == op.seq
             i == Len(table[s]) + 1
             h == BlockHash(toks[s], i)
             g == IF i <= FullBlocks(s) THEN h ELSE NoHash
  <2>1. s \in Seqs /\ PopFree(s, g) /\ UNCHANGED toks
    BY <1>2, <1>a DEF AcquireFresh
  <2>2. g \in Seq(Token)
    <3>1. CASE i <= FullBlocks(s)
      <4>1. i \in Nat /\ i >= 1 /\ toks[s] \in Seq(Token) /\ Len(toks[s]) \in Nat
        BY <1>0, <2>1
      <4>2. i * BlockSize <= Len(toks[s])
        BY <3>1, <4>1, FullBlocksBound DEF FullBlocks
      <4>3. h \in Seq(Token)
        BY <4>1, <4>2, BlockHashType
      <4> QED BY <3>1, <4>3
    <3>2. CASE ~(i <= FullBlocks(s))
      BY <3>2 DEF NoHash
    <3> QED BY <3>1, <3>2
  <2>3. PoolCore'
    <3>1. g # NoHash => i <= FullBlocks(s) /\ g = h
      OBVIOUS
    <3> HIDE DEF g
    <3> QED BY <1>0, <2>1, <2>2, <3>1, PopFreeKeepsCore
  <2>4. op' \in Op /\ op'.kind = "alloc"
    BY <1>2, <1>a DEF AcquireFresh, Op
  <2> QED BY <1>b, <2>3, <2>4
<1>3. CASE AllocateEnd
  BY <1>0, <1>3, <1>b, UnchangedKeepsCore DEF AllocateEnd, Op, Idle
<1>4. CASE ExtendNext
  <2>1. op.seq \in Seqs /\ PopFree(op.seq, NoHash) /\ UNCHANGED toks
    BY <1>4, <1>a DEF ExtendNext
  <2>a. NoHash \in Seq(Token)
    BY DEF NoHash
  <2>2. PoolCore'
    BY <1>0, <2>1, <2>a, PopFreeKeepsCore
  <2>3. op' \in Op /\ op'.kind # "release"
    BY <1>4, <1>0 DEF ExtendNext, Op, Idle
  <2> QED BY <1>b, <2>2, <2>3
<1>5. CASE ExtendFail
  BY <1>0, <1>5, <1>b, UnchangedKeepsCore DEF ExtendFail, Op, Idle
<1>6. CASE ReleaseLast
  <2>1. op.kind = "release" /\ op.seq \in Seqs /\ table[op.seq] # <<>>
    BY <1>0, <1>6, <1>a DEF ReleaseLast
  <2>2. PoolCore'
    BY <1>0, <1>6, <2>1, ReleaseKeepsCore
  <2>3. CASE Len(table[op.seq]) = 1
    BY <1>6, <1>b, <2>2, <2>3 DEF ReleaseLast, Op, Idle
  <2>4. CASE Len(table[op.seq]) # 1
    <3>1. op' = op
      BY <1>6, <2>4 DEF ReleaseLast
    <3>2. table'[op.seq] = SubSeq(table[op.seq], 1, Len(table[op.seq]) - 1)
      BY <1>0, <1>6, <2>1 DEF ReleaseLast, PoolDataOK
    <3>3. Len(table[op.seq]) \in Nat /\ Len(table[op.seq]) > 1
      <4>1. table[op.seq] \in Seq(Blocks) /\ table[op.seq] # <<>>
        BY <1>0, <2>1
      <4>2. \A q \in Seq(Blocks) : q # <<>> /\ Len(q) # 1 => Len(q) > 1
        OBVIOUS
      <4> QED BY <1>0, <2>1, <2>4, <4>1, <4>2
    <3>4. Len(table'[op.seq]) = Len(table[op.seq]) - 1
      BY <1>0, <2>1, <3>2, <3>3, PrefixProperties
    <3>5. table'[op.seq] # <<>>
      BY <3>3, <3>4
    <3> QED BY <1>0, <2>2, <3>1, <3>5 DEF PoolTypeOK, PoolCore
  <2> QED BY <2>3, <2>4
<1>7. ASSUME NEW s \in Seqs, PoolCall(s) PROVE PoolInv'
  <2>a. NoHash \in Seq(Token) /\ <<>> \in Seq(Token)
    BY DEF NoHash
  <2>b. op = Idle
    BY <1>7 DEF PoolCall, Arrive, Forget, AllocateBegin, ExtendFor,
                DeallocateBegin, AcceptToken, AppendToken, ForkTail
  <2>c. Idle \in Op /\ Idle.kind # "release"
    BY DEF Op, Idle
  <2>1. ASSUME NEW p \in Prompts, Arrive(s, p) PROVE PoolInv'
    <3>1. p \in Seq(Token)
      BY PoolAssumption
    <3>2. PoolCore'
      BY <1>0, <2>1, <3>1, UnchangedKeepsCore DEF Arrive
    <3> QED BY <1>b, <2>1, <2>c, <3>2 DEF Arrive
  <2>2. CASE Forget(s)
    <3>1. PoolCore'
      BY <1>0, <2>2, <2>a, UnchangedKeepsCore DEF Forget
    <3> QED BY <1>b, <2>2, <2>c, <3>1 DEF Forget
  <2>3. CASE AllocateBegin(s)
    <3>1. PoolCore'
      BY <1>0, <2>3, UnchangedKeepsCore DEF AllocateBegin
    <3> QED BY <1>b, <2>3, <3>1 DEF AllocateBegin, Op
  <2>4. ASSUME NEW goal \in 1 .. NumBlocks + 1, ExtendFor(s, goal) PROVE PoolInv'
    <3>1. PoolCore'
      BY <1>0, <2>4, <2>a, PopFreeKeepsCore DEF ExtendFor
    <3>2. goal \in Nat /\ NumBlocks + 1 \in Nat
      BY PoolAssumption
    <3> QED BY <1>b, <2>4, <2>c, <3>1, <3>2 DEF ExtendFor, Op
  <2>5. CASE DeallocateBegin(s)
    <3>1. PoolCore'
      BY <1>0, <2>5, UnchangedKeepsCore DEF DeallocateBegin
    <3>2. CASE table[s] = <<>>
      BY <1>b, <2>5, <2>c, <3>1, <3>2 DEF DeallocateBegin
    <3>3. CASE table[s] # <<>>
      <4>1. op' = [kind |-> "release", seq |-> s] /\ table' = table
        BY <2>5, <3>3 DEF DeallocateBegin
      <4>2. op' \in Op /\ table'[op'.seq] # <<>>
        BY <3>3, <4>1 DEF Op
      <4> QED BY <3>1, <4>2 DEF PoolTypeOK, PoolCore
    <3> QED BY <3>2, <3>3
  <2>6. ASSUME NEW t \in Token, AcceptToken(s, t) PROVE PoolInv'
    <3>1. PoolCore'
      BY <1>0, <2>6, GrowKeepsCore DEF AcceptToken, PoolDataOK
    <3> QED BY <1>b, <2>6, <2>c, <3>1 DEF AcceptToken
  <2>7. ASSUME NEW t \in Token, NEW publish \in BOOLEAN,
               AppendToken(s, t, publish)
        PROVE  PoolInv'
    <3>1. kvComputed' \in [Blocks -> BOOLEAN]
      <4>1. kvComputed' = [b \in Blocks |->
              kvComputed[b] \/ \E i \in ComputedBlocks(s, Len(toks[s])) :
                                  table[s][i] = b]
        BY <2>7 DEF AppendToken, MarkedComputed
      <4> QED BY <1>0, <4>1 DEF PoolDataOK
    <3>0. /\ toks' = [toks EXCEPT ![s] = Append(toks[s], t)]
          /\ UNCHANGED <<refCount, free, table>>
          /\ Len(toks[s]) \in Nat
      BY <1>0, <2>7 DEF AppendToken
    <3>2. ASSUME publish PROVE PoolCore'
      <4>1. /\ hash' = PublishedHash(s, Append(toks[s], t), Len(toks[s]))
            /\ hashToBlock' = PublishedMap(s, Append(toks[s], t), Len(toks[s]))
        BY <2>7, <3>2 DEF AppendToken
      <4> QED BY <1>0, <3>0, <3>1, <4>1, PublishKeepsCore
    <3>3. ASSUME ~publish PROVE PoolCore'
      <4>1. UNCHANGED <<hash, hashToBlock>>
        BY <2>7, <3>3 DEF AppendToken
      <4> QED BY <1>0, <3>0, <3>1, <4>1, GrowKeepsCore
    <3>4. PoolCore'
      BY <3>2, <3>3
    <3> QED BY <1>b, <2>7, <2>c, <3>4 DEF AppendToken
  <2>8. CASE ForkTail(s)
    <3>1. PoolCore'
      BY <1>0, <2>8, ForkKeepsCore
    <3> QED BY <1>b, <2>8, <2>c, <3>1 DEF ForkTail
  <2> QED BY <1>7, <2>1, <2>2, <2>3, <2>4, <2>5, <2>6, <2>7, <2>8 DEF PoolCall
<1>8. CASE UNCHANGED poolVars
  <2>1. PoolCore'
    BY <1>0, <1>8, UnchangedKeepsCore DEF poolVars
  <2> QED BY <1>0, <1>8, <2>1 DEF poolVars, PoolTypeOK, PoolCore
<1> QED BY <1>1, <1>2, <1>3, <1>4, <1>5, <1>6, <1>7, <1>8 DEF PoolNext, PoolLoop

(* The inductive invariant holds in every state of the pool.               *)
THEOREM PoolInvariant == PoolSpec => []PoolInv
<1> QED BY PoolInitInv, PoolNextInv, PTL DEF PoolSpec

(* Every field of the pool keeps its type.                                 *)
THEOREM PoolTypeCorrect == PoolSpec => []PoolTypeOK
<1>1. PoolInv => PoolTypeOK
  BY DEF PoolInv
<1> QED BY <1>1, PoolInvariant, PTL

(* block_manager.rs: a block's ref_count is the number of sequences that   *)
(* hold it, for every pool size and every interleaving of operations.      *)
THEOREM RefCountsCorrect == PoolSpec => []RefCountsHolders
<1>1. PoolInv => RefCountsHolders
  BY DEF PoolInv, PoolCore
<1> QED BY <1>1, PoolInvariant, PTL

(* block_manager.rs: no double free, no leak, no block handed out twice.   *)
THEOREM FreeListCorrect == PoolSpec => []FreeListExact
<1>1. PoolInv => FreeListExact
  BY DEF PoolInv, PoolCore
<1> QED BY <1>1, PoolInvariant, PTL

(* block_manager.rs: prefix sharing only ever gives a sequence blocks that *)
(* were filled under its own prefix.                                       *)
THEOREM SharingCorrect == PoolSpec => []SharedPrefixIsOwn
<1>1. PoolInv => SharedPrefixIsOwn
  BY DEF PoolInv, PoolCore
<1> QED BY <1>1, PoolInvariant, PTL

(* block_manager.rs: what hash_to_block finds under a hash is a block that *)
(* carries it, however often blocks were revived or reused.                *)
THEOREM MapCorrect == PoolSpec => []MapPointsAtItsHash
<1>1. PoolInv => MapPointsAtItsHash
  BY DEF PoolInv, PoolCore
<1> QED BY <1>1, PoolInvariant, PTL

-----------------------------------------------------------------------------
(* The allocation loop never runs out of blocks half way, and the tokens   *)
(* it reports as cached really have their KV. Both need a loop invariant   *)
(* on top of the pool's: what is left to take still fits in the free list  *)
(* although the loop itself shrinks that list and evicts mappings from the *)
(* prefix map.                                                             *)

(* How many blocks a text needs: its full ones and the partial tail.       *)
LEMMA BlocksNeeded ==
    ASSUME NEW n \in Nat
    PROVE  /\ NumBlocksNeeded(n) \in Nat
           /\ NumBlocksNeeded(n) = (n \div BlockSize) + (IF n % BlockSize # 0 THEN 1 ELSE 0)
           /\ \A m \in Nat : NumBlocksNeeded(n) <= m <=> n <= m * BlockSize
<1> USE PoolAssumption
<1> DEFINE d == n \div BlockSize
           e == n % BlockSize
           q == NumBlocksNeeded(n)
<1>1. /\ d \in Nat /\ e \in 0 .. BlockSize - 1 /\ n = d * BlockSize + e
  BY SMTT(30)
<1>2. q \in Nat /\ q * BlockSize <= n + BlockSize - 1 /\ n + BlockSize - 1 < (q + 1) * BlockSize
  BY SMTT(30) DEF NumBlocksNeeded
<1> HIDE DEF d, e, q
<1>3. ASSUME NEW m \in Nat PROVE q <= m <=> n <= m * BlockSize
  <2>1. ASSUME q <= m PROVE n <= m * BlockSize
    <3>1. q * BlockSize <= m * BlockSize
      BY <1>2, <2>1, SMTT(30)
    <3>2. (q + 1) * BlockSize = q * BlockSize + BlockSize
      BY <1>2, SMTT(30)
    <3>3. q * BlockSize \in Nat /\ m * BlockSize \in Nat
      BY <1>2
    <3> QED BY <1>2, <3>1, <3>2, <3>3
  <2>2. ASSUME m < q PROVE m * BlockSize < n
    <3>1. (m + 1) * BlockSize <= q * BlockSize
      BY <1>2, <2>2, SMTT(30)
    <3>2. (m + 1) * BlockSize = m * BlockSize + BlockSize
      BY SMTT(30)
    <3>3. q * BlockSize \in Nat /\ m * BlockSize \in Nat
      BY <1>2
    <3> QED BY <1>2, <3>1, <3>2, <3>3
  <2>3. m * BlockSize \in Nat
    OBVIOUS
  <2> QED BY <1>2, <2>1, <2>2, <2>3
<1>4. CASE e = 0
  <2>1. q <= d
    BY <1>1, <1>3, <1>4
  <2>2. ASSUME q < d PROVE FALSE
    <3>1. n <= q * BlockSize
      BY <1>2, <1>3
    <3>2. (q + 1) * BlockSize <= d * BlockSize
      BY <1>1, <1>2, <2>2, SMTT(30)
    <3>3. (q + 1) * BlockSize = q * BlockSize + BlockSize /\ q * BlockSize \in Nat
      BY <1>2, SMTT(30)
    <3>4. d * BlockSize \in Nat
      BY <1>1
    <3> QED BY <1>1, <1>4, <3>1, <3>2, <3>3, <3>4
  <2> QED BY <1>1, <1>2, <1>3, <1>4, <2>1, <2>2 DEF q, d, e
<1>5. CASE e # 0
  <2>0. (d + 1) * BlockSize = d * BlockSize + BlockSize /\ d * BlockSize \in Nat
    BY <1>1, SMTT(30)
  <2>1. q <= d + 1
    <3>1. d + 1 \in Nat /\ n <= (d + 1) * BlockSize
      BY <1>1, <2>0
    <3> QED BY <1>3, <3>1
  <2>2. ~(q <= d)
    BY <1>1, <1>3, <1>5, <2>0
  <2> QED BY <1>1, <1>2, <1>3, <1>5, <2>1, <2>2 DEF q, d, e
<1> QED BY <1>1, <1>4, <1>5

-----------------------------------------------------------------------------
(* What is left of an allocation: the full blocks it has still to take off *)
(* the free list, counted as it did before it began.                       *)
StillTaken(s) ==
    {i \in Len(table[s]) + 1 .. FullBlocks(s) :
        LET h == BlockHash(toks[s], i)
        IN  Mapped(h) => refCount[hashToBlock[h]] = 0}

PartialTail(s) == IF Len(toks[s]) % BlockSize # 0 THEN 1 ELSE 0

\* The loop has room for what is left to take.
AllocRoom(s) ==
    /\ toks[s] # <<>>
    /\ Len(table[s]) <= NumBlocksNeeded(Len(toks[s]))
    /\ Len(table[s]) <= FullBlocks(s) =>
          Cardinality(StillTaken(s)) + PartialTail(s) <= Len(free)

\* The first k blocks are cached, and all of them as long as the run of
\* computed ones lasts.
AllocCached(s, cached, leading) ==
    \E k \in 0 .. Len(table[s]) :
        /\ cached = k * BlockSize
        /\ k <= FullBlocks(s)
        /\ leading => k = Len(table[s])
        /\ \A i \in 1 .. k : kvComputed[table[s][i]]

AllocInv ==
    op.kind = "alloc" =>
        AllocRoom(op.seq) /\ AllocCached(op.seq, op.cached, op.leading)

(* Removing one element shortens a queue by one.                           *)
LEMMA WithoutLength ==
    ASSUME NEW S, NEW q \in Seq(S), NEW e \in Range(q)
    PROVE  Len(Without(q, e)) = Len(q) - 1 /\ Len(q) > 0
<1> DEFINE k == CHOOSE i \in 1 .. Len(q) : q[i] = e
           r == [i \in 1 .. Len(q) - 1 |-> IF i < k THEN q[i] ELSE q[i + 1]]
<1>1. Len(q) \in Nat /\ DOMAIN q = 1 .. Len(q) /\ Len(q) > 0
  BY DEF Range
<1>2. r = Without(q, e)
  BY DEF Without
<1>3. DOMAIN r = 1 .. Len(q) - 1 /\ Len(q) - 1 \in Nat
  BY <1>1
<1> HIDE DEF r
<1>4. Len(r) = Len(q) - 1
  <2>1. \A m \in Nat : DOMAIN r = 1 .. m => Len(r) = m
    OBVIOUS
  <2> QED BY <1>3, <2>1
<1> QED BY <1>1, <1>2, <1>4

(* The blocks still to take are finitely many, and there is a place for    *)
(* the tail after the full ones.                                           *)
LEMMA AllocFacts ==
    ASSUME PoolCore, NEW s \in Seqs
    PROVE  /\ toks[s] \in Seq(Token) /\ Len(toks[s]) \in Nat
           /\ table[s] \in Seq(Blocks) /\ Len(table[s]) \in Nat
           /\ FullBlocks(s) \in Nat /\ PartialTail(s) \in {0, 1}
           /\ NumBlocksNeeded(Len(toks[s])) = FullBlocks(s) + PartialTail(s)
           /\ IsFiniteSet(StillTaken(s)) /\ Cardinality(StillTaken(s)) \in Nat
           /\ free \in Seq(Blocks) /\ Len(free) \in Nat
           /\ \A i \in Nat : i >= 1 /\ i <= FullBlocks(s) => i * BlockSize <= Len(toks[s])
<1>1. /\ toks[s] \in Seq(Token) /\ Len(toks[s]) \in Nat
      /\ table[s] \in Seq(Blocks) /\ Len(table[s]) \in Nat
      /\ free \in Seq(Blocks) /\ Len(free) \in Nat
  BY DEF PoolCore, PoolDataOK
<1>2. FullBlocks(s) \in Nat
  <2>1. \A n \in Nat : n \div BlockSize \in Nat
    BY PoolAssumption, SMTT(30)
  <2> QED BY <1>1, <2>1 DEF FullBlocks
<1>3. PartialTail(s) \in {0, 1}
  BY DEF PartialTail
<1>4. NumBlocksNeeded(Len(toks[s])) = FullBlocks(s) + PartialTail(s)
  BY <1>1, BlocksNeeded DEF FullBlocks, PartialTail
<1>5. IsFiniteSet(StillTaken(s))
  <2>1. IsFiniteSet(Len(table[s]) + 1 .. FullBlocks(s))
    <3>1. Len(table[s]) + 1 \in Int /\ FullBlocks(s) \in Int
      BY <1>1, <1>2
    <3> QED BY ONLY <3>1, FS_Interval
  <2>2. StillTaken(s) \subseteq Len(table[s]) + 1 .. FullBlocks(s)
    BY DEF StillTaken
  <2> QED BY <2>1, <2>2, FS_Subset
<1>6. Cardinality(StillTaken(s)) \in Nat
  BY <1>5, FS_CardinalityType
<1>7. \A i \in Nat : i >= 1 /\ i <= FullBlocks(s) => i * BlockSize <= Len(toks[s])
  BY <1>1, FullBlocksBound DEF FullBlocks
<1> QED BY <1>1, <1>2, <1>3, <1>4, <1>5, <1>6, <1>7

(* One block fewer to take.                                                *)
LEMMA StillTakenShrinks ==
    ASSUME PoolCore, NEW s \in Seqs, NEW T, NEW i \in Nat,
           T \subseteq StillTaken(s) \ {i}
    PROVE  /\ Cardinality(T) <= Cardinality(StillTaken(s)) /\ Cardinality(T) \in Nat
           /\ i \in StillTaken(s) => Cardinality(T) <= Cardinality(StillTaken(s)) - 1
<1>1. IsFiniteSet(StillTaken(s)) /\ Cardinality(StillTaken(s)) \in Nat
  BY AllocFacts
<1>2. /\ IsFiniteSet(StillTaken(s) \ {i})
      /\ Cardinality(StillTaken(s) \ {i}) =
            IF i \in StillTaken(s) THEN Cardinality(StillTaken(s)) - 1
            ELSE Cardinality(StillTaken(s))
  BY <1>1, FS_RemoveElement
<1>3. Cardinality(T) <= Cardinality(StillTaken(s) \ {i}) /\ IsFiniteSet(T)
  BY <1>2, FS_Subset
<1>4. Cardinality(T) \in Nat
  BY <1>3, FS_CardinalityType
<1> QED BY <1>1, <1>2, <1>3, <1>4

(* An iteration that shares a block.                                       *)
LEMMA ShareKeepsRoom ==
    ASSUME PoolCore, NEW s \in Seqs, AllocRoom(s),
           Len(table[s]) + 1 <= FullBlocks(s),
           Mapped(BlockHash(toks[s], Len(table[s]) + 1)),
           Share(s, hashToBlock[BlockHash(toks[s], Len(table[s]) + 1)]),
           UNCHANGED toks
    PROVE  /\ AllocRoom(s)'
           /\ Len(table'[s]) = Len(table[s]) + 1
           /\ table'[s][Len(table[s]) + 1] = hashToBlock[BlockHash(toks[s], Len(table[s]) + 1)]
           /\ \A j \in 1 .. Len(table[s]) : table'[s][j] = table[s][j]
<1> DEFINE n == Len(table[s])
           i == n + 1
           h == BlockHash(toks[s], i)
           b == hashToBlock[h]
<1>0. /\ toks[s] \in Seq(Token) /\ Len(toks[s]) \in Nat
      /\ table[s] \in Seq(Blocks) /\ n \in Nat
      /\ FullBlocks(s) \in Nat /\ PartialTail(s) \in {0, 1}
      /\ NumBlocksNeeded(Len(toks[s])) = FullBlocks(s) + PartialTail(s)
      /\ free \in Seq(Blocks) /\ Len(free) \in Nat
      /\ Cardinality(StillTaken(s)) \in Nat
  BY AllocFacts
<1>1. /\ b \in Blocks /\ refCount \in [Blocks -> Nat]
      /\ table \in [Seqs -> Seq(Blocks)]
      /\ hashToBlock \in [DOMAIN hashToBlock -> Blocks]
  BY DEF PoolCore, PoolDataOK, Mapped
<1>2. /\ refCount' = [refCount EXCEPT ![b] = refCount[b] + 1]
      /\ free' = IF refCount[b] = 0 THEN Without(free, b) ELSE free
      /\ table' = [table EXCEPT ![s] = Append(table[s], b)]
      /\ UNCHANGED <<hashToBlock, toks>>
  BY DEF Share
<1>3. table'[s] = Append(table[s], b)
  BY <1>1, <1>2
<1>4. /\ Len(table'[s]) = i /\ table'[s][i] = b
      /\ \A j \in 1 .. n : table'[s][j] = table[s][j]
  BY <1>0, <1>1, <1>3
<1>5. UNCHANGED <<FullBlocks(s), PartialTail(s), NumBlocksNeeded(Len(toks[s]))>>
  BY <1>2 DEF FullBlocks, PartialTail, NumBlocksNeeded
<1>6. StillTaken(s)' \subseteq StillTaken(s) \ {i}
  <2> SUFFICES ASSUME NEW j \in i + 1 .. FullBlocks(s),
                      LET g == BlockHash(toks[s], j)
                      IN  Mapped(g) => refCount'[hashToBlock[g]] = 0
               PROVE  LET g == BlockHash(toks[s], j)
                      IN  Mapped(g) => refCount[hashToBlock[g]] = 0
    BY <1>0, <1>2, <1>4, <1>5 DEF StillTaken, Mapped, BlockHash
  <2> DEFINE g == BlockHash(toks[s], j)
  <2> SUFFICES ASSUME Mapped(g) PROVE refCount[hashToBlock[g]] = 0
    OBVIOUS
  <2>1. hashToBlock[g] \in Blocks
    BY <1>1 DEF Mapped
  <2> HIDE DEF b, g
  <2>2. refCount'[hashToBlock[g]] = 0
    BY DEF g
  <2> QED BY <1>1, <1>2, <2>1, <2>2
<1>7. /\ Cardinality(StillTaken(s)') \in Nat
      /\ Cardinality(StillTaken(s)') <= Cardinality(StillTaken(s))
      /\ i \in StillTaken(s) => Cardinality(StillTaken(s)') <= Cardinality(StillTaken(s)) - 1
  <2> DEFINE T == StillTaken(s)'
  <2>1. T \subseteq StillTaken(s) \ {i} /\ i \in Nat
    BY <1>0, <1>6
  <2> HIDE DEF T
  <2>2. /\ Cardinality(T) <= Cardinality(StillTaken(s)) /\ Cardinality(T) \in Nat
        /\ i \in StillTaken(s) => Cardinality(T) <= Cardinality(StillTaken(s)) - 1
    BY <2>1, StillTakenShrinks
  <2> QED BY <2>2 DEF T
<1>8. n <= FullBlocks(s) /\ Cardinality(StillTaken(s)) + PartialTail(s) <= Len(free)
  BY <1>0 DEF AllocRoom
<1>9. Cardinality(StillTaken(s)') + PartialTail(s) <= Len(free')
  <2>1. CASE refCount[b] = 0
    <3>1. i \in StillTaken(s)
      BY <1>0, <2>1 DEF StillTaken
    <3>2. b \in Range(free)
      BY <1>1, <2>1 DEF PoolCore, FreeListExact
    <3>3. Len(free') = Len(free) - 1
      BY <1>0, <1>2, <2>1, <3>2, WithoutLength
    <3> QED BY <1>0, <1>7, <1>8, <3>1, <3>3
  <2>2. CASE refCount[b] # 0
    BY <1>0, <1>2, <1>7, <1>8, <2>2
  <2> QED BY <2>1, <2>2
<1> QED BY <1>0, <1>4, <1>5, <1>9 DEF AllocRoom

(* An iteration that takes a block off the free list.                      *)
LEMMA PopKeepsRoom ==
    ASSUME PoolCore, NEW s \in Seqs, AllocRoom(s), NEW h,
           Len(table[s]) + 1 <= NumBlocksNeeded(Len(toks[s])),
           IF Len(table[s]) + 1 <= FullBlocks(s)
           THEN h = BlockHash(toks[s], Len(table[s]) + 1) /\ ~Mapped(h)
           ELSE h = NoHash,
           PopFree(s, h), UNCHANGED toks
    PROVE  /\ AllocRoom(s)'
           /\ Len(table'[s]) = Len(table[s]) + 1
           /\ \A j \in 1 .. Len(table[s]) :
                 /\ table'[s][j] = table[s][j]
                 /\ kvComputed'[table[s][j]] = kvComputed[table[s][j]]
<1> DEFINE n == Len(table[s])
           i == n + 1
           b == Head(free)
<1>0. /\ toks[s] \in Seq(Token) /\ Len(toks[s]) \in Nat
      /\ table[s] \in Seq(Blocks) /\ n \in Nat
      /\ FullBlocks(s) \in Nat /\ PartialTail(s) \in {0, 1}
      /\ NumBlocksNeeded(Len(toks[s])) = FullBlocks(s) + PartialTail(s)
      /\ free \in Seq(Blocks) /\ Len(free) \in Nat
      /\ Cardinality(StillTaken(s)) \in Nat
      /\ \A j \in Nat : j >= 1 /\ j <= FullBlocks(s) => j * BlockSize <= Len(toks[s])
  BY AllocFacts
<1>1. /\ free # <<>> /\ free' = Tail(free) /\ Len(free') = Len(free) - 1
      /\ b \in Blocks /\ b \in Range(free)
  BY <1>0, TailInjective DEF PopFree, PoolCore, FreeListExact
<1>2. refCount[b] = 0 /\ Holders(b) = {}
  BY <1>1, HoldersFinite DEF PoolCore, FreeListExact
<1>3. /\ refCount \in [Blocks -> Nat] /\ table \in [Seqs -> Seq(Blocks)]
      /\ kvComputed \in [Blocks -> BOOLEAN]
      /\ hashToBlock \in [DOMAIN hashToBlock -> Blocks]
  BY DEF PoolCore, PoolDataOK
<1>4. /\ refCount' = [refCount EXCEPT ![b] = 1]
      /\ kvComputed' = [kvComputed EXCEPT ![b] = FALSE]
      /\ table' = [table EXCEPT ![s] = Append(table[s], b)]
  BY DEF PopFree
<1>5. table'[s] = Append(table[s], b)
  BY <1>3, <1>4
<1>6. /\ Len(table'[s]) = i
      /\ \A j \in 1 .. n : table'[s][j] = table[s][j]
  BY <1>0, <1>1, <1>5
<1>7. ASSUME NEW j \in 1 .. n PROVE kvComputed'[table[s][j]] = kvComputed[table[s][j]]
  <2>1. table[s][j] \in Range(table[s]) /\ table[s][j] \in Blocks
    BY <1>0 DEF Range
  <2>2. table[s][j] # b
    BY <1>2, <2>1 DEF Holders
  <2> QED BY <1>3, <1>4, <2>1, <2>2
<1>8. UNCHANGED <<FullBlocks(s), PartialTail(s), NumBlocksNeeded(Len(toks[s]))>>
  BY DEF FullBlocks, PartialTail, NumBlocksNeeded
<1>9. CASE ~(i <= FullBlocks(s))
  BY <1>0, <1>6, <1>7, <1>8, <1>9 DEF AllocRoom
<1>10. CASE i <= FullBlocks(s)
  <2>0. h = BlockHash(toks[s], i) /\ ~Mapped(h) /\ i * BlockSize <= Len(toks[s])
    BY <1>0, <1>10
  <2>1. i \in StillTaken(s)
    BY <1>0, <1>10, <2>0 DEF StillTaken
  <2>2. ASSUME NEW g, Mapped(g), hashToBlock[g] # b, g # h
        PROVE  g \in DOMAIN hashToBlock' /\ hashToBlock'[g] = hashToBlock[g]
    <3> DEFINE kept == IF Mapped(hash[b]) /\ hashToBlock[hash[b]] = b
                       THEN Unmap(hash[b]) ELSE hashToBlock
    <3>1. hashToBlock' = IF h = NoHash THEN kept
                         ELSE [x \in DOMAIN kept \cup {h} |->
                                  IF x = h THEN b ELSE kept[x]]
      BY DEF PopFree
    <3>2. g \in DOMAIN kept /\ kept[g] = hashToBlock[g]
      BY <2>2 DEF Mapped, Unmap
    <3> HIDE DEF kept
    <3> QED BY <2>2, <3>1, <3>2 DEF Mapped
  <2>3. StillTaken(s)' \subseteq StillTaken(s) \ {i}
    <3> SUFFICES ASSUME NEW j \in i + 1 .. FullBlocks(s),
                        LET g == BlockHash(toks[s], j)
                        IN  g \in DOMAIN hashToBlock' => refCount'[hashToBlock'[g]] = 0
                 PROVE  LET g == BlockHash(toks[s], j)
                        IN  Mapped(g) => refCount[hashToBlock[g]] = 0
      BY <1>0, <1>6, <1>8 DEF StillTaken, Mapped, BlockHash
    <3> DEFINE g == BlockHash(toks[s], j)
               c == hashToBlock[g]
    <3> SUFFICES ASSUME Mapped(g), refCount[c] # 0 PROVE FALSE
      OBVIOUS
    <3>1. c \in Blocks /\ c # b
      BY <1>2, <1>3 DEF Mapped
    <3>2. g # h
      <4>1. j \in Nat /\ j >= 1 /\ j * BlockSize <= Len(toks[s]) /\ j # i
        BY <1>0
      <4>2. i \in Nat /\ i >= 1
        BY <1>0
      <4> QED BY <1>0, <2>0, <4>1, <4>2, BlockHashDistinct
    <3>3. g \in DOMAIN hashToBlock' => refCount'[hashToBlock'[g]] = 0
      OBVIOUS
    <3>4. g \in DOMAIN hashToBlock' /\ hashToBlock'[g] = c
      BY <2>2, <3>1, <3>2
    <3> HIDE DEF c
    <3>5. refCount'[c] = refCount[c]
      BY <1>3, <1>4, <3>1
    <3> QED BY <3>3, <3>4, <3>5
  <2>4. /\ Cardinality(StillTaken(s)') \in Nat
        /\ Cardinality(StillTaken(s)') <= Cardinality(StillTaken(s)) - 1
    <3> DEFINE T == StillTaken(s)'
    <3>1. T \subseteq StillTaken(s) \ {i} /\ i \in Nat
      BY <1>0, <2>3
    <3> HIDE DEF T
    <3>2. /\ Cardinality(T) \in Nat
          /\ i \in StillTaken(s) => Cardinality(T) <= Cardinality(StillTaken(s)) - 1
      BY <3>1, StillTakenShrinks
    <3> QED BY <2>1, <3>2 DEF T
  <2>5. Cardinality(StillTaken(s)) + PartialTail(s) <= Len(free)
    BY <1>0, <1>10 DEF AllocRoom
  <2>6. AllocRoom(s)'
    BY <1>0, <1>1, <1>6, <1>8, <1>10, <2>4, <2>5 DEF AllocRoom
  <2> QED BY <1>6, <1>7, <2>6
<1> QED BY <1>9, <1>10
(* The loop starts with room for every block it counted.                   *)
LEMMA AllocStarts ==
    ASSUME PoolCore, NEW s \in Seqs, AllocateBegin(s)
    PROVE  AllocInv'
<1>0. /\ FullBlocks(s) \in Nat /\ PartialTail(s) \in {0, 1}
      /\ NumBlocksNeeded(Len(toks[s])) = FullBlocks(s) + PartialTail(s)
  BY AllocFacts
<1>1. /\ op' = [kind |-> "alloc", seq |-> s, cached |-> 0, leading |-> TRUE]
      /\ table[s] = <<>> /\ Len(table[s]) = 0 /\ toks[s] # <<>>
      /\ UNCHANGED <<refCount, hash, kvComputed, free, hashToBlock, toks, table>>
  BY DEF AllocateBegin
<1>2. RequiredFresh(s) <= Len(free)
  BY DEF AllocateBegin, CanAllocate
<1>3. RequiredFresh(s) = Cardinality(StillTaken(s)) + PartialTail(s)
  <2>1. StillTaken(s) = {i \in 1 .. FullBlocks(s) :
                           LET h == BlockHash(toks[s], i)
                           IN  Mapped(h) => refCount[hashToBlock[h]] = 0}
    BY <1>1 DEF StillTaken
  <2> QED BY <2>1 DEF RequiredFresh, PartialTail
<1>4. AllocRoom(s)
  BY <1>0, <1>1, <1>2, <1>3 DEF AllocRoom
<1>a. UNCHANGED <<FullBlocks(s), PartialTail(s), NumBlocksNeeded(Len(toks[s]))>>
  BY <1>1 DEF FullBlocks, PartialTail, NumBlocksNeeded
<1>b. StillTaken(s)' = StillTaken(s)
  BY <1>1, <1>a DEF StillTaken, Mapped, BlockHash
<1>5. AllocRoom(s)'
  BY <1>1, <1>4, <1>a, <1>b DEF AllocRoom
<1>6. AllocCached(s, 0, TRUE)'
  <2>1. 0 = 0 * BlockSize /\ 0 <= FullBlocks(s)' /\ 0 \in 0 .. Len(table'[s])
    <3>1. Len(table'[s]) = 0 /\ FullBlocks(s)' = FullBlocks(s) /\ BlockSize \in Nat
      BY <1>1, <1>a, PoolAssumption
    <3> QED BY <1>0, <3>1
  <2>2. 0 = Len(table'[s]) /\ \A i \in 1 .. 0 : kvComputed'[table'[s][i]]
    BY <1>1
  <2> QED BY <2>1, <2>2 DEF AllocCached
<1> QED BY <1>1, <1>5, <1>6 DEF AllocInv

(* Every step of the pool keeps the loop's room, and what it counts as     *)
(* cached stays computed.                                                  *)
LEMMA AllocNext == PoolInv /\ AllocInv /\ [PoolNext]_poolVars => AllocInv'
<1> SUFFICES ASSUME PoolInv, AllocInv, [PoolNext]_poolVars PROVE AllocInv'
  OBVIOUS
<1>0. /\ op \in Op /\ PoolCore
      /\ kvComputed \in [Blocks -> BOOLEAN]
      /\ hashToBlock \in [DOMAIN hashToBlock -> Blocks]
  BY DEF PoolInv, PoolTypeOK, PoolCore, PoolDataOK
<1>a. op.kind = "alloc" =>
         /\ op \in [kind : {"alloc"}, seq : Seqs, cached : Nat, leading : BOOLEAN]
         /\ op.seq \in Seqs /\ op.cached \in Nat /\ op.leading \in BOOLEAN
  BY <1>0 DEF Op, Idle
<1>b. ASSUME op'.kind # "alloc" PROVE AllocInv'
  BY <1>b DEF AllocInv
<1>1. CASE AcquireShared
  <2>a. PICK s \in Seqs : s = op.seq
    BY <1>1, <1>a DEF AcquireShared
  <2> DEFINE n == Len(table[s])
             i == n + 1
             h == BlockHash(toks[s], i)
  <2>0. /\ op.kind = "alloc" /\ i <= FullBlocks(s) /\ Mapped(h)
        /\ Share(s, hashToBlock[h]) /\ UNCHANGED <<toks, kvComputed>>
    BY <1>1, <2>a DEF AcquireShared, Share
  <2> DEFINE b == hashToBlock[h]
             hit == op.leading /\ kvComputed[b]
  <2>1. op' = [op EXCEPT !.leading = hit,
                         !.cached = IF hit THEN op.cached + BlockSize ELSE op.cached]
    BY <1>1, <2>a DEF AcquireShared
  <2>2. /\ n \in Nat /\ FullBlocks(s) \in Nat
    BY <1>0, <2>0, AllocFacts
  <2>3. AllocRoom(s) /\ AllocCached(s, op.cached, op.leading)
    BY <2>0, <2>a DEF AllocInv
  <2>4. /\ AllocRoom(s)'
        /\ Len(table'[s]) = i /\ table'[s][i] = b
        /\ \A j \in 1 .. n : table'[s][j] = table[s][j]
    BY <1>0, <2>0, <2>3, ShareKeepsRoom
  <2>5. PICK k \in 0 .. n : /\ op.cached = k * BlockSize
                            /\ k <= FullBlocks(s)
                            /\ op.leading => k = n
                            /\ \A j \in 1 .. k : kvComputed[table[s][j]]
    BY <2>3 DEF AllocCached
  <2>6. op'.kind = "alloc" /\ op'.seq = s /\ op'.leading = hit
        /\ op'.cached = IF hit THEN op.cached + BlockSize ELSE op.cached
    BY <1>a, <2>0, <2>1, <2>a
  <2>7. FullBlocks(s)' = FullBlocks(s)
    BY <2>0 DEF FullBlocks
  <2> HIDE DEF b, h
  <2>8. CASE hit
    <3>1. k = n /\ op'.cached = i * BlockSize
      BY <2>2, <2>5, <2>6, <2>8, PoolAssumption, SMTT(30)
    <3>2. i \in 0 .. Len(table'[s]) /\ i <= FullBlocks(s)
      BY <2>0, <2>2, <2>4
    <3>3. ASSUME NEW j \in 1 .. i PROVE kvComputed'[table'[s][j]]
      <4>1. CASE j = i
        BY <2>0, <2>4, <2>8, <4>1
      <4>2. CASE j \in 1 .. n
        BY <2>0, <2>4, <2>5, <3>1, <4>2
      <4> QED BY <2>2, <4>1, <4>2
    <3> QED BY <2>4, <2>6, <2>7, <3>1, <3>2, <3>3 DEF AllocInv, AllocCached
  <2>9. CASE ~hit
    <3>1. op'.cached = k * BlockSize /\ ~op'.leading
      BY <2>5, <2>6, <2>9
    <3>2. k \in 0 .. Len(table'[s]) /\ k <= FullBlocks(s)
      BY <2>2, <2>4, <2>5
    <3>3. ASSUME NEW j \in 1 .. k PROVE kvComputed'[table'[s][j]]
      BY <2>0, <2>2, <2>4, <2>5
    <3> QED BY <2>4, <2>6, <2>7, <3>1, <3>2, <3>3 DEF AllocInv, AllocCached
  <2> QED BY <2>8, <2>9
<1>2. CASE AcquireFresh
  <2>a. PICK s \in Seqs : s = op.seq
    BY <1>2, <1>a DEF AcquireFresh
  <2> DEFINE n == Len(table[s])
             i == n + 1
             h == BlockHash(toks[s], i)
             g == IF i <= FullBlocks(s) THEN h ELSE NoHash
  <2>0. /\ op.kind = "alloc"
        /\ i <= NumBlocksNeeded(Len(toks[s]))
        /\ i <= FullBlocks(s) => ~Mapped(h)
        /\ PopFree(s, g) /\ UNCHANGED toks
        /\ op' = [op EXCEPT !.leading = FALSE]
    BY <1>2, <2>a DEF AcquireFresh
  <2>1. IF i <= FullBlocks(s) THEN g = h /\ ~Mapped(g) ELSE g = NoHash
    BY <2>0
  <2>2. n \in Nat /\ FullBlocks(s) \in Nat
    BY <1>0, <2>0, AllocFacts
  <2>3. AllocRoom(s) /\ AllocCached(s, op.cached, op.leading)
    BY <2>0, <2>a DEF AllocInv
  <2>4. /\ AllocRoom(s)'
        /\ Len(table'[s]) = i
        /\ \A j \in 1 .. n : /\ table'[s][j] = table[s][j]
                             /\ kvComputed'[table[s][j]] = kvComputed[table[s][j]]
    <3> HIDE DEF g
    <3> QED BY <1>0, <2>0, <2>1, <2>3, PopKeepsRoom
  <2>5. PICK k \in 0 .. n : /\ op.cached = k * BlockSize
                            /\ k <= FullBlocks(s)
                            /\ \A j \in 1 .. k : kvComputed[table[s][j]]
    BY <2>3 DEF AllocCached
  <2>6. op'.kind = "alloc" /\ op'.seq = s /\ ~op'.leading /\ op'.cached = op.cached
    BY <1>a, <2>0, <2>a
  <2>7. FullBlocks(s)' = FullBlocks(s)
    BY <2>0 DEF FullBlocks
  <2>8. k \in 0 .. Len(table'[s]) /\ k <= FullBlocks(s)
    BY <2>2, <2>4, <2>5
  <2>9. ASSUME NEW j \in 1 .. k PROVE kvComputed'[table'[s][j]]
    <3>1. j \in 1 .. n /\ kvComputed[table[s][j]]
      BY <2>2, <2>5
    <3> QED BY <2>4, <3>1
  <2> QED BY <2>4, <2>5, <2>6, <2>7, <2>8, <2>9 DEF AllocInv, AllocCached
<1>3. CASE AllocateEnd \/ ExtendFail
  BY <1>3, <1>b DEF AllocateEnd, ExtendFail, Idle
<1>4. CASE ExtendNext
  BY <1>4, <1>b DEF ExtendNext, Idle
<1>5. CASE ReleaseLast
  BY <1>5, <1>b DEF ReleaseLast, Idle
<1>6. ASSUME NEW u \in Seqs, PoolCall(u) PROVE AllocInv'
  <2>1. CASE AllocateBegin(u)
    BY <1>0, <2>1, AllocStarts
  <2>2. CASE ~AllocateBegin(u)
    <3>1. op'.kind # "alloc"
      BY <1>6, <2>2 DEF PoolCall, Arrive, Forget, ExtendFor, DeallocateBegin,
                        AcceptToken, AppendToken, ForkTail, Idle
    <3> QED BY <1>b, <3>1
  <2> QED BY <2>1, <2>2
<1>7. CASE UNCHANGED poolVars
  BY <1>7 DEF poolVars, AllocInv, AllocRoom, AllocCached, StillTaken, PartialTail,
              FullBlocks, Mapped
<1> QED BY <1>1, <1>2, <1>3, <1>4, <1>5, <1>6, <1>7 DEF PoolNext, PoolLoop

(* The allocation loop's invariant holds in every state of the pool.       *)
THEOREM AllocInvariant == PoolSpec => []AllocInv
<1>1. PoolInit => AllocInv
  BY DEF PoolInit, AllocInv, Idle
<1> QED BY <1>1, PoolInvariant, AllocNext, PTL DEF PoolSpec

(* block_manager.rs allocate_with_prefix: can_allocate counts enough, so   *)
(* the loop never meets an empty free list, whatever it evicts on the way. *)
THEOREM AllocationCorrect == PoolSpec => []AllocationNeverFailsMidway
<1>1. PoolInv /\ AllocInv => AllocationNeverFailsMidway
  <2> SUFFICES ASSUME PoolInv, AllocInv, op.kind = "alloc", free = <<>>, ~Allocated,
                      ~(/\ Len(table[op.seq]) < FullBlocks(op.seq)
                        /\ Mapped(BlockHash(toks[op.seq], Len(table[op.seq]) + 1)))
               PROVE  FALSE
    BY DEF AllocationNeverFailsMidway
  <2> DEFINE s == op.seq
             i == Len(table[s]) + 1
  <2>1. PoolCore /\ s \in Seqs /\ AllocRoom(s)
    BY DEF PoolInv, PoolTypeOK, AllocInv, Op, Idle
  <2>2. /\ Len(table[s]) \in Nat /\ FullBlocks(s) \in Nat
        /\ PartialTail(s) \in {0, 1}
        /\ NumBlocksNeeded(Len(toks[s])) = FullBlocks(s) + PartialTail(s)
        /\ IsFiniteSet(StillTaken(s)) /\ Cardinality(StillTaken(s)) \in Nat
        /\ Len(free) = 0
    BY <2>1, AllocFacts
  <2>3. Len(table[s]) <= FullBlocks(s)
    BY <2>1, <2>2 DEF AllocRoom, Allocated
  <2>4. Cardinality(StillTaken(s)) = 0 /\ PartialTail(s) = 0
    BY <2>1, <2>2, <2>3 DEF AllocRoom
  <2>5. StillTaken(s) = {}
    BY <2>2, <2>4, FS_EmptySet
  <2>6. i <= FullBlocks(s)
    BY <2>2, <2>3, <2>4 DEF Allocated
  <2>7. i \in StillTaken(s)
    BY <2>2, <2>6 DEF StillTaken
  <2> QED BY <2>5, <2>7
<1> QED BY <1>1, PoolInvariant, AllocInvariant, PTL

(* What an allocation that has its table reports as cached.                *)
LEMMA CachedFacts ==
    ASSUME PoolInv, AllocInv, Allocated
    PROVE  /\ CachedTokens \in 0 .. Len(toks[op.seq]) - 1
           /\ CachedTokens <= op.cached
           /\ \A j \in 1 .. CachedTokens \div BlockSize :
                 kvComputed[table[op.seq][j]]
<1> DEFINE s == op.seq
           len == Len(toks[s])
<1> USE PoolAssumption
<1>1. /\ PoolCore /\ s \in Seqs /\ AllocCached(s, op.cached, op.leading)
      /\ toks[s] # <<>>
  BY DEF PoolInv, PoolTypeOK, AllocInv, Op, Idle, Allocated, AllocRoom
<1>2. /\ Len(table[s]) \in Nat /\ FullBlocks(s) \in Nat /\ len \in Nat /\ len > 0
      /\ \A j \in Nat : j >= 1 /\ j <= FullBlocks(s) => j * BlockSize <= len
  BY <1>1, AllocFacts
<1>3. PICK k \in 0 .. Len(table[s]) : /\ op.cached = k * BlockSize
                                      /\ k <= FullBlocks(s)
                                      /\ \A j \in 1 .. k : kvComputed[table[s][j]]
  BY <1>1 DEF AllocCached
<1>4. k \in Nat /\ k * BlockSize \in Nat /\ k * BlockSize <= len
  BY <1>2, <1>3
<1>5. PICK m \in 0 .. k : CachedTokens = m * BlockSize /\ m * BlockSize < len
  <2>1. CASE k * BlockSize + 1 > len
    <3>1. k # 0
      BY <1>2, <1>4, <2>1
    <3>2. (k - 1) * BlockSize = k * BlockSize - BlockSize
      BY <1>4, SMTT(30)
    <3>3. CachedTokens = (k - 1) * BlockSize
      BY <1>3, <2>1, <3>2 DEF CachedTokens
    <3>4. (k - 1) * BlockSize < len /\ k - 1 \in 0 .. k
      BY <1>4, <3>1, <3>2
    <3> QED BY <3>3, <3>4
  <2>2. CASE ~(k * BlockSize + 1 > len)
    BY <1>2, <1>3, <1>4, <2>2 DEF CachedTokens
  <2> QED BY <2>1, <2>2
<1>6. m \in Nat /\ m * BlockSize \in Nat
  BY <1>4, <1>5
<1>7. CachedTokens \in 0 .. len - 1
  BY <1>2, <1>5, <1>6
<1>8. (m * BlockSize) \div BlockSize <= m
  <2>1. ASSUME NEW x \in Nat, x = m * BlockSize PROVE x \div BlockSize <= m
    <3>1. (m + 1) * BlockSize = m * BlockSize + BlockSize
      BY <1>6, SMTT(30)
    <3>2. ~((m + 1) * BlockSize <= x) /\ m + 1 \in Nat
      BY <1>6, <2>1, <3>1
    <3>3. ~(m + 1 <= x \div BlockSize)
      BY <3>2, FullBlocksBound
    <3>4. x \div BlockSize \in Nat
      BY SMTT(30)
    <3> QED BY <1>6, <3>3, <3>4
  <2> QED BY <1>6, <2>1
<1>9. ASSUME NEW j \in 1 .. CachedTokens \div BlockSize
      PROVE  kvComputed[table[s][j]]
  <2>1. (m * BlockSize) \div BlockSize \in Nat
    BY <1>6, SMTT(30)
  <2>2. j \in 1 .. k
    BY <1>4, <1>5, <1>8, <2>1
  <2> QED BY <1>3, <2>2
<1>10. CachedTokens <= op.cached
  BY <1>3, <1>4 DEF CachedTokens
<1> QED BY <1>7, <1>9, <1>10

(* block_manager.rs allocate_with_prefix: the tokens a prefill skips lie   *)
(* in blocks whose KV was computed, and at least one is left to compute.   *)
THEOREM CachedCorrect == PoolSpec => []CachedTokensAreComputed
<1>1. PoolInv /\ AllocInv => CachedTokensAreComputed
  BY CachedFacts DEF CachedTokensAreComputed
<1> QED BY <1>1, PoolInvariant, AllocInvariant, PTL
=============================================================================
