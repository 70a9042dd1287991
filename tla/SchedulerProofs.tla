--------------------------- MODULE SchedulerProofs ---------------------------
(***************************************************************************)
(* Proofs about the scheduler: what its chunk sizes are, that it uses the  *)
(* block pool legally, and that no sequence and no block is ever lost.     *)
(***************************************************************************)
EXTENDS Scheduler, BlockManagerProofs, TLAPS

\* The cuts of a prefill that leave neither part below the floor.
GoodCut(remaining, room, floor, k) ==
    k <= room /\ k >= floor /\ remaining - k >= floor

\* floored_take never takes more than there is or than the budget allows, and
\* takes something whenever there is something to take: a batch with room
\* left never skips a prefilling sequence, whatever NV_PREFILL_CHUNK_MIN is.
THEOREM TakeFitsBudget ==
    ASSUME NEW remaining \in Nat, NEW room \in Nat, NEW floor \in Nat
    PROVE  LET take == FlooredTake(remaining, room, floor)
           IN  /\ take \in 0 .. remaining
               /\ take <= room
               /\ remaining > 0 /\ room > 0 => take > 0
  BY DEF FlooredTake, Smaller

\* When the whole remainder does not fit, floored_take makes the largest cut
\* that leaves both this chunk and the rest at the floor or above, if there is
\* any: the precision switch below the floor is avoided whenever it can be.
THEOREM TakeIsLargestGoodCut ==
    ASSUME NEW remaining \in Nat, NEW room \in Nat, NEW floor \in Nat,
           floor > 1, remaining > room,
           NEW k \in Nat, GoodCut(remaining, room, floor, k)
    PROVE  LET take == FlooredTake(remaining, room, floor)
           IN  GoodCut(remaining, room, floor, take) /\ k <= take
  BY DEF FlooredTake, Smaller, GoodCut

-----------------------------------------------------------------------------
(* The inductive invariant: which queue a sequence is in, who holds blocks, *)
(* and that the steps which act on the head of the batch without looking it *)
(* up again (retiring, accepting) find a running sequence there.            *)
PlaceTypes ==
    /\ waiting \in Seq(Seqs) /\ running \in Seq(Seqs) /\ finished \in Seq(Seqs)
    /\ state \in [Seqs -> {"none", "Waiting", "Prefill", "Decode",
                           "Finished", "Aborted"}]

PlaceInv ==
    /\ PlaceTypes
    /\ OnePlace
    /\ OnlyRunningHoldBlocks
    /\ InTransit \cap Range(waiting) = {}
    /\ op.kind = "extend" => op.seq \in Range(running)

HeadInv ==
    /\ drafts \in [Seqs -> Seq(Token)]
    /\ phase \in {"retire", "accept"} => Head(batch).seq \in Range(running)
    /\ phase = "accept" => pending \in Seq(Token) /\ pending # <<>>

QueueInv == PoolInv /\ PlaceInv /\ HeadInv

(* Pushing a new element at the front.                                     *)
LEMMA PushFrontInjective ==
    ASSUME NEW S, NEW q \in Seq(S), NEW e \in S,
           IsInjective(q), e \notin Range(q)
    PROVE  /\ <<e>> \o q \in Seq(S)
           /\ IsInjective(<<e>> \o q)
           /\ Range(<<e>> \o q) = Range(q) \cup {e}
<1> DEFINE r == <<e>> \o q
<1>1. /\ r \in Seq(S) /\ Len(q) \in Nat
      /\ DOMAIN q = 1 .. Len(q) /\ DOMAIN r = 1 .. Len(q) + 1
      /\ r[1] = e
      /\ \A i \in 2 .. Len(q) + 1 : r[i] = q[i - 1]
  OBVIOUS
<1> HIDE DEF r
<1>2. IsInjective(r)
  <2> SUFFICES ASSUME NEW i \in 1 .. Len(q) + 1, NEW j \in 1 .. Len(q) + 1,
                      r[i] = r[j]
               PROVE  i = j
    BY <1>1 DEF IsInjective
  <2>1. \A m \in 1 .. Len(q) : q[m] # e
    BY <1>1 DEF Range
  <2>2. \A m, n \in 1 .. Len(q) : q[m] = q[n] => m = n
    BY <1>1 DEF IsInjective
  <2>3. CASE i = 1 \/ j = 1
    BY <1>1, <2>1, <2>3
  <2>4. CASE i # 1 /\ j # 1
    <3>1. /\ i - 1 \in 1 .. Len(q) /\ j - 1 \in 1 .. Len(q)
          /\ q[i - 1] = q[j - 1]
      BY <1>1, <2>4
    <3> QED BY <2>2, <3>1
  <2> QED BY <2>3, <2>4
<1>3. Range(r) \subseteq Range(q) \cup {e}
  <2> SUFFICES ASSUME NEW i \in 1 .. Len(q) + 1 PROVE r[i] \in Range(q) \cup {e}
    BY <1>1 DEF Range
  <2>1. CASE i = 1
    BY <1>1, <2>1
  <2>2. CASE i \in 2 .. Len(q) + 1
    BY <1>1, <2>2 DEF Range
  <2> QED BY <1>1, <2>1, <2>2
<1>4. ASSUME NEW j \in 1 .. Len(q) PROVE q[j] \in Range(r)
  <2>1. j + 1 \in DOMAIN r /\ r[j + 1] = q[j]
    BY <1>1
  <2> QED BY <2>1 DEF Range
<1>5. e \in Range(r)
  BY <1>1 DEF Range
<1>6. Range(q) \subseteq Range(r)
  BY <1>1, <1>4 DEF Range
<1>7. Range(r) = Range(q) \cup {e}
  BY <1>3, <1>5, <1>6
<1> QED BY <1>1, <1>2, <1>7 DEF r

(* The elements of the queues are sequences, each in one of them.          *)
LEMMA PlaceFacts ==
    ASSUME PlaceInv
    PROVE  /\ Range(running) \subseteq Seqs /\ Range(waiting) \subseteq Seqs
           /\ Range(running) \cap Range(waiting) = {}
           /\ Range(running) \cap Range(finished) = {}
           /\ Range(waiting) \cap Range(finished) = {}
           /\ Range(finished) \subseteq Seqs
<1>1. \A q \in Seq(Seqs) : Range(q) \subseteq Seqs
  BY DEF Range
<1>2. /\ Range(running) \subseteq Seqs /\ Range(waiting) \subseteq Seqs
      /\ Range(finished) \subseteq Seqs
  BY <1>1 DEF PlaceInv, PlaceTypes
<1> QED BY <1>2 DEF PlaceInv, OnePlace, IsFinished

(* A sequence that leaves the running ones and starts to give its blocks   *)
(* back: everybody else stays where it is.                                 *)
LEMMA LeavesRunning ==
    ASSUME PoolInv, PlaceInv, NEW s \in Range(running),
           running' = Without(running, s), DeallocateBegin(s)
    PROVE  /\ s \in Seqs /\ op = Idle /\ table' = table
           /\ running' \in Seq(Seqs) /\ IsInjective(running')
           /\ Range(running') = Range(running) \ {s}
           /\ InTransit = {} /\ InTransit' = {}
           /\ op'.kind # "extend"
           /\ OnlyRunningHoldBlocks'
<1>1. s \in Seqs
  BY PlaceFacts
<1>2. op = Idle /\ table' = table
  BY DEF DeallocateBegin
<1>3. /\ running' \in Seq(Seqs) /\ IsInjective(running')
      /\ Range(running') = Range(running) \ {s}
  BY WithoutInjective DEF PlaceInv, PlaceTypes, OnePlace
<1>4. CASE table[s] = <<>>
  <2>1. op' = Idle
    BY <1>4 DEF DeallocateBegin
  <2>2. InTransit = {} /\ InTransit' = {} /\ op'.kind # "extend"
    BY <1>2, <2>1 DEF InTransit, Idle
  <2>3. OnlyRunningHoldBlocks'
    BY <1>2, <1>3, <1>4, <2>1, <2>2
    DEF PlaceInv, OnlyRunningHoldBlocks, Idle
  <2> QED BY <1>1, <1>2, <1>3, <2>2, <2>3
<1>5. CASE table[s] # <<>>
  <2>1. op' = [kind |-> "release", seq |-> s]
    BY <1>5 DEF DeallocateBegin
  <2>2. InTransit = {} /\ InTransit' = {} /\ op'.kind # "extend"
    BY <1>2, <2>1 DEF InTransit, Idle
  <2>3. OnlyRunningHoldBlocks'
    BY <1>2, <1>3, <1>5, <2>1, <2>2
    DEF PlaceInv, OnlyRunningHoldBlocks, Idle
  <2> QED BY <1>1, <1>2, <1>3, <2>2, <2>3
<1> QED BY <1>4, <1>5

(* Aborting, retiring and overflowing: out of `running', into `finished'.  *)
LEMMA LeavesFinished ==
    ASSUME PoolInv, PlaceInv, NEW s \in Range(running),
           running' = Without(running, s), DeallocateBegin(s),
           NEW st \in {"Finished", "Aborted"}, NEW why,
           Close(s, st, why), UNCHANGED waiting
    PROVE  PlaceInv'
<1>1. /\ s \in Seqs /\ op = Idle /\ table' = table
      /\ running' \in Seq(Seqs) /\ IsInjective(running')
      /\ Range(running') = Range(running) \ {s}
      /\ InTransit = {} /\ InTransit' = {}
      /\ op'.kind # "extend"
      /\ OnlyRunningHoldBlocks'
  BY LeavesRunning
<1>2. /\ finished' \in Seq(Seqs) /\ IsInjective(finished')
      /\ Range(finished') = Range(finished) \cup {s}
  BY <1>1, PlaceFacts, AppendInjective2 DEF PlaceInv, PlaceTypes, OnePlace, Close
<1>3. /\ state' \in [Seqs -> {"none", "Waiting", "Prefill", "Decode",
                             "Finished", "Aborted"}]
      /\ state'[s] = st
      /\ \A u \in Seqs : u # s => state'[u] = state[u]
  BY <1>1 DEF PlaceInv, PlaceTypes, Close
<1>4. s \notin Range(waiting)
  BY PlaceFacts
<1>5. OnePlace'
  BY <1>1, <1>2, <1>3, <1>4 DEF PlaceInv, OnePlace, IsFinished
<1> QED BY <1>1, <1>2, <1>3, <1>5 DEF PlaceInv, PlaceTypes

(* Preemption and a refused reservation: back to the front of the queue.   *)
LEMMA LeavesWaiting ==
    ASSUME PoolInv, PlaceInv, NEW s \in Range(running),
           running' = Without(running, s), DeallocateBegin(s),
           waiting' = <<s>> \o waiting,
           state' = [state EXCEPT ![s] = "Waiting"], UNCHANGED finished
    PROVE  PlaceInv'
<1>1. /\ s \in Seqs /\ op = Idle /\ table' = table
      /\ running' \in Seq(Seqs) /\ IsInjective(running')
      /\ Range(running') = Range(running) \ {s}
      /\ InTransit = {} /\ InTransit' = {}
      /\ op'.kind # "extend"
      /\ OnlyRunningHoldBlocks'
  BY LeavesRunning
<1>2. /\ waiting' \in Seq(Seqs) /\ IsInjective(waiting')
      /\ Range(waiting') = Range(waiting) \cup {s}
  BY <1>1, PlaceFacts, PushFrontInjective DEF PlaceInv, PlaceTypes, OnePlace
<1>3. /\ state' \in [Seqs -> {"none", "Waiting", "Prefill", "Decode",
                             "Finished", "Aborted"}]
      /\ state'[s] = "Waiting"
      /\ \A u \in Seqs : u # s => state'[u] = state[u]
  BY <1>1 DEF PlaceInv, PlaceTypes
<1>4. s \notin Range(finished)
  BY PlaceFacts
<1>5. OnePlace'
  BY <1>1, <1>2, <1>3, <1>4 DEF PlaceInv, OnePlace, IsFinished
<1> QED BY <1>1, <1>2, <1>3, <1>5 DEF PlaceInv, PlaceTypes

(* A sequence that leaves the queue for `finished', holding nothing.       *)
LEMMA LeavesQueue ==
    ASSUME PlaceInv, op = Idle, NEW s \in Range(waiting), NEW why,
           waiting' \in Seq(Seqs), IsInjective(waiting'),
           Range(waiting') = Range(waiting) \ {s},
           Close(s, "Aborted", why), UNCHANGED <<running, op, table>>
    PROVE  PlaceInv'
<1>1. s \in Seqs /\ InTransit = {} /\ InTransit' = {} /\ op'.kind # "extend"
  BY PlaceFacts DEF InTransit, Idle
<1>2. /\ finished' \in Seq(Seqs) /\ IsInjective(finished')
      /\ Range(finished') = Range(finished) \cup {s}
  BY <1>1, PlaceFacts, AppendInjective2 DEF PlaceInv, PlaceTypes, OnePlace, Close
<1>3. /\ state' \in [Seqs -> {"none", "Waiting", "Prefill", "Decode",
                             "Finished", "Aborted"}]
      /\ state'[s] = "Aborted"
      /\ \A u \in Seqs : u # s => state'[u] = state[u]
  BY <1>1 DEF PlaceInv, PlaceTypes, Close
<1>4. s \notin Range(running)
  BY PlaceFacts
<1>5. OnePlace'
  BY <1>1, <1>2, <1>3, <1>4 DEF PlaceInv, OnePlace, IsFinished
<1>6. OnlyRunningHoldBlocks'
  BY <1>1 DEF PlaceInv, OnlyRunningHoldBlocks
<1> QED BY <1>1, <1>2, <1>3, <1>5, <1>6 DEF PlaceInv, PlaceTypes

(* Steps that move no sequence: nothing about the places changes, or only  *)
(* a running sequence's state from one running state to another.           *)
LEMMA NobodyMoves ==
    ASSUME PlaceInv, UNCHANGED <<state, waiting, running, finished, op, table>>
    PROVE  PlaceInv'
  BY DEF PlaceInv, PlaceTypes, OnePlace, OnlyRunningHoldBlocks, InTransit,
         IsFinished

(* A running sequence that goes from its prefill to decoding stays put.     *)
LEMMA RunsOn ==
    ASSUME PlaceInv, NEW s \in Range(running),
           state' = [state EXCEPT ![s] = "Decode"],
           UNCHANGED <<waiting, running, finished, op, table>>
    PROVE  PlaceInv'
<1>1. s \in Seqs
  BY PlaceFacts
<1>2. /\ state' \in [Seqs -> {"none", "Waiting", "Prefill", "Decode",
                             "Finished", "Aborted"}]
      /\ state'[s] = "Decode"
      /\ \A u \in Seqs : u # s => state'[u] = state[u]
  BY <1>1 DEF PlaceInv, PlaceTypes
<1>3. InTransit' = InTransit
  BY DEF InTransit
<1>4. s \notin InTransit /\ s \notin Range(waiting) /\ s \notin Range(finished)
  BY <1>1, PlaceFacts DEF PlaceInv, OnePlace
<1>5. OnePlace'
  BY <1>2, <1>3, <1>4 DEF PlaceInv, OnePlace, IsFinished
<1>6. OnlyRunningHoldBlocks'
  BY <1>3 DEF PlaceInv, OnlyRunningHoldBlocks
<1> QED BY <1>2, <1>3, <1>5, <1>6 DEF PlaceInv, PlaceTypes

(* An admission: the front of the queue leaves it, and joins the running   *)
(* ones when its table is complete.                                        *)
LEMMA AdmissionMoves ==
    ASSUME PoolInv, PlaceInv, AdmitBegin \/ AdmitEnd
    PROVE  PlaceInv'
<1>1. CASE AdmitBegin
  <2> DEFINE s == Head(waiting)
  <2>1. /\ s \in Range(waiting) /\ s \in Seqs
        /\ waiting' \in Seq(Seqs) /\ IsInjective(waiting')
        /\ Range(waiting') = Range(waiting) \ {s}
    BY <1>1, TailInjective DEF AdmitBegin, PlaceInv, PlaceTypes, OnePlace
  <2>2. /\ op = Idle /\ table' = table
        /\ op' = [kind |-> "alloc", seq |-> s, cached |-> 0, leading |-> TRUE]
    BY <1>1 DEF AdmitBegin, AllocateBegin
  <2>3. UNCHANGED <<state, running, finished>>
    BY <1>1 DEF AdmitBegin, seqVars
  <2>4. InTransit = {} /\ InTransit' = {s} /\ op'.kind # "extend"
    BY <2>2 DEF InTransit, Idle
  <2> HIDE DEF s
  <2>5. OnePlace'
    BY <2>1, <2>3, <2>4 DEF PlaceInv, OnePlace, IsFinished
  <2>6. OnlyRunningHoldBlocks'
    <3>1. op.kind # "release"
      BY <2>2 DEF Idle
    <3> QED BY <2>2, <2>3, <2>4, <3>1 DEF PlaceInv, OnlyRunningHoldBlocks
  <2> QED BY <2>1, <2>3, <2>4, <2>5, <2>6 DEF PlaceInv, PlaceTypes
<1>2. CASE AdmitEnd
  <2> DEFINE s == op.seq
  <2>1. op.kind = "alloc" /\ op' = Idle /\ table' = table /\ InTransit = {s}
    BY <1>2 DEF AdmitEnd, AllocateEnd, Allocated, InTransit
  <2>2. s \in Seqs
    BY <2>1 DEF PoolInv, PoolTypeOK, Op, Idle
  <2>3. /\ state' = [state EXCEPT ![s] = "Prefill"]
        /\ running' = Append(running, s)
        /\ UNCHANGED <<waiting, finished>>
    BY <1>2 DEF AdmitEnd
  <2>4. InTransit' = {} /\ op'.kind # "extend"
    BY <2>1 DEF InTransit, Idle
  <2> HIDE DEF s
  <2>5. s \notin Range(running) /\ s \notin Range(waiting) /\ s \notin Range(finished)
    BY <2>1, <2>2 DEF PlaceInv, OnePlace, IsFinished
  <2>6. /\ running' \in Seq(Seqs) /\ IsInjective(running')
        /\ Range(running') = Range(running) \cup {s}
    BY <2>2, <2>3, <2>5, AppendInjective2 DEF PlaceInv, PlaceTypes, OnePlace
  <2>7. /\ state' \in [Seqs -> {"none", "Waiting", "Prefill", "Decode",
                               "Finished", "Aborted"}]
        /\ state'[s] = "Prefill"
        /\ \A u \in Seqs : u # s => state'[u] = state[u]
    BY <2>2, <2>3 DEF PlaceInv, PlaceTypes
  <2>8. OnePlace'
    BY <2>1, <2>3, <2>4, <2>5, <2>6, <2>7 DEF PlaceInv, OnePlace, IsFinished
  <2>9. OnlyRunningHoldBlocks'
    BY <2>1, <2>6 DEF PlaceInv, OnlyRunningHoldBlocks
  <2> QED BY <2>3, <2>4, <2>6, <2>7, <2>8, <2>9 DEF PlaceInv, PlaceTypes
<1> QED BY <1>1, <1>2

(* A new sequence joins the end of the queue.                              *)
LEMMA ArrivalMoves ==
    ASSUME PoolInv, PlaceInv, NEW s \in Seqs, NEW p, NEW m, Enqueue(s, p, m)
    PROVE  PlaceInv'
<1>1. /\ op = Idle /\ op' = op /\ table' = table
      /\ state[s] = "none"
      /\ state' = [state EXCEPT ![s] = "Waiting"]
      /\ waiting' = Append(waiting, s)
      /\ UNCHANGED <<running, finished>>
  BY DEF Enqueue, Arrive
<1>2. s \notin Range(waiting) /\ s \notin Range(running) /\ s \notin Range(finished)
  BY <1>1 DEF PlaceInv, OnePlace, IsFinished
<1>3. InTransit = {} /\ InTransit' = {} /\ op'.kind # "extend"
  BY <1>1 DEF InTransit, Idle
<1>4. /\ waiting' \in Seq(Seqs) /\ IsInjective(waiting')
      /\ Range(waiting') = Range(waiting) \cup {s}
  BY <1>1, <1>2, AppendInjective2 DEF PlaceInv, PlaceTypes, OnePlace
<1>5. /\ state' \in [Seqs -> {"none", "Waiting", "Prefill", "Decode",
                             "Finished", "Aborted"}]
      /\ state'[s] = "Waiting"
      /\ \A u \in Seqs : u # s => state'[u] = state[u]
  BY <1>1 DEF PlaceInv, PlaceTypes
<1>6. OnePlace'
  BY <1>1, <1>2, <1>3, <1>4, <1>5 DEF PlaceInv, OnePlace, IsFinished
<1>7. OnlyRunningHoldBlocks'
  BY <1>1, <1>3 DEF PlaceInv, OnlyRunningHoldBlocks
<1> QED BY <1>1, <1>3, <1>4, <1>5, <1>6, <1>7 DEF PlaceInv, PlaceTypes

(* A running sequence, or the one being admitted, gets another block, or a *)
(* sequence under release loses one.                                       *)
LEMMA GrowingMoves ==
    ASSUME PoolInv, PlaceInv, NEW s \in Range(running) \cup InTransit, NEW h,
           PopFree(s, h) \/ Share(s, h),
           UNCHANGED <<state, waiting, running, finished>>,
           InTransit' = InTransit, op.kind # "release",
           op'.kind = "extend" => op'.seq \in Range(running)
    PROVE  PlaceInv'
<1>1. \A u \in Seqs : u # s => table'[u] = table[u]
  <2>1. table \in [Seqs -> Seq(Blocks)]
    BY DEF PoolInv, PoolTypeOK, PoolDataOK
  <2>2. \E b : table' = [table EXCEPT ![s] = Append(table[s], b)]
    BY DEF PopFree, Share
  <2> QED BY <2>1, <2>2
<1>2. OnePlace'
  BY DEF PlaceInv, OnePlace, IsFinished
<1>3. OnlyRunningHoldBlocks'
  BY <1>1 DEF PlaceInv, OnlyRunningHoldBlocks
<1> QED BY <1>2, <1>3 DEF PlaceInv, PlaceTypes

(* An iteration of a pool loop moves no sequence and feeds only the one     *)
(* being admitted or extended.                                             *)
LEMMA LoopMoves ==
    ASSUME PoolInv, PlaceInv, PoolStep
    PROVE  PlaceInv'
<1>0. UNCHANGED <<state, waiting, running, finished>>
  BY DEF PoolStep, schedVars, seqVars, queueVars
<1>1. CASE AcquireShared
  <2>1. op.kind = "alloc" /\ op'.kind = "alloc" /\ op'.seq = op.seq
    BY <1>1 DEF AcquireShared, PoolInv, PoolTypeOK, Op, Idle
  <2>2. Share(op.seq, hashToBlock[BlockHash(toks[op.seq], Len(table[op.seq]) + 1)])
    BY <1>1 DEF AcquireShared
  <2>3. InTransit = {op.seq} /\ InTransit' = InTransit
    BY <2>1 DEF InTransit
  <2> QED BY <1>0, <2>1, <2>2, <2>3, GrowingMoves
<1>2. CASE AcquireFresh
  <2>1. op.kind = "alloc" /\ op'.kind = "alloc" /\ op'.seq = op.seq
    BY <1>2 DEF AcquireFresh, PoolInv, PoolTypeOK, Op, Idle
  <2>2. PICK h : PopFree(op.seq, h)
    BY <1>2 DEF AcquireFresh
  <2>3. InTransit = {op.seq} /\ InTransit' = InTransit
    BY <2>1 DEF InTransit
  <2> QED BY <1>0, <2>1, <2>2, <2>3, GrowingMoves
<1>3. CASE ExtendNext
  <2>1. /\ op.kind = "extend" /\ op.seq \in Range(running)
        /\ PopFree(op.seq, NoHash) /\ (op' = Idle \/ op' = op)
    BY <1>3 DEF ExtendNext, PlaceInv
  <2>2. InTransit = {} /\ InTransit' = {}
    BY <2>1 DEF InTransit, Idle
  <2>3. op'.kind = "extend" => op'.seq \in Range(running)
    BY <2>1 DEF Idle
  <2> QED BY <1>0, <2>1, <2>2, <2>3, GrowingMoves
<1>4. CASE ReleaseLast
  <2> DEFINE s == op.seq
             n == Len(table[s])
  <2>1. /\ op.kind = "release" /\ s \in Seqs
        /\ table \in [Seqs -> Seq(Blocks)]
        /\ table[s] \in Seq(Blocks) /\ n \in Nat
    BY <1>4 DEF ReleaseLast, PoolInv, PoolTypeOK, PoolDataOK, Op, Idle
  <2>2. /\ \A u \in Seqs : u # s => table'[u] = table[u]
        /\ table'[s] = SubSeq(table[s], 1, n - 1)
        /\ op' = IF n = 1 THEN Idle ELSE op
    BY <1>4, <2>1 DEF ReleaseLast
  <2>3. InTransit = {} /\ InTransit' = {} /\ op'.kind # "extend"
    BY <2>1, <2>2 DEF InTransit, Idle
  <2>4. n = 1 => table'[s] = <<>>
    BY <2>1, <2>2
  <2>5. OnePlace'
    BY <1>0, <2>3 DEF PlaceInv, OnePlace, IsFinished
  <2>6. OnlyRunningHoldBlocks'
    <3> HIDE DEF n
    <3>1. CASE n = 1
      BY <1>0, <2>2, <2>3, <2>4, <3>1 DEF PlaceInv, OnlyRunningHoldBlocks
    <3>2. CASE n # 1
      BY <1>0, <2>1, <2>2, <2>3, <3>2 DEF PlaceInv, OnlyRunningHoldBlocks
    <3> QED BY <3>1, <3>2
  <2> QED BY <1>0, <2>3, <2>5, <2>6 DEF PlaceInv, PlaceTypes
<1> QED BY <1>1, <1>2, <1>3, <1>4 DEF PoolStep

(* extend_for on behalf of a running sequence is a call the pool allows.   *)
LEMMA ExtensionMoves ==
    ASSUME PoolInv, PlaceInv, NEW s \in Range(running), NEW goal \in Int,
           ExtendFor(s, goal), UNCHANGED schedVars
    PROVE  PlaceInv' /\ PoolNext
<1>0. UNCHANGED <<state, waiting, running, finished>>
  BY DEF schedVars, seqVars, queueVars
<1> DEFINE aim == IF goal <= NumBlocks THEN goal ELSE NumBlocks + 1
<1>1. /\ op = Idle /\ PopFree(s, NoHash) /\ Len(table[s]) < aim
      /\ op' = Idle \/ op' = [kind |-> "extend", seq |-> s, goal |-> aim]
  BY DEF ExtendFor
<1>2. /\ InTransit = {} /\ InTransit' = {} /\ op.kind # "release"
      /\ op'.kind = "extend" => op'.seq \in Range(running)
  BY <1>1 DEF InTransit, Idle
<1>3. PlaceInv'
  BY <1>0, <1>1, <1>2, GrowingMoves
<1>4. s \in Seqs
  BY PlaceFacts
<1>5. Len(table[s]) \in Nat
  BY <1>4 DEF PoolInv, PoolTypeOK, PoolDataOK
<1>6. aim \in 1 .. NumBlocks + 1 /\ ExtendFor(s, aim)
  BY <1>1, <1>5, PoolAssumption DEF ExtendFor
<1> QED BY <1>3, <1>4, <1>6 DEF PoolNext, PoolCall

(* The steps that touch neither the pool nor a queue.                      *)
QuietStep ==
    \/ \E s \in Seqs, d \in Drafts : SetDrafts(s, d)
    \/ StepMixed
    \/ ScheduleChunk
    \/ FinishBuild
    \/ ItemNotRunning
    \/ ApplyChunk
    \/ ExtendDone
    \/ StepDone
    \/ StepVerify
    \/ ReserveDone
    \/ FinishVerifyBatch
    \/ \E t \in Token : VerifyOutcome(t)

(* They change nothing about the places.                                   *)
LEMMA QuietMoves ==
    ASSUME PlaceInv, QuietStep
    PROVE  PlaceInv' /\ UNCHANGED poolVars
<1>1. UNCHANGED poolVars /\ UNCHANGED <<state, waiting, running, finished>>
  BY DEF QuietStep, SetDrafts, StepMixed, ScheduleChunk, FinishBuild,
         ItemNotRunning, ApplyChunk, ExtendDone, StepDone, StepVerify,
         ReserveDone, FinishVerifyBatch, VerifyOutcome, seqVars, queueVars
<1> QED BY <1>1, NobodyMoves DEF poolVars

(* The steps of the scheduler under any caller: requests may ask for any   *)
(* number of tokens.                                                       *)
AnyNext ==
    \/ \E s \in Seqs, p \in Prompts, m \in Nat : Enqueue(s, p, m)
    \/ \E s \in Seqs, d \in Drafts : SetDrafts(s, d)
    \/ \E s \in Seqs : Abort(s)
    \/ DrainFinished
    \/ StepNext
    \/ VerifyNext

(* The steps of the specification are among them.                          *)
LEMMA NextIsAny == [Next]_vars => [AnyNext]_vars
  BY SchedulerAssumption DEF Next, AnyNext

(* Every step keeps the places, and is a step of the pool or leaves it be. *)
LEMMA NextMoves ==
    ASSUME QueueInv, AnyNext
    PROVE  PlaceInv' /\ [PoolNext]_poolVars
<1>0. PoolInv /\ PlaceInv /\ HeadInv
  BY DEF QueueInv
<1>a. ASSUME NEW s \in Seqs, DeallocateBegin(s) PROVE PoolNext
  BY <1>a DEF PoolNext, PoolCall
<1>1. CASE QuietStep
  BY <1>0, <1>1, QuietMoves
<1>2. ASSUME NEW s \in Seqs, NEW p \in Prompts, NEW m \in Nat, Enqueue(s, p, m)
      PROVE  PlaceInv' /\ [PoolNext]_poolVars
  <2>1. PoolNext
    BY <1>2 DEF Enqueue, PoolNext, PoolCall
  <2> QED BY <1>0, <1>2, <2>1, ArrivalMoves
<1>3. ASSUME NEW s \in Seqs, Abort(s) PROVE PlaceInv' /\ [PoolNext]_poolVars
  <2>1. CASE AbortWaiting(s)
    <3>1. /\ op = Idle /\ s \in Range(waiting) /\ waiting' = Without(waiting, s)
          /\ Close(s, "Aborted", "Aborted") /\ UNCHANGED poolVars
          /\ UNCHANGED <<running, op, table>>
      BY <2>1 DEF AbortWaiting, poolVars
    <3>2. /\ waiting' \in Seq(Seqs) /\ IsInjective(waiting')
          /\ Range(waiting') = Range(waiting) \ {s}
      BY <1>0, <3>1, WithoutInjective DEF PlaceInv, PlaceTypes, OnePlace
    <3> QED BY <1>0, <3>1, <3>2, LeavesQueue
  <2>2. CASE AbortRunning(s)
    BY <1>0, <1>a, <2>2, LeavesFinished DEF AbortRunning
  <2> QED BY <1>3, <2>1, <2>2 DEF Abort
<1>4. CASE DrainFinished
  <2>1. /\ UNCHANGED poolVars /\ UNCHANGED <<state, waiting, running>>
        /\ finished' = <<>>
    BY <1>4 DEF DrainFinished, seqVars
  <2>2. finished' \in Seq(Seqs) /\ IsInjective(finished') /\ Range(finished') = {}
    BY <2>1 DEF IsInjective, Range
  <2>3. UNCHANGED <<op, table>> /\ InTransit' = InTransit
    BY <2>1 DEF InTransit, poolVars
  <2>4. OnePlace' /\ OnlyRunningHoldBlocks'
    BY <1>0, <2>1, <2>2, <2>3 DEF PlaceInv, OnePlace, OnlyRunningHoldBlocks
  <2> QED BY <1>0, <2>1, <2>2, <2>3, <2>4 DEF PlaceInv, PlaceTypes
<1>5. CASE PoolStep
  <2>1. PoolNext
    BY <1>5 DEF PoolStep, PoolNext, PoolLoop
  <2> QED BY <1>0, <1>5, <2>1, LoopMoves
<1>6. CASE AdmitEmpty
  <2>1. /\ op = Idle /\ waiting # <<>> /\ waiting' = Tail(waiting)
        /\ Close(Head(waiting), "Aborted", "Aborted") /\ UNCHANGED poolVars
        /\ UNCHANGED <<running, op, table>>
    BY <1>6 DEF AdmitEmpty, poolVars
  <2>2. /\ Head(waiting) \in Range(waiting)
        /\ waiting' \in Seq(Seqs) /\ IsInjective(waiting')
        /\ Range(waiting') = Range(waiting) \ {Head(waiting)}
    BY <1>0, <2>1, TailInjective DEF PlaceInv, PlaceTypes, OnePlace
  <2> QED BY <1>0, <2>1, <2>2, LeavesQueue
<1>7. CASE AdmitBegin
  <2>1. Head(waiting) \in Seqs
    BY <1>0, <1>7 DEF AdmitBegin, PlaceInv, PlaceTypes
  <2>2. PoolNext
    BY <1>7, <2>1 DEF AdmitBegin, PoolNext, PoolCall
  <2> QED BY <1>0, <1>7, <2>2, AdmissionMoves
<1>8. CASE AdmitEnd
  <2>1. PoolNext
    BY <1>8 DEF AdmitEnd, PoolNext, PoolLoop
  <2> QED BY <1>0, <1>8, <2>1, AdmissionMoves
<1>9. ASSUME NEW t \in Token, ApplyToken(t) PROVE PlaceInv' /\ [PoolNext]_poolVars
  <2> DEFINE s == Head(batch).seq
  <2>1. /\ s \in Range(running) /\ AppendToken(s, t, PrefixCacheReuse)
        /\ state' = [state EXCEPT ![s] = "Decode"]
        /\ UNCHANGED <<waiting, running, finished>>
    BY <1>9 DEF ApplyToken, queueVars
  <2>2. s \in Seqs
    BY <1>0, <2>1, PlaceFacts
  <2>3. UNCHANGED <<op, table>>
    BY <2>1 DEF AppendToken
  <2> HIDE DEF s
  <2>4. PlaceInv'
    BY <1>0, <2>1, <2>3, RunsOn
  <2>5. PoolNext
    BY <2>1, <2>2, SchedulerAssumption DEF PoolNext, PoolCall
  <2> QED BY <2>4, <2>5
<1>10. CASE Retire
  <2> DEFINE s == Head(batch).seq
  <2>1. /\ phase = "retire" /\ DeallocateBegin(s) /\ running' = Without(running, s)
        /\ Close(s, "Finished", StopReason(s, toks[s])) /\ UNCHANGED waiting
    BY <1>10 DEF Retire
  <2>2. s \in Range(running)
    BY <1>0, <2>1 DEF HeadInv
  <2>3. s \in Seqs
    BY <1>0, <2>2, PlaceFacts
  <2> HIDE DEF s
  <2> QED BY <1>0, <1>a, <2>1, <2>2, <2>3, LeavesFinished
<1>11. CASE ExtendGrow
  <2>1. /\ Head(todo) \in Range(running) /\ UNCHANGED schedVars
        /\ ExtendFor(Head(todo), Needed(Head(todo)))
    BY <1>11 DEF ExtendGrow
  <2>2. Needed(Head(todo)) \in Int
    <3>1. Len(toks[Head(todo)]) \in Nat
      BY <1>0, <2>1, PlaceFacts DEF PoolInv, PoolTypeOK, PoolDataOK
    <3> QED BY <3>1, PoolAssumption DEF Needed, NumBlocksNeeded
  <2> QED BY <1>0, <2>1, <2>2, ExtensionMoves
<1>12. CASE ExtendOverflow
  <2>1. /\ Head(todo) \in Range(running) /\ DeallocateBegin(Head(todo))
        /\ running' = Without(running, Head(todo))
        /\ Close(Head(todo), "Aborted", "Aborted") /\ UNCHANGED waiting
    BY <1>12 DEF ExtendOverflow, OutOfBlocks
  <2>2. Head(todo) \in Seqs
    BY <1>0, <2>1, PlaceFacts
  <2> QED BY <1>0, <1>a, <2>1, <2>2, LeavesFinished
<1>13. CASE PreemptYoungest
  <2> DEFINE v == LastOf(running)
  <2>1. /\ Range(running) # {} /\ DeallocateBegin(v)
        /\ running' = Without(running, v) /\ waiting' = <<v>> \o waiting
        /\ state' = [state EXCEPT ![v] = "Waiting"] /\ UNCHANGED finished
    BY <1>13 DEF PreemptYoungest, OutOfBlocks, Preempt
  <2>2. v \in Range(running)
    <3>1. running \in Seq(Seqs)
      BY <1>0 DEF PlaceInv, PlaceTypes
    <3>2. Len(running) \in DOMAIN running
      BY <2>1, <3>1 DEF Range
    <3> QED BY <3>2 DEF LastOf, Range
  <2>3. v \in Seqs
    BY <1>0, <2>2, PlaceFacts
  <2> HIDE DEF v
  <2> QED BY <1>0, <1>a, <2>1, <2>2, <2>3, LeavesWaiting
<1>14. CASE ReserveGrow
  <2>1. /\ Head(todo) \in Range(running) /\ UNCHANGED schedVars
        /\ ExtendFor(Head(todo), Slots(Head(todo)))
    BY <1>14 DEF ReserveGrow
  <2>2. Slots(Head(todo)) \in Int
    <3>1. Len(toks[Head(todo)]) \in Nat /\ Len(drafts[Head(todo)]) \in Nat
      BY <1>0, <2>1, PlaceFacts DEF PoolInv, PoolTypeOK, PoolDataOK, HeadInv
    <3>2. \A n \in Nat : NumBlocksNeeded(n) \in Int
      BY PoolAssumption DEF NumBlocksNeeded
    <3> DEFINE a == Len(toks[Head(todo)])
               b == Len(drafts[Head(todo)])
    <3>3. Slots(Head(todo)) = NumBlocksNeeded(a + 1 + b)
      BY DEF Slots
    <3> HIDE DEF a, b
    <3>4. a \in Nat /\ b \in Nat
      BY <3>1 DEF a, b
    <3>5. a + 1 + b \in Nat
      BY <3>4
    <3> QED BY <3>2, <3>3, <3>5
  <2> QED BY <1>0, <2>1, <2>2, ExtensionMoves
<1>15. CASE ReserveRefused
  <2>1. /\ Head(todo) \in Range(running) /\ DeallocateBegin(Head(todo))
        /\ running' = Without(running, Head(todo))
        /\ waiting' = <<Head(todo)>> \o waiting
        /\ state' = [state EXCEPT ![Head(todo)] = "Waiting"]
        /\ UNCHANGED finished
    BY <1>15 DEF ReserveRefused
  <2>2. Head(todo) \in Seqs
    BY <1>0, <2>1, PlaceFacts
  <2> QED BY <1>0, <1>a, <2>1, <2>2, LeavesWaiting
<1>16. CASE Accept
  <2>1. /\ phase = "accept" /\ AcceptToken(Head(batch).seq, Head(pending))
        /\ UNCHANGED <<state, waiting, running, finished>>
    BY <1>16 DEF Accept, seqVars, queueVars
  <2>2. Head(batch).seq \in Seqs /\ Head(pending) \in Token
    BY <1>0, <2>1, PlaceFacts DEF HeadInv
  <2>3. PlaceInv'
    BY <1>0, <2>1, NobodyMoves DEF AcceptToken
  <2>4. PoolNext
    BY <2>1, <2>2 DEF PoolNext, PoolCall
  <2> QED BY <2>3, <2>4
<1> QED BY <1>1, <1>2, <1>3, <1>4, <1>5, <1>6, <1>7, <1>8, <1>9, <1>10, <1>11,
           <1>12, <1>13, <1>14, <1>15, <1>16
        DEF AnyNext, StepNext, VerifyNext, QuietStep

(* The head of the batch is running while it is retired or extended, and   *)
(* there is a token to accept.                                             *)
LEMMA NextHead ==
    ASSUME QueueInv, AnyNext
    PROVE  HeadInv'
<1>0. PoolInv /\ PlaceInv /\ HeadInv
  BY DEF QueueInv
<1>1. drafts' \in [Seqs -> Seq(Token)]
  <2>1. CASE UNCHANGED drafts
    BY <1>0, <2>1 DEF HeadInv
  <2>2. ASSUME NEW s \in Seqs, NEW d \in Seq(Token),
               drafts' = [drafts EXCEPT ![s] = d]
        PROVE  drafts' \in [Seqs -> Seq(Token)]
    BY <1>0, <2>2 DEF HeadInv
  <2>3. ASSUME NEW s, ClearDrafts(s) PROVE drafts' \in [Seqs -> Seq(Token)]
    <3>1. drafts \in [Seqs -> Seq(Token)] /\ <<>> \in Seq(Token)
      BY <1>0 DEF HeadInv
    <3>2. drafts' = [drafts EXCEPT ![s] = <<>>]
      BY <2>3 DEF ClearDrafts
    <3> QED BY <3>1, <3>2
  <2>4. ASSUME NEW s \in Seqs, NEW d \in Drafts, SetDrafts(s, d)
        PROVE  drafts' \in [Seqs -> Seq(Token)]
    BY <2>2, <2>4, SchedulerAssumption DEF SetDrafts
  <2>5. (\E s : ClearDrafts(s)) \/ UNCHANGED drafts
        \/ \E s \in Seqs, d \in Drafts : SetDrafts(s, d)
    BY DEF AnyNext, StepNext, VerifyNext, Enqueue, Abort, AbortWaiting,
           AbortRunning, DrainFinished, PoolStep, StepMixed, ScheduleChunk,
           AdmitEmpty, AdmitBegin, AdmitEnd, FinishBuild, ItemNotRunning,
           ApplyChunk, ApplyToken, Retire, ExtendDone, ExtendGrow,
           ExtendOverflow, PreemptYoungest, Preempt, StepDone, StepVerify,
           ReserveDone, ReserveGrow, ReserveRefused, FinishVerifyBatch,
           VerifyOutcome, Accept, schedVars, seqVars
  <2> QED BY <2>1, <2>3, <2>4, <2>5
<1>2. CASE phase' \notin {"retire", "accept"}
  BY <1>1, <1>2 DEF HeadInv
<1>3. CASE phase' \in {"retire", "accept"} /\ UNCHANGED <<running, phase, batch, pending>>
  BY <1>0, <1>1, <1>3 DEF HeadInv
<1>4. ASSUME NEW t \in Token, ApplyToken(t), phase' = "retire" PROVE HeadInv'
  <2>1. Head(batch).seq \in Range(running) /\ batch' = batch /\ running' = running
    BY <1>4 DEF ApplyToken, queueVars
  <2> QED BY <1>1, <1>4, <2>1 DEF HeadInv
<1>5. ASSUME NEW t \in Token, VerifyOutcome(t) PROVE HeadInv'
  <2> DEFINE s == Head(batch).seq
  <2>1. /\ s \in Range(running) /\ UNCHANGED <<batch, running>>
        /\ phase' = "accept"
        /\ \E k \in 0 .. Len(drafts[s]) : pending' = Append(SubSeq(drafts[s], 1, k), t)
    BY <1>5 DEF VerifyOutcome
  <2>2. drafts[s] \in Seq(Token)
    BY <1>0, <2>1, PlaceFacts DEF HeadInv
  <2>3. \A q \in Seq(Token) : \A k \in 0 .. Len(q) :
           /\ SubSeq(q, 1, k) \in Seq(Token)
           /\ Append(SubSeq(q, 1, k), t) \in Seq(Token)
           /\ Append(SubSeq(q, 1, k), t) # <<>>
    OBVIOUS
  <2>4. pending' \in Seq(Token) /\ pending' # <<>>
    BY <2>1, <2>2, <2>3
  <2> QED BY <1>1, <2>1, <2>4 DEF HeadInv
<1>6. ASSUME Accept, phase' \in {"retire", "accept"} PROVE HeadInv'
  <2>1. /\ phase = "accept" /\ UNCHANGED running /\ pending' = Tail(pending)
        /\ phase' = "accept" => Len(pending) > 1
        /\ batch' = batch
    BY <1>6 DEF Accept, queueVars
  <2>2. pending \in Seq(Token) /\ Head(batch).seq \in Range(running)
    BY <1>0, <2>1 DEF HeadInv
  <2>3. \A q \in Seq(Token) : Len(q) > 1 => Tail(q) \in Seq(Token) /\ Len(Tail(q)) > 0
    OBVIOUS
  <2>4. phase' = "accept" => pending' \in Seq(Token) /\ pending' # <<>>
    BY <2>1, <2>2, <2>3
  <2> QED BY <1>1, <2>1, <2>2, <2>4 DEF HeadInv
<1>7. \/ phase' \notin {"retire", "accept"}
      \/ UNCHANGED <<running, phase, batch, pending>>
      \/ \E t \in Token : ApplyToken(t) /\ phase' = "retire"
      \/ \E t \in Token : VerifyOutcome(t)
      \/ Accept
  BY DEF AnyNext, StepNext, VerifyNext, Enqueue, SetDrafts, Abort, AbortWaiting,
         AbortRunning, DrainFinished, PoolStep, StepMixed, ScheduleChunk,
         AdmitEmpty, AdmitBegin, AdmitEnd, FinishBuild, ItemNotRunning,
         Applying, ApplyChunk, ApplyToken, Retire, ExtendDone, Extending,
         OutOfBlocks, ExtendGrow, ExtendOverflow, PreemptYoungest, Preempt,
         StepDone, StepVerify, Reserving, ReserveDone, ReserveGrow,
         ReserveRefused, FinishVerifyBatch, schedVars, stepVars, queueVars
<1> QED BY <1>2, <1>3, <1>4, <1>5, <1>6, <1>7

(* Nothing is anywhere at the start.                                       *)
LEMMA QueueInit == Init => QueueInv
<1> SUFFICES ASSUME Init PROVE QueueInv
  OBVIOUS
<1>1. PoolInv
  BY PoolInitInv DEF Init
<1>2. /\ op = Idle /\ table = [s \in Seqs |-> <<>>]
      /\ state = [s \in Seqs |-> "none"]
      /\ drafts = [s \in Seqs |-> <<>>]
      /\ waiting = <<>> /\ running = <<>> /\ finished = <<>> /\ phase = "idle"
  BY DEF Init, PoolInit, SchedInit
<1>3. /\ <<>> \in Seq(Seqs) /\ <<>> \in Seq(Token)
      /\ IsInjective(<<>>) /\ Range(<<>>) = {}
  BY DEF IsInjective, Range
<1>4. InTransit = {} /\ op.kind # "extend"
  BY <1>2 DEF InTransit, Idle
<1>5. OnePlace
  BY <1>2, <1>3, <1>4 DEF OnePlace
<1>6. PlaceInv
  BY <1>2, <1>3, <1>4, <1>5 DEF PlaceInv, PlaceTypes, OnlyRunningHoldBlocks
<1>7. HeadInv
  BY <1>2, <1>3 DEF HeadInv
<1> QED BY <1>1, <1>6, <1>7 DEF QueueInv

(* The invariant is inductive.                                             *)
LEMMA QueueNext ==
    QueueInv /\ [AnyNext]_vars => QueueInv' /\ [PoolNext]_poolVars
<1> SUFFICES ASSUME QueueInv, [AnyNext]_vars
             PROVE  QueueInv' /\ [PoolNext]_poolVars
  OBVIOUS
<1>1. CASE AnyNext
  <2>1. PlaceInv' /\ HeadInv' /\ [PoolNext]_poolVars
    BY <1>1, NextMoves, NextHead
  <2>2. PoolInv'
    BY <2>1, PoolNextInv DEF QueueInv
  <2> QED BY <2>1, <2>2 DEF QueueInv
<1>2. CASE UNCHANGED vars
  <2>1. UNCHANGED poolVars /\ UNCHANGED <<state, waiting, running, finished>>
        /\ UNCHANGED <<drafts, phase, batch, pending>>
    BY <1>2 DEF vars, schedVars, seqVars, queueVars, stepVars
  <2>2. PoolInv'
    BY <2>1, PoolNextInv DEF QueueInv
  <2>3. PlaceInv'
    BY <2>1, NobodyMoves DEF QueueInv, poolVars
  <2>4. HeadInv'
    BY <2>1 DEF QueueInv, HeadInv
  <2> QED BY <2>1, <2>2, <2>3, <2>4 DEF QueueInv
<1> QED BY <1>1, <1>2

(* The inductive invariant holds in every state of the scheduler.          *)
THEOREM QueueInvariant == Spec => []QueueInv
<1> QED BY QueueInit, QueueNext, NextIsAny, PTL DEF Spec

(* Every step of the scheduler, batching, speculation, preemption and      *)
(* aborts included, is a call of the pool that its specification allows, or *)
(* leaves it alone: what is proved of the pool holds in the engine.        *)
THEOREM SchedulerImplementsPool == Spec => PoolImplemented
<1>1. Init => PoolInit
  BY DEF Init
<1>2. QueueInv /\ [AnyNext]_vars => [PoolNext]_poolVars
  BY QueueNext
<1> QED BY <1>1, <1>2, QueueInvariant, NextIsAny, PTL DEF Spec, PoolImplemented, PoolSpec

(* A sequence is in exactly the place its state names: it is not lost and  *)
(* not duplicated by any sequence of admissions, preemptions, aborts and   *)
(* retirements.                                                            *)
THEOREM PlaceCorrect == Spec => []OnePlace
<1>1. QueueInv => OnePlace
  BY DEF QueueInv, PlaceInv
<1> QED BY <1>1, QueueInvariant, PTL

(* Only running sequences hold blocks, so nothing leaks however a sequence *)
(* leaves.                                                                 *)
THEOREM HoldersCorrect == Spec => []OnlyRunningHoldBlocks
<1>1. QueueInv => OnlyRunningHoldBlocks
  BY DEF QueueInv, PlaceInv
<1> QED BY <1>1, QueueInvariant, PTL

-----------------------------------------------------------------------------
(* Where outputs stop. A live sequence's text stops exactly while it is the *)
(* one being retired: this is what makes the next token legal.             *)
Limit(m) == IF m = 0 THEN 1 ELSE m

GoodOutput(t, p, m) ==
    /\ p <= Len(t) /\ Len(t) - p <= Limit(m)
    /\ \A i \in p + 1 .. Len(t) - 1 : t[i] # Eos

Stops(t, p, m) == Len(t) > p /\ (t[Len(t)] = Eos \/ Len(t) - p >= m)

Live(s) == state[s] \in {"Waiting", "Prefill", "Decode"}

Retiring(s) == phase = "retire" /\ Head(batch).seq = s

SeqOutput(s) ==
    /\ GoodOutput(toks[s], plen[s], maxNew[s])
    /\ Live(s) => (Stops(toks[s], plen[s], maxNew[s]) <=> Retiring(s))
    /\ state[s] = "Finished" =>
          /\ Stops(toks[s], plen[s], maxNew[s])
          /\ reason[s] = IF toks[s][Len(toks[s])] = Eos THEN "Eos" ELSE "MaxTokens"

OutputInv ==
    /\ plen \in [Seqs -> Nat] /\ maxNew \in [Seqs -> Nat]
    /\ reason \in [Seqs -> {"none", "Eos", "MaxTokens", "Aborted"}]
    /\ \A s \in Seqs : state[s] # "none" => SeqOutput(s)

(* A text that does not stop may get one more token.                       *)
LEMMA OneMoreToken ==
    ASSUME NEW t \in Seq(Token), NEW x \in Token, NEW p \in Nat, NEW m \in Nat,
           GoodOutput(t, p, m), ~Stops(t, p, m)
    PROVE  GoodOutput(Append(t, x), p, m)
<1>1. /\ Len(Append(t, x)) = Len(t) + 1 /\ Len(t) \in Nat
      /\ \A i \in 1 .. Len(t) : Append(t, x)[i] = t[i]
  OBVIOUS
<1>2. p <= Len(t) + 1 /\ Len(t) + 1 - p <= Limit(m)
  BY <1>1 DEF GoodOutput, Stops, Limit
<1>3. ASSUME NEW i \in p + 1 .. Len(t) PROVE t[i] # Eos
  BY <1>1, <1>3 DEF GoodOutput, Stops
<1> QED BY <1>1, <1>2, <1>3 DEF GoodOutput

(* stop_reason tells whether a text longer than the prompt stops.          *)
LEMMA StopReasonStops ==
    ASSUME NEW s \in Seqs, NEW t \in Seq(Token), Len(t) > plen[s],
           plen[s] \in Nat, maxNew[s] \in Nat
    PROVE  /\ StopReason(s, t) # "none" <=> Stops(t, plen[s], maxNew[s])
           /\ Stops(t, plen[s], maxNew[s]) =>
                 StopReason(s, t) = IF t[Len(t)] = Eos THEN "Eos" ELSE "MaxTokens"
  BY DEF StopReason, Stops, LastOf

(* Steps that append no token and retire nobody.                           *)
LEMMA OutputFrame ==
    ASSUME OutputInv, UNCHANGED <<toks, plen, maxNew>>,
           \/ phase # "retire" /\ phase' # "retire"
           \/ UNCHANGED <<phase, batch>>,
           reason' \in [Seqs -> {"none", "Eos", "MaxTokens", "Aborted"}],
           \A s \in Seqs : \/ state'[s] = state[s] /\ reason'[s] = reason[s]
                           \/ Live(s) /\ Live(s)'
                           \/ state[s] # "none" /\ state'[s] = "Aborted"
    PROVE  OutputInv'
<1> SUFFICES ASSUME NEW s \in Seqs, state'[s] # "none" PROVE SeqOutput(s)'
  BY DEF OutputInv
<1>1. state[s] # "none"
  BY DEF Live
<1>2. SeqOutput(s)
  BY <1>1 DEF OutputInv
<1>3. Retiring(s)' <=> Retiring(s)
  BY DEF Retiring
<1>4. CASE state'[s] = state[s] /\ reason'[s] = reason[s]
  BY <1>2, <1>3, <1>4 DEF SeqOutput, GoodOutput, Stops, Limit, Live
<1>5. CASE Live(s) /\ Live(s)'
  BY <1>2, <1>3, <1>5 DEF SeqOutput, GoodOutput, Stops, Limit, Live
<1>6. CASE state'[s] = "Aborted"
  BY <1>2, <1>6 DEF SeqOutput, GoodOutput, Stops, Limit, Live
<1> QED BY <1>4, <1>5, <1>6

(* A running sequence's next token, from a decode, a prefill's end or an    *)
(* accepted draft.                                                         *)
LEMMA OutputGrows ==
    ASSUME QueueInv, OutputInv, NEW s \in Range(running), NEW t \in Token,
           phase # "retire", s = Head(batch).seq,
           toks' = [toks EXCEPT ![s] = Append(toks[s], t)],
           UNCHANGED <<plen, maxNew, reason>>,
           state' = state \/ state' = [state EXCEPT ![s] = "Decode"],
           IF StopReason(s, Append(toks[s], t)) # "none"
           THEN phase' = "retire" /\ batch' = batch
           ELSE phase' # "retire"
    PROVE  OutputInv'
<1>0. /\ s \in Seqs /\ toks \in [Seqs -> Seq(Token)]
      /\ state \in [Seqs -> {"none", "Waiting", "Prefill", "Decode",
                             "Finished", "Aborted"}]
      /\ state[s] \in {"Prefill", "Decode"}
  BY PlaceFacts DEF QueueInv, PoolInv, PoolTypeOK, PoolDataOK, PlaceInv,
                    PlaceTypes, OnePlace
<1> DEFINE new == Append(toks[s], t)
           stop == Stops(new, plen[s], maxNew[s])
<1>1. SeqOutput(s) /\ Live(s) /\ plen[s] \in Nat /\ maxNew[s] \in Nat
  BY <1>0 DEF OutputInv, Live
<1>2. /\ GoodOutput(toks[s], plen[s], maxNew[s])
      /\ ~Stops(toks[s], plen[s], maxNew[s])
  BY <1>1 DEF SeqOutput, Retiring
<1>3. GoodOutput(new, plen[s], maxNew[s])
  BY <1>0, <1>1, <1>2, OneMoreToken
<1>4. new \in Seq(Token) /\ Len(new) = Len(toks[s]) + 1 /\ Len(toks[s]) \in Nat
  BY <1>0
<1>5. Len(new) > plen[s]
  BY <1>1, <1>2, <1>4 DEF GoodOutput
<1>6. StopReason(s, new) # "none" <=> stop
  BY <1>0, <1>1, <1>4, <1>5, StopReasonStops
<1> HIDE DEF stop
<1>7. Retiring(s)' <=> stop
  BY <1>6 DEF Retiring
<1>8. /\ toks'[s] = new
      /\ \A u \in Seqs : u # s => toks'[u] = toks[u] /\ state'[u] = state[u]
      /\ state'[s] \in {"Prefill", "Decode"}
  BY <1>0
<1> HIDE DEF new
<1>9. SeqOutput(s)'
  BY <1>3, <1>7, <1>8 DEF SeqOutput, GoodOutput, Stops, Limit, stop
<1>10. ASSUME NEW u \in Seqs, u # s, state'[u] # "none" PROVE SeqOutput(u)'
  <2>1. SeqOutput(u) /\ toks'[u] = toks[u] /\ state'[u] = state[u]
    BY <1>8, <1>10 DEF OutputInv
  <2>2. ~Retiring(u) /\ ~Retiring(u)'
    BY <1>10 DEF Retiring
  <2> QED BY <2>1, <2>2 DEF SeqOutput, GoodOutput, Stops, Limit, Live
<1> QED BY <1>9, <1>10 DEF OutputInv

(* The stopped sequence is retired with the reason it stopped for.         *)
LEMMA OutputEnds ==
    ASSUME QueueInv, OutputInv, Retire
    PROVE  OutputInv'
<1>0. PICK s : s = Head(batch).seq
  OBVIOUS
<1>1. /\ phase = "retire" /\ phase' = "apply"
      /\ UNCHANGED <<toks, plen, maxNew>>
      /\ state' = [state EXCEPT ![s] = "Finished"]
      /\ reason' = [reason EXCEPT ![s] = StopReason(s, toks[s])]
  BY <1>0 DEF Retire, DeallocateBegin, Close
<1>2. s \in Range(running)
  BY <1>0, <1>1 DEF QueueInv, HeadInv
<1>3. /\ s \in Seqs /\ toks[s] \in Seq(Token)
      /\ state \in [Seqs -> {"none", "Waiting", "Prefill", "Decode",
                             "Finished", "Aborted"}]
      /\ state[s] \in {"Prefill", "Decode"}
  BY <1>2, PlaceFacts DEF QueueInv, PoolInv, PoolTypeOK, PoolDataOK, PlaceInv,
                          PlaceTypes, OnePlace
<1>4. /\ Retiring(s) /\ Live(s) /\ SeqOutput(s)
      /\ plen[s] \in Nat /\ maxNew[s] \in Nat
  BY <1>0, <1>1, <1>3 DEF Retiring, Live, OutputInv
<1>5. Stops(toks[s], plen[s], maxNew[s]) /\ GoodOutput(toks[s], plen[s], maxNew[s])
  BY <1>4 DEF SeqOutput
<1>6. StopReason(s, toks[s]) = IF toks[s][Len(toks[s])] = Eos THEN "Eos" ELSE "MaxTokens"
  BY <1>3, <1>4, <1>5, StopReasonStops DEF Stops
<1>7. /\ reason' \in [Seqs -> {"none", "Eos", "MaxTokens", "Aborted"}]
      /\ reason'[s] = StopReason(s, toks[s]) /\ state'[s] = "Finished"
      /\ \A u \in Seqs : u # s => reason'[u] = reason[u] /\ state'[u] = state[u]
  BY <1>1, <1>3, <1>6 DEF OutputInv
<1>8. SeqOutput(s)'
  BY <1>1, <1>5, <1>6, <1>7 DEF SeqOutput, GoodOutput, Stops, Limit, Live
<1>9. ASSUME NEW u \in Seqs, u # s, state'[u] # "none" PROVE SeqOutput(u)'
  <2>1. SeqOutput(u) /\ reason'[u] = reason[u] /\ state'[u] = state[u]
    BY <1>7, <1>9 DEF OutputInv
  <2>2. ~Retiring(u) /\ ~Retiring(u)'
    BY <1>0, <1>1, <1>9 DEF Retiring
  <2> QED BY <1>1, <2>1, <2>2 DEF SeqOutput, GoodOutput, Stops, Limit, Live
<1> QED BY <1>1, <1>7, <1>8, <1>9 DEF OutputInv

(* A new sequence has its prompt and no output.                            *)
LEMMA OutputStarts ==
    ASSUME QueueInv, OutputInv, NEW s \in Seqs, NEW p \in Prompts,
           NEW m \in Nat, Enqueue(s, p, m)
    PROVE  OutputInv'
<1>1. /\ phase = "idle" /\ phase' = "idle"
      /\ toks' = [toks EXCEPT ![s] = p] /\ plen' = [plen EXCEPT ![s] = Len(p)]
      /\ maxNew' = [maxNew EXCEPT ![s] = m] /\ reason' = reason
      /\ state' = [state EXCEPT ![s] = "Waiting"]
  BY DEF Enqueue, Arrive, stepVars
<1>2. p \in Seq(Token) /\ Len(p) \in Nat /\ m \in Nat
  BY PoolAssumption, SchedulerAssumption
<1>3. /\ toks \in [Seqs -> Seq(Token)]
      /\ state \in [Seqs -> {"none", "Waiting", "Prefill", "Decode",
                             "Finished", "Aborted"}]
      /\ plen \in [Seqs -> Nat] /\ maxNew \in [Seqs -> Nat]
  BY DEF QueueInv, PoolInv, PoolTypeOK, PoolDataOK, PlaceInv, PlaceTypes, OutputInv
<1>4. /\ plen' \in [Seqs -> Nat] /\ maxNew' \in [Seqs -> Nat]
      /\ toks'[s] = p /\ plen'[s] = Len(p) /\ maxNew'[s] = m
      /\ state'[s] = "Waiting"
  BY <1>1, <1>2, <1>3
<1>5. \A u \in Seqs : u # s => /\ toks'[u] = toks[u] /\ plen'[u] = plen[u]
                               /\ maxNew'[u] = maxNew[u] /\ state'[u] = state[u]
  BY <1>1, <1>3
<1>6. ~Retiring(s) /\ ~Retiring(s)'
  BY <1>1 DEF Retiring
<1>7. GoodOutput(p, Len(p), m) /\ ~Stops(p, Len(p), m)
  BY <1>2 DEF GoodOutput, Stops, Limit
<1>8. SeqOutput(s)'
  BY <1>4, <1>6, <1>7 DEF SeqOutput, GoodOutput, Stops, Limit, Live
<1>9. ASSUME NEW u \in Seqs, u # s, state'[u] # "none" PROVE SeqOutput(u)'
  <2>1. SeqOutput(u) /\ reason'[u] = reason[u]
    BY <1>1, <1>5, <1>9 DEF OutputInv
  <2>2. ~Retiring(u) /\ ~Retiring(u)'
    BY <1>1 DEF Retiring
  <2>3. /\ toks'[u] = toks[u] /\ plen'[u] = plen[u]
        /\ maxNew'[u] = maxNew[u] /\ state'[u] = state[u]
    BY <1>5, <1>9
  <2> QED BY <2>1, <2>2, <2>3 DEF SeqOutput, GoodOutput, Stops, Limit, Live
<1> QED BY <1>1, <1>4, <1>8, <1>9 DEF OutputInv

(* No sequence has an output at the start.                                 *)
LEMMA OutputInit == Init => OutputInv
  BY DEF Init, SchedInit, OutputInv

(* Every step of the scheduler keeps every output within its limit.        *)
LEMMA OutputNext ==
    ASSUME QueueInv, OutputInv, AnyNext
    PROVE  OutputInv'
<1>0. /\ PlaceInv /\ OutputInv
      /\ Range(running) \subseteq Seqs /\ Range(waiting) \subseteq Seqs
      /\ \A s \in Range(running) \cup Range(waiting) : Live(s)
      /\ state \in [Seqs -> {"none", "Waiting", "Prefill", "Decode",
                             "Finished", "Aborted"}]
      /\ reason \in [Seqs -> {"none", "Eos", "MaxTokens", "Aborted"}]
  BY PlaceFacts DEF QueueInv, PlaceInv, PlaceTypes, OnePlace, Live, OutputInv
<1>a. ASSUME UNCHANGED <<toks, plen, maxNew, state, reason>>,
             \/ phase # "retire" /\ phase' # "retire"
             \/ UNCHANGED <<phase, batch>>
      PROVE  OutputInv'
  BY <1>0, <1>a, OutputFrame
<1>b. ASSUME NEW s \in Range(running) \cup Range(waiting),
             Close(s, "Aborted", "Aborted"), UNCHANGED <<toks, plen, maxNew>>,
             phase # "retire", phase' # "retire"
      PROVE  OutputInv'
  <2>1. /\ state' = [state EXCEPT ![s] = "Aborted"]
        /\ reason' = [reason EXCEPT ![s] = "Aborted"]
        /\ s \in Seqs /\ state[s] # "none"
    BY <1>0, <1>b DEF Close, Live
  <2>2. reason' \in [Seqs -> {"none", "Eos", "MaxTokens", "Aborted"}]
    BY <1>0, <2>1
  <2>3. \A u \in Seqs : \/ state'[u] = state[u] /\ reason'[u] = reason[u]
                        \/ state[u] # "none" /\ state'[u] = "Aborted"
    BY <1>0, <2>1
  <2> QED BY <1>0, <1>b, <2>2, <2>3, OutputFrame
<1>c. ASSUME NEW s \in Seqs, Live(s), NEW st \in {"Waiting", "Prefill"},
             state' = [state EXCEPT ![s] = st],
             UNCHANGED <<toks, plen, maxNew, reason>>,
             phase # "retire", phase' # "retire"
      PROVE  OutputInv'
  <2>1. \A u \in Seqs : \/ state'[u] = state[u] /\ reason'[u] = reason[u]
                        \/ Live(u) /\ Live(u)'
    BY <1>0, <1>c DEF Live
  <2> QED BY <1>0, <1>c, <2>1, OutputFrame
<1>1. CASE QuietStep \/ DrainFinished \/ PoolStep \/ AdmitBegin \/ ExtendGrow \/ ReserveGrow
  <2>1. UNCHANGED <<plen, maxNew, state, reason>>
    BY <1>1 DEF QuietStep, SetDrafts, StepMixed, ScheduleChunk, FinishBuild,
         ItemNotRunning, ApplyChunk, ExtendDone, StepDone, StepVerify,
         ReserveDone, FinishVerifyBatch, VerifyOutcome, DrainFinished,
         PoolStep, AdmitBegin, ExtendGrow, ReserveGrow, seqVars, schedVars
  <2>2. UNCHANGED toks
    <3>1. CASE QuietStep
      BY <1>0, <3>1, QuietMoves DEF poolVars
    <3>2. CASE DrainFinished
      BY <3>2 DEF DrainFinished, poolVars
    <3>3. CASE PoolStep
      BY <3>3 DEF PoolStep, AcquireShared, AcquireFresh, ExtendNext, ReleaseLast
    <3>4. CASE AdmitBegin \/ ExtendGrow \/ ReserveGrow
      BY <3>4 DEF AdmitBegin, AllocateBegin, ExtendGrow, ReserveGrow, ExtendFor
    <3> QED BY <1>1, <3>1, <3>2, <3>3, <3>4
  <2>3. \/ phase # "retire" /\ phase' # "retire"
        \/ UNCHANGED <<phase, batch>>
    BY <1>1 DEF QuietStep, SetDrafts, StepMixed, ScheduleChunk, FinishBuild,
         ItemNotRunning, ApplyChunk, ExtendDone, Extending, StepDone,
         StepVerify, Reserving, Applying, ReserveDone, FinishVerifyBatch,
         VerifyOutcome, DrainFinished, PoolStep, AdmitBegin, ExtendGrow,
         ReserveGrow, stepVars, schedVars
  <2> QED BY <1>a, <2>1, <2>2, <2>3
<1>2. ASSUME NEW s \in Seqs, NEW p \in Prompts, NEW m \in Nat, Enqueue(s, p, m)
      PROVE  OutputInv'
  BY <1>2, OutputStarts
<1>3. ASSUME NEW s \in Seqs, Abort(s) PROVE OutputInv'
  BY <1>b, <1>3 DEF Abort, AbortWaiting, AbortRunning, DeallocateBegin,
                    poolVars, stepVars
<1>4. CASE AdmitEmpty
  <2>1. Head(waiting) \in Range(waiting)
    BY <1>0, <1>4, TailInjective DEF AdmitEmpty, PlaceInv, PlaceTypes, OnePlace
  <2> QED BY <1>b, <1>4, <2>1 DEF AdmitEmpty, poolVars, stepVars
<1>5. CASE AdmitEnd
  <2>1. PICK s : s = op.seq
    OBVIOUS
  <2>2. op.kind = "alloc" /\ s \in Seqs
    BY <1>5, <2>1 DEF AdmitEnd, AllocateEnd, Allocated, QueueInv, PoolInv,
                      PoolTypeOK, Op, Idle
  <2>3. Live(s)
    BY <1>0, <2>1, <2>2 DEF PlaceInv, OnePlace, InTransit, Live
  <2>4. /\ state' = [state EXCEPT ![s] = "Prefill"]
        /\ UNCHANGED <<toks, plen, maxNew, reason, phase>> /\ phase = "build"
    BY <1>5, <2>1 DEF AdmitEnd, AllocateEnd
  <2> QED BY <1>c, <2>2, <2>3, <2>4
<1>6. ASSUME NEW t \in Token, ApplyToken(t) PROVE OutputInv'
  <2>1. PICK s : s = Head(batch).seq
    OBVIOUS
  <2>2. /\ s \in Range(running) /\ phase # "retire"
        /\ toks' = [toks EXCEPT ![s] = Append(toks[s], t)]
        /\ UNCHANGED <<plen, maxNew, reason>>
        /\ state' = [state EXCEPT ![s] = "Decode"]
        /\ IF StopReason(s, Append(toks[s], t)) # "none"
           THEN phase' = "retire" /\ batch' = batch
           ELSE phase' # "retire"
    BY <1>6, <2>1 DEF ApplyToken, Applying, AppendToken
  <2> QED BY <2>1, <2>2, OutputGrows
<1>7. CASE Retire
  BY <1>7, OutputEnds
<1>8. CASE ExtendOverflow
  <2>1. Head(todo) \in Range(running) /\ Close(Head(todo), "Aborted", "Aborted")
        /\ UNCHANGED <<toks, plen, maxNew>> /\ phase = "apply" /\ phase' = "apply"
    BY <1>8 DEF ExtendOverflow, OutOfBlocks, Extending, DeallocateBegin
  <2> QED BY <1>b, <2>1
<1>9. CASE PreemptYoungest
  <2>1. PICK v : v = LastOf(running)
    OBVIOUS
  <2>2. /\ Range(running) # {} /\ state' = [state EXCEPT ![v] = "Waiting"]
        /\ UNCHANGED <<toks, plen, maxNew, reason>>
        /\ phase = "apply" /\ phase' = "apply"
    BY <1>9, <2>1 DEF PreemptYoungest, OutOfBlocks, Extending, Preempt, DeallocateBegin
  <2>3. v \in Range(running)
    <3>1. running \in Seq(Seqs)
      BY <1>0 DEF PlaceInv, PlaceTypes
    <3>2. Len(running) \in DOMAIN running
      BY <2>2, <3>1 DEF Range
    <3> QED BY <2>1, <3>2 DEF LastOf, Range
  <2> QED BY <1>0, <1>c, <2>2, <2>3
<1>10. CASE ReserveRefused
  <2>1. PICK v : v = Head(todo)
    OBVIOUS
  <2>2. /\ v \in Range(running) /\ state' = [state EXCEPT ![v] = "Waiting"]
        /\ UNCHANGED <<toks, plen, maxNew, reason>>
        /\ phase = "verify" /\ phase' = "verify"
    BY <1>10, <2>1 DEF ReserveRefused, Reserving, DeallocateBegin
  <2> QED BY <1>0, <1>c, <2>2
<1>11. CASE Accept
  <2>1. PICK s : s = Head(batch).seq
    OBVIOUS
  <2>2. PICK t : t = Head(pending)
    OBVIOUS
  <2>3. s \in Range(running) /\ t \in Token
    BY <1>11, <2>1, <2>2 DEF Accept, QueueInv, HeadInv
  <2>4. /\ phase # "retire"
        /\ toks' = [toks EXCEPT ![s] = Append(toks[s], t)]
        /\ UNCHANGED <<plen, maxNew, reason, state>>
        /\ IF StopReason(s, Append(toks[s], t)) # "none"
           THEN phase' = "retire" /\ batch' = batch
           ELSE phase' # "retire"
    BY <1>11, <2>1, <2>2 DEF Accept, AcceptToken, seqVars
  <2> QED BY <2>1, <2>3, <2>4, OutputGrows
<1> QED BY <1>1, <1>2, <1>3, <1>4, <1>5, <1>6, <1>7, <1>8, <1>9, <1>10, <1>11
        DEF AnyNext, StepNext, VerifyNext, QuietStep

(* Outputs stay within their limits, stuttering included.                  *)
LEMMA OutputNextInv == QueueInv /\ OutputInv /\ [AnyNext]_vars => OutputInv'
<1> SUFFICES ASSUME QueueInv, OutputInv, [AnyNext]_vars PROVE OutputInv'
  OBVIOUS
<1>1. CASE UNCHANGED vars
  <2>1. /\ UNCHANGED <<toks, plen, maxNew>> /\ UNCHANGED <<state, reason>>
        /\ UNCHANGED <<phase, batch>>
    BY <1>1 DEF vars, poolVars, schedVars, seqVars, stepVars
  <2> QED BY <2>1, OutputFrame DEF OutputInv
<1> QED BY <1>1, OutputNext

(* Every output is within its limit in every state.                        *)
THEOREM OutputInvariant == Spec => []OutputInv
<1> QED BY OutputNextInv, OutputInit, QueueInvariant, NextIsAny, PTL DEF Spec

(* What a caller sees of it.                                               *)
LEMMA OutputFollows == QueueInv /\ OutputInv => OutputStopsInTime
<1> SUFFICES ASSUME QueueInv, OutputInv, NEW s \in Seqs, state[s] # "none"
             PROVE  LET n == Len(toks[s])
                        limit == IF maxNew[s] = 0 THEN 1 ELSE maxNew[s]
                    IN  /\ \A i \in plen[s] + 1 .. n - 1 : toks[s][i] # Eos
                        /\ n - plen[s] <= limit
                        /\ state[s] = "Finished" =>
                              IF toks[s][n] = Eos THEN reason[s] = "Eos"
                              ELSE reason[s] = "MaxTokens" /\ n - plen[s] = limit
  BY DEF OutputStopsInTime
<1>1. SeqOutput(s) /\ plen[s] \in Nat /\ maxNew[s] \in Nat
  BY DEF OutputInv
<1>2. toks[s] \in Seq(Token) /\ Len(toks[s]) \in Nat
  BY DEF QueueInv, PoolInv, PoolTypeOK, PoolDataOK
<1> QED BY <1>1, <1>2 DEF SeqOutput, GoodOutput, Stops, Limit

(* Outputs stop in time, whatever is drafted, preempted or aborted.        *)
THEOREM OutputCorrect == Spec => []OutputStopsInTime
<1> QED BY OutputFollows, OutputInvariant, QueueInvariant, PTL

-----------------------------------------------------------------------------
(* The draft counter. It may count drafts of sequences that are gone       *)
(* (Retire), and never less than the drafts of the running ones: that is   *)
(* why the subtractions of ClearDrafts and set_drafts cannot underflow.    *)
Drafting == {s \in Range(running) : drafts[s] # <<>>}

DraftInv ==
    /\ draftCount \in Nat
    /\ Cardinality(Drafting) <= draftCount
    /\ \A s \in Seqs : state[s] \in {"none", "Waiting"} => drafts[s] = <<>>

(* The running sequences with drafts are finitely many.                    *)
LEMMA DraftingFinite ==
    ASSUME PlaceInv
    PROVE  /\ IsFiniteSet(Drafting) /\ Cardinality(Drafting) \in Nat
           /\ Drafting \subseteq Seqs
<1>1. Drafting \in SUBSET Seqs
  BY PlaceFacts DEF Drafting
<1>2. IsFiniteSet(Drafting)
  BY <1>1, PoolAssumption, FS_Subset
<1> QED BY <1>1, <1>2, FS_CardinalityType

(* Steps that give nobody drafts and leave the counter alone.              *)
LEMMA DraftsKept ==
    ASSUME PlaceInv, DraftInv, UNCHANGED <<drafts, draftCount>>,
           Drafting' \subseteq Drafting,
           \A s \in Seqs : state'[s] \in {"none", "Waiting"} =>
                              state[s] \in {"none", "Waiting"}
    PROVE  DraftInv'
<1>1. IsFiniteSet(Drafting) /\ Cardinality(Drafting) \in Nat
  BY DraftingFinite
<1>2. Drafting' \in SUBSET Drafting
  OBVIOUS
<1>3. IsFiniteSet(Drafting') /\ Cardinality(Drafting') <= Cardinality(Drafting)
  BY <1>1, <1>2, FS_Subset
<1>4. Cardinality(Drafting') \in Nat
  BY <1>3, FS_CardinalityType
<1>5. Cardinality(Drafting') <= draftCount'
  BY <1>1, <1>3, <1>4 DEF DraftInv
<1>6. draftCount' \in Nat
  BY DEF DraftInv
<1>7. \A s \in Seqs : state'[s] \in {"none", "Waiting"} => drafts'[s] = <<>>
  BY DEF DraftInv
<1> QED BY <1>5, <1>6, <1>7 DEF DraftInv

(* A running sequence whose drafts are cleared: the counter had them.      *)
LEMMA DraftsCleared ==
    ASSUME PlaceInv, DraftInv, drafts \in [Seqs -> Seq(Token)],
           NEW s \in Range(running), ClearDrafts(s),
           Range(running') \subseteq Range(running),
           \A u \in Seqs : u # s /\ state'[u] \in {"none", "Waiting"} =>
                              state[u] \in {"none", "Waiting"}
    PROVE  DraftInv'
<1>0. IsFiniteSet(Drafting) /\ Cardinality(Drafting) \in Nat /\ s \in Seqs
  BY DraftingFinite, PlaceFacts
<1>1. /\ drafts' = [drafts EXCEPT ![s] = <<>>]
      /\ draftCount' = IF drafts[s] # <<>> THEN draftCount - 1 ELSE draftCount
  BY DEF ClearDrafts
<1>2. \A u \in Seqs : drafts'[u] = IF u = s THEN <<>> ELSE drafts[u]
  BY <1>0, <1>1
<1>3. Drafting' \in SUBSET (Drafting \ {s})
  BY <1>2, PlaceFacts DEF Drafting
<1>4. /\ IsFiniteSet(Drafting \ {s})
      /\ Cardinality(Drafting \ {s}) =
            IF s \in Drafting THEN Cardinality(Drafting) - 1 ELSE Cardinality(Drafting)
  BY <1>0, FS_RemoveElement
<1>5. /\ IsFiniteSet(Drafting')
      /\ Cardinality(Drafting') <= Cardinality(Drafting \ {s})
  BY <1>3, <1>4, FS_Subset
<1>6. Cardinality(Drafting') \in Nat /\ Cardinality(Drafting \ {s}) \in Nat
  BY <1>4, <1>5, FS_CardinalityType
<1>7. s \in Drafting <=> drafts[s] # <<>>
  BY DEF Drafting
<1>8. draftCount \in Nat /\ Cardinality(Drafting) <= draftCount
  BY DEF DraftInv
<1>9. draftCount' \in Nat /\ Cardinality(Drafting') <= draftCount'
  <2>1. CASE s \in Drafting
    <3>1. /\ draftCount' = draftCount - 1
          /\ Cardinality(Drafting \ {s}) = Cardinality(Drafting) - 1
      BY <1>1, <1>4, <1>7, <2>1
    <3> QED BY <1>0, <1>5, <1>6, <1>8, <3>1
  <2>2. CASE s \notin Drafting
    <3>1. draftCount' = draftCount /\ Cardinality(Drafting \ {s}) = Cardinality(Drafting)
      BY <1>1, <1>4, <1>7, <2>2
    <3> QED BY <1>0, <1>5, <1>6, <1>8, <3>1
  <2> QED BY <2>1, <2>2
<1>10. \A u \in Seqs : state'[u] \in {"none", "Waiting"} => drafts'[u] = <<>>
  BY <1>2 DEF DraftInv
<1> QED BY <1>9, <1>10 DEF DraftInv

(* set_drafts: the counter follows.                                        *)
LEMMA DraftsSet ==
    ASSUME PlaceInv, DraftInv, drafts \in [Seqs -> Seq(Token)],
           NEW s \in Seqs, NEW d \in Drafts, SetDrafts(s, d)
    PROVE  DraftInv'
<1>0. /\ IsFiniteSet(Drafting) /\ Cardinality(Drafting) \in Nat
      /\ s \in Range(running) /\ UNCHANGED <<running, state>>
  BY DraftingFinite DEF SetDrafts
<1>1. /\ drafts' = [drafts EXCEPT ![s] = d]
      /\ draftCount' = draftCount + (IF d # <<>> THEN 1 ELSE 0)
                         - (IF drafts[s] # <<>> THEN 1 ELSE 0)
  BY DEF SetDrafts
<1>2. \A u \in Seqs : drafts'[u] = IF u = s THEN d ELSE drafts[u]
  BY <1>1
<1>3. draftCount \in Nat /\ Cardinality(Drafting) <= draftCount
  BY DEF DraftInv
<1>4. s \in Drafting <=> drafts[s] # <<>>
  BY <1>0 DEF Drafting
<1>5. Drafting' = IF d # <<>> THEN Drafting \cup {s} ELSE Drafting \ {s}
  BY <1>0, <1>2, PlaceFacts DEF Drafting
<1>6. /\ Cardinality(Drafting \ {s}) =
            IF s \in Drafting THEN Cardinality(Drafting) - 1 ELSE Cardinality(Drafting)
      /\ Cardinality(Drafting \cup {s}) =
            IF s \in Drafting THEN Cardinality(Drafting) ELSE Cardinality(Drafting) + 1
      /\ IsFiniteSet(Drafting \ {s})
  BY <1>0, FS_RemoveElement, FS_AddElement
<1>7. Cardinality(Drafting \ {s}) \in Nat
  BY <1>6, FS_CardinalityType
<1>8. draftCount' \in Nat /\ Cardinality(Drafting') <= draftCount'
  <2>1. CASE s \in Drafting /\ d # <<>>
    <3>1. /\ draftCount' = draftCount + 1 - 1
          /\ Cardinality(Drafting') = Cardinality(Drafting)
      BY <1>1, <1>4, <1>5, <1>6, <2>1
    <3> QED BY <1>0, <1>3, <3>1
  <2>2. CASE s \in Drafting /\ d = <<>>
    <3>1. /\ draftCount' = draftCount + 0 - 1
          /\ Cardinality(Drafting') = Cardinality(Drafting) - 1
          /\ Cardinality(Drafting') \in Nat
      BY <1>1, <1>4, <1>5, <1>6, <1>7, <2>2
    <3> QED BY <1>0, <1>3, <3>1
  <2>3. CASE s \notin Drafting /\ d # <<>>
    <3>1. /\ draftCount' = draftCount + 1 - 0
          /\ Cardinality(Drafting') = Cardinality(Drafting) + 1
      BY <1>1, <1>4, <1>5, <1>6, <2>3
    <3> QED BY <1>0, <1>3, <3>1
  <2>4. CASE s \notin Drafting /\ d = <<>>
    <3>1. /\ draftCount' = draftCount + 0 - 0
          /\ Cardinality(Drafting') = Cardinality(Drafting)
      BY <1>1, <1>4, <1>5, <1>6, <2>4
    <3> QED BY <1>0, <1>3, <3>1
  <2> QED BY <2>1, <2>2, <2>3, <2>4
<1>9. ASSUME NEW u \in Seqs, state'[u] \in {"none", "Waiting"} PROVE drafts'[u] = <<>>
  <2>1. u # s
    BY <1>0, <1>9 DEF PlaceInv, OnePlace
  <2> QED BY <1>0, <1>2, <1>9, <2>1 DEF DraftInv
<1> QED BY <1>8, <1>9 DEF DraftInv

(* Every step keeps the counter above the drafts there are.                *)
LEMMA DraftNext ==
    ASSUME QueueInv, DraftInv, AnyNext
    PROVE  DraftInv'
<1>0. /\ PoolInv /\ PlaceInv /\ drafts \in [Seqs -> Seq(Token)]
      /\ Range(running) \subseteq Seqs /\ Range(waiting) \subseteq Seqs
      /\ running \in Seq(Seqs) /\ IsInjective(running)
      /\ state \in [Seqs -> {"none", "Waiting", "Prefill", "Decode",
                             "Finished", "Aborted"}]
  BY PlaceFacts DEF QueueInv, PlaceInv, PlaceTypes, OnePlace, HeadInv
<1>a. ASSUME UNCHANGED <<drafts, draftCount, running>>,
             \A s \in Seqs : state'[s] \in {"none", "Waiting"} =>
                                state[s] \in {"none", "Waiting"}
      PROVE  DraftInv'
  BY <1>0, <1>a, DraftsKept DEF Drafting
<1>b. ASSUME NEW s \in Range(running), running' = Without(running, s)
      PROVE  Range(running') \subseteq Range(running)
  BY <1>0, <1>b, WithoutInjective
<1>c. ASSUME NEW s \in Range(running), ClearDrafts(s), running' = Without(running, s),
             NEW st, state' = [state EXCEPT ![s] = st]
      PROVE  DraftInv'
  <2>1. \A u \in Seqs : u # s => state'[u] = state[u]
    BY <1>0, <1>c
  <2> QED BY <1>0, <1>b, <1>c, <2>1, DraftsCleared
<1>1. CASE QuietStep
  <2>1. CASE \E s \in Seqs, d \in Drafts : SetDrafts(s, d)
    BY <1>0, <2>1, DraftsSet
  <2>2. CASE \E t \in Token : VerifyOutcome(t)
    <3>1. PICK s : s = Head(batch).seq
      OBVIOUS
    <3>2. s \in Range(running) /\ ClearDrafts(s) /\ UNCHANGED <<running, state>>
      BY <2>2, <3>1 DEF VerifyOutcome
    <3> QED BY <1>0, <3>2, DraftsCleared
  <2>3. CASE UNCHANGED <<drafts, draftCount, running, state>>
    BY <1>a, <2>3
  <2> QED BY <1>1, <2>1, <2>2, <2>3
          DEF QuietStep, StepMixed, ScheduleChunk, FinishBuild, ItemNotRunning,
              ApplyChunk, ExtendDone, StepDone, StepVerify, ReserveDone,
              FinishVerifyBatch, seqVars, queueVars
<1>2. CASE DrainFinished \/ PoolStep \/ AdmitBegin \/ ExtendGrow \/ ReserveGrow \/ Accept
  <2>1. UNCHANGED <<drafts, draftCount, running, state>>
    BY <1>2 DEF DrainFinished, PoolStep, AdmitBegin, ExtendGrow, ReserveGrow, Accept,
                seqVars, queueVars, schedVars
  <2> QED BY <1>a, <2>1
<1>3. ASSUME NEW s \in Seqs, NEW p \in Prompts, NEW m \in Nat, Enqueue(s, p, m)
      PROVE  DraftInv'
  <2>1. /\ state[s] = "none" /\ state' = [state EXCEPT ![s] = "Waiting"]
        /\ UNCHANGED <<drafts, draftCount, running>>
    BY <1>3 DEF Enqueue
  <2>2. \A u \in Seqs : state'[u] \in {"none", "Waiting"} =>
                           state[u] \in {"none", "Waiting"}
    BY <1>0, <2>1
  <2> QED BY <1>a, <2>1, <2>2
<1>4. ASSUME NEW s \in Seqs, Abort(s) PROVE DraftInv'
  <2>1. CASE AbortWaiting(s)
    <3>1. /\ state' = [state EXCEPT ![s] = "Aborted"]
          /\ UNCHANGED <<drafts, draftCount, running>>
      BY <2>1 DEF AbortWaiting, Close
    <3>2. \A u \in Seqs : state'[u] \in {"none", "Waiting"} => state'[u] = state[u]
      BY <1>0, <3>1
    <3> QED BY <1>a, <3>1, <3>2
  <2>2. CASE AbortRunning(s)
    BY <1>c, <2>2 DEF AbortRunning, Close
  <2> QED BY <1>4, <2>1, <2>2 DEF Abort
<1>5. CASE AdmitEmpty
  <2>1. PICK s : s = Head(waiting)
    OBVIOUS
  <2>2. /\ state' = [state EXCEPT ![s] = "Aborted"]
        /\ UNCHANGED <<drafts, draftCount, running>>
    BY <1>5, <2>1 DEF AdmitEmpty, Close
  <2>3. \A u \in Seqs : state'[u] \in {"none", "Waiting"} => state'[u] = state[u]
    BY <1>0, <2>2
  <2> QED BY <1>a, <2>2, <2>3
<1>6. CASE AdmitEnd
  <2>1. PICK s : s = op.seq
    OBVIOUS
  <2>2. op.kind = "alloc" /\ s \in Seqs
    BY <1>6, <2>1 DEF AdmitEnd, AllocateEnd, Allocated, QueueInv, PoolInv,
                      PoolTypeOK, Op, Idle
  <2>3. state[s] = "Waiting"
    BY <1>0, <2>1, <2>2 DEF PlaceInv, OnePlace, InTransit
  <2>4. /\ state' = [state EXCEPT ![s] = "Prefill"]
        /\ running' = Append(running, s)
        /\ UNCHANGED <<drafts, draftCount>>
    BY <1>6, <2>1 DEF AdmitEnd
  <2>5. \A u \in Seqs : state'[u] \in {"none", "Waiting"} => state'[u] = state[u]
    BY <1>0, <2>4
  <2>6. Range(running') \subseteq Range(running) \cup {s}
    BY <1>0, <2>2, <2>4 DEF Range
  <2>7. drafts[s] = <<>>
    BY <2>2, <2>3 DEF DraftInv
  <2>8. Drafting' \subseteq Drafting
    BY <2>4, <2>6, <2>7 DEF Drafting
  <2> QED BY <1>0, <2>4, <2>5, <2>8, DraftsKept
<1>7. ASSUME NEW t \in Token, ApplyToken(t) PROVE DraftInv'
  <2>1. PICK s : s = Head(batch).seq
    OBVIOUS
  <2>2. /\ state' = [state EXCEPT ![s] = "Decode"]
        /\ UNCHANGED <<drafts, draftCount, running>>
    BY <1>7, <2>1 DEF ApplyToken, queueVars
  <2>3. \A u \in Seqs : state'[u] \in {"none", "Waiting"} => state'[u] = state[u]
    BY <1>0, <2>2
  <2> QED BY <1>a, <2>2, <2>3
<1>8. CASE Retire
  <2>1. PICK s : s = Head(batch).seq
    OBVIOUS
  <2>2. /\ s \in Range(running) /\ running' = Without(running, s)
        /\ state' = [state EXCEPT ![s] = "Finished"]
        /\ UNCHANGED <<drafts, draftCount>>
    BY <1>8, <2>1 DEF Retire, Close, QueueInv, HeadInv
  <2>3. \A u \in Seqs : state'[u] \in {"none", "Waiting"} => state'[u] = state[u]
    BY <1>0, <2>2
  <2>4. Drafting' \subseteq Drafting
    BY <1>b, <2>2 DEF Drafting
  <2> QED BY <1>0, <2>2, <2>3, <2>4, DraftsKept
<1>9. CASE ExtendOverflow
  BY <1>c, <1>9 DEF ExtendOverflow, OutOfBlocks, Close
<1>10. CASE PreemptYoungest
  <2>1. PICK v : v = LastOf(running)
    OBVIOUS
  <2>2. /\ Range(running) # {} /\ ClearDrafts(v) /\ running' = Without(running, v)
        /\ state' = [state EXCEPT ![v] = "Waiting"]
    BY <1>10, <2>1 DEF PreemptYoungest, OutOfBlocks, Preempt
  <2>3. Len(running) \in DOMAIN running
    BY <1>0, <2>2 DEF Range
  <2>4. v \in Range(running)
    BY <2>1, <2>3 DEF LastOf, Range
  <2> QED BY <1>c, <2>2, <2>4
<1>11. CASE ReserveRefused
  BY <1>c, <1>11 DEF ReserveRefused
<1> QED BY <1>1, <1>2, <1>3, <1>4, <1>5, <1>6, <1>7, <1>8, <1>9, <1>10, <1>11
        DEF AnyNext, StepNext, VerifyNext, QuietStep

(* Initially nobody runs and nobody has drafts.                            *)
LEMMA DraftInit == Init => DraftInv
<1> SUFFICES ASSUME Init PROVE DraftInv
  OBVIOUS
<1>1. running = <<>> /\ draftCount = 0 /\ drafts = [s \in Seqs |-> <<>>]
  BY DEF Init, SchedInit
<1>2. Drafting = {}
  BY <1>1 DEF Drafting, Range
<1> QED BY <1>1, <1>2, FS_EmptySet DEF DraftInv

(* The count stays above the drafts there are, stuttering included.        *)
LEMMA DraftNextInv == QueueInv /\ DraftInv /\ [AnyNext]_vars => DraftInv'
<1> SUFFICES ASSUME QueueInv, DraftInv, [AnyNext]_vars PROVE DraftInv'
  OBVIOUS
<1>1. CASE UNCHANGED vars
  <2>1. UNCHANGED <<drafts, draftCount, running, state>>
    BY <1>1 DEF vars, schedVars, seqVars, queueVars
  <2> QED BY <2>1, DraftsKept DEF Drafting, QueueInv
<1> QED BY <1>1, DraftNext

(* scheduler.rs set_drafts, abort, preempt_to_waiting_for_recompute: the   *)
(* unsigned num_running_with_drafts never goes below the number of running *)
(* sequences that carry drafts, so no subtraction from it underflows.      *)
THEOREM DraftCountBounds == Spec => []DraftInv
<1> QED BY DraftNextInv, DraftInit, QueueInvariant, NextIsAny, PTL DEF Spec

-----------------------------------------------------------------------------
(* The order of arrival, as long as no drafts are proposed: a verify step   *)
(* puts a sequence it has no blocks for back in front of older ones, and is *)
(* the only step that does. Ids are given in order, so a new sequence is    *)
(* younger than every one there is.                                         *)
OrderInv ==
    /\ OldestFirst
    /\ phase # "verify"
    /\ \A s \in Seqs : drafts[s] = <<>>
    /\ \A s, u \in Seqs : state[s] # "none" /\ state[u] = "none" => s < u

(* An ascending queue without one of its elements.                         *)
LEMMA AscendingWithout ==
    ASSUME NEW q \in Seq(Nat), NEW e \in Range(q), Ascending(q)
    PROVE  Ascending(Without(q, e))
<1> DEFINE k == CHOOSE i \in 1 .. Len(q) : q[i] = e
           r == [i \in 1 .. Len(q) - 1 |-> IF i < k THEN q[i] ELSE q[i + 1]]
<1>1. Len(q) \in Nat /\ DOMAIN q = 1 .. Len(q)
  OBVIOUS
<1>2. k \in 1 .. Len(q)
  BY <1>1 DEF Range
<1>3. r = Without(q, e)
  BY DEF Without
<1> HIDE DEF k
<1>4. Len(r) = Len(q) - 1 /\ Len(q) - 1 \in Nat
  BY <1>1, <1>2
<1>5. \A i \in 1 .. Len(q) - 1 : r[i] = IF i < k THEN q[i] ELSE q[i + 1]
  OBVIOUS
<1> HIDE DEF r
<1>6. ASSUME NEW i \in 1 .. Len(q) - 1, NEW j \in 1 .. Len(q) - 1, i < j
      PROVE  r[i] < r[j]
  <2>0. \A m, n \in 1 .. Len(q) : m < n => q[m] < q[n]
    BY DEF Ascending
  <2>1. CASE j < k
    <3>1. r[i] = q[i] /\ r[j] = q[j] /\ i \in 1 .. Len(q) /\ j \in 1 .. Len(q)
      BY <1>1, <1>2, <1>5, <1>6, <2>1
    <3> QED BY <1>6, <2>0, <3>1
  <2>2. CASE i < k /\ ~(j < k)
    <3>1. r[i] = q[i] /\ r[j] = q[j + 1] /\ i \in 1 .. Len(q) /\ j + 1 \in 1 .. Len(q)
          /\ i < j + 1
      BY <1>1, <1>2, <1>5, <1>6, <2>2
    <3> QED BY <2>0, <3>1
  <2>3. CASE ~(i < k)
    <3>1. r[i] = q[i + 1] /\ r[j] = q[j + 1] /\ i + 1 \in 1 .. Len(q)
          /\ j + 1 \in 1 .. Len(q) /\ i + 1 < j + 1
      BY <1>1, <1>2, <1>5, <1>6, <2>3
    <3> QED BY <2>0, <3>1
  <2> QED BY <2>1, <2>2, <2>3
<1> QED BY <1>3, <1>4, <1>6 DEF Ascending

(* An ascending queue without its first element, which is the smallest.    *)
LEMMA AscendingTail ==
    ASSUME NEW q \in Seq(Nat), q # <<>>, Ascending(q)
    PROVE  /\ Ascending(Tail(q))
           /\ Range(Tail(q)) \subseteq Range(q) /\ Head(q) \in Range(q)
           /\ \A x \in Range(Tail(q)) : Head(q) < x
<1>1. /\ Len(Tail(q)) = Len(q) - 1 /\ Len(q) \in Nat /\ Len(q) >= 1
      /\ Head(q) = q[1] /\ DOMAIN q = 1 .. Len(q)
      /\ DOMAIN Tail(q) = 1 .. Len(q) - 1
      /\ \A i \in 1 .. Len(q) - 1 : Tail(q)[i] = q[i + 1]
  OBVIOUS
<1>2. Ascending(Tail(q))
  BY <1>1 DEF Ascending
<1>3. ASSUME NEW x \in Range(Tail(q)) PROVE x \in Range(q) /\ Head(q) < x
  <2>1. PICK i \in 1 .. Len(q) - 1 : x = Tail(q)[i]
    BY <1>1 DEF Range
  <2>2. i + 1 \in 1 .. Len(q) /\ x = q[i + 1] /\ 1 < i + 1 /\ 1 \in 1 .. Len(q)
    BY <1>1, <2>1
  <2>3. x \in Range(q)
    BY <1>1, <2>2 DEF Range
  <2>4. q[1] < q[i + 1]
    BY <2>2 DEF Ascending
  <2> QED BY <1>1, <2>2, <2>3, <2>4
<1>4. Head(q) \in Range(q)
  BY <1>1 DEF Range
<1> QED BY <1>2, <1>3, <1>4

(* A new largest element at the end.                                       *)
LEMMA AscendingAppend ==
    ASSUME NEW q \in Seq(Nat), NEW e \in Nat, Ascending(q), \A x \in Range(q) : x < e
    PROVE  Ascending(Append(q, e)) /\ Range(Append(q, e)) \subseteq Range(q) \cup {e}
<1> DEFINE r == Append(q, e)
<1>1. /\ Len(q) \in Nat /\ DOMAIN q = 1 .. Len(q)
      /\ DOMAIN r = 1 .. Len(q) + 1 /\ Len(r) = Len(q) + 1
      /\ r[Len(q) + 1] = e
      /\ \A i \in 1 .. Len(q) : r[i] = q[i]
  OBVIOUS
<1>2. \A i \in 1 .. Len(q) : q[i] < e
  BY <1>1 DEF Range
<1> HIDE DEF r
<1>3. ASSUME NEW i \in 1 .. Len(q) + 1, NEW j \in 1 .. Len(q) + 1, i < j
      PROVE  r[i] < r[j]
  <2>1. i \in 1 .. Len(q) /\ r[i] = q[i]
    BY <1>1, <1>3
  <2>2. CASE j = Len(q) + 1
    BY <1>1, <1>2, <2>1, <2>2
  <2>3. CASE j # Len(q) + 1
    <3>1. j \in 1 .. Len(q) /\ r[j] = q[j]
      BY <1>1, <2>3
    <3> QED BY <1>3, <2>1, <3>1 DEF Ascending
  <2> QED BY <2>2, <2>3
<1>4. Ascending(r)
  BY <1>1, <1>3 DEF Ascending
<1>5. ASSUME NEW x \in Range(r) PROVE x \in Range(q) \cup {e}
  <2>1. PICK i \in 1 .. Len(q) + 1 : x = r[i]
    BY <1>1, <1>5 DEF Range
  <2>2. CASE i = Len(q) + 1
    BY <1>1, <2>1, <2>2
  <2>3. CASE i \in 1 .. Len(q)
    BY <1>1, <2>1, <2>3 DEF Range
  <2> QED BY <1>1, <2>2, <2>3
<1> QED BY <1>4, <1>5 DEF r

(* A new smallest element at the front.                                    *)
LEMMA AscendingPushFront ==
    ASSUME NEW q \in Seq(Nat), NEW e \in Nat, Ascending(q), \A x \in Range(q) : e < x
    PROVE  Ascending(<<e>> \o q) /\ Range(<<e>> \o q) \subseteq Range(q) \cup {e}
<1> DEFINE r == <<e>> \o q
<1>1. /\ Len(q) \in Nat /\ DOMAIN q = 1 .. Len(q)
      /\ DOMAIN r = 1 .. Len(q) + 1 /\ Len(r) = Len(q) + 1
      /\ r[1] = e
      /\ \A i \in 2 .. Len(q) + 1 : r[i] = q[i - 1]
  OBVIOUS
<1>2. \A i \in 1 .. Len(q) : e < q[i]
  BY <1>1 DEF Range
<1> HIDE DEF r
<1>3. ASSUME NEW i \in 1 .. Len(q) + 1, NEW j \in 1 .. Len(q) + 1, i < j
      PROVE  r[i] < r[j]
  <2>1. j - 1 \in 1 .. Len(q) /\ r[j] = q[j - 1]
    BY <1>1, <1>3
  <2>2. CASE i = 1
    BY <1>1, <1>2, <2>1, <2>2
  <2>3. CASE i # 1
    <3>1. i - 1 \in 1 .. Len(q) /\ r[i] = q[i - 1] /\ i - 1 < j - 1
      BY <1>1, <1>3, <2>3
    <3> QED BY <2>1, <3>1 DEF Ascending
  <2> QED BY <2>2, <2>3
<1>4. Ascending(r)
  BY <1>1, <1>3 DEF Ascending
<1>5. ASSUME NEW x \in Range(r) PROVE x \in Range(q) \cup {e}
  <2>1. PICK i \in 1 .. Len(q) + 1 : x = r[i]
    BY <1>1, <1>5 DEF Range
  <2>2. CASE i = 1
    BY <1>1, <2>1, <2>2
  <2>3. CASE i \in 2 .. Len(q) + 1
    <3>1. i - 1 \in 1 .. Len(q) /\ x = q[i - 1]
      BY <1>1, <2>1, <2>3
    <3> QED BY <1>1, <3>1 DEF Range
  <2> QED BY <1>1, <2>2, <2>3
<1> QED BY <1>4, <1>5 DEF r

(* The last of an ascending queue is the largest.                          *)
LEMMA AscendingLast ==
    ASSUME NEW q \in Seq(Nat), Ascending(q), Range(q) # {}
    PROVE  /\ LastOf(q) \in Range(q)
           /\ \A x \in Range(q) : x = LastOf(q) \/ x < LastOf(q)
<1>1. /\ Len(q) \in Nat /\ DOMAIN q = 1 .. Len(q) /\ Len(q) \in DOMAIN q
  BY DEF Range
<1>2. LastOf(q) = q[Len(q)] /\ LastOf(q) \in Range(q)
  BY <1>1 DEF LastOf, Range
<1>3. ASSUME NEW x \in Range(q) PROVE x = q[Len(q)] \/ x < q[Len(q)]
  <2>1. PICK i \in 1 .. Len(q) : x = q[i]
    BY <1>1 DEF Range
  <2> QED BY <1>1, <2>1 DEF Ascending
<1> QED BY <1>2, <1>3

(* Facts about the queues that every case needs.                           *)
LEMMA OrderFacts ==
    ASSUME QueueInv
    PROVE  /\ running \in Seq(Nat) /\ waiting \in Seq(Nat)
           /\ running \in Seq(Seqs) /\ waiting \in Seq(Seqs)
           /\ IsInjective(running) /\ IsInjective(waiting)
           /\ Range(running) \subseteq Seqs /\ Range(waiting) \subseteq Seqs
           /\ InTransit \subseteq Seqs /\ Seqs \subseteq Nat
           /\ \A s \in Range(running) \cup Range(waiting) \cup InTransit : state[s] # "none"
           /\ drafts \in [Seqs -> Seq(Token)]
           /\ state \in [Seqs -> {"none", "Waiting", "Prefill", "Decode",
                                  "Finished", "Aborted"}]
<1>1. PlaceInv /\ PoolInv /\ HeadInv
  BY DEF QueueInv
<1>2. /\ running \in Seq(Seqs) /\ waiting \in Seq(Seqs)
      /\ IsInjective(running) /\ IsInjective(waiting)
      /\ drafts \in [Seqs -> Seq(Token)]
      /\ state \in [Seqs -> {"none", "Waiting", "Prefill", "Decode",
                             "Finished", "Aborted"}]
  BY <1>1 DEF PlaceInv, PlaceTypes, OnePlace, HeadInv
<1>3. running \in Seq(Nat) /\ waiting \in Seq(Nat) /\ Seqs \subseteq Nat
  <2>1. Seqs \subseteq Nat
    BY SchedulerAssumption
  <2>2. ASSUME NEW q \in Seq(Seqs) PROVE q \in Seq(Nat)
    <3>1. /\ Len(q) \in Nat /\ q \in [1 .. Len(q) -> Seqs]
      OBVIOUS
    <3>2. q \in [1 .. Len(q) -> Nat]
      BY <2>1, <3>1
    <3> QED BY <3>1, <3>2
  <2> QED BY <1>2, <2>1, <2>2
<1>4. Range(running) \subseteq Seqs /\ Range(waiting) \subseteq Seqs
  BY <1>1, PlaceFacts
<1>5. InTransit \subseteq Seqs
  BY <1>1 DEF InTransit, PoolInv, PoolTypeOK, Op, Idle
<1>6. \A s \in Range(running) \cup Range(waiting) \cup InTransit : state[s] # "none"
  BY <1>1, <1>4, <1>5 DEF PlaceInv, OnePlace
<1> QED BY <1>2, <1>3, <1>4, <1>5, <1>6

(* Sequences leave, and nobody joins.                                      *)
LEMMA OrderShrinks ==
    ASSUME OldestFirst, Ascending(running'), Ascending(waiting'),
           Range(running') \subseteq Range(running),
           Range(waiting') \subseteq Range(waiting),
           InTransit' \subseteq InTransit
    PROVE  OldestFirst'
  BY DEF OldestFirst

(* The rest of the invariant, for steps that start no sequence and give    *)
(* nobody drafts.                                                          *)
LEMMA OrderFrame ==
    ASSUME OrderInv, OldestFirst', phase' # "verify",
           \A s \in Seqs : drafts'[s] = <<>>,
           \A s \in Seqs : state'[s] = "none" <=> state[s] = "none"
    PROVE  OrderInv'
  BY DEF OrderInv

(* Without drafts, every step keeps the order of arrival.                  *)
LEMMA OrderNext ==
    ASSUME Drafts \subseteq {<<>>}, QueueInv, OrderInv, AnyNext
    PROVE  OrderInv'
<1>0. /\ running \in Seq(Nat) /\ waiting \in Seq(Nat)
      /\ running \in Seq(Seqs) /\ waiting \in Seq(Seqs)
      /\ IsInjective(running) /\ IsInjective(waiting)
      /\ Range(running) \subseteq Seqs /\ Range(waiting) \subseteq Seqs
      /\ InTransit \subseteq Seqs /\ Seqs \subseteq Nat
      /\ \A s \in Range(running) \cup Range(waiting) \cup InTransit : state[s] # "none"
      /\ drafts \in [Seqs -> Seq(Token)]
      /\ state \in [Seqs -> {"none", "Waiting", "Prefill", "Decode",
                             "Finished", "Aborted"}]
  BY OrderFacts
<1>1. /\ OldestFirst /\ Ascending(running) /\ Ascending(waiting)
      /\ phase # "verify" /\ \A s \in Seqs : drafts[s] = <<>>
  BY DEF OrderInv, OldestFirst
<1>a. ASSUME UNCHANGED <<running, waiting, drafts>>, phase' # "verify",
             InTransit' \subseteq InTransit,
             \A s \in Seqs : state'[s] = "none" <=> state[s] = "none"
      PROVE  OrderInv'
  <2>1. OldestFirst'
    BY <1>1, <1>a, OrderShrinks
  <2>2. \A s \in Seqs : drafts'[s] = <<>>
    BY <1>1, <1>a
  <2> QED BY <1>a, <2>1, <2>2, OrderFrame
<1>b. ASSUME NEW s \in Range(running), NEW st, st # "none",
             state' = [state EXCEPT ![s] = st]
      PROVE  \A u \in Seqs : state'[u] = "none" <=> state[u] = "none"
  BY <1>0, <1>b
<1>c. ASSUME NEW s \in Range(running), DeallocateBegin(s)
      PROVE  InTransit = {} /\ InTransit' = {}
  BY <1>c DEF DeallocateBegin, InTransit, Idle
<1>d. ASSUME NEW s \in Range(running), running' = Without(running, s)
      PROVE  Ascending(running') /\ Range(running') = Range(running) \ {s}
  BY <1>0, <1>1, <1>d, AscendingWithout, WithoutInjective
<1>e. ASSUME NEW s \in Range(running), running' = Without(running, s),
             DeallocateBegin(s), NEW st, st # "none",
             state' = [state EXCEPT ![s] = st],
             waiting' = waiting, phase' # "verify",
             drafts' = drafts \/ drafts' = [drafts EXCEPT ![s] = <<>>]
      PROVE  OrderInv'
  <2>1. OldestFirst'
    BY <1>1, <1>c, <1>d, <1>e, OrderShrinks
  <2>2. \A u \in Seqs : drafts'[u] = <<>>
    BY <1>0, <1>1, <1>e
  <2>3. \A u \in Seqs : state'[u] = "none" <=> state[u] = "none"
    BY <1>b, <1>e
  <2> QED BY <1>e, <2>1, <2>2, <2>3, OrderFrame
<1>f. ~VerifyReady
  BY <1>0, <1>1 DEF VerifyReady
<1>2. CASE QuietStep
  <2>1. UNCHANGED <<op, running, waiting, state>>
    BY <1>2 DEF QuietStep, SetDrafts, StepMixed, ScheduleChunk, FinishBuild,
         ItemNotRunning, ApplyChunk, ExtendDone, StepDone, StepVerify,
         ReserveDone, FinishVerifyBatch, VerifyOutcome, seqVars, queueVars, poolVars
  <2>2. OldestFirst'
    BY <1>1, <2>1 DEF OldestFirst, InTransit
  <2>3. phase' # "verify"
    BY <1>1, <1>2, <1>f DEF QuietStep, SetDrafts, StepMixed, ScheduleChunk, FinishBuild,
         ItemNotRunning, ApplyChunk, ExtendDone, StepDone, StepVerify,
         ReserveDone, FinishVerifyBatch, VerifyOutcome, stepVars
  <2>4. ASSUME NEW u \in Seqs PROVE drafts'[u] = <<>>
    <3>1. CASE drafts' = drafts
      BY <1>1, <3>1
    <3>2. CASE \E s \in Seqs, d \in Drafts : SetDrafts(s, d)
      <4>1. PICK s \in Seqs, d \in Drafts : SetDrafts(s, d)
        BY <3>2
      <4>2. drafts' = [drafts EXCEPT ![s] = d] /\ d = <<>>
        BY <4>1 DEF SetDrafts
      <4> QED BY <1>0, <1>1, <4>2
    <3>3. CASE \E t \in Token : VerifyOutcome(t)
      <4>1. PICK s : s = Head(batch).seq
        OBVIOUS
      <4>2. drafts' = [drafts EXCEPT ![s] = <<>>]
        BY <3>3, <4>1 DEF VerifyOutcome, ClearDrafts
      <4> QED BY <1>0, <1>1, <4>2
    <3> QED BY <1>2, <3>1, <3>2, <3>3
            DEF QuietStep, StepMixed, ScheduleChunk, FinishBuild, ItemNotRunning,
                ApplyChunk, ExtendDone, StepDone, StepVerify, ReserveDone,
                FinishVerifyBatch, seqVars
  <2> QED BY <2>1, <2>2, <2>3, <2>4, OrderFrame
<1>3. CASE DrainFinished \/ PoolStep \/ ExtendGrow \/ ReserveGrow \/ Accept
           \/ \E t \in Token : ApplyToken(t)
  <2>1. UNCHANGED <<running, waiting, drafts>> /\ phase' # "verify"
    BY <1>1, <1>3 DEF DrainFinished, PoolStep, ExtendGrow, ReserveGrow, Accept, ApplyToken,
                 seqVars, queueVars, stepVars, schedVars
  <2>2. InTransit' \subseteq InTransit
    <3>1. CASE PoolStep
      <4>1. CASE AcquireShared \/ AcquireFresh
        BY <4>1 DEF AcquireShared, AcquireFresh, InTransit, QueueInv, PoolInv,
                    PoolTypeOK, Op, Idle
      <4>2. CASE ExtendNext \/ ReleaseLast
        <5>1. op.kind # "alloc" /\ (op' = op \/ op' = Idle)
          BY <4>2 DEF ExtendNext, ReleaseLast
        <5> QED BY <5>1 DEF InTransit, Idle
      <4> QED BY <3>1, <4>1, <4>2 DEF PoolStep
    <3>2. CASE DrainFinished \/ Accept \/ \E t \in Token : ApplyToken(t)
      BY <3>2 DEF DrainFinished, Accept, ApplyToken, AcceptToken, AppendToken,
                  poolVars, InTransit
    <3>3. CASE ExtendGrow \/ ReserveGrow
      BY <3>3 DEF ExtendGrow, ReserveGrow, ExtendFor, InTransit, Idle
    <3> QED BY <1>3, <3>1, <3>2, <3>3
  <2>3. \A s \in Seqs : state'[s] = "none" <=> state[s] = "none"
    <3>1. CASE state' = state
      BY <3>1
    <3>2. CASE \E t \in Token : ApplyToken(t)
      <4>1. PICK s : s = Head(batch).seq
        OBVIOUS
      <4>2. s \in Range(running) /\ state' = [state EXCEPT ![s] = "Decode"]
        BY <3>2, <4>1 DEF ApplyToken
      <4> QED BY <1>b, <4>2
    <3> QED BY <1>3, <3>1, <3>2 DEF DrainFinished, PoolStep, ExtendGrow, ReserveGrow,
                                    Accept, seqVars, schedVars
  <2> QED BY <1>a, <2>1, <2>2, <2>3
<1>4. ASSUME NEW s \in Seqs, NEW p \in Prompts, NEW m \in Nat, Enqueue(s, p, m)
      PROVE  OrderInv'
  <2>1. /\ state[s] = "none" /\ \A u \in Seqs : u < s => state[u] # "none"
        /\ state' = [state EXCEPT ![s] = "Waiting"]
        /\ waiting' = Append(waiting, s) /\ op = Idle /\ op' = op
        /\ UNCHANGED <<drafts, running, phase>>
    BY <1>4 DEF Enqueue, Arrive, stepVars
  <2>2. \A u \in Seqs : state[u] # "none" => u < s
    BY <2>1 DEF OrderInv
  <2>3. /\ Ascending(waiting') /\ Range(waiting') \subseteq Range(waiting) \cup {s}
    BY <1>0, <1>1, <2>1, <2>2, AscendingAppend
  <2>4. InTransit = {} /\ InTransit' = {}
    BY <2>1 DEF InTransit, Idle
  <2>5. OldestFirst'
    <3>1. Ascending(running')
      BY <1>1, <2>1
    <3>2. ASSUME NEW r \in Range(running), NEW w \in Range(waiting') PROVE r < w
      <4>1. CASE w = s
        BY <1>0, <2>2, <4>1
      <4>2. CASE w \in Range(waiting)
        BY <1>1, <4>2 DEF OldestFirst
      <4> QED BY <2>3, <4>1, <4>2
    <3> QED BY <2>1, <2>3, <2>4, <3>1, <3>2 DEF OldestFirst
  <2>6. ASSUME NEW u \in Seqs, NEW v \in Seqs, state'[u] # "none", state'[v] = "none"
        PROVE  u < v
    <3>1. v # s /\ state[v] = "none" /\ ~(v < s)
      BY <1>0, <2>1, <2>6
    <3>2. s < v
      BY <1>0, <3>1
    <3>3. u = s \/ u < s
      BY <1>0, <2>1, <2>2, <2>6
    <3> QED BY <1>0, <3>2, <3>3
  <2>7. \A u \in Seqs : drafts'[u] = <<>>
    BY <1>1, <2>1
  <2>8. phase' # "verify"
    BY <1>1, <2>1
  <2> QED BY <2>5, <2>6, <2>7, <2>8 DEF OrderInv
<1>5. ASSUME NEW s \in Seqs, Abort(s) PROVE OrderInv'
  <2>1. CASE AbortWaiting(s)
    <3>1. /\ s \in Range(waiting) /\ waiting' = Without(waiting, s)
          /\ state' = [state EXCEPT ![s] = "Aborted"]
          /\ UNCHANGED <<op, drafts, running, phase>>
      BY <2>1 DEF AbortWaiting, Close, poolVars, stepVars
    <3>2. Ascending(waiting') /\ Range(waiting') \subseteq Range(waiting)
      BY <1>0, <1>1, <3>1, AscendingWithout, WithoutInjective
    <3>3. OldestFirst'
      BY <1>1, <3>1, <3>2, OrderShrinks DEF InTransit
    <3>4. \A u \in Seqs : state'[u] = "none" <=> state[u] = "none"
      BY <1>0, <3>1
    <3>5. \A u \in Seqs : drafts'[u] = <<>>
      BY <1>1, <3>1
    <3>6. phase' # "verify"
      BY <1>1, <3>1
    <3> QED BY <3>3, <3>4, <3>5, <3>6, OrderFrame
  <2>2. CASE AbortRunning(s)
    <3>1. /\ s \in Range(running) /\ running' = Without(running, s) /\ DeallocateBegin(s)
          /\ state' = [state EXCEPT ![s] = "Aborted"]
          /\ drafts' = [drafts EXCEPT ![s] = <<>>]
          /\ UNCHANGED <<waiting, phase>>
      BY <2>2 DEF AbortRunning, Close, ClearDrafts, stepVars
    <3> QED BY <1>1, <1>e, <3>1
  <2> QED BY <1>5, <2>1, <2>2 DEF Abort
<1>6. CASE AdmitEmpty
  <2>1. PICK s : s = Head(waiting)
    OBVIOUS
  <2>2. /\ waiting # <<>> /\ waiting' = Tail(waiting)
        /\ state' = [state EXCEPT ![s] = "Aborted"]
        /\ UNCHANGED <<op, drafts, running, phase>>
    BY <1>6, <2>1 DEF AdmitEmpty, Close, poolVars, stepVars
  <2>3. /\ Ascending(waiting') /\ Range(waiting') \subseteq Range(waiting)
        /\ s \in Range(waiting)
    BY <1>0, <1>1, <2>1, <2>2, AscendingTail
  <2>4. OldestFirst'
    BY <1>1, <2>2, <2>3, OrderShrinks DEF InTransit
  <2>5. \A u \in Seqs : state'[u] = "none" <=> state[u] = "none"
    BY <1>0, <2>2, <2>3
  <2>6. \A u \in Seqs : drafts'[u] = <<>>
    BY <1>1, <2>2
  <2>7. phase' # "verify"
    BY <1>1, <2>2
  <2> QED BY <2>4, <2>5, <2>6, <2>7, OrderFrame
<1>7. CASE AdmitBegin
  <2>1. PICK s : s = Head(waiting)
    OBVIOUS
  <2>2. /\ waiting # <<>> /\ waiting' = Tail(waiting) /\ op = Idle
        /\ op' = [kind |-> "alloc", seq |-> s, cached |-> 0, leading |-> TRUE]
        /\ UNCHANGED <<drafts, running, phase, state>>
    BY <1>7, <2>1 DEF AdmitBegin, AllocateBegin, seqVars, stepVars
  <2>3. /\ Ascending(waiting') /\ Range(waiting') \subseteq Range(waiting)
        /\ s \in Range(waiting) /\ \A w \in Range(waiting') : s < w
    BY <1>0, <1>1, <2>1, <2>2, AscendingTail
  <2>4. InTransit' = {s}
    BY <2>2 DEF InTransit
  <2>5. OldestFirst'
    BY <1>1, <2>2, <2>3, <2>4 DEF OldestFirst
  <2>6. \A u \in Seqs : drafts'[u] = <<>>
    BY <1>1, <2>2
  <2>7. phase' # "verify"
    BY <1>1, <2>2
  <2> QED BY <2>2, <2>5, <2>6, <2>7, OrderFrame
<1>8. CASE AdmitEnd
  <2>1. PICK s : s = op.seq
    OBVIOUS
  <2>2. op.kind = "alloc" /\ s \in Seqs
    BY <1>8, <2>1 DEF AdmitEnd, AllocateEnd, Allocated, QueueInv, PoolInv,
                      PoolTypeOK, Op, Idle
  <2>3. InTransit = {s}
    BY <2>1, <2>2 DEF InTransit
  <2>4. /\ running' = Append(running, s) /\ op' = Idle
        /\ state' = [state EXCEPT ![s] = "Prefill"]
        /\ UNCHANGED <<waiting, drafts, phase>>
    BY <1>8, <2>1 DEF AdmitEnd, AllocateEnd
  <2>5. InTransit' = {}
    BY <2>4 DEF InTransit, Idle
  <2>6. \A r \in Range(running) : r < s
    BY <1>1, <2>3 DEF OldestFirst
  <2>7. /\ Ascending(running') /\ Range(running') \subseteq Range(running) \cup {s}
    BY <1>0, <1>1, <2>2, <2>4, <2>6, AscendingAppend
  <2>8. OldestFirst'
    BY <1>1, <2>3, <2>4, <2>5, <2>7 DEF OldestFirst
  <2>9. \A u \in Seqs : state'[u] = "none" <=> state[u] = "none"
    BY <1>0, <2>3, <2>4
  <2>10. \A u \in Seqs : drafts'[u] = <<>>
    BY <1>1, <2>4
  <2>11. phase' # "verify"
    BY <1>1, <2>4
  <2> QED BY <2>8, <2>9, <2>10, <2>11, OrderFrame
<1>9. CASE Retire
  <2>1. PICK s : s = Head(batch).seq
    OBVIOUS
  <2>2. /\ s \in Range(running) /\ running' = Without(running, s) /\ DeallocateBegin(s)
        /\ state' = [state EXCEPT ![s] = "Finished"]
        /\ UNCHANGED <<waiting, drafts>> /\ phase' # "verify"
    BY <1>9, <2>1 DEF Retire, Close, QueueInv, HeadInv
  <2> QED BY <1>e, <2>2
<1>10. CASE ExtendOverflow
  <2>1. PICK s : s = Head(todo)
    OBVIOUS
  <2>2. /\ s \in Range(running) /\ running' = Without(running, s) /\ DeallocateBegin(s)
        /\ state' = [state EXCEPT ![s] = "Aborted"]
        /\ drafts' = [drafts EXCEPT ![s] = <<>>]
        /\ UNCHANGED <<waiting, phase>>
    BY <1>10, <2>1 DEF ExtendOverflow, OutOfBlocks, Close, ClearDrafts
  <2> QED BY <1>1, <1>e, <2>2
<1>11. CASE PreemptYoungest
  <2>1. PICK v : v = LastOf(running)
    OBVIOUS
  <2>2. /\ Range(running) # {} /\ running' = Without(running, v) /\ DeallocateBegin(v)
        /\ waiting' = <<v>> \o waiting
        /\ state' = [state EXCEPT ![v] = "Waiting"]
        /\ drafts' = [drafts EXCEPT ![v] = <<>>]
        /\ phase' = phase
    BY <1>11, <2>1 DEF PreemptYoungest, OutOfBlocks, Preempt, ClearDrafts
  <2>3. /\ v \in Range(running) /\ v \in Nat
        /\ \A r \in Range(running) : r = v \/ r < v
    BY <1>0, <1>1, <2>1, <2>2, AscendingLast
  <2>4. InTransit = {} /\ InTransit' = {}
    BY <1>c, <2>2, <2>3
  <2>5. Ascending(running') /\ Range(running') = Range(running) \ {v}
    BY <1>d, <2>2, <2>3
  <2>6. \A w \in Range(waiting) : v < w
    BY <1>1, <2>3 DEF OldestFirst
  <2>7. Ascending(waiting') /\ Range(waiting') \subseteq Range(waiting) \cup {v}
    BY <1>0, <1>1, <2>2, <2>3, <2>6, AscendingPushFront
  <2>8. OldestFirst'
    BY <1>1, <2>3, <2>4, <2>5, <2>7 DEF OldestFirst
  <2>9. \A u \in Seqs : drafts'[u] = <<>>
    BY <1>0, <1>1, <2>2
  <2>10. \A u \in Seqs : state'[u] = "none" <=> state[u] = "none"
    BY <1>b, <2>2, <2>3
  <2>11. phase' # "verify"
    BY <1>1, <2>2
  <2> QED BY <2>8, <2>9, <2>10, <2>11, OrderFrame
<1>12. CASE ReserveRefused
  BY <1>1, <1>12 DEF ReserveRefused, Reserving
<1> QED BY <1>2, <1>3, <1>4, <1>5, <1>6, <1>7, <1>8, <1>9, <1>10, <1>11, <1>12
        DEF AnyNext, StepNext, VerifyNext, QuietStep

(* Initially there is nobody.                                              *)
LEMMA OrderInit == Init => OrderInv
<1> SUFFICES ASSUME Init PROVE OrderInv
  OBVIOUS
<1>1. /\ running = <<>> /\ waiting = <<>> /\ phase = "idle" /\ op = Idle
      /\ drafts = [s \in Seqs |-> <<>>] /\ state = [s \in Seqs |-> "none"]
  BY DEF Init, SchedInit, PoolInit
<1>2. Ascending(<<>>) /\ Range(<<>>) = {}
  BY DEF Ascending, Range
<1>3. InTransit = {}
  BY <1>1 DEF InTransit, Idle
<1> QED BY <1>1, <1>2, <1>3 DEF OrderInv, OldestFirst

(* scheduler.rs preempt_to_waiting_for_recompute, step: without            *)
(* speculation no sequence overtakes an older one. Whatever is admitted,   *)
(* aborted, preempted and recomputed, the running sequences, the one being *)
(* admitted and the queue are oldest first.                                *)
THEOREM OrderCorrect ==
    ASSUME Drafts \subseteq {<<>>}
    PROVE  Spec => []OldestFirst
<1>1. QueueInv /\ OrderInv /\ [AnyNext]_vars => OrderInv'
  <2> SUFFICES ASSUME QueueInv, OrderInv, [AnyNext]_vars PROVE OrderInv'
    OBVIOUS
  <2>1. CASE UNCHANGED vars
    <3>1. UNCHANGED <<running, waiting, op, drafts, state, phase>>
      BY <2>1 DEF vars, poolVars, schedVars, seqVars, queueVars, stepVars
    <3> QED BY <3>1 DEF OrderInv, OldestFirst, InTransit
  <2> QED BY <2>1, OrderNext
<1>2. OrderInv => OldestFirst
  BY DEF OrderInv
<1> QED BY <1>1, <1>2, OrderInit, QueueInvariant, NextIsAny, PTL DEF Spec
=============================================================================
