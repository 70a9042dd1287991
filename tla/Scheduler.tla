----------------------------- MODULE Scheduler -----------------------------
(***************************************************************************)
(* The continuous-batching scheduler of nv-engine (scheduler.rs and        *)
(* sequence.rs) over the block pool: a waiting queue, the running          *)
(* sequences in order of admission, and step / complete_step, which build  *)
(* a batch of decode tokens and prefill chunks, apply the sampled tokens,  *)
(* and preempt the youngest sequence when the pool runs out of blocks.     *)
(*                                                                         *)
(* `phase' says where the scheduler is inside step or complete_step; `kv'  *)
(* is not a variable of the code but the device memory the block tables    *)
(* point into: for each slot, the token prefix its KV was computed from.   *)
(***************************************************************************)
EXTENDS BlockManager

CONSTANTS
    MaxNews,           \* the max_new_tokens requests ask for
    Eos,               \* the end-of-sequence token
    Drafts,            \* the draft sequences a caller may propose
    MaxBatchSize,      \* SchedulerConfig::max_batch_size
    MaxBatchedTokens,  \* SchedulerConfig::max_batched_tokens
    PrefillChunkMin,   \* NV_PREFILL_CHUNK_MIN
    PrefixCacheReuse   \* Scheduler::prefix_cache_reuse

ASSUME SchedulerAssumption ==
    /\ Seqs \subseteq Nat
    /\ MaxNews \subseteq Nat
    /\ Drafts \subseteq Seq(Token)
    /\ MaxBatchSize \in Nat /\ MaxBatchedTokens \in Nat
    /\ PrefillChunkMin \in Nat
    /\ PrefixCacheReuse \in BOOLEAN

VARIABLES
    state,       \* Sequence::state ("none" before the sequence exists)
    reason,      \* Sequence::finish_reason
    plen,        \* Sequence::prompt.len()
    maxNew,      \* Sequence::max_new_tokens
    computed,    \* Sequence::num_computed_tokens
    drafts,      \* Sequence::draft_tokens
    waiting,     \* Scheduler::waiting, front first
    running,     \* Scheduler::running, oldest first
    finished,    \* Scheduler::finished
    draftCount,  \* Scheduler::num_running_with_drafts
    batch,       \* what is left of Scheduler::last_batch, in order
    failures,    \* the sequences complete_step reports as failed
    phase,       \* where step / complete_step stands
    budget,      \* build_mixed_batch: tokens left in this batch
    todo,        \* the sequences a loop has still to visit
    pending,     \* apply_verify_outcome: accepted tokens not yet appended
    kv           \* device memory: the prefix each slot holds the KV of

seqVars == <<state, reason, plen, maxNew, computed, drafts>>
queueVars == <<waiting, running, finished, draftCount>>
stepVars == <<batch, failures, phase, budget, todo, pending>>
schedVars == <<seqVars, queueVars, stepVars, kv>>
vars == <<poolVars, schedVars>>

-----------------------------------------------------------------------------
(* Sequence helpers.                                                       *)

LastOf(q) == q[Len(q)]
FrontOf(q) == SubSeq(q, 1, Len(q) - 1)
Smaller(a, b) == IF a < b THEN a ELSE b

RemainingUncomputed(s) == Len(toks[s]) - computed[s]

IsFinished(s) == state[s] \in {"Finished", "Aborted"}

\* stop_reason for a sequence whose output would be the tokens of text t
\* after its prompt: the end-of-sequence token wins over the length limit.
StopReason(s, t) ==
    IF Len(t) > plen[s] /\ LastOf(t) = Eos THEN "Eos"
    ELSE IF Len(t) - plen[s] >= maxNew[s] THEN "MaxTokens"
    ELSE "none"

\* Mutant: the chunk ignores the room left in the batch.
FlooredTakeWhole(remaining, room, floor) == remaining

\* floored_take: cut a prefill chunk so that no chunk under the floor is
\* left over.
FlooredTake(remaining, room, floor) ==
    LET take == Smaller(remaining, room)
        pulled == remaining - floor
    IN  IF \/ floor <= 1
           \/ take = remaining
           \/ take < floor
           \/ remaining - take >= floor
           \/ pulled < floor
        THEN take ELSE pulled

\* The text positions (from 1) whose KV an item of the batch computes.
Positions(it) ==
    IF it.prefill THEN computed[it.seq] + 1 .. computed[it.seq] + it.n
    ELSE Len(toks[it.seq]) .. Len(toks[it.seq]) + Len(drafts[it.seq])

BlockOf(s, p) == table[s][((p - 1) \div BlockSize) + 1]
SlotOf(p) == ((p - 1) % BlockSize) + 1

\* The forward pass: every item's positions get the KV of their own prefix.
Forward(items) ==
    LET text(s) == toks[s] \o drafts[s]
        writes == UNION {{<<it.seq, p>> : p \in Positions(it)} : it \in items}
        hits(b, slot) == {w \in writes : /\ BlockOf(w[1], w[2]) = b
                                         /\ SlotOf(w[2]) = slot}
    IN  [b \in Blocks |-> [slot \in 1 .. BlockSize |->
            IF hits(b, slot) = {} THEN kv[b][slot]
            ELSE LET w == CHOOSE w \in hits(b, slot) : TRUE
                 IN  SubSeq(text(w[1]), 1, w[2])]]

-----------------------------------------------------------------------------
SchedInit ==
    /\ state = [s \in Seqs |-> "none"]
    /\ reason = [s \in Seqs |-> "none"]
    /\ plen = [s \in Seqs |-> 0]
    /\ maxNew = [s \in Seqs |-> 0]
    /\ computed = [s \in Seqs |-> 0]
    /\ drafts = [s \in Seqs |-> <<>>]
    /\ waiting = <<>> /\ running = <<>> /\ finished = <<>>
    /\ draftCount = 0
    /\ batch = <<>> /\ failures = {}
    /\ phase = "idle" /\ budget = 0 /\ todo = <<>> /\ pending = <<>>
    /\ kv = [b \in Blocks |-> [slot \in 1 .. BlockSize |-> <<>>]]

Init == PoolInit /\ SchedInit

\* Sequence::new and enqueue; ids are handed out in order.
Enqueue(s, p, m) ==
    /\ phase = "idle"
    /\ state[s] = "none"
    /\ \A u \in Seqs : u < s => state[u] # "none"
    /\ Arrive(s, p)
    /\ state' = [state EXCEPT ![s] = "Waiting"]
    /\ plen' = [plen EXCEPT ![s] = Len(p)]
    /\ maxNew' = [maxNew EXCEPT ![s] = m]
    /\ waiting' = Append(waiting, s)
    /\ UNCHANGED <<reason, computed, drafts, running, finished, draftCount,
                   stepVars, kv>>

\* set_drafts: the counter follows the sequence's drafts becoming non-empty
\* or empty. Drafts are proposed between steps.
SetDrafts(s, d) ==
    /\ phase = "idle"
    /\ op = Idle
    /\ s \in Range(running)
    /\ drafts' = [drafts EXCEPT ![s] = d]
    /\ draftCount' = draftCount
                       + (IF d # <<>> THEN 1 ELSE 0)
                       - (IF drafts[s] # <<>> THEN 1 ELSE 0)
    /\ UNCHANGED <<poolVars, state, reason, plen, maxNew, computed, waiting,
                   running, finished, stepVars, kv>>

\* What clearing the drafts of a sequence that leaves `running' does.
ClearDrafts(s) ==
    /\ drafts' = [drafts EXCEPT ![s] = <<>>]
    /\ draftCount' = IF drafts[s] # <<>> THEN draftCount - 1 ELSE draftCount

Close(s, st, why) ==
    /\ state' = [state EXCEPT ![s] = st]
    /\ reason' = [reason EXCEPT ![s] = why]
    /\ finished' = Append(finished, s)

\* abort of a waiting and of a running sequence; any other id is ignored.
AbortWaiting(s) ==
    /\ op = Idle
    /\ s \in Range(waiting)
    /\ waiting' = Without(waiting, s)
    /\ Close(s, "Aborted", "Aborted")
    /\ UNCHANGED <<poolVars, plen, maxNew, computed, drafts, running,
                   draftCount, stepVars, kv>>

AbortRunning(s) ==
    /\ s \in Range(running)
    /\ running' = Without(running, s)
    /\ ClearDrafts(s)
    /\ DeallocateBegin(s)
    /\ Close(s, "Aborted", "Aborted")
    /\ UNCHANGED <<plen, maxNew, computed, waiting, stepVars, kv>>

Abort(s) ==
    /\ phase \in {"idle", "stepped"}
    /\ AbortWaiting(s) \/ AbortRunning(s)

\* drain_finished
DrainFinished ==
    /\ phase = "idle"
    /\ op = Idle
    /\ finished # <<>>
    /\ finished' = <<>>
    /\ UNCHANGED <<poolVars, seqVars, waiting, running, draftCount, stepVars, kv>>

-----------------------------------------------------------------------------
(* step: build_mixed_batch.                                                *)

HasWork == waiting # <<>> \/ running # <<>>

VerifyReady ==
    /\ draftCount > 0
    /\ \E s \in Range(running) : state[s] = "Decode" /\ drafts[s] # <<>>

Item(s, n, isPrefill, isFinal) ==
    [seq |-> s, n |-> n, prefill |-> isPrefill, final |-> isFinal,
     verify |-> FALSE]

ProducesToken(it) == ~it.prefill \/ it.final

\* Decodes come first, oldest first, one token each; the prefilling
\* sequences are visited next.
StepMixed ==
    LET decodes == Filtered(running, {s \in Seqs : /\ state[s] = "Decode"
                                                   /\ drafts[s] = <<>>})
        n == Smaller(Len(decodes), Smaller(MaxBatchedTokens, MaxBatchSize))
    IN  /\ phase = "idle"
        /\ op = Idle
        /\ HasWork /\ ~VerifyReady
        /\ batch' = [i \in 1 .. n |-> Item(decodes[i], 1, FALSE, FALSE)]
        /\ budget' = MaxBatchedTokens - n
        /\ todo' = Filtered(running, {s \in Seqs : state[s] = "Prefill"})
        /\ phase' = "build"
        /\ failures' = {}
        /\ UNCHANGED <<poolVars, seqVars, queueVars, pending, kv>>

RoomInBatch == budget > 0 /\ Len(batch) < MaxBatchSize

\* The next running sequence in Prefill gets a chunk of what is left of it.
ScheduleChunk ==
    /\ phase = "build"
    /\ op = Idle
    /\ RoomInBatch
    /\ todo # <<>>
    /\ LET s == Head(todo)
           take == FlooredTake(RemainingUncomputed(s), budget, PrefillChunkMin)
       IN  /\ batch' = IF take = 0 THEN batch
                       ELSE Append(batch, Item(s, take, TRUE,
                                               take = RemainingUncomputed(s)))
           /\ budget' = budget - take
    /\ todo' = Tail(todo)
    /\ UNCHANGED <<poolVars, seqVars, queueVars, failures, phase, pending, kv>>

\* The front of the queue has no tokens at all: abort it.
AdmitEmpty ==
    /\ phase = "build"
    /\ op = Idle
    /\ RoomInBatch /\ todo = <<>> /\ waiting # <<>>
    /\ toks[Head(waiting)] = <<>>
    /\ waiting' = Tail(waiting)
    /\ Close(Head(waiting), "Aborted", "Aborted")
    /\ UNCHANGED <<poolVars, plen, maxNew, computed, drafts, running,
                   draftCount, stepVars, kv>>

AdmitBegin ==
    /\ phase = "build"
    /\ RoomInBatch /\ todo = <<>> /\ waiting # <<>>
    /\ AllocateBegin(Head(waiting))
    /\ waiting' = Tail(waiting)
    /\ UNCHANGED <<seqVars, running, finished, draftCount, stepVars, kv>>

\* The table is complete: the sequence starts its prefill after the cached
\* prefix, at most one token short of its end, with a first chunk.
AdmitEnd ==
    /\ phase = "build"
    /\ AllocateEnd
    /\ LET s == op.seq
           start == IF PrefixCacheReuse
                    THEN Smaller(CachedTokens, Len(toks[s]) - 1) ELSE 0
           remaining == Len(toks[s]) - start
           take == FlooredTake(remaining, budget, PrefillChunkMin)
       IN  /\ state' = [state EXCEPT ![s] = "Prefill"]
           /\ computed' = [computed EXCEPT ![s] = start]
           /\ running' = Append(running, s)
           /\ batch' = Append(batch, Item(s, take, TRUE, take = remaining))
           /\ budget' = budget - take
    /\ UNCHANGED <<reason, plen, maxNew, drafts, waiting, finished,
                   draftCount, failures, phase, todo, pending, kv>>

BatchIsBuilt ==
    \/ ~RoomInBatch
    \/ todo = <<>> /\ waiting = <<>>
    \/ /\ todo = <<>> /\ waiting # <<>>
       /\ toks[Head(waiting)] # <<>>
       /\ ~CanAllocate(Head(waiting))

\* The batch goes to the model, which runs it; an empty one is dropped.
FinishBuild ==
    /\ phase = "build"
    /\ op = Idle
    /\ BatchIsBuilt
    /\ phase' = IF batch = <<>> THEN "idle" ELSE "stepped"
    /\ kv' = Forward(Range(batch))
    /\ todo' = <<>>
    /\ UNCHANGED <<poolVars, seqVars, queueVars, batch, failures, budget,
                   pending>>

-----------------------------------------------------------------------------
(* complete_step: apply_scheduled_item for each item of a mixed batch.     *)

Applying == phase \in {"stepped", "apply"} /\ op = Idle /\ batch # <<>>

\* The sequence was aborted after step: its item fails alone. This is the
\* first thing both completions look at.
ItemNotRunning ==
    /\ Applying
    /\ Head(batch).seq \notin Range(running)
    /\ failures' = failures \cup {Head(batch).seq}
    /\ batch' = Tail(batch)
    /\ phase' = "apply"
    /\ UNCHANGED <<poolVars, seqVars, queueVars, budget, todo, pending, kv>>

\* A chunk that is not the last one only counts as computed.
ApplyChunk ==
    /\ Applying
    /\ LET it == Head(batch)
       IN  /\ it.seq \in Range(running)
           /\ ~ProducesToken(it)
           /\ computed' = [computed EXCEPT ![it.seq] = @ + it.n]
    /\ batch' = Tail(batch)
    /\ phase' = "apply"
    /\ UNCHANGED <<poolVars, state, reason, plen, maxNew, drafts, queueVars,
                   failures, budget, todo, pending, kv>>

\* A decode, or a prompt's last chunk, yields token t: the computed blocks
\* are marked and published, and the sequence either stops or queues up for
\* a block to hold its next token.
ApplyToken(t) ==
    /\ Applying
    /\ LET it == Head(batch)
           s == it.seq
           stop == StopReason(s, Append(toks[s], t)) # "none"
       IN  /\ s \in Range(running)
           /\ ProducesToken(it)
           /\ ~it.verify
           /\ AppendToken(s, t, PrefixCacheReuse)
           /\ state' = [state EXCEPT ![s] = "Decode"]
           /\ computed' = [computed EXCEPT
                              ![s] = @ + (IF it.prefill THEN it.n ELSE 0) + 1]
           /\ phase' = IF stop THEN "retire" ELSE "apply"
           /\ batch' = IF stop THEN batch ELSE Tail(batch)
           /\ todo' = IF stop THEN todo ELSE Append(todo, s)
    /\ UNCHANGED <<reason, plen, maxNew, drafts, queueVars, failures, budget,
                   pending, kv>>

\* The sequence that was just given its last token leaves with its blocks
\* given back. Drafts it still carries are not subtracted from the count.
Retire ==
    /\ phase = "retire"
    /\ LET s == Head(batch).seq
       IN  /\ DeallocateBegin(s)
           /\ running' = Without(running, s)
           /\ Close(s, "Finished", StopReason(s, toks[s]))
    /\ batch' = Tail(batch)
    /\ phase' = "apply"
    /\ pending' = <<>>
    /\ UNCHANGED <<plen, maxNew, computed, drafts, waiting, draftCount,
                   failures, budget, todo, kv>>

-----------------------------------------------------------------------------
(* complete_step: extend_blocks_or_preempt for each sequence that goes on. *)

Extending == phase = "apply" /\ op = Idle /\ batch = <<>> /\ todo # <<>>

Needed(s) == NumBlocksNeeded(Len(toks[s]))

\* Enough blocks, or preempted for an older sequence in the meantime.
ExtendDone ==
    /\ Extending
    /\ \/ Head(todo) \notin Range(running)
       \/ Len(table[Head(todo)]) >= Needed(Head(todo))
    /\ todo' = Tail(todo)
    /\ UNCHANGED <<poolVars, seqVars, queueVars, batch, failures, phase,
                   budget, pending, kv>>

ExtendGrow ==
    /\ Extending
    /\ Head(todo) \in Range(running)
    /\ ExtendFor(Head(todo), Needed(Head(todo)))
    /\ UNCHANGED schedVars

OutOfBlocks ==
    /\ Extending
    /\ free = <<>>
    /\ Head(todo) \in Range(running)
    /\ Len(table[Head(todo)]) < Needed(Head(todo))

\* The sequence alone is larger than the pool: it is aborted and reported.
ExtendOverflow ==
    /\ OutOfBlocks
    /\ Needed(Head(todo)) > NumBlocks
    /\ LET s == Head(todo)
       IN  /\ DeallocateBegin(s)
           /\ running' = Without(running, s)
           /\ ClearDrafts(s)
           /\ Close(s, "Aborted", "Aborted")
           /\ failures' = failures \cup {s}
    /\ todo' = Tail(todo)
    /\ UNCHANGED <<plen, maxNew, computed, waiting, batch, phase, budget,
                   pending, kv>>

\* Mutant: the preempted sequence goes to the back of the queue.
PreemptToBack(v) ==
    /\ DeallocateBegin(v)
    /\ running' = Without(running, v)
    /\ waiting' = Append(waiting, v)
    /\ ClearDrafts(v)
    /\ state' = [state EXCEPT ![v] = "Waiting"]
    /\ computed' = [computed EXCEPT ![v] = 0]
    /\ UNCHANGED <<reason, plen, maxNew, finished, batch, failures, phase,
                   budget, pending, kv>>

\* Mutant: the preempted sequence is not put back into the queue.
PreemptLosesSequence(v) ==
    /\ DeallocateBegin(v)
    /\ running' = Without(running, v)
    /\ ClearDrafts(v)
    /\ state' = [state EXCEPT ![v] = "Waiting"]
    /\ computed' = [computed EXCEPT ![v] = 0]
    /\ UNCHANGED <<waiting, reason, plen, maxNew, finished, batch, failures,
                   phase, budget, pending, kv>>

\* Mutant: block_table.clear() without the deallocate before it.
PreemptLeaks(v) ==
    /\ op = Idle
    /\ table' = [table EXCEPT ![v] = <<>>]
    /\ running' = Without(running, v)
    /\ waiting' = <<v>> \o waiting
    /\ ClearDrafts(v)
    /\ state' = [state EXCEPT ![v] = "Waiting"]
    /\ computed' = [computed EXCEPT ![v] = 0]
    /\ UNCHANGED <<refCount, hash, kvComputed, free, hashToBlock, toks, op,
                   reason, plen, maxNew, finished, batch, failures, phase,
                   budget, pending, kv>>

\* preempt_to_waiting_for_recompute: v gives up its blocks and goes back to
\* the front of the queue.
Preempt(v) ==
    /\ DeallocateBegin(v)
    /\ running' = Without(running, v)
    /\ waiting' = <<v>> \o waiting
    /\ ClearDrafts(v)
    /\ state' = [state EXCEPT ![v] = "Waiting"]
    /\ computed' = [computed EXCEPT ![v] = 0]
    /\ UNCHANGED <<reason, plen, maxNew, finished, batch, failures, phase,
                   budget, pending, kv>>

\* Out of blocks: the youngest running sequence is preempted, and the
\* extension tried again; if that is the sequence itself, it gives up.
PreemptYoungest ==
    /\ OutOfBlocks
    /\ Needed(Head(todo)) <= NumBlocks
    /\ Preempt(LastOf(running))
    /\ todo' = IF LastOf(running) = Head(todo) THEN Tail(todo) ELSE todo

StepDone ==
    /\ phase = "apply"
    /\ op = Idle
    /\ batch = <<>> /\ todo = <<>>
    /\ phase' = "idle"
    /\ UNCHANGED <<poolVars, seqVars, queueVars, batch, failures, budget,
                   todo, pending, kv>>

-----------------------------------------------------------------------------
(* step and complete_verify_step with speculative drafts.                  *)

VerifyItem(s) ==
    [seq |-> s, n |-> 1, prefill |-> FALSE, final |-> FALSE, verify |-> TRUE]

StepVerify ==
    /\ phase = "idle"
    /\ op = Idle
    /\ VerifyReady
    /\ todo' = Filtered(running, {s \in Seqs : state[s] = "Decode"})
    /\ batch' = <<>> /\ failures' = {}
    /\ phase' = "verify"
    /\ UNCHANGED <<poolVars, seqVars, queueVars, budget, pending, kv>>

Reserving ==
    /\ phase = "verify"
    /\ op = Idle
    /\ todo # <<>> /\ Len(batch) < MaxBatchSize

\* Mutant: no slot is reserved for the bonus token.
SlotsNoBonus(s) == NumBlocksNeeded(Len(toks[s]) + Len(drafts[s]))

Slots(s) == NumBlocksNeeded(Len(toks[s]) + 1 + Len(drafts[s]))

\* extend_for_slots: the blocks for the drafts and the bonus token are
\* there, or all of them can be taken, or the sequence is put back. One that
\* no longer runs is passed over.
ReserveDone ==
    /\ Reserving
    /\ LET s == Head(todo)
           here == s \in Range(running)
       IN  /\ here => Len(table[s]) >= Slots(s)
           /\ batch' = IF here THEN Append(batch, VerifyItem(s)) ELSE batch
    /\ todo' = Tail(todo)
    /\ UNCHANGED <<poolVars, seqVars, queueVars, failures, phase, budget,
                   pending, kv>>

ReserveGrow ==
    /\ Reserving
    /\ Head(todo) \in Range(running)
    /\ Slots(Head(todo)) - Len(table[Head(todo)]) <= Len(free)
    /\ ExtendFor(Head(todo), Slots(Head(todo)))
    /\ UNCHANGED schedVars

\* Mutant: the refused sequence is queued and keeps running.
ReserveRefusedTwice ==
    /\ Reserving
    /\ LET s == Head(todo)
       IN  /\ Slots(s) - Len(table[s]) > Len(free)
           /\ waiting' = <<s>> \o waiting
           /\ ClearDrafts(s)
    /\ todo' = Tail(todo)
    /\ UNCHANGED <<poolVars, state, running, reason, plen, maxNew, computed,
                   finished, batch, failures, phase, budget, pending, kv>>

\* Mutant: the refused sequence waits with its blocks.
ReserveRefusedKeepsBlocks ==
    /\ Reserving
    /\ LET s == Head(todo)
       IN  /\ Slots(s) - Len(table[s]) > Len(free)
           /\ running' = Without(running, s)
           /\ waiting' = <<s>> \o waiting
           /\ ClearDrafts(s)
           /\ state' = [state EXCEPT ![s] = "Waiting"]
    /\ todo' = Tail(todo)
    /\ UNCHANGED <<poolVars, reason, plen, maxNew, computed, finished, batch,
                   failures, phase, budget, pending, kv>>

ReserveRefused ==
    /\ Reserving
    /\ LET s == Head(todo)
       IN  /\ s \in Range(running)
           /\ Slots(s) - Len(table[s]) > Len(free)
           /\ DeallocateBegin(s)
           /\ running' = Without(running, s)
           /\ waiting' = <<s>> \o waiting
           /\ ClearDrafts(s)
           /\ state' = [state EXCEPT ![s] = "Waiting"]
    /\ todo' = Tail(todo)
    /\ UNCHANGED <<reason, plen, maxNew, computed, finished, batch, failures,
                   phase, budget, pending, kv>>

FinishVerifyBatch ==
    /\ phase = "verify"
    /\ op = Idle
    /\ ~Reserving
    /\ phase' = IF batch = <<>> THEN "idle" ELSE "stepped"
    /\ kv' = Forward(Range(batch))
    /\ todo' = <<>>
    /\ UNCHANGED <<poolVars, seqVars, queueVars, batch, failures, budget,
                   pending>>

\* apply_verify_outcome: some drafts are accepted, and token t follows.
VerifyOutcome(t) ==
    /\ Applying
    /\ pending = <<>>
    /\ LET s == Head(batch).seq
       IN  /\ s \in Range(running)
           /\ Head(batch).verify
           /\ \E k \in 0 .. Len(drafts[s]) :
                 pending' = Append(SubSeq(drafts[s], 1, k), t)
           /\ ClearDrafts(s)
    /\ phase' = "accept"
    /\ UNCHANGED <<poolVars, state, reason, plen, maxNew, computed, waiting,
                   running, finished, batch, failures, budget, todo, kv>>

\* Mutant: only the last of the accepted tokens is tested for a stop.
AcceptStopsLate ==
    /\ phase = "accept"
    /\ LET s == Head(batch).seq
           t == Head(pending)
           more == Len(pending) > 1
           stop == ~more /\ StopReason(s, Append(toks[s], t)) # "none"
       IN  /\ AcceptToken(s, t)
           /\ pending' = Tail(pending)
           /\ phase' = IF stop THEN "retire" ELSE IF more THEN "accept" ELSE "apply"
           /\ batch' = IF stop \/ more THEN batch ELSE Tail(batch)
    /\ UNCHANGED <<seqVars, queueVars, failures, budget, todo, kv>>

\* Accepted tokens are appended until one of them stops the sequence. The
\* extend_for after the last one finds its blocks reserved (RunningCanStep).
Accept ==
    /\ phase = "accept"
    /\ LET s == Head(batch).seq
           t == Head(pending)
           stop == StopReason(s, Append(toks[s], t)) # "none"
           more == Len(pending) > 1
       IN  /\ AcceptToken(s, t)
           /\ pending' = Tail(pending)
           /\ phase' = IF stop THEN "retire" ELSE IF more THEN "accept" ELSE "apply"
           /\ batch' = IF stop \/ more THEN batch ELSE Tail(batch)
    /\ UNCHANGED <<seqVars, queueVars, failures, budget, todo, kv>>

-----------------------------------------------------------------------------
\* The loops of the pool run to their end before anything else happens.
PoolStep ==
    /\ AcquireShared \/ AcquireFresh \/ ExtendNext \/ ReleaseLast
    /\ UNCHANGED schedVars

StepNext ==
    \/ PoolStep
    \/ StepMixed
    \/ ScheduleChunk
    \/ AdmitEmpty
    \/ AdmitBegin
    \/ AdmitEnd
    \/ FinishBuild
    \/ ItemNotRunning
    \/ ApplyChunk
    \/ \E t \in Token : ApplyToken(t)
    \/ Retire
    \/ ExtendDone
    \/ ExtendGrow
    \/ ExtendOverflow
    \/ PreemptYoungest
    \/ StepDone

VerifyNext ==
    \/ StepVerify
    \/ ReserveDone
    \/ ReserveGrow
    \/ ReserveRefused
    \/ FinishVerifyBatch
    \/ \E t \in Token : VerifyOutcome(t)
    \/ Accept

Next ==
    \/ \E s \in Seqs, p \in Prompts, m \in MaxNews : Enqueue(s, p, m)
    \/ \E s \in Seqs, d \in Drafts : SetDrafts(s, d)
    \/ \E s \in Seqs : Abort(s)
    \/ DrainFinished
    \/ StepNext
    \/ VerifyNext

Spec == Init /\ [][Next]_vars

\* The engine thread keeps stepping while there is work.
FairSpec == Spec /\ WF_vars(StepNext \/ VerifyNext)

-----------------------------------------------------------------------------
(* Properties.                                                             *)

ItemType == [seq : Seqs, n : Nat, prefill : BOOLEAN, final : BOOLEAN,
             verify : BOOLEAN]

\* Every variable has the shape of its Rust field.
TypeOK ==
    /\ PoolTypeOK
    /\ state \in [Seqs -> {"none", "Waiting", "Prefill", "Decode",
                           "Finished", "Aborted"}]
    /\ reason \in [Seqs -> {"none", "Eos", "MaxTokens", "Aborted"}]
    /\ plen \in [Seqs -> Nat]
    /\ maxNew \in [Seqs -> Nat]
    /\ computed \in [Seqs -> Nat]
    /\ drafts \in [Seqs -> Seq(Token)]
    /\ waiting \in Seq(Seqs) /\ running \in Seq(Seqs) /\ finished \in Seq(Seqs)
    /\ draftCount \in Nat
    /\ batch \in Seq(ItemType)
    /\ failures \subseteq Seqs
    /\ phase \in {"idle", "build", "verify", "stepped", "apply", "accept",
                  "retire"}
    /\ budget \in Nat
    /\ todo \in Seq(Seqs)
    /\ pending \in Seq(Token)

\* The sequence admission is under way for, in neither queue meanwhile.
InTransit == IF op.kind = "alloc" THEN {op.seq} ELSE {}

\* A sequence is in one place, the one its state names: aborts, admissions,
\* preemptions and retirements never lose or duplicate it.
OnePlace ==
    /\ IsInjective(running) /\ IsInjective(waiting) /\ IsInjective(finished)
    /\ \A s \in Seqs :
          /\ state[s] = "Waiting" <=> s \in Range(waiting) \cup InTransit
          /\ state[s] \in {"Prefill", "Decode"} <=> s \in Range(running)
          /\ s \in Range(finished) => IsFinished(s)

\* Only running sequences hold blocks: with nobody running, and no loop under
\* way, the whole pool is free, however the sequences left.
OnlyRunningHoldBlocks ==
    \A s \in Seqs :
        table[s] # <<>> =>
            \/ s \in Range(running) \cup InTransit
            \/ op.kind = "release" /\ op.seq = s

\* The number of tokens of s whose KV the scheduler relies on.
ValidTokens(s) ==
    IF state[s] = "Decode" THEN Len(toks[s]) - 1 ELSE computed[s]

\* Attention never reads foreign KV: every position a running sequence counts
\* as computed holds the KV of its own prefix, whether it was computed, found
\* in the prefix cache, or recomputed after a preemption.
RunningKvIsOwn ==
    \A s \in Range(running) : phase # "accept" /\ phase # "retire" =>
        \A p \in 1 .. ValidTokens(s) :
            kv[BlockOf(s, p)][SlotOf(p)] = SubSeq(toks[s], 1, p)

\* A block the prefix cache would hand out as computed holds the KV of the
\* prefix its hash stands for, even after it was freed.
CachedKvMatchesHash ==
    \A h \in DOMAIN hashToBlock :
        LET b == hashToBlock[h]
            start == Len(h) - BlockSize
        IN  kvComputed[b] =>
               \A slot \in 1 .. BlockSize :
                   kv[b][slot] = SubSeq(h, 1, start + slot)

\* Between steps every running sequence has a slot for its next token, and a
\* prefilling one has something left to compute, so no step is ever empty
\* while a sequence runs.
RunningCanStep ==
    phase = "idle" /\ op = Idle =>
        \A s \in Range(running) :
            /\ Needed(s) <= Len(table[s])
            /\ state[s] = "Prefill" => computed[s] < Len(toks[s])

Ascending(q) == \A i, j \in 1 .. Len(q) : i < j => q[i] < q[j]

\* Preemption keeps the order of arrival: the running sequences, the one
\* being admitted and the queue are, one after the other, oldest first.
OldestFirst ==
    /\ Ascending(running) /\ Ascending(waiting)
    /\ \A r \in Range(running), w \in Range(waiting) \cup InTransit : r < w
    /\ \A r \in InTransit, w \in Range(waiting) : r < w

\* Nothing follows an end-of-sequence token, no output exceeds its limit (a
\* limit of zero still yields one token), accepted drafts included, and a
\* finished sequence says which of the two ended it: the token, if both did.
OutputStopsInTime ==
    \A s \in Seqs : state[s] # "none" =>
        LET n == Len(toks[s])
            limit == IF maxNew[s] = 0 THEN 1 ELSE maxNew[s]
        IN  /\ \A i \in plen[s] + 1 .. n - 1 : toks[s][i] # Eos
            /\ n - plen[s] <= limit
            /\ state[s] = "Finished" =>
                  IF toks[s][n] = Eos THEN reason[s] = "Eos"
                  ELSE reason[s] = "MaxTokens" /\ n - plen[s] = limit

\* Nothing is lost, leaked or foreign: the invariants of the scheduler that a
\* caller relies on, together.
SchedulerInv ==
    /\ TypeOK
    /\ OnePlace
    /\ OnlyRunningHoldBlocks
    /\ RunningKvIsOwn
    /\ RunningCanStep
    /\ OutputStopsInTime

\* Between steps num_running_with_drafts is the number of running sequences
\* that have drafts, as its name and the scheduler's own tests say.
DraftCountExact ==
    phase = "idle" =>
        draftCount = Cardinality({s \in Range(running) : drafts[s] # <<>>})

\* The longest a sequence may become is no more than the pool holds.
FitsPool(s) == plen[s] + maxNew[s] <= NumBlocks * BlockSize

\* Requests that each fit the pool are all finished eventually, although they
\* may not fit together and are preempted, recomputed and drafted for on the
\* way.  (One that does not fit is recomputed for ever, in front of the rest.)
EverySequenceFinishes ==
    \A s \in Seqs : state[s] = "Waiting" ~> IsFinished(s) \/ \E t \in Seqs : ~FitsPool(t)

\* Every step of the scheduler is a legal use of the block pool, or leaves it
\* alone: the pool's specification, on the scheduler's variables.
PoolImplemented == PoolSpec
=============================================================================
