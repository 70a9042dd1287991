------------------------- MODULE BatchEngineProofs -------------------------
(***************************************************************************)
(* The batch engine over the scheduler. First the engine uses the          *)
(* scheduler as its specification allows, but for two things of its own: a *)
(* refused request takes a sequence number without ever being a sequence,  *)
(* and a failed step is thrown away. Both keep what is proved of the       *)
(* scheduler. Then the engine's books (meta, the stepper's states) are     *)
(* followed through every way a request ends, and at last the events each  *)
(* client is sent.                                                         *)
(***************************************************************************)
EXTENDS BatchEngine, SchedulerStepProofs

\* The sequences that are not over: waiting, running or being admitted.
LiveSeqs == {s \in Seqs : Live(s)}

\* A number that was not given out yet has nothing to its name.
FreshSeqs ==
    \A s \in Seqs : state[s] = "none" => toks[s] = <<>> /\ plen[s] = 0

\* What is proved of the scheduler, in one piece.
Layers ==
    /\ QueueInv /\ OutputInv /\ DraftInv /\ SlotInv /\ KvInv
    /\ FreshSeqs

\* A request is refused: its number is spent.
Refused(s) ==
    /\ state[s] = "none"
    /\ state' = [state EXCEPT ![s] = "Aborted"]
    /\ UNCHANGED <<poolVars, reason, plen, maxNew, computed, drafts, queueVars,
                   stepVars, kv>>

\* A failed step is thrown away, with what it had finished.
ThrownAway ==
    /\ phase = "stepped"
    /\ phase' = "idle" /\ batch' = <<>> /\ finished' = <<>>
    /\ UNCHANGED <<poolVars, seqVars, waiting, running, draftCount, failures,
                   budget, todo, pending, kv>>

-----------------------------------------------------------------------------
(* How a step of the scheduler moves its sequences: nobody comes to life,  *)
(* and who is over is in `finished' until that is drained.                 *)
Carries ==
    /\ LiveSeqs' \subseteq LiveSeqs
    /\ LiveSeqs' \cup Range(finished') = LiveSeqs \cup Range(finished)
    /\ \A u \in Seqs : state'[u] = "none" <=> state[u] = "none"

(* Nobody's state changes.                                                 *)
LEMMA CarriesFrame ==
    ASSUME UNCHANGED <<state, finished>>
    PROVE  Carries
  BY DEF Carries, LiveSeqs, Live

(* A live sequence goes on living.                                         *)
LEMMA CarriesMove ==
    ASSUME PlaceInv, NEW s \in LiveSeqs, NEW st \in {"Waiting", "Prefill", "Decode"},
           state' = [state EXCEPT ![s] = st], UNCHANGED finished
    PROVE  Carries /\ LiveSeqs' = LiveSeqs
<1>1. s \in Seqs /\ Live(s)
  BY DEF LiveSeqs
<1>2. /\ state'[s] = st
      /\ \A u \in Seqs : u # s => state'[u] = state[u]
  BY <1>1 DEF PlaceInv, PlaceTypes
<1>3. \A u \in Seqs : Live(u)' <=> Live(u)
  BY <1>1, <1>2 DEF Live
<1>4. \A u \in Seqs : state'[u] = "none" <=> state[u] = "none"
  BY <1>1, <1>2 DEF Live
<1>5. LiveSeqs' = LiveSeqs
  BY <1>3 DEF LiveSeqs
<1> QED BY <1>4, <1>5 DEF Carries

(* A live sequence ends.                                                   *)
LEMMA CarriesClose ==
    ASSUME PlaceInv, NEW s \in LiveSeqs, NEW st \in {"Finished", "Aborted"}, NEW why,
           Close(s, st, why)
    PROVE  /\ Carries /\ LiveSeqs' = LiveSeqs \ {s}
           /\ Range(finished') = Range(finished) \cup {s}
<1>1. s \in Seqs /\ Live(s)
  BY DEF LiveSeqs
<1>2. /\ state'[s] = st
      /\ \A u \in Seqs : u # s => state'[u] = state[u]
  BY <1>1 DEF PlaceInv, PlaceTypes, Close
<1>3. /\ ~Live(s)'
      /\ \A u \in Seqs : u # s => (Live(u)' <=> Live(u))
  BY <1>2 DEF Live
<1>4. \A u \in Seqs : state'[u] = "none" <=> state[u] = "none"
  BY <1>1, <1>2 DEF Live
<1>5. LiveSeqs' = LiveSeqs \ {s}
  BY <1>3 DEF LiveSeqs
<1>6. s \notin Range(finished)
  BY <1>1 DEF Live, PlaceInv, OnePlace, IsFinished
<1>7. Range(finished') = Range(finished) \cup {s}
  BY <1>1, <1>6, AppendInjective2 DEF PlaceInv, PlaceTypes, OnePlace, Close
<1> QED BY <1>4, <1>5, <1>7 DEF Carries

(* The live sequences are the ones in the queues and the one in between.   *)
LEMMA LiveIsQueued ==
    ASSUME QueueInv
    PROVE  /\ LiveSeqs = Range(waiting) \cup Range(running) \cup InTransit
           /\ LiveSeqs \cap Range(finished) = {}
           /\ op = Idle => InTransit = {}
<1>0. PlaceInv /\ op \in Op
  BY DEF QueueInv, PoolInv, PoolTypeOK
<1>1. Range(waiting) \subseteq Seqs /\ Range(running) \subseteq Seqs
  BY <1>0, PlaceFacts
<1>2. InTransit \subseteq Seqs /\ (op = Idle => InTransit = {})
  BY <1>0 DEF InTransit, Idle, Op
<1>3. \A s \in Seqs : Live(s) <=> s \in Range(waiting) \cup Range(running) \cup InTransit
  BY <1>0 DEF Live, PlaceInv, OnePlace
<1>4. \A s \in Seqs : Live(s) => s \notin Range(finished)
  BY <1>0 DEF Live, PlaceInv, OnePlace, IsFinished
<1>5. LiveSeqs = Range(waiting) \cup Range(running) \cup InTransit
  BY <1>1, <1>2, <1>3 DEF LiveSeqs
<1> QED BY <1>2, <1>4, <1>5 DEF LiveSeqs

(* The steps of the scheduler under way carry everybody along.             *)
LEMMA StepCarries ==
    ASSUME QueueInv, StepNext
    PROVE  Carries /\ UNCHANGED <<plen, maxNew>>
<1>0. PlaceInv /\ HeadInv /\ PoolInv
  BY DEF QueueInv
<1>1. /\ Range(waiting) \subseteq LiveSeqs /\ Range(running) \subseteq LiveSeqs
      /\ InTransit \subseteq LiveSeqs
  BY LiveIsQueued
<1>2. CASE PoolStep
  <2>1. UNCHANGED <<state, finished, plen, maxNew>>
    BY <1>2 DEF PoolStep, schedVars, seqVars, queueVars
  <2> QED BY <2>1, CarriesFrame
<1>3. CASE StepMixed \/ ScheduleChunk \/ AdmitBegin \/ FinishBuild \/ ItemNotRunning
           \/ ApplyChunk \/ ExtendDone \/ StepDone
  <2>1. UNCHANGED <<state, finished, plen, maxNew>>
    BY <1>3 DEF StepMixed, ScheduleChunk, AdmitBegin, FinishBuild, ItemNotRunning,
                ApplyChunk, ExtendDone, StepDone, seqVars, queueVars
  <2> QED BY <2>1, CarriesFrame
<1>4. CASE ExtendGrow
  <2>1. UNCHANGED <<state, finished, plen, maxNew>>
    BY <1>4 DEF ExtendGrow, schedVars, seqVars, queueVars
  <2> QED BY <2>1, CarriesFrame
<1>5. CASE AdmitEmpty
  <2>1. waiting # <<>> /\ Close(Head(waiting), "Aborted", "Aborted")
        /\ UNCHANGED <<plen, maxNew>>
    BY <1>5 DEF AdmitEmpty
  <2>2. Head(waiting) \in LiveSeqs
    BY <1>0, <1>1, <2>1 DEF PlaceInv, PlaceTypes, Range
  <2> QED BY <1>0, <2>1, <2>2, CarriesClose
<1>6. CASE AdmitEnd
  <2>1. PICK s : s = op.seq
    OBVIOUS
  <2>2. /\ state' = [state EXCEPT ![s] = "Prefill"] /\ op.kind = "alloc"
        /\ UNCHANGED <<finished, plen, maxNew>>
    BY <1>6, <2>1 DEF AdmitEnd, AllocateEnd, Allocated
  <2>3. s \in LiveSeqs
    BY <1>1, <2>1, <2>2 DEF InTransit
  <2> QED BY <1>0, <2>2, <2>3, CarriesMove
<1>7. ASSUME NEW t \in Token, ApplyToken(t)
      PROVE  Carries /\ UNCHANGED <<plen, maxNew>>
  <2>1. PICK s : s = Head(batch).seq
    OBVIOUS
  <2>2. /\ s \in Range(running) /\ state' = [state EXCEPT ![s] = "Decode"]
        /\ UNCHANGED <<finished, plen, maxNew>>
    BY <1>7, <2>1 DEF ApplyToken, queueVars
  <2> QED BY <1>0, <1>1, <2>2, CarriesMove
<1>8. CASE Retire
  <2>1. PICK s : s = Head(batch).seq
    OBVIOUS
  <2>2. Close(s, "Finished", StopReason(s, toks[s])) /\ phase = "retire"
        /\ UNCHANGED <<plen, maxNew>>
    BY <1>8, <2>1 DEF Retire
  <2>3. s \in LiveSeqs
    BY <1>0, <1>1, <2>1, <2>2 DEF HeadInv
  <2> QED BY <1>0, <2>2, <2>3, CarriesClose
<1>9. CASE ExtendOverflow
  <2>1. PICK s : s = Head(todo)
    OBVIOUS
  <2>2. Close(s, "Aborted", "Aborted") /\ s \in Range(running)
        /\ UNCHANGED <<plen, maxNew>>
    BY <1>9, <2>1 DEF ExtendOverflow, OutOfBlocks
  <2> QED BY <1>0, <1>1, <2>2, CarriesClose
<1>10. CASE PreemptYoungest
  <2>1. PICK s : s = LastOf(running)
    OBVIOUS
  <2>2. /\ Head(todo) \in Range(running) /\ state' = [state EXCEPT ![s] = "Waiting"]
        /\ UNCHANGED <<finished, plen, maxNew>>
    BY <1>10, <2>1 DEF PreemptYoungest, OutOfBlocks, Preempt
  <2>3. s \in Range(running)
    BY <1>0, <2>1, <2>2 DEF LastOf, PlaceInv, PlaceTypes, Range
  <2> QED BY <1>0, <1>1, <2>2, <2>3, CarriesMove
<1> QED BY <1>2, <1>3, <1>4, <1>5, <1>6, <1>7, <1>8, <1>9, <1>10 DEF StepNext

(* An abort ends one sequence; one that is over or unknown is ignored.     *)
LEMMA AbortCarries ==
    ASSUME QueueInv, op = Idle, NEW s, AbortSequence(s)
    PROVE  /\ Carries /\ UNCHANGED <<plen, maxNew, stepVars>>
           /\ LiveSeqs' = LiveSeqs \ {s}
           /\ Range(finished') = Range(finished) \cup (LiveSeqs \cap {s})
<1>0. PlaceInv
  BY DEF QueueInv
<1>1. LiveSeqs = Range(waiting) \cup Range(running)
  BY LiveIsQueued
<1>2. CASE Abort(s)
  <2>1. /\ s \in Range(waiting) \cup Range(running) /\ Close(s, "Aborted", "Aborted")
        /\ UNCHANGED <<plen, maxNew, stepVars>>
    BY <1>2 DEF Abort, AbortWaiting, AbortRunning
  <2>2. s \in LiveSeqs
    BY <1>1, <2>1
  <2> QED BY <1>0, <2>1, <2>2, CarriesClose
<1>3. CASE s \notin Range(waiting) \cup Range(running) /\ UNCHANGED vars
  <2>1. UNCHANGED <<state, finished, plen, maxNew, stepVars>>
    BY <1>3 DEF vars, schedVars, seqVars, queueVars
  <2>2. Carries /\ LiveSeqs' = LiveSeqs
    BY <2>1, CarriesFrame DEF LiveSeqs, Live
  <2> QED BY <1>1, <1>3, <2>1, <2>2
<1> QED BY <1>2, <1>3 DEF AbortSequence

-----------------------------------------------------------------------------
(* Steps of the scheduler keep a fresh number fresh.                       *)
LEMMA FreshNext ==
    ASSUME QueueInv, FreshSeqs, [AnyNext]_vars
    PROVE  FreshSeqs'
<1>0. PlaceInv /\ HeadInv /\ PoolInv
  BY DEF QueueInv
<1> SUFFICES ASSUME NEW u \in Seqs, state'[u] = "none"
             PROVE  toks'[u] = <<>> /\ plen'[u] = 0
  BY DEF FreshSeqs
<1>a. /\ toks \in [Seqs -> Seq(Token)]
      /\ \A s \in Range(running) : s \in Seqs /\ state[s] # "none"
  BY <1>0, PlaceFacts DEF PoolInv, PoolTypeOK, PoolDataOK, PlaceInv, OnePlace
<1>b. ASSUME state[u] = "none", UNCHANGED plen, toks'[u] = toks[u]
      PROVE  toks'[u] = <<>> /\ plen'[u] = 0
  BY <1>b DEF FreshSeqs
<1>1. ASSUME NEW s \in Seqs, NEW p \in Prompts, NEW m \in Nat, Enqueue(s, p, m)
      PROVE  toks'[u] = <<>> /\ plen'[u] = 0
  <2>1. /\ state' = [state EXCEPT ![s] = "Waiting"] /\ plen' = [plen EXCEPT ![s] = Len(p)]
        /\ toks' = [toks EXCEPT ![s] = p]
    BY <1>1 DEF Enqueue, Arrive
  <2>2. u # s /\ state[u] = "none"
    BY <1>0, <2>1 DEF PlaceInv, PlaceTypes
  <2> QED BY <2>1, <2>2 DEF FreshSeqs
<1>2. ASSUME NEW s \in Seqs, NEW d \in Drafts, SetDrafts(s, d)
      PROVE  toks'[u] = <<>> /\ plen'[u] = 0
  BY <1>b, <1>2 DEF SetDrafts, poolVars
<1>3. ASSUME NEW s \in Seqs, Abort(s)
      PROVE  toks'[u] = <<>> /\ plen'[u] = 0
  <2>1. op = Idle
    BY <1>3 DEF Abort, AbortWaiting, AbortRunning, DeallocateBegin
  <2>2. UNCHANGED <<toks, plen>>
    BY <1>3 DEF Abort, AbortWaiting, AbortRunning, DeallocateBegin, poolVars
  <2>3. Carries
    BY <1>3, <2>1, AbortCarries DEF AbortSequence
  <2> QED BY <1>b, <2>2, <2>3 DEF Carries
<1>4. CASE DrainFinished
  BY <1>b, <1>4 DEF DrainFinished, poolVars, seqVars
<1>5. CASE StepNext
  <2>1. state[u] = "none" /\ UNCHANGED plen
    BY <1>5, StepCarries DEF Carries
  <2>2. CASE \E t \in Token : ApplyToken(t)
    <3>1. PICK t \in Token : ApplyToken(t)
      BY <2>2
    <3>2. PICK s : s = Head(batch).seq
      OBVIOUS
    <3>3. s \in Range(running) /\ toks' = [toks EXCEPT ![s] = Append(toks[s], t)]
      BY <3>1, <3>2 DEF ApplyToken, AppendToken
    <3>4. u # s
      BY <1>a, <2>1, <3>3
    <3>5. toks'[u] = toks[u]
      BY <3>3, <3>4
    <3> QED BY <1>b, <2>1, <3>5
  <2>3. CASE PoolStep \/ AdmitEnd \/ AdmitBegin \/ Retire \/ ExtendGrow
             \/ ExtendOverflow \/ PreemptYoungest
    <3>1. UNCHANGED toks
      BY <2>3 DEF PoolStep, AcquireShared, AcquireFresh, ExtendNext, ReleaseLast, AdmitEnd,
           AllocateEnd, AdmitBegin, AllocateBegin, Retire, DeallocateBegin, ExtendGrow,
           ExtendFor, ExtendOverflow, PreemptYoungest, Preempt
    <3> QED BY <1>b, <2>1, <3>1
  <2>4. CASE StepMixed \/ ScheduleChunk \/ AdmitEmpty \/ FinishBuild \/ ItemNotRunning
             \/ ApplyChunk \/ ExtendDone \/ StepDone
    <3>1. UNCHANGED toks
      BY <2>4 DEF StepMixed, ScheduleChunk, AdmitEmpty, FinishBuild, ItemNotRunning,
           ApplyChunk, ExtendDone, StepDone, poolVars
    <3> QED BY <1>b, <2>1, <3>1
  <2> QED BY <1>5, <2>2, <2>3, <2>4 DEF StepNext
<1>6. CASE StepVerify \/ ReserveDone \/ FinishVerifyBatch
           \/ (\E t \in Token : VerifyOutcome(t))
  <2>1. UNCHANGED <<toks, state, plen>>
    BY <1>6 DEF StepVerify, ReserveDone, FinishVerifyBatch, VerifyOutcome, poolVars, seqVars
  <2> QED BY <1>b, <2>1
<1>7. CASE ReserveGrow
  <2>1. UNCHANGED <<toks, state, plen>>
    BY <1>7 DEF ReserveGrow, ExtendFor, schedVars, seqVars
  <2> QED BY <1>b, <2>1
<1>8. CASE ReserveRefused
  <2>1. PICK s : s = Head(todo)
    OBVIOUS
  <2>2. /\ s \in Range(running) /\ state' = [state EXCEPT ![s] = "Waiting"]
        /\ UNCHANGED <<toks, plen>>
    BY <1>8, <2>1 DEF ReserveRefused, DeallocateBegin
  <2>3. state[u] = "none"
    BY <1>0, <1>a, <2>2 DEF PlaceInv, PlaceTypes
  <2> QED BY <1>b, <2>2, <2>3
<1>9. CASE Accept
  <2>1. PICK s, t : s = Head(batch).seq /\ t = Head(pending)
    OBVIOUS
  <2>2. /\ phase = "accept" /\ toks' = [toks EXCEPT ![s] = Append(@, t)]
        /\ UNCHANGED <<state, plen>>
    BY <1>9, <2>1 DEF Accept, AcceptToken, seqVars
  <2>3. s \in Range(running)
    BY <1>0, <2>1, <2>2 DEF HeadInv
  <2>4. u # s
    BY <1>a, <2>2, <2>3
  <2>5. toks'[u] = toks[u]
    BY <2>2, <2>4
  <2> QED BY <1>b, <2>2, <2>5
<1>10. CASE UNCHANGED vars
  BY <1>b, <1>10 DEF vars, poolVars, schedVars, seqVars
<1>11. CASE VerifyNext
  BY <1>6, <1>7, <1>8, <1>9, <1>11 DEF VerifyNext
<1> QED BY <1>1, <1>2, <1>3, <1>4, <1>5, <1>10, <1>11 DEF AnyNext

(* Every step of the scheduler keeps what is proved of it.                 *)
LEMMA LayersNext == Layers /\ [AnyNext]_vars => Layers'
  BY QueueNext, OutputNextInv, DraftNextInv, SlotNextInv, KvNextInv, FreshNext
  DEF Layers

(* It holds initially.                                                     *)
LEMMA LayersInit == Init => Layers
<1>1. Init => FreshSeqs
  BY DEF Init, PoolInit, SchedInit, FreshSeqs
<1> QED BY <1>1, QueueInit, OutputInit, DraftInit, SlotInitInv, KvInitInv DEF Layers

(* What a caller relies on follows.                                        *)
LEMMA LayersSuffice == Layers => SchedulerInv /\ CachedKvMatchesHash
<1>1. QueueInv => OnePlace /\ OnlyRunningHoldBlocks
  BY DEF QueueInv, PlaceInv
<1>2. KvInv => RunningKvIsOwn /\ CachedKvMatchesHash
  BY DEF KvInv, RunningHold, Holds, RunningKvIsOwn, BlockOf, IndexOf
<1> QED BY <1>1, <1>2, TypeFollows, CanStepFollows, OutputFollows DEF Layers, SchedulerInv

-----------------------------------------------------------------------------
(* A refused request disturbs nothing: the number that it takes is in no   *)
(* queue, holds no block and has no text.                                  *)
LEMMA RefusedKeeps ==
    ASSUME Layers, NEW s \in Seqs, Refused(s)
    PROVE  Layers'
<1>0. /\ QueueInv /\ PoolInv /\ PlaceInv /\ HeadInv /\ OutputInv /\ DraftInv
      /\ StepInv /\ AllocInv /\ ShapeInv /\ RoomInv /\ KvInv /\ FreshSeqs
  BY DEF Layers, QueueInv, SlotInv, StepInv
<1>1. /\ UNCHANGED poolVars
      /\ UNCHANGED <<reason, plen, maxNew, computed, drafts>>
      /\ UNCHANGED <<waiting, running, finished, draftCount>>
      /\ UNCHANGED <<batch, failures, phase, budget, todo, pending, kv>>
      /\ state[s] = "none" /\ state' = [state EXCEPT ![s] = "Aborted"]
  BY DEF Refused, queueVars, stepVars
<1>2. UNCHANGED <<refCount, hash, kvComputed, free, hashToBlock, toks, table, op>>
  BY <1>1 DEF poolVars
<1>3. /\ state' \in [Seqs -> {"none", "Waiting", "Prefill", "Decode",
                             "Finished", "Aborted"}]
      /\ state'[s] = "Aborted"
      /\ \A u \in Seqs : u # s => state'[u] = state[u]
  BY <1>0, <1>1 DEF PlaceInv, PlaceTypes
<1>4. s \notin Range(waiting) \cup Range(running) \cup InTransit
  BY <1>0, <1>1 DEF PlaceInv, OnePlace
<1>5. PoolInv' /\ AllocInv'
  BY <1>0, <1>1, PoolNextInv, AllocNext
<1>6. PlaceInv'
  <2>1. InTransit' = InTransit
    BY <1>2 DEF InTransit
  <2>2. OnePlace'
    BY <1>0, <1>1, <1>3, <1>4, <2>1 DEF PlaceInv, OnePlace, IsFinished
  <2>3. OnlyRunningHoldBlocks'
    BY <1>0, <1>1, <1>2, <2>1 DEF PlaceInv, OnlyRunningHoldBlocks
  <2> QED BY <1>0, <1>1, <1>2, <1>3, <2>1, <2>2, <2>3 DEF PlaceInv, PlaceTypes
<1>7. HeadInv'
  BY <1>0, <1>1 DEF HeadInv
<1>8. QueueInv'
  BY <1>5, <1>6, <1>7 DEF QueueInv
<1>9. \A u \in Range(running) : state'[u] = state[u]
  BY <1>0, <1>3, <1>4, PlaceFacts
<1>10. ShapeInv'
  <2>1. op'.kind = "release" => op'.seq \notin Range(running')
    BY <1>0, <1>1, <1>2 DEF ShapeInv, StepStates
  <2> QED BY <1>0, <1>1, <1>2, <1>9, <2>1, ShapeFrame
<1>11. RoomInv'
  BY <1>0, <1>1, <1>2 DEF RoomInv, TextHasRoom, DraftsHaveRoom, AcceptedHaveRoom, Room, Lags,
                          InHand
<1>12. SlotInv'
  BY <1>5, <1>8, <1>10, <1>11 DEF SlotInv, StepInv
<1>13. KvInv'
  <2>1. RunningHold'
    BY <1>0, <1>1, <1>2, <1>9 DEF KvInv, RunningHold, ValidTokens
  <2> QED BY <1>0, <1>1, <1>2, <2>1 DEF KvInv, BatchHolds, AcceptedHold, AllocHolds, ItemHolds,
                                        InHand, CachedKvMatchesHash
<1>14. FreshSeqs'
  BY <1>0, <1>1, <1>2, <1>3 DEF FreshSeqs
<1>15. DraftInv'
  <2>1. Drafting' = Drafting
    BY <1>1 DEF Drafting
  <2> QED BY <1>0, <1>1, <1>3, <2>1 DEF DraftInv
<1>16. OutputInv'
  <2>1. ASSUME NEW u \in Seqs, state'[u] # "none" PROVE SeqOutput(u)'
    <3>1. CASE u # s
      <4>1. SeqOutput(u) /\ state'[u] = state[u]
        BY <1>0, <1>3, <2>1, <3>1 DEF OutputInv
      <4> QED BY <1>1, <1>2, <4>1 DEF SeqOutput, Live, Retiring
    <3>2. CASE u = s
      <4>1. toks'[s] = <<>> /\ plen'[s] = 0 /\ maxNew'[s] \in Nat
        BY <1>0, <1>1, <1>2 DEF FreshSeqs, OutputInv
      <4>2. GoodOutput(<<>>, 0, maxNew'[s])
        BY <4>1 DEF GoodOutput, Limit
      <4> QED BY <1>3, <3>2, <4>1, <4>2 DEF SeqOutput, Live
    <3> QED BY <3>1, <3>2
  <2> QED BY <1>0, <1>1, <2>1 DEF OutputInv
<1> QED BY <1>8, <1>12, <1>13, <1>14, <1>15, <1>16 DEF Layers

(* Nothing is lost with a step that is thrown away: what its sequences     *)
(* have computed and the slots they hold are what they were before it.     *)
LEMMA ThrownAwayKeeps ==
    ASSUME Layers, ThrownAway
    PROVE  Layers'
<1>0. /\ QueueInv /\ PoolInv /\ PlaceInv /\ HeadInv /\ OutputInv /\ DraftInv
      /\ StepInv /\ AllocInv /\ ShapeInv /\ RoomInv /\ KvInv /\ FreshSeqs
  BY DEF Layers, QueueInv, SlotInv, StepInv
<1>1. /\ UNCHANGED poolVars
      /\ UNCHANGED <<state, reason, plen, maxNew, computed, drafts>>
      /\ UNCHANGED <<waiting, running, draftCount>>
      /\ UNCHANGED <<failures, budget, todo, pending, kv>>
      /\ phase = "stepped" /\ phase' = "idle" /\ batch' = <<>> /\ finished' = <<>>
  BY DEF ThrownAway, seqVars
<1>2. UNCHANGED <<refCount, hash, kvComputed, free, hashToBlock, toks, table, op>>
  BY <1>1 DEF poolVars
<1>3. /\ <<>> \in Seq(Seqs) /\ <<>> \in Seq(ItemType)
      /\ IsInjective(<<>>) /\ Range(<<>>) = {} /\ Len(<<>>) = 0
  BY DEF IsInjective, Range
<1>4. todo = <<>>
  BY <1>0, <1>1 DEF ShapeInv, StepStates
<1>5. PoolInv' /\ AllocInv'
  BY <1>0, <1>1, PoolNextInv, AllocNext
<1>6. PlaceInv'
  <2>1. InTransit' = InTransit
    BY <1>2 DEF InTransit
  <2>2. OnePlace'
    BY <1>0, <1>1, <1>3, <2>1 DEF PlaceInv, OnePlace
  <2>3. OnlyRunningHoldBlocks'
    BY <1>0, <1>1, <1>2, <2>1 DEF PlaceInv, OnlyRunningHoldBlocks
  <2> QED BY <1>0, <1>1, <1>2, <1>3, <2>1, <2>2, <2>3 DEF PlaceInv, PlaceTypes
<1>7. HeadInv'
  BY <1>0, <1>1 DEF HeadInv
<1>8. QueueInv'
  BY <1>5, <1>6, <1>7 DEF QueueInv
<1>9. ShapeInv'
  <2>1. BatchSeqs' = {}
    BY <1>1, <1>3 DEF BatchSeqs
  <2>2. StepTypes' /\ StepDistinct'
    BY <1>0, <1>1, <1>3, <1>4, <2>1 DEF ShapeInv, StepTypes, Phases, StepDistinct
  <2>3. StepStates'
    BY <1>0, <1>1, <1>2, <1>4 DEF ShapeInv, StepStates
  <2>4. ItemsOK'
    BY <1>1, <1>3 DEF ItemsOK
  <2>5. PrefillsGoOn'
    BY <1>0, <1>1, <1>2 DEF ShapeInv, PrefillsGoOn
  <2> QED BY <2>2, <2>3, <2>4, <2>5 DEF ShapeInv
<1>10. RoomInv'
  <2>1. TextHasRoom'
    BY <1>0, <1>1, <1>2 DEF RoomInv, TextHasRoom, Room, Lags
  <2> QED BY <1>1, <1>3, <2>1 DEF RoomInv, DraftsHaveRoom, AcceptedHaveRoom
<1>11. SlotInv'
  BY <1>5, <1>8, <1>9, <1>10 DEF SlotInv, StepInv
<1>12. KvInv'
  <2>1. RunningHold'
    BY <1>0, <1>1, <1>2 DEF KvInv, RunningHold, ValidTokens
  <2> QED BY <1>0, <1>1, <1>2, <2>1 DEF KvInv, BatchHolds, AcceptedHold, AllocHolds,
                                        CachedKvMatchesHash
<1>13. FreshSeqs'
  BY <1>0, <1>1, <1>2 DEF FreshSeqs
<1>14. DraftInv'
  <2>1. Drafting' = Drafting
    BY <1>1 DEF Drafting
  <2> QED BY <1>0, <1>1, <2>1 DEF DraftInv
<1>15. OutputInv'
  <2>1. \A u \in Seqs : ~Retiring(u) /\ ~Retiring(u)'
    BY <1>1 DEF Retiring
  <2> QED BY <1>0, <1>1, <1>2, <2>1 DEF OutputInv, SeqOutput, Live
<1> QED BY <1>8, <1>11, <1>12, <1>13, <1>14, <1>15 DEF Layers

-----------------------------------------------------------------------------
(* The engine's own invariant.                                             *)

Command ==
    [kind : {"Submit"}, seq : Seqs, prompt : Prompts]
      \cup [kind : {"Abort"}, seq : Seqs]
      \cup [kind : {"Shutdown"}]

\* A request waits in the command queue once, for a number nobody has.
CmdsInv ==
    /\ cmds \in Seq(Command)
    /\ asked \in [Seqs -> Int]
    /\ client \in [Seqs -> {"none", "open", "aborted", "gone"}]
    /\ \A i \in 1 .. Len(cmds) : cmds[i].kind = "Submit" =>
          /\ asked[cmds[i].seq] \in Nat
          /\ client[cmds[i].seq] # "none"
          /\ state[cmds[i].seq] = "none"
    /\ \A i, j \in 1 .. Len(cmds) :
          /\ cmds[i].kind = "Submit" /\ cmds[j].kind = "Submit"
          /\ cmds[i].seq = cmds[j].seq
          => i = j
    /\ \A s \in Seqs : client[s] = "none" => state[s] = "none"

\* Where the engine's loop stands, and where the scheduler stands in it.
ModeInv ==
    \/ mode \in {"poll", "emit", "drain", "stopped"} /\ phase = "idle"
    \/ mode = "build" /\ phase \in {"idle", "build"}
    \/ mode \in {"model", "fail"} /\ phase = "stepped"
    \/ mode = "apply" /\ phase \in {"stepped", "apply", "retire"}

\* The engine's books. While replies are sent, or requests failed, one after
\* the other, a request that is over may be struck off before it is drained.
BookInv ==
    /\ mode \in {"poll", "build", "model", "apply", "drain"} =>
          meta = LiveSeqs \cup Range(finished)
    /\ mode \in {"emit", "fail"} =>
          LiveSeqs \subseteq meta /\ meta \subseteq LiveSeqs \cup Range(finished)
    /\ mode # "stopped" => LiveSeqs \subseteq held /\ held \subseteq meta
    /\ mode = "poll" => held = LiveSeqs

\* Every live sequence ends inside the pool, and no item of a batch is
\* aborted before it is applied.
FitInv ==
    /\ failures = {}
    /\ mode \in {"build", "model", "apply"} => BatchSeqs \subseteq Range(running)
    /\ \A s \in LiveSeqs : plen[s] + Limit(maxNew[s]) <= Capacity

EngineInv == CmdsInv /\ ModeInv /\ BookInv /\ FitInv

(* The oldest command, and the ones behind it.                             *)
LEMMA HeadCommand ==
    ASSUME CmdsInv, cmds # <<>>, NEW c, c = Head(cmds), NEW r, r = Tail(cmds)
    PROVE  /\ c \in Command /\ r \in Seq(Command)
           /\ 1 \in 1 .. Len(cmds) /\ c = cmds[1]
           /\ \A i \in 1 .. Len(r) :
                 i + 1 \in 1 .. Len(cmds) /\ i + 1 # 1 /\ r[i] = cmds[i + 1]
           /\ c.kind = "Submit" =>
                 /\ c.seq \in Seqs /\ c.prompt \in Prompts
                 /\ asked[c.seq] \in Nat /\ state[c.seq] = "none"
                 /\ client[c.seq] # "none"
           /\ c.kind = "Abort" => c.seq \in Seqs
<1>1. /\ cmds \in Seq(Command) /\ Len(cmds) \in Nat /\ Len(cmds) >= 1
      /\ c = cmds[1] /\ c \in Command /\ r \in Seq(Command)
      /\ Len(r) = Len(cmds) - 1
      /\ \A i \in 1 .. Len(r) : r[i] = cmds[i + 1]
  BY DEF CmdsInv
<1>2. 1 \in 1 .. Len(cmds)
  BY <1>1
<1>3. \A i \in 1 .. Len(r) :
         i + 1 \in 1 .. Len(cmds) /\ i + 1 # 1 /\ r[i] = cmds[i + 1]
  BY <1>1
<1>4. c.kind = "Submit" => c.seq \in Seqs /\ c.prompt \in Prompts
  BY <1>1 DEF Command
<1>5. c.kind = "Abort" => c.seq \in Seqs
  BY <1>1 DEF Command
<1>6. c.kind = "Submit" => /\ asked[c.seq] \in Nat /\ state[c.seq] = "none"
                           /\ client[c.seq] # "none"
  BY <1>1, <1>2 DEF CmdsInv
<1> QED BY <1>1, <1>2, <1>3, <1>4, <1>5, <1>6

(* Steps that take no command and make no request.                         *)
LEMMA CmdsFrame ==
    ASSUME CmdsInv, UNCHANGED <<cmds, asked>>,
           client' \in [Seqs -> {"none", "open", "aborted", "gone"}],
           \A u \in Seqs : client'[u] = "none" <=> client[u] = "none",
           \A u \in Seqs : state'[u] = "none" <=> state[u] = "none"
    PROVE  CmdsInv'
<1>1. \A i \in 1 .. Len(cmds) : cmds[i].kind = "Submit" => cmds[i].seq \in Seqs
  <2> TAKE i \in 1 .. Len(cmds)
  <2>1. cmds[i] \in Command
    BY DEF CmdsInv
  <2> QED BY <2>1 DEF Command
<1> QED BY <1>1 DEF CmdsInv

(* The oldest command is taken; a request's number may be used by that.    *)
LEMMA CmdsTail ==
    ASSUME CmdsInv, cmds # <<>>, cmds' = Tail(cmds), UNCHANGED <<asked, client>>,
           \A u \in Seqs : state[u] = "none" =>
              \/ state'[u] = "none"
              \/ Head(cmds).kind = "Submit" /\ Head(cmds).seq = u
    PROVE  CmdsInv'
<1>1. PICK c, r : c = Head(cmds) /\ r = Tail(cmds)
  OBVIOUS
<1>2. /\ c \in Command /\ r \in Seq(Command) /\ 1 \in 1 .. Len(cmds) /\ c = cmds[1]
      /\ \A i \in 1 .. Len(r) :
            i + 1 \in 1 .. Len(cmds) /\ i + 1 # 1 /\ r[i] = cmds[i + 1]
      /\ c.kind = "Submit" => client[c.seq] # "none"
  BY <1>1, HeadCommand
<1>3. ASSUME NEW i \in 1 .. Len(r), r[i].kind = "Submit"
      PROVE  /\ asked[r[i].seq] \in Nat
             /\ client[r[i].seq] # "none"
             /\ state'[r[i].seq] = "none"
  <2>1. PICK k \in 1 .. Len(cmds) : k # 1 /\ r[i] = cmds[k]
    BY <1>2, <1>3
  <2>2. asked[r[i].seq] \in Nat /\ client[r[i].seq] # "none" /\ state[r[i].seq] = "none"
    BY <1>3, <2>1 DEF CmdsInv
  <2>3. ~(c.kind = "Submit" /\ c.seq = r[i].seq)
    BY <1>2, <1>3, <2>1 DEF CmdsInv
  <2>4. r[i].seq \in Seqs
    <3>1. r[i] \in Command
      BY <1>2
    <3> QED BY <1>3, <3>1 DEF Command
  <2> QED BY <1>1, <2>2, <2>3, <2>4
<1>4. ASSUME NEW i \in 1 .. Len(r), NEW j \in 1 .. Len(r),
             r[i].kind = "Submit", r[j].kind = "Submit", r[i].seq = r[j].seq
      PROVE  i = j
  <2>1. i + 1 = j + 1
    BY <1>2, <1>4 DEF CmdsInv
  <2>2. Len(r) \in Nat
    BY <1>2
  <2> QED BY <2>1, <2>2
<1>5. \A u \in Seqs : client[u] = "none" => state'[u] = "none"
  BY <1>1, <1>2 DEF CmdsInv
<1>6. cmds' = r
  BY <1>1
<1> QED BY <1>2, <1>3, <1>4, <1>5, <1>6 DEF CmdsInv

(* One more command.                                                       *)
LEMMA CmdsAppend ==
    ASSUME CmdsInv, NEW c \in Command, cmds' = Append(cmds, c), UNCHANGED state,
           asked' \in [Seqs -> Int],
           client' \in [Seqs -> {"none", "open", "aborted", "gone"}],
           \A u \in Seqs : asked[u] \in Nat => asked'[u] \in Nat,
           \A u \in Seqs : client'[u] = "none" => client[u] = "none",
           c.kind = "Submit" =>
              /\ client[c.seq] = "none" /\ client'[c.seq] # "none"
              /\ asked'[c.seq] \in Nat
    PROVE  CmdsInv'
<1>1. /\ cmds \in Seq(Command) /\ Len(cmds) \in Nat /\ cmds' \in Seq(Command)
      /\ Len(cmds') = Len(cmds) + 1 /\ cmds'[Len(cmds) + 1] = c
      /\ \A i \in 1 .. Len(cmds) : cmds'[i] = cmds[i]
  BY DEF CmdsInv
<1>2. \A i \in 1 .. Len(cmds') : i \in 1 .. Len(cmds) \/ i = Len(cmds) + 1
  BY <1>1
<1>3. \A i \in 1 .. Len(cmds) : cmds[i].kind = "Submit" => cmds[i].seq \in Seqs
  <2> TAKE i \in 1 .. Len(cmds)
  <2>1. cmds[i] \in Command
    BY <1>1
  <2> QED BY <2>1 DEF Command
<1>4. c.kind = "Submit" => c.seq \in Seqs
  BY DEF Command
<1>5. ASSUME NEW i \in 1 .. Len(cmds'), cmds'[i].kind = "Submit"
      PROVE  /\ asked'[cmds'[i].seq] \in Nat
             /\ client'[cmds'[i].seq] # "none"
             /\ state'[cmds'[i].seq] = "none"
  <2>1. CASE i \in 1 .. Len(cmds)
    BY <1>1, <1>3, <1>5, <2>1 DEF CmdsInv
  <2>2. CASE i = Len(cmds) + 1
    BY <1>1, <1>4, <1>5, <2>2 DEF CmdsInv
  <2> QED BY <1>2, <2>1, <2>2
<1>6. ASSUME NEW i \in 1 .. Len(cmds), cmds[i].kind = "Submit", c.kind = "Submit"
      PROVE  cmds[i].seq # c.seq
  BY <1>6 DEF CmdsInv
<1>7. ASSUME NEW i \in 1 .. Len(cmds'), NEW j \in 1 .. Len(cmds'),
             cmds'[i].kind = "Submit", cmds'[j].kind = "Submit",
             cmds'[i].seq = cmds'[j].seq
      PROVE  i = j
  <2>1. CASE i \in 1 .. Len(cmds) /\ j \in 1 .. Len(cmds)
    BY <1>1, <1>7, <2>1 DEF CmdsInv
  <2>2. CASE i = Len(cmds) + 1 /\ j = Len(cmds) + 1
    BY <2>2
  <2>3. CASE i = Len(cmds) + 1 /\ j \in 1 .. Len(cmds)
    BY <1>1, <1>6, <1>7, <2>3
  <2>4. CASE i \in 1 .. Len(cmds) /\ j = Len(cmds) + 1
    BY <1>1, <1>6, <1>7, <2>4
  <2> QED BY <1>2, <2>1, <2>2, <2>3, <2>4
<1>8. \A u \in Seqs : client'[u] = "none" => state'[u] = "none"
  BY DEF CmdsInv
<1> QED BY <1>1, <1>5, <1>7, <1>8 DEF CmdsInv

-----------------------------------------------------------------------------
(* The limit that admit puts on the output is a number, and what is        *)
(* admitted ends inside the pool.                                          *)
LEMMA AdmittedLimit ==
    ASSUME NEW p \in Prompts, NEW a \in Nat, ~(Len(p) + 1 > Capacity),
           NEW m, m = Smaller(a, Capacity - Len(p) - 1)
    PROVE  m \in Nat /\ Len(p) \in Nat /\ Len(p) + Limit(m) <= Capacity
<1>1. Len(p) \in Nat
  BY PoolAssumption
<1>2. Capacity \in Nat
  BY PoolAssumption DEF Capacity
<1> QED BY <1>1, <1>2 DEF Smaller, Limit

(* Drain is the scheduler's drain_finished.                                *)
LEMMA DrainSteps ==
    ASSUME op = Idle, phase = "idle", Drain, UNCHANGED stepVars
    PROVE  [AnyNext]_vars
<1>1. CASE finished # <<>>
  <2>1. DrainFinished
    BY <1>1 DEF Drain, DrainFinished
  <2> QED BY <2>1 DEF AnyNext
<1>2. CASE finished = <<>>
  <2>1. UNCHANGED vars
    BY <1>2 DEF Drain, vars, schedVars, queueVars
  <2> QED BY <2>1
<1> QED BY <1>1, <1>2

(* What the engine does to the scheduler in one step.                      *)
SchedulerStep == [AnyNext]_vars \/ (\E s \in Seqs : Refused(s)) \/ ThrownAway

(* An abort of the engine is one of the scheduler, or nothing.             *)
LEMMA AbortSteps ==
    ASSUME NEW s \in Seqs, AbortSequence(s)
    PROVE  [AnyNext]_vars
  BY DEF AbortSequence, AnyNext

(* The thread uses the scheduler as it may be used: every call is made     *)
(* when the scheduler is ready for it.                                     *)
LEMMA ThreadSteps ==
    ASSUME QueueInv, EngineInv, EngineThread
    PROVE  SchedulerStep
<1>0. CmdsInv /\ ModeInv /\ BookInv
  BY DEF EngineInv
<1>a. ASSUME NEW k, Polling(k)
      PROVE  /\ cmds # <<>> /\ Head(cmds).kind = k
             /\ k = "Submit" =>
                   /\ Head(cmds).seq \in Seqs /\ Head(cmds).prompt \in Prompts
                   /\ asked[Head(cmds).seq] \in Nat /\ state[Head(cmds).seq] = "none"
             /\ k = "Abort" => Head(cmds).seq \in Seqs
  <2>1. cmds # <<>> /\ Head(cmds).kind = k
    BY <1>a DEF Polling
  <2> QED BY <1>0, <2>1, HeadCommand
<1>1. CASE PollReject
  <2>1. PICK s : s = Head(cmds).seq
    OBVIOUS
  <2>2. Refused(s) /\ s \in Seqs
    BY <1>1, <1>a, <2>1 DEF PollReject, Refused
  <2> QED BY <2>2 DEF SchedulerStep
<1>2. CASE PollAdmit
  <2>1. PICK s, p : s = Head(cmds).seq /\ p = Head(cmds).prompt
    OBVIOUS
  <2>2. PICK m : m = Smaller(asked[s], Capacity - Len(p) - 1)
    OBVIOUS
  <2>3. s \in Seqs /\ p \in Prompts /\ asked[s] \in Nat
    BY <1>2, <1>a, <2>1 DEF PollAdmit
  <2>4. Enqueue(s, p, m) /\ ~(Len(p) + 1 > Capacity)
    BY <1>2, <2>1, <2>2 DEF PollAdmit, Rejected
  <2>5. m \in Nat
    BY <2>2, <2>3, <2>4, AdmittedLimit
  <2> QED BY <2>3, <2>4, <2>5 DEF SchedulerStep, AnyNext
<1>3. CASE PollAbort
  BY <1>3, <1>a, AbortSteps DEF PollAbort, SchedulerStep
<1>4. CASE PollShutdown \/ RunModel \/ Emit
  BY <1>4 DEF PollShutdown, RunModel, Emit, SchedulerStep
<1>5. CASE BeginStep
  BY <1>0, <1>5, DrainSteps DEF BeginStep, ModeInv, SchedulerStep
<1>6. CASE EndStep
  BY <1>0, <1>6, DrainSteps DEF EndStep, ModeInv, SchedulerStep
<1>7. CASE BuildBatch \/ BatchBuilt \/ ApplyItems \/ ItemsApplied \/ PoolStep
  <2>1. StepNext
    BY <1>7 DEF BuildBatch, BatchBuilt, ApplyItems, ItemsApplied, StepNext
  <2> QED BY <2>1 DEF AnyNext, SchedulerStep
<1>8. CASE EmitRefused
  <2>1. PICK s : s = Head(producing)
    OBVIOUS
  <2>2. AbortSequence(s)
    BY <1>8, <2>1 DEF EmitRefused
  <2>3. Range(waiting) \subseteq Seqs /\ Range(running) \subseteq Seqs
    BY PlaceFacts DEF QueueInv
  <2>4. s \in Seqs \/ UNCHANGED vars
    BY <2>2, <2>3 DEF AbortSequence, Abort, AbortWaiting, AbortRunning
  <2> QED BY <2>2, <2>4, AbortSteps DEF SchedulerStep
<1>9. ASSUME NEW s \in Seqs, FailOne(s) PROVE SchedulerStep
  BY <1>9, AbortSteps DEF FailOne, SchedulerStep
<1>10. CASE FailDone
  BY <1>0, <1>10 DEF FailDone, ModeInv, ThrownAway, SchedulerStep
<1> QED BY <1>1, <1>2, <1>3, <1>4, <1>5, <1>6, <1>7, <1>8, <1>9, <1>10 DEF EngineThread

(* What is proved of the scheduler holds in the engine.                    *)
LEMMA LayersEngine == Layers /\ EngineInv /\ [EngineNext]_allVars => Layers' /\ SchedulerStep
<1> SUFFICES ASSUME Layers, EngineInv, [EngineNext]_allVars PROVE Layers' /\ SchedulerStep
  OBVIOUS
<1>1. ASSUME EngineThread PROVE SchedulerStep
  BY <1>1, ThreadSteps DEF Layers
<1>2. ASSUME Clients \/ UNCHANGED allVars PROVE SchedulerStep
  <2>1. UNCHANGED vars
    BY <1>2 DEF Clients, Submit, ClientAbort, ClientDrop, HandleDrop, allVars
  <2> QED BY <2>1 DEF SchedulerStep
<1>3. SchedulerStep
  BY <1>1, <1>2 DEF EngineNext
<1> QED BY <1>3, LayersNext, RefusedKeeps, ThrownAwayKeeps DEF SchedulerStep

-----------------------------------------------------------------------------
(* The steps of the clients.                                               *)
LEMMA ClientsKeep ==
    ASSUME EngineInv, Clients
    PROVE  EngineInv'
<1>0. CmdsInv /\ ModeInv /\ BookInv /\ FitInv
  BY DEF EngineInv
<1>1. UNCHANGED <<vars, mode, meta, held>>
  BY DEF Clients, Submit, ClientAbort, ClientDrop, HandleDrop
<1>2. UNCHANGED <<state, finished, phase, failures, batch, running, plen, maxNew>>
  BY <1>1 DEF vars, schedVars, seqVars, queueVars, stepVars
<1>3. LiveSeqs' = LiveSeqs /\ BatchSeqs' = BatchSeqs
  BY <1>2 DEF LiveSeqs, Live, BatchSeqs
<1>4. ModeInv' /\ BookInv' /\ FitInv'
  BY <1>0, <1>1, <1>2, <1>3 DEF ModeInv, BookInv, FitInv
<1>a. /\ asked \in [Seqs -> Int]
      /\ client \in [Seqs -> {"none", "open", "aborted", "gone"}]
  BY <1>0 DEF CmdsInv
<1>5. ASSUME NEW s \in Seqs, NEW p \in Prompts, NEW m \in MaxNews, Submit(s, p, m)
      PROVE  CmdsInv'
  <2>1. PICK c \in Command : c = [kind |-> "Submit", seq |-> s, prompt |-> p]
    BY DEF Command
  <2>2. c.kind = "Submit" /\ c.seq = s
    BY <2>1
  <2>3. /\ cmds' = Append(cmds, c) /\ client[s] = "none"
        /\ asked' = [asked EXCEPT ![s] = m] /\ client' = [client EXCEPT ![s] = "open"]
    BY <1>5, <2>1 DEF Submit
  <2>4. m \in Nat
    BY SchedulerAssumption
  <2>5. /\ asked' \in [Seqs -> Int] /\ asked'[s] = m
        /\ \A u \in Seqs : asked[u] \in Nat => asked'[u] \in Nat
    BY <1>a, <2>3, <2>4
  <2>6. /\ client' \in [Seqs -> {"none", "open", "aborted", "gone"}]
        /\ client'[s] # "none"
        /\ \A u \in Seqs : client'[u] = "none" => client[u] = "none"
    BY <1>a, <2>3
  <2> QED BY <1>0, <1>2, <2>2, <2>3, <2>4, <2>5, <2>6, CmdsAppend
<1>6. ASSUME NEW s \in Seqs, ClientAbort(s) PROVE CmdsInv'
  <2>1. PICK c \in Command : c = [kind |-> "Abort", seq |-> s]
    BY DEF Command
  <2>2. c.kind # "Submit"
    BY <2>1
  <2>3. /\ cmds' = Append(cmds, c) /\ asked' = asked
        /\ client' \in {[client EXCEPT ![s] = x] : x \in {"aborted", "gone"}}
    BY <1>6, <2>1 DEF ClientAbort
  <2>4. PICK x \in {"aborted", "gone"} : client' = [client EXCEPT ![s] = x]
    BY <2>3
  <2>5. /\ client' \in [Seqs -> {"none", "open", "aborted", "gone"}]
        /\ \A u \in Seqs : client'[u] = "none" => client[u] = "none"
    BY <1>a, <2>4
  <2> QED BY <1>0, <1>2, <1>a, <2>2, <2>3, <2>5, CmdsAppend
<1>7. ASSUME NEW s \in Seqs, ClientDrop(s) PROVE CmdsInv'
  <2>1. /\ client[s] # "none" /\ client' = [client EXCEPT ![s] = "gone"]
        /\ UNCHANGED <<cmds, asked>>
    BY <1>7 DEF ClientDrop, Listening
  <2>2. /\ client' \in [Seqs -> {"none", "open", "aborted", "gone"}]
        /\ \A u \in Seqs : client'[u] = "none" <=> client[u] = "none"
    BY <1>a, <2>1
  <2> QED BY <1>0, <1>2, <2>1, <2>2, CmdsFrame
<1>8. ASSUME HandleDrop PROVE CmdsInv'
  <2>1. PICK c \in Command : c = [kind |-> "Shutdown"]
    BY DEF Command
  <2>2. c.kind # "Submit"
    BY <2>1
  <2>3. cmds' = Append(cmds, c) /\ UNCHANGED <<asked, client>>
    BY <1>8, <2>1 DEF HandleDrop
  <2> QED BY <1>0, <1>2, <1>a, <2>2, <2>3, CmdsAppend
<1>9. CmdsInv'
  BY <1>5, <1>6, <1>7, <1>8 DEF Clients
<1> QED BY <1>4, <1>9 DEF EngineInv

(* A request is refused or admitted.                                       *)
LEMMA SubmitKeeps ==
    ASSUME Layers, Layers', EngineInv, PollReject \/ PollAdmit
    PROVE  EngineInv'
<1>0. /\ CmdsInv /\ ModeInv /\ BookInv /\ FitInv
      /\ PlaceInv /\ QueueInv /\ StepStates /\ mode = "poll" /\ phase = "idle"
  BY DEF EngineInv, Layers, QueueInv, SlotInv, StepInv, ShapeInv, PollReject, PollAdmit,
         Polling, ModeInv
<1>1. PICK s, p : s = Head(cmds).seq /\ p = Head(cmds).prompt
  OBVIOUS
<1>2. /\ cmds # <<>> /\ cmds' = Tail(cmds) /\ Head(cmds).kind = "Submit"
      /\ UNCHANGED <<mode, asked, client>>
  BY DEF PollReject, PollAdmit, Polling
<1>3. s \in Seqs /\ p \in Prompts /\ asked[s] \in Nat /\ state[s] = "none"
  BY <1>0, <1>1, <1>2, HeadCommand
<1>4. s \notin LiveSeqs
  BY <1>3 DEF LiveSeqs, Live
<1>5. CASE PollReject
  <2>1. /\ state' = [state EXCEPT ![s] = "Aborted"] /\ UNCHANGED <<meta, held>>
        /\ UNCHANGED <<finished, phase, failures, batch, running, plen, maxNew>>
    BY <1>1, <1>5 DEF PollReject, queueVars, stepVars
  <2>2. state'[s] = "Aborted" /\ \A u \in Seqs : u # s => state'[u] = state[u]
    BY <1>0, <1>3, <2>1 DEF PlaceInv, PlaceTypes
  <2>3. LiveSeqs' = LiveSeqs
    BY <1>3, <2>2 DEF LiveSeqs, Live
  <2>4. CmdsInv'
    BY <1>0, <1>1, <1>2, <2>2, CmdsTail
  <2>5. ModeInv' /\ BookInv' /\ FitInv'
    BY <1>0, <1>2, <2>1, <2>3 DEF ModeInv, BookInv, FitInv
  <2> QED BY <2>4, <2>5 DEF EngineInv
<1>6. CASE PollAdmit
  <2>1. PICK m : m = Smaller(asked[s], Capacity - Len(p) - 1)
    OBVIOUS
  <2>2. /\ Enqueue(s, p, m) /\ ~(Len(p) + 1 > Capacity)
        /\ meta' = meta \cup {s} /\ held' = held \cup {s}
    BY <1>1, <1>6, <2>1 DEF PollAdmit, Rejected
  <2>3. Len(p) + Limit(m) <= Capacity
    BY <1>3, <2>1, <2>2, AdmittedLimit
  <2>4. /\ state' = [state EXCEPT ![s] = "Waiting"]
        /\ plen' = [plen EXCEPT ![s] = Len(p)] /\ maxNew' = [maxNew EXCEPT ![s] = m]
        /\ UNCHANGED <<finished, phase, failures, batch, running>>
    BY <2>2 DEF Enqueue, stepVars
  <2>5. state'[s] = "Waiting" /\ \A u \in Seqs : u # s => state'[u] = state[u]
    BY <1>0, <1>3, <2>4 DEF PlaceInv, PlaceTypes
  <2>6. LiveSeqs' = LiveSeqs \cup {s}
    BY <1>3, <2>5 DEF LiveSeqs, Live
  <2>7. CmdsInv'
    BY <1>0, <1>1, <1>2, <2>5, CmdsTail
  <2>8. ModeInv' /\ BookInv'
    BY <1>0, <1>2, <2>2, <2>4, <2>6 DEF ModeInv, BookInv
  <2>9. FitInv'
    <3>1. plen \in [Seqs -> Nat] /\ maxNew \in [Seqs -> Nat]
      BY DEF Layers, OutputInv
    <3>2. /\ plen'[s] = Len(p) /\ maxNew'[s] = m
          /\ \A u \in Seqs : u # s => plen'[u] = plen[u] /\ maxNew'[u] = maxNew[u]
      BY <1>3, <2>4, <3>1
    <3>3. LiveSeqs \subseteq Seqs
      BY DEF LiveSeqs
    <3>4. \A u \in LiveSeqs' : plen'[u] + Limit(maxNew'[u]) <= Capacity
      BY <1>0, <2>3, <2>6, <3>2, <3>3 DEF FitInv
    <3> QED BY <1>0, <1>2, <2>4, <3>4 DEF FitInv
  <2> QED BY <2>7, <2>8, <2>9 DEF EngineInv
<1> QED BY <1>5, <1>6

(* One request ends by an abort: asked for, because its reply could not be *)
(* delivered, or because the step failed.                                  *)
LEMMA AbortKeeps ==
    ASSUME Layers, EngineInv, NEW s, AbortSequence(s), op = Idle,
           mode \in {"poll", "emit", "fail"}, UNCHANGED mode,
           held' = held \ {s},
           meta' = IF mode = "poll" THEN meta ELSE meta \ {s}
    PROVE  ModeInv' /\ BookInv' /\ FitInv' /\ Carries
<1>0. ModeInv /\ BookInv /\ FitInv /\ QueueInv
  BY DEF EngineInv, Layers
<1>1. /\ Carries /\ UNCHANGED <<plen, maxNew>> /\ UNCHANGED <<phase, failures>>
      /\ LiveSeqs' = LiveSeqs \ {s}
      /\ Range(finished') = Range(finished) \cup (LiveSeqs \cap {s})
  BY <1>0, AbortCarries DEF stepVars
<1>2. ModeInv'
  BY <1>0, <1>1 DEF ModeInv
<1>3. BookInv'
  BY <1>0, <1>1 DEF BookInv
<1>4. FitInv'
  BY <1>0, <1>1 DEF FitInv
<1> QED BY <1>1, <1>2, <1>3, <1>4

(* The finished requests are struck off the books.                         *)
LEMMA DrainKeeps ==
    ASSUME Layers, EngineInv, Drain, UNCHANGED stepVars, op = Idle,
           mode \in {"poll", "emit", "drain"},
           mode' = "poll" \/ (mode' = "build" /\ mode = "poll")
    PROVE  EngineInv'
<1>0. CmdsInv /\ ModeInv /\ BookInv /\ FitInv /\ QueueInv /\ StepStates
  BY DEF EngineInv, Layers, SlotInv, StepInv, ShapeInv
<1>1. /\ meta' = meta \ Range(finished) /\ held' = held \ Range(finished)
      /\ finished' = <<>> /\ UNCHANGED <<state, plen, maxNew, running>>
      /\ UNCHANGED <<batch, failures, phase>> /\ UNCHANGED <<cmds, asked, client>>
  BY DEF Drain, seqVars, stepVars
<1>2. LiveSeqs' = LiveSeqs /\ Range(finished') = {}
  BY <1>1 DEF LiveSeqs, Live, Range
<1>3. LiveSeqs \cap Range(finished) = {}
  BY <1>0, LiveIsQueued
<1>4. phase = "idle"
  BY <1>0 DEF ModeInv
<1>5. ModeInv'
  BY <1>1, <1>4 DEF ModeInv
<1>6. BookInv'
  BY <1>0, <1>1, <1>2, <1>3 DEF BookInv
<1>7. BatchSeqs' = {}
  BY <1>0, <1>1, <1>4 DEF BatchSeqs, StepStates
<1>8. FitInv'
  BY <1>0, <1>1, <1>2, <1>7 DEF FitInv
<1>9. CmdsInv'
  BY <1>0, <1>1, CmdsFrame DEF CmdsInv
<1> QED BY <1>5, <1>6, <1>8, <1>9 DEF EngineInv

(* A live sequence fits the pool at every length it can have.              *)
LEMMA LiveFits ==
    ASSUME Layers, FitInv, NEW s \in LiveSeqs
    PROVE  Needed(s) <= NumBlocks
<1>1. s \in Seqs /\ state[s] # "none"
  BY DEF LiveSeqs, Live
<1>2. GoodOutput(toks[s], plen[s], maxNew[s]) /\ plen[s] \in Nat /\ maxNew[s] \in Nat
  BY <1>1 DEF Layers, OutputInv, SeqOutput
<1>3. Len(toks[s]) \in Nat
  BY <1>1, RoomTypes DEF Layers, QueueInv
<1>4. plen[s] + Limit(maxNew[s]) <= NumBlocks * BlockSize
  BY DEF FitInv, Capacity
<1>5. NumBlocks * BlockSize \in Nat /\ NumBlocks \in Nat
  BY PoolAssumption
<1>6. Len(toks[s]) <= NumBlocks * BlockSize
  BY <1>2, <1>3, <1>4, <1>5 DEF GoodOutput, Limit
<1> QED BY <1>3, <1>5, <1>6, BlocksNeeded DEF Needed

(* Loops of the pool change nothing the engine looks at.                   *)
LEMMA PoolStepKeeps ==
    ASSUME EngineInv, PoolStep, UNCHANGED engineVars
    PROVE  EngineInv'
<1>0. CmdsInv /\ ModeInv /\ BookInv /\ FitInv
  BY DEF EngineInv
<1>1. UNCHANGED <<state, finished, phase, failures, batch, running, plen, maxNew>>
  BY DEF PoolStep, schedVars, seqVars, queueVars, stepVars
<1>2. UNCHANGED <<cmds, mode, meta, held, asked, client>>
  BY DEF engineVars
<1>3. LiveSeqs' = LiveSeqs /\ BatchSeqs' = BatchSeqs
  BY <1>1 DEF LiveSeqs, Live, BatchSeqs
<1>4. CmdsInv'
  BY <1>0, <1>1, <1>2 DEF CmdsInv
<1>5. ModeInv' /\ BookInv' /\ FitInv'
  BY <1>0, <1>1, <1>2, <1>3 DEF ModeInv, BookInv, FitInv
<1> QED BY <1>4, <1>5 DEF EngineInv

(* The books through a step of the scheduler that is under way.            *)
LEMMA StepKeepsBooks ==
    ASSUME Layers, EngineInv, StepNext, mode \in {"build", "apply"},
           UNCHANGED <<cmds, meta, held, asked, client>>,
           mode' \in {"build", "model", "apply", "emit", "drain"}
    PROVE  /\ CmdsInv' /\ BookInv'
           /\ \A s \in LiveSeqs' : plen'[s] + Limit(maxNew'[s]) <= Capacity
<1>0. CmdsInv /\ BookInv /\ FitInv /\ QueueInv
  BY DEF EngineInv, Layers
<1>1. Carries /\ UNCHANGED <<plen, maxNew>>
  BY <1>0, StepCarries
<1>2. CmdsInv'
  BY <1>0, <1>1, CmdsFrame DEF Carries, CmdsInv
<1>3. BookInv'
  BY <1>0, <1>1 DEF Carries, BookInv
<1> QED BY <1>0, <1>1, <1>2, <1>3 DEF FitInv, Carries

(* The batch is built, and goes to the model.                              *)
LEMMA BuildKeeps ==
    ASSUME Layers, Layers', EngineInv, BuildBatch \/ BatchBuilt
    PROVE  EngineInv'
<1>0. /\ ModeInv /\ FitInv /\ mode = "build" /\ StepStates /\ StepStates'
      /\ phase \in {"idle", "build"}
  BY DEF EngineInv, Layers, SlotInv, StepInv, ShapeInv, BuildBatch, BatchBuilt, ModeInv
<1>1. CASE BuildBatch
  <2>1. UNCHANGED <<cmds, mode, meta, held, asked, client>>
    BY <1>1 DEF BuildBatch, engineVars
  <2>2. StepNext
    BY <1>1 DEF BuildBatch, StepNext
  <2>3. /\ CmdsInv' /\ BookInv'
        /\ \A s \in LiveSeqs' : plen'[s] + Limit(maxNew'[s]) <= Capacity
    BY <1>0, <2>1, <2>2, StepKeepsBooks
  <2>4. phase' = "build" /\ (failures' = {} \/ failures' = failures)
    BY <1>1 DEF BuildBatch, StepMixed, ScheduleChunk, AdmitEmpty, AdmitBegin, AdmitEnd, stepVars
  <2>5. ModeInv'
    BY <1>0, <2>1, <2>4 DEF ModeInv
  <2>6. FitInv'
    BY <1>0, <2>3, <2>4 DEF FitInv, StepStates
  <2> QED BY <2>3, <2>5, <2>6 DEF EngineInv
<1>2. CASE BatchBuilt
  <2>1. /\ UNCHANGED <<cmds, meta, held, asked, client>> /\ FinishBuild
        /\ mode' = IF batch = <<>> THEN "drain" ELSE "model"
    BY <1>2 DEF BatchBuilt
  <2>2. StepNext
    BY <2>1 DEF StepNext
  <2>3. /\ CmdsInv' /\ BookInv'
        /\ \A s \in LiveSeqs' : plen'[s] + Limit(maxNew'[s]) <= Capacity
    BY <1>0, <2>1, <2>2, StepKeepsBooks
  <2>4. /\ phase' = (IF batch = <<>> THEN "idle" ELSE "stepped") /\ phase = "build"
        /\ UNCHANGED <<batch, failures, running>>
    BY <2>1 DEF FinishBuild, queueVars
  <2>5. ModeInv'
    BY <2>1, <2>4 DEF ModeInv
  <2>6. BatchSeqs' = BatchSeqs
    BY <2>4 DEF BatchSeqs
  <2>7. FitInv'
    BY <1>0, <2>3, <2>4, <2>6 DEF FitInv
  <2> QED BY <2>3, <2>5, <2>7 DEF EngineInv
<1> QED BY <1>1, <1>2

(* The sampled tokens are applied. Nobody was aborted meanwhile, so every  *)
(* item finds its sequence; and nobody outgrows the pool.                  *)
LEMMA ApplyKeeps ==
    ASSUME Layers, EngineInv, ApplyItems \/ ItemsApplied
    PROVE  EngineInv'
<1>0. /\ ModeInv /\ FitInv /\ mode = "apply" /\ phase \in {"stepped", "apply", "retire"}
      /\ StepTypes /\ StepDistinct /\ QueueInv /\ PlaceInv /\ HeadInv /\ StepStates
  BY DEF EngineInv, Layers, SlotInv, StepInv, ShapeInv, QueueInv, ApplyItems, ItemsApplied,
         ModeInv
<1>1. StepNext
  BY DEF ApplyItems, ItemsApplied, StepNext
<1>2. /\ UNCHANGED <<cmds, meta, held, asked, client>>
      /\ mode' \in {"apply", "emit"}
  BY <1>0 DEF ApplyItems, ItemsApplied, engineVars
<1>3. /\ CmdsInv' /\ BookInv'
      /\ \A s \in LiveSeqs' : plen'[s] + Limit(maxNew'[s]) <= Capacity
  BY <1>0, <1>1, <1>2, StepKeepsBooks
<1>4. BatchSeqs \subseteq Range(running) /\ failures = {}
  BY <1>0 DEF FitInv
<1>5. SUFFICES ModeInv' /\ failures' = {} /\ (mode' = "apply" => BatchSeqs' \subseteq Range(running'))
  BY <1>2, <1>3 DEF EngineInv, FitInv
<1>6. CASE ItemsApplied
  BY <1>4, <1>6 DEF ItemsApplied, StepDone, ModeInv
<1>7. ASSUME ApplyItems PROVE mode' = "apply"
  BY <1>0, <1>7 DEF ApplyItems, engineVars
<1>8. batch # <<>> => Head(batch).seq \in Range(running)
  <2>1. batch # <<>> => Head(batch).seq \in BatchSeqs
    BY <1>0 DEF StepTypes, BatchSeqs
  <2> QED BY <1>4, <2>1
<1>9. ASSUME ApplyItems, ItemNotRunning PROVE FALSE
  BY <1>8, <1>9 DEF ItemNotRunning, Applying
<1>10. ASSUME ApplyItems, ExtendOverflow PROVE FALSE
  <2>1. PICK s : s = Head(todo)
    OBVIOUS
  <2>2. s \in Range(running) /\ Needed(s) > NumBlocks
    BY <1>10, <2>1 DEF ExtendOverflow, OutOfBlocks
  <2>3. s \in LiveSeqs
    BY <1>0, <2>2, LiveIsQueued
  <2>4. Needed(s) <= NumBlocks
    BY <1>0, <2>3, LiveFits
  <2>5. Len(toks[s]) \in Nat
    BY <1>0, <2>3, RoomTypes DEF LiveSeqs, QueueInv
  <2>6. Needed(s) \in Nat /\ NumBlocks \in Nat
    BY <2>5, BlocksNeeded, PoolAssumption DEF Needed
  <2> QED BY <2>2, <2>4, <2>6
<1>11. ASSUME batch # <<>>, batch' = Tail(batch)
       PROVE  BatchSeqs' \subseteq BatchSeqs \ {Head(batch).seq}
  BY <1>0, <1>11, BatchTail
<1>12. CASE ApplyItems /\ ApplyChunk
  <2>1. /\ batch # <<>> /\ batch' = Tail(batch) /\ phase' = "apply"
        /\ UNCHANGED <<running, failures>>
    BY <1>12 DEF ApplyChunk, Applying, queueVars
  <2> QED BY <1>4, <1>7, <1>11, <1>12, <2>1 DEF ModeInv
<1>13. CASE ApplyItems /\ \E t \in Token : ApplyToken(t)
  <2>1. /\ batch # <<>> /\ (batch' = batch \/ batch' = Tail(batch))
        /\ phase' \in {"apply", "retire"} /\ UNCHANGED <<running, failures>>
    BY <1>13 DEF ApplyToken, Applying, queueVars
  <2>2. batch' = batch => BatchSeqs' = BatchSeqs
    BY DEF BatchSeqs
  <2> QED BY <1>4, <1>7, <1>11, <1>13, <2>1, <2>2 DEF ModeInv
<1>14. CASE ApplyItems /\ Retire
  <2>1. /\ phase = "retire" /\ batch' = Tail(batch) /\ phase' = "apply"
        /\ running' = Without(running, Head(batch).seq) /\ UNCHANGED failures
        /\ DeallocateBegin(Head(batch).seq)
    BY <1>14 DEF Retire
  <2>2. batch # <<>> /\ Head(batch).seq \in Range(running)
    BY <1>0, <2>1 DEF StepStates, HeadInv
  <2>3. Range(running') = Range(running) \ {Head(batch).seq}
    BY <1>0, <2>1, <2>2, LeavesRunning DEF QueueInv
  <2> QED BY <1>4, <1>7, <1>11, <1>14, <2>1, <2>2, <2>3 DEF ModeInv
<1>15. CASE ApplyItems /\ (ExtendDone \/ ExtendGrow)
  <2>1. UNCHANGED <<batch, running, failures>> /\ phase = "apply" /\ phase' = "apply"
    BY <1>15 DEF ExtendDone, ExtendGrow, Extending, schedVars, queueVars, stepVars
  <2>2. BatchSeqs' = BatchSeqs
    BY <2>1 DEF BatchSeqs
  <2> QED BY <1>4, <1>7, <1>15, <2>1, <2>2 DEF ModeInv
<1>16. CASE ApplyItems /\ PreemptYoungest
  <2>1. UNCHANGED <<batch, failures, phase>> /\ phase = "apply" /\ batch = <<>>
    BY <1>16 DEF PreemptYoungest, Preempt, OutOfBlocks, Extending
  <2>2. BatchSeqs' = {}
    BY <2>1 DEF BatchSeqs
  <2> QED BY <1>4, <1>7, <1>16, <2>1, <2>2 DEF ModeInv
<1> QED BY <1>6, <1>9, <1>10, <1>12, <1>13, <1>14, <1>15, <1>16 DEF ApplyItems

(* The steps that leave the scheduler alone, and the end of a failed one.  *)
LEMMA OthersKeep ==
    ASSUME Layers, EngineInv, RunModel \/ Emit \/ PollShutdown \/ FailDone
    PROVE  EngineInv'
<1>0. CmdsInv /\ ModeInv /\ BookInv /\ FitInv
  BY DEF EngineInv
<1>1. CASE RunModel
  <2>1. /\ UNCHANGED vars /\ UNCHANGED <<cmds, meta, held, asked, client>>
        /\ mode = "model" /\ mode' \in {"apply", "fail"}
    BY <1>1 DEF RunModel
  <2>2. UNCHANGED <<state, finished, phase, failures, batch, running, plen, maxNew>>
    BY <2>1 DEF vars, schedVars, seqVars, queueVars, stepVars
  <2>3. LiveSeqs' = LiveSeqs /\ BatchSeqs' = BatchSeqs
    BY <2>2 DEF LiveSeqs, Live, BatchSeqs
  <2>4. CmdsInv'
    BY <1>0, <2>1, <2>2 DEF CmdsInv
  <2>5. ModeInv' /\ BookInv' /\ FitInv'
    BY <1>0, <2>1, <2>2, <2>3 DEF ModeInv, BookInv, FitInv
  <2> QED BY <2>4, <2>5 DEF EngineInv
<1>2. CASE Emit
  <2>1. UNCHANGED vars /\ UNCHANGED <<cmds, mode, meta, held, asked, client>>
    BY <1>2 DEF Emit
  <2>2. UNCHANGED <<state, finished, phase, failures, batch, running, plen, maxNew>>
    BY <2>1 DEF vars, schedVars, seqVars, queueVars, stepVars
  <2>3. LiveSeqs' = LiveSeqs /\ BatchSeqs' = BatchSeqs
    BY <2>2 DEF LiveSeqs, Live, BatchSeqs
  <2>4. CmdsInv'
    BY <1>0, <2>1, <2>2 DEF CmdsInv
  <2>5. ModeInv' /\ BookInv' /\ FitInv'
    BY <1>0, <2>1, <2>2, <2>3 DEF ModeInv, BookInv, FitInv
  <2> QED BY <2>4, <2>5 DEF EngineInv
<1>3. CASE PollShutdown
  <2>1. /\ UNCHANGED vars /\ UNCHANGED <<asked, client>> /\ mode = "poll"
        /\ mode' = "stopped" /\ cmds # <<>> /\ cmds' = Tail(cmds)
    BY <1>3 DEF PollShutdown, Polling
  <2>2. UNCHANGED <<state, phase, failures, plen, maxNew>>
    BY <2>1 DEF vars, schedVars, seqVars, stepVars
  <2>3. LiveSeqs' = LiveSeqs
    BY <2>2 DEF LiveSeqs, Live
  <2>4. CmdsInv'
    BY <1>0, <2>1, <2>2, CmdsTail
  <2>5. ModeInv' /\ BookInv' /\ FitInv'
    BY <1>0, <2>1, <2>2, <2>3 DEF ModeInv, BookInv, FitInv
  <2> QED BY <2>4, <2>5 DEF EngineInv
<1>4. CASE FailDone
  <2>1. /\ mode = "fail" /\ mode' = "poll" /\ meta = {} /\ finished' = <<>>
        /\ phase' = "idle" /\ UNCHANGED <<state, plen, maxNew>>
        /\ UNCHANGED <<cmds, meta, held, asked, client, failures>>
    BY <1>4 DEF FailDone, seqVars
  <2>2. LiveSeqs' = LiveSeqs /\ Range(finished') = {}
    BY <2>1 DEF LiveSeqs, Live, Range
  <2>3. CmdsInv'
    BY <1>0, <2>1 DEF CmdsInv
  <2>4. ModeInv' /\ BookInv' /\ FitInv'
    BY <1>0, <2>1, <2>2 DEF ModeInv, BookInv, FitInv
  <2> QED BY <2>3, <2>4 DEF EngineInv
<1> QED BY <1>1, <1>2, <1>3, <1>4

(* Every step of the engine keeps its invariant.                           *)
LEMMA EngineKeeps ==
    ASSUME Layers, Layers', EngineInv, [EngineNext]_allVars
    PROVE  EngineInv'
<1>0. CmdsInv /\ ModeInv /\ BookInv /\ FitInv
  BY DEF EngineInv
<1>1. CASE UNCHANGED allVars
  <2>1. /\ UNCHANGED <<cmds, mode, meta, held, asked, client>>
        /\ UNCHANGED <<state, finished, phase, failures, batch, running, plen, maxNew>>
    BY <1>1 DEF allVars, engineVars, vars, schedVars, seqVars, queueVars, stepVars
  <2>2. LiveSeqs' = LiveSeqs /\ BatchSeqs' = BatchSeqs
    BY <2>1 DEF LiveSeqs, Live, BatchSeqs
  <2>3. CmdsInv'
    BY <1>0, <2>1 DEF CmdsInv
  <2>4. ModeInv' /\ BookInv' /\ FitInv'
    BY <1>0, <2>1, <2>2 DEF ModeInv, BookInv, FitInv
  <2> QED BY <2>3, <2>4 DEF EngineInv
<1>2. CASE Clients
  BY <1>2, ClientsKeep
<1>3. CASE PollReject \/ PollAdmit
  BY <1>3, SubmitKeeps
<1>4. CASE PollAbort
  <2>1. PICK s : s = Head(cmds).seq
    OBVIOUS
  <2>2. /\ AbortSequence(s) /\ op = Idle /\ mode = "poll" /\ UNCHANGED <<mode, meta>>
        /\ held' = held \ {s} /\ cmds # <<>> /\ cmds' = Tail(cmds)
        /\ UNCHANGED <<asked, client>>
    BY <1>4, <2>1 DEF PollAbort, Polling
  <2>3. ModeInv' /\ BookInv' /\ FitInv' /\ Carries
    BY <2>2, AbortKeeps
  <2>4. CmdsInv'
    BY <1>0, <2>2, <2>3, CmdsTail DEF Carries
  <2> QED BY <2>3, <2>4 DEF EngineInv
<1>5. CASE EmitRefused
  <2>1. PICK s : s = Head(producing)
    OBVIOUS
  <2>2. /\ AbortSequence(s) /\ op = Idle /\ mode = "emit" /\ UNCHANGED mode
        /\ held' = held \ {s} /\ meta' = meta \ {s} /\ UNCHANGED <<cmds, asked, client>>
    BY <1>5, <2>1 DEF EmitRefused
  <2>3. ModeInv' /\ BookInv' /\ FitInv' /\ Carries
    BY <2>2, AbortKeeps
  <2>4. CmdsInv'
    BY <1>0, <2>2, <2>3, CmdsFrame DEF Carries, CmdsInv
  <2> QED BY <2>3, <2>4 DEF EngineInv
<1>6. ASSUME NEW s \in Seqs, FailOne(s) PROVE EngineInv'
  <2>1. /\ AbortSequence(s) /\ op = Idle /\ mode = "fail" /\ UNCHANGED mode
        /\ held' = held \ {s} /\ meta' = meta \ {s} /\ UNCHANGED <<cmds, asked, client>>
    BY <1>6 DEF FailOne
  <2>2. ModeInv' /\ BookInv' /\ FitInv' /\ Carries
    BY <2>1, AbortKeeps
  <2>3. CmdsInv'
    BY <1>0, <2>1, <2>2, CmdsFrame DEF Carries, CmdsInv
  <2> QED BY <2>2, <2>3 DEF EngineInv
<1>7. CASE BeginStep
  <2>1. /\ Drain /\ UNCHANGED stepVars /\ op = Idle /\ mode = "poll"
        /\ mode' = "poll" \/ mode' = "build"
    BY <1>7 DEF BeginStep
  <2> QED BY <2>1, DrainKeeps
<1>8. CASE EndStep
  <2>1. /\ Drain /\ UNCHANGED stepVars /\ op = Idle /\ mode \in {"emit", "drain"}
        /\ mode' = "poll"
    BY <1>8 DEF EndStep
  <2> QED BY <2>1, DrainKeeps
<1>9. CASE BuildBatch \/ BatchBuilt
  BY <1>9, BuildKeeps
<1>10. CASE ApplyItems \/ ItemsApplied
  BY <1>10, ApplyKeeps
<1>11. CASE RunModel \/ Emit \/ PollShutdown \/ FailDone
  BY <1>11, OthersKeep
<1>12. CASE PoolStep /\ UNCHANGED engineVars
  BY <1>12, PoolStepKeeps
<1> QED BY <1>1, <1>2, <1>3, <1>4, <1>5, <1>6, <1>7, <1>8, <1>9, <1>10, <1>11, <1>12
        DEF EngineNext, EngineThread

(* The engine starts with empty books.                                     *)
LEMMA EngineStarts == EngineInit => Layers /\ EngineInv
<1> SUFFICES ASSUME EngineInit PROVE Layers /\ EngineInv
  OBVIOUS
<1>1. Init /\ cmds = <<>> /\ mode = "poll" /\ meta = {} /\ held = {}
      /\ asked = [s \in Seqs |-> -1] /\ client = [s \in Seqs |-> "none"]
  BY DEF EngineInit
<1>2. /\ state = [s \in Seqs |-> "none"] /\ finished = <<>> /\ phase = "idle"
      /\ failures = {} /\ batch = <<>>
  BY <1>1 DEF Init, SchedInit
<1>3. LiveSeqs = {} /\ Range(finished) = {} /\ BatchSeqs = {}
  BY <1>2 DEF LiveSeqs, Live, Range, BatchSeqs
<1>4. CmdsInv
  <2>1. cmds \in Seq(Command) /\ Len(cmds) = 0
    BY <1>1
  <2>2. asked \in [Seqs -> Int]
    BY <1>1
  <2> QED BY <1>1, <1>2, <2>1, <2>2 DEF CmdsInv
<1>5. ModeInv /\ BookInv /\ FitInv
  BY <1>1, <1>2, <1>3 DEF ModeInv, BookInv, FitInv
<1> QED BY <1>1, <1>4, <1>5, LayersInit DEF EngineInv

(* The engine's inductive invariant.                                       *)
THEOREM EngineInvariant == EngineSpec => [](Layers /\ EngineInv)
<1>1. Layers /\ EngineInv /\ [EngineNext]_allVars => (Layers /\ EngineInv)'
  BY LayersEngine, EngineKeeps
<1> QED BY <1>1, EngineStarts, PTL DEF EngineSpec

(* batch_engine.rs over scheduler.rs: everything a caller relies on, and   *)
(* the prefix cache, holds in the engine as it does in the scheduler       *)
(* alone, although the engine refuses requests, throws failed steps away   *)
(* and cuts the limits of the outputs.                                     *)
THEOREM EngineKeepsScheduler == EngineSpec => [](SchedulerInv /\ CachedKvMatchesHash)
<1> QED BY LayersSuffice, EngineInvariant, PTL

(* Every step of the engine is a legal use of the block pool, or leaves it *)
(* alone.                                                                  *)
THEOREM EngineImplementsPool == EngineSpec => PoolSpec
<1>1. EngineInit => PoolInit
  BY DEF EngineInit, Init
<1>2. Layers /\ EngineInv /\ [EngineNext]_allVars => [PoolNext]_poolVars
  <2>1. Layers /\ SchedulerStep => [PoolNext]_poolVars
    BY QueueNext DEF Layers, SchedulerStep, Refused, ThrownAway
  <2> QED BY <2>1, LayersEngine
<1> QED BY <1>1, <1>2, EngineInvariant, PTL DEF EngineSpec, PoolSpec

(* batch_engine.rs step, drain_finished, abort and fail_all: whenever the  *)
(* loop is at its top, the requests the engine knows are exactly the       *)
(* scheduler's sequences, so it neither spins for a request nobody will    *)
(* finish nor lets a sequence run for one it has forgotten, whichever way  *)
(* requests ended: by themselves, aborted, undeliverable or failed.        *)
THEOREM MetaCorrect == EngineSpec => []MetaMatchesScheduler
<1>1. Layers /\ EngineInv => MetaMatchesScheduler
  BY LiveIsQueued DEF Layers, EngineInv, BookInv, MetaMatchesScheduler, AtLoopTop
<1> QED BY <1>1, EngineInvariant, PTL

(* batch_engine.rs on_finish: the stepper keeps the state of the           *)
(* unfinished sequences and of no other: every way a sequence ends         *)
(* releases it.                                                            *)
THEOREM StepperCorrect == EngineSpec => []StepperStateReleased
<1>1. Layers /\ EngineInv => StepperStateReleased
  BY LiveIsQueued DEF Layers, EngineInv, BookInv, StepperStateReleased, AtLoopTop
<1> QED BY <1>1, EngineInvariant, PTL

(* batch_engine.rs admit: with the limit that admit puts on the output, no *)
(* running sequence outgrows the pool, and complete_step reports no        *)
(* failure: its failure paths are dead code under the engine.              *)
THEOREM FitCorrect == EngineSpec => []AdmittedFitsPool
<1>1. Layers /\ EngineInv => AdmittedFitsPool
  <2> SUFFICES ASSUME Layers, FitInv PROVE AdmittedFitsPool
    BY DEF EngineInv
  <2>1. Range(running) \subseteq LiveSeqs
    BY LiveIsQueued DEF Layers
  <2> QED BY <2>1, LiveFits DEF FitInv, AdmittedFitsPool
<1> QED BY <1>1, EngineInvariant, PTL

-----------------------------------------------------------------------------
(* The reply streams. A stream is a body, Started and the tokens of the    *)
(* output in order, and then perhaps an ending. While the client listens   *)
(* the engine's count is that of the tokens sent, and the output is ahead  *)
(* of it by at most the one token that was given and not sent yet; so a    *)
(* send never finds the channel full and no token is skipped.              *)

Event ==
    {Started, Error} \cup {TokenOf(t) : t \in Token}
      \cup {Done(why, n) : why \in {"none", "Eos", "MaxTokens", "Aborted"}, n \in Nat}

\* The tokens of the output that s has.
Produced(s) == Len(toks[s]) - plen[s]

\* What the i-th event of a stream is while the request goes on.
Beat(s, i) == IF i = 1 THEN Started ELSE TokenOf(toks[s][plen[s] + i - 1])

\* The first n events of s are Started and the first tokens of its output.
Body(s, n) ==
    /\ n <= Len(events[s])
    /\ n <= Produced(s) + 1
    /\ \A i \in 1 .. n : events[s][i] = Beat(s, i)

\* The tokens among n such events.
TokensIn(n) == IF n = 0 THEN 0 ELSE n - 1

\* After them the stream ends: it failed, or it is done and says how many
\* tokens it carries, which is all of them if it ended by itself; or it was
\* refused.
EndsAfter(s, n) ==
    \/ Len(events[s]) = n + 1 /\ events[s][n + 1] = Error
    \/ /\ Len(events[s]) = n + 1
       /\ \E why \in {"none", "Eos", "MaxTokens", "Aborted"} :
             /\ events[s][n + 1] = Done(why, TokensIn(n))
             /\ why \in {"Eos", "MaxTokens"} => TokensIn(n) = Produced(s)
    \/ n = 0 /\ events[s] = <<Error, Done("Aborted", 0)>>

Ended(s) == \E n \in Nat : Body(s, n) /\ EndsAfter(s, n)

\* s was given a token that was not sent yet.
Owed(s) ==
    /\ s \in Range(producing)
    /\ s \notin BatchSeqs \/ Retiring(s)

One(b) == IF b THEN 1 ELSE 0

\* The stream of one request.
StreamAt(s) ==
    /\ Body(s, Len(events[s])) \/ Ended(s)
    /\ s \in meta => Body(s, Len(events[s])) /\ asked[s] \in Nat /\ maxNew[s] <= asked[s]
    /\ state[s] = "none" => events[s] = <<>> /\ ~started[s]
    /\ ~started[s] => completion[s] = 0
    /\ s \in meta /\ Listening(s) =>
          /\ Len(events[s]) = One(started[s]) + completion[s]
          /\ Produced(s) = completion[s] + One(Owed(s))
    /\ state[s] # "none" /\ s \notin meta /\ Listening(s) /\ mode # "stopped" => Ended(s)

StreamTypes ==
    /\ events \in [Seqs -> Seq(Event)]
    /\ started \in [Seqs -> BOOLEAN]
    /\ completion \in [Seqs -> Nat]
    /\ producing \in Seq(Seqs)

\* Who is waiting to be given a token, or to be sent it.
Producers ==
    /\ IsInjective(producing)
    /\ mode \in {"poll", "build", "drain", "stopped"} => producing = <<>>
    /\ mode \in {"model", "apply", "emit"} => Range(producing) \subseteq meta
    /\ mode \in {"model", "apply"} =>
          \A i \in 1 .. Len(batch) :
              batch[i].seq \in Range(producing) <=> ProducesToken(batch[i])
    /\ mode \in {"model", "fail"} => Range(producing) \subseteq BatchSeqs

\* A sequence is given a token only after its Started.
StartedFirst ==
    /\ \A s \in Seqs : state[s] = "Decode" => started[s]
    /\ mode = "apply" => \A s \in BatchSeqs : started[s]
    /\ mode \in {"apply", "emit"} => \A s \in Range(producing) : started[s]

\* A request that nobody took is still in the command queue.
NoneLost ==
    \A s \in Seqs : client[s] # "none" /\ state[s] = "none" =>
        \E i \in 1 .. Len(cmds) : cmds[i].kind = "Submit" /\ cmds[i].seq = s

StreamInv ==
    /\ StreamTypes
    /\ Producers
    /\ StartedFirst
    /\ NoneLost
    /\ \A s \in Seqs : StreamAt(s)

-----------------------------------------------------------------------------
(* A sequence's text, and how long its output may get.                     *)
LEMMA TextFacts ==
    ASSUME Layers, NEW s \in Seqs
    PROVE  /\ toks[s] \in Seq(Token) /\ Len(toks[s]) \in Nat /\ plen[s] \in Nat
           /\ maxNew[s] \in Nat /\ Produced(s) \in Nat
           /\ state[s] # "none" => Produced(s) <= Limit(maxNew[s])
           /\ state[s] = "none" => Produced(s) = 0
           /\ reason[s] \in {"none", "Eos", "MaxTokens", "Aborted"}
<1>1. /\ toks[s] \in Seq(Token) /\ Len(toks[s]) \in Nat
  BY DEF Layers, QueueInv, PoolInv, PoolTypeOK, PoolDataOK
<1>2. /\ plen[s] \in Nat /\ maxNew[s] \in Nat
      /\ reason[s] \in {"none", "Eos", "MaxTokens", "Aborted"}
  BY DEF Layers, OutputInv
<1>3. CASE state[s] = "none"
  <2>1. toks[s] = <<>> /\ plen[s] = 0
    BY <1>3 DEF Layers, FreshSeqs
  <2>2. Produced(s) = 0
    BY <2>1 DEF Produced
  <2> QED BY <1>1, <1>2, <1>3, <2>2
<1>4. CASE state[s] # "none"
  <2>1. plen[s] <= Len(toks[s]) /\ Len(toks[s]) - plen[s] <= Limit(maxNew[s])
    BY <1>4 DEF Layers, OutputInv, SeqOutput, GoodOutput
  <2> QED BY <1>1, <1>2, <1>4, <2>1 DEF Produced
<1> QED BY <1>3, <1>4

(* The same events of the same text are the same stream.                   *)
LEMMA SameStream ==
    ASSUME NEW s, events'[s] = events[s], toks'[s] = toks[s], plen'[s] = plen[s]
    PROVE  /\ Produced(s)' = Produced(s)
           /\ Body(s, Len(events[s])) <=> Body(s, Len(events[s]))'
           /\ Ended(s) <=> Ended(s)'
<1>1. Produced(s)' = Produced(s)
  BY DEF Produced
<1>2. \A n \in Nat : Body(s, n) <=> Body(s, n)'
  BY <1>1 DEF Body, Beat
<1>3. \A n \in Nat : EndsAfter(s, n) <=> EndsAfter(s, n)'
  BY <1>1 DEF EndsAfter
<1>4. Body(s, Len(events[s])) <=> Body(s, Len(events[s]))'
  BY <1>1 DEF Body, Beat
<1> QED BY <1>1, <1>2, <1>3, <1>4 DEF Ended

(* Nothing happens to a request.                                           *)
Quiet(s) ==
    /\ events'[s] = events[s] /\ started'[s] = started[s]
    /\ completion'[s] = completion[s] /\ asked'[s] = asked[s]
    /\ toks'[s] = toks[s] /\ plen'[s] = plen[s] /\ maxNew'[s] = maxNew[s]
    /\ s \in meta' <=> s \in meta
    /\ s \in meta => (Owed(s)' <=> Owed(s))
    /\ Listening(s)' => Listening(s)
    /\ state'[s] = "none" <=> state[s] = "none"
    /\ mode' # "stopped" => mode # "stopped"

(* The stream of a request that a step does not touch is as it was.        *)
LEMMA QuietKeeps ==
    ASSUME NEW s, StreamAt(s), Quiet(s)
    PROVE  StreamAt(s)'
<1>1. /\ events'[s] = events[s] /\ toks'[s] = toks[s] /\ plen'[s] = plen[s]
  BY DEF Quiet
<1>2. /\ Produced(s)' = Produced(s)
      /\ Body(s, Len(events[s])) <=> Body(s, Len(events[s]))'
      /\ Ended(s) <=> Ended(s)'
  BY <1>1, SameStream
<1> QED BY <1>1, <1>2 DEF Quiet, StreamAt, One

(* One more event of the stream, and the text it has to be from.           *)
LEMMA BodyGrows ==
    ASSUME Layers, StreamTypes, NEW s \in Seqs, Body(s, Len(events[s])),
           NEW e, e = Beat(s, Len(events[s]) + 1),
           Len(events[s]) <= Produced(s),
           events'[s] = Append(events[s], e), toks'[s] = toks[s], plen'[s] = plen[s]
    PROVE  Body(s, Len(events[s]))' /\ Len(events'[s]) = Len(events[s]) + 1
<1>1. events[s] \in Seq(Event) /\ Len(events[s]) \in Nat
  BY DEF StreamTypes
<1>2. /\ Len(events'[s]) = Len(events[s]) + 1
      /\ events'[s][Len(events[s]) + 1] = e
      /\ \A i \in 1 .. Len(events[s]) : events'[s][i] = events[s][i]
  BY <1>1
<1>3. \A i : Beat(s, i)' = Beat(s, i)
  BY DEF Beat
<1>4. Produced(s)' = Produced(s) /\ Produced(s) \in Nat
  BY TextFacts DEF Produced
<1>5. \A i \in 1 .. Len(events[s]) + 1 : i \in 1 .. Len(events[s]) \/ i = Len(events[s]) + 1
  BY <1>1
<1>6. \A i \in 1 .. Len(events[s]) + 1 : events'[s][i] = Beat(s, i)'
  BY <1>2, <1>3, <1>5 DEF Body
<1>7. Len(events[s]) + 1 <= Produced(s) + 1
  BY <1>1, <1>4
<1> QED BY <1>1, <1>2, <1>4, <1>6, <1>7 DEF Body

(* The last event of a stream.                                             *)
LEMMA BodyEnds ==
    ASSUME Layers, StreamTypes, NEW s \in Seqs, Body(s, Len(events[s])),
           NEW e, events'[s] = Append(events[s], e), toks'[s] = toks[s], plen'[s] = plen[s],
           \/ e = Error
           \/ \E why \in {"none", "Eos", "MaxTokens", "Aborted"} :
                 /\ e = Done(why, TokensIn(Len(events[s])))
                 /\ TokensIn(Len(events[s])) = Produced(s)
    PROVE  Ended(s)'
<1>0. events[s] \in Seq(Event)
  BY DEF StreamTypes
<1>1. PICK n \in Nat : n = Len(events[s])
  BY <1>0
<1>2. /\ Len(events'[s]) = n + 1 /\ events'[s][n + 1] = e
      /\ \A i \in 1 .. n : events'[s][i] = events[s][i]
  BY <1>0, <1>1
<1>3. \A i : Beat(s, i)' = Beat(s, i)
  BY DEF Beat
<1>4. Produced(s)' = Produced(s)
  BY DEF Produced
<1>5. Body(s, n)'
  BY <1>1, <1>2, <1>3, <1>4 DEF Body
<1>6. EndsAfter(s, n)'
  BY <1>1, <1>2, <1>4 DEF EndsAfter
<1> QED BY <1>1, <1>5, <1>6 DEF Ended

(* A request the engine has in its books.                                  *)
LEMMA InBooks ==
    ASSUME Layers, EngineInv, mode # "stopped", NEW s \in meta
    PROVE  s \in Seqs /\ state[s] # "none"
<1>1. s \in LiveSeqs \cup Range(finished)
  BY DEF EngineInv, BookInv, ModeInv
<1>2. Range(finished) \subseteq Seqs /\ LiveSeqs \subseteq Seqs
  BY PlaceFacts DEF Layers, QueueInv, LiveSeqs
<1>3. s \in Range(finished) => IsFinished(s)
  BY <1>2 DEF Layers, QueueInv, PlaceInv, OnePlace
<1> QED BY <1>1, <1>2, <1>3 DEF LiveSeqs, Live, IsFinished

(* A listener's channel is never full: the limit put on the output is no   *)
(* more than what was asked for, and a limit of zero yields one token.     *)
LEMMA NeverFull ==
    ASSUME Layers, StreamInv, EngineInv, mode # "stopped",
           NEW s \in meta, Listening(s)
    PROVE  CanSend(s, 1)
<1>1. s \in Seqs /\ state[s] # "none"
  BY InBooks
<1>2. /\ asked[s] \in Nat /\ maxNew[s] <= asked[s]
      /\ Len(events[s]) = One(started[s]) + completion[s]
      /\ Produced(s) = completion[s] + One(Owed(s))
  BY <1>1 DEF StreamInv, StreamAt
<1>3. /\ Produced(s) \in Nat /\ maxNew[s] \in Nat /\ Produced(s) <= Limit(maxNew[s])
  BY <1>1, TextFacts
<1>4. completion[s] \in Nat
  BY <1>1 DEF StreamInv, StreamTypes
<1>5. completion[s] <= Produced(s)
  BY <1>2, <1>3, <1>4 DEF One
<1>6. Len(events[s]) <= 1 + Produced(s) /\ Len(events[s]) \in Nat
  BY <1>2, <1>3, <1>4, <1>5 DEF One
<1>7. Limit(maxNew[s]) <= asked[s] + 1 /\ Limit(maxNew[s]) \in Nat
  BY <1>2, <1>3 DEF Limit
<1> QED BY <1>2, <1>3, <1>6, <1>7 DEF CanSend, REPLY_EVENTS

(* What a listener has been sent is all there is, but for a token owed.    *)
LEMMA ListenerSync ==
    ASSUME Layers, StreamInv, NEW s \in Seqs, s \in meta, Listening(s)
    PROVE  /\ events[s] \in Seq(Event) /\ Len(events[s]) \in Nat
           /\ Body(s, Len(events[s])) /\ completion[s] \in Nat
           /\ started[s] \in BOOLEAN
           /\ Len(events[s]) = One(started[s]) + completion[s]
           /\ Produced(s) = completion[s] + One(Owed(s))
           /\ ~started[s] => completion[s] = 0
           /\ TokensIn(Len(events[s])) = completion[s]
<1>1. /\ events[s] \in Seq(Event) /\ Len(events[s]) \in Nat /\ completion[s] \in Nat
      /\ started[s] \in BOOLEAN
  BY DEF StreamInv, StreamTypes
<1>2. /\ Body(s, Len(events[s]))
      /\ Len(events[s]) = One(started[s]) + completion[s]
      /\ Produced(s) = completion[s] + One(Owed(s))
      /\ ~started[s] => completion[s] = 0
  BY DEF StreamInv, StreamAt
<1>3. TokensIn(Len(events[s])) = completion[s]
  BY <1>1, <1>2 DEF TokensIn, One
<1> QED BY <1>1, <1>2, <1>3

(* Steps that send nothing and write no text.                              *)
LEMMA Silent ==
    ASSUME StreamInv, UNCHANGED <<events, started, completion, producing, asked, meta, client>>,
           UNCHANGED <<toks, plen, maxNew>>,
           \A u \in Seqs : u \in meta => (Owed(u)' <=> Owed(u)),
           \A u \in Seqs : state'[u] = "none" <=> state[u] = "none",
           mode' # "stopped" => mode # "stopped"
    PROVE  StreamTypes' /\ \A u \in Seqs : StreamAt(u)'
<1>1. \A u \in Seqs : Quiet(u)
  BY DEF Quiet, Listening
<1> QED BY <1>1, QuietKeeps DEF StreamInv, StreamTypes

(* A step that leaves the command queue alone loses no request in it.      *)
LEMMA NoneLostFrame ==
    ASSUME NoneLost, UNCHANGED <<cmds, client>>,
           \A u \in Seqs : state'[u] = "none" <=> state[u] = "none"
    PROVE  NoneLost'
  BY DEF NoneLost

(* An abort writes no text, and gives nobody a token.                      *)
LEMMA AbortText ==
    ASSUME Layers, NEW s, AbortSequence(s), op = Idle
    PROVE  /\ UNCHANGED <<toks, plen, maxNew, batch, phase>>
           /\ Carries
           /\ \A u \in Seqs : state'[u] = "Decode" => state[u] = "Decode"
<1>1. Carries /\ UNCHANGED <<plen, maxNew>> /\ UNCHANGED <<batch, phase>>
  BY AbortCarries DEF Layers, stepVars
<1>2. UNCHANGED toks
  BY DEF AbortSequence, Abort, AbortWaiting, AbortRunning, DeallocateBegin, poolVars, vars
<1>3. state \in [Seqs -> {"none", "Waiting", "Prefill", "Decode", "Finished", "Aborted"}]
  BY DEF Layers, QueueInv, PlaceInv, PlaceTypes
<1>4. UNCHANGED state \/ state' = [state EXCEPT ![s] = "Aborted"]
  BY DEF AbortSequence, Abort, AbortWaiting, AbortRunning, Close, vars, schedVars, seqVars
<1>5. \A u \in Seqs : state'[u] = "Decode" => state[u] = "Decode"
  BY <1>3, <1>4
<1> QED BY <1>1, <1>2, <1>5

(* One more command, of a kind that is not a request's.                    *)
LEMMA NoneLostAppend ==
    ASSUME CmdsInv, NoneLost, NEW c, cmds' = Append(cmds, c), UNCHANGED state,
           \A u \in Seqs : client'[u] # "none" =>
               client[u] # "none" \/ (c.kind = "Submit" /\ c.seq = u)
    PROVE  NoneLost'
<1>1. /\ cmds \in Seq(Command) /\ Len(cmds) \in Nat
      /\ Len(cmds') = Len(cmds) + 1 /\ cmds'[Len(cmds) + 1] = c
      /\ \A i \in 1 .. Len(cmds) : cmds'[i] = cmds[i]
  BY DEF CmdsInv
<1>2. /\ Len(cmds) + 1 \in 1 .. Len(cmds')
      /\ \A i \in 1 .. Len(cmds) : i \in 1 .. Len(cmds')
  BY <1>1
<1> SUFFICES ASSUME NEW u \in Seqs, client'[u] # "none", state'[u] = "none"
             PROVE  \E i \in 1 .. Len(cmds') : cmds'[i].kind = "Submit" /\ cmds'[i].seq = u
  BY DEF NoneLost
<1>3. CASE c.kind = "Submit" /\ c.seq = u
  BY <1>1, <1>2, <1>3
<1>4. CASE client[u] # "none"
  <2>1. PICK i \in 1 .. Len(cmds) : cmds[i].kind = "Submit" /\ cmds[i].seq = u
    BY <1>4 DEF NoneLost
  <2> QED BY <1>1, <1>2, <2>1
<1> QED BY <1>3, <1>4

(* The oldest command is taken; if it was a request, that is a sequence    *)
(* now, or over.                                                           *)
LEMMA NoneLostTail ==
    ASSUME CmdsInv, NoneLost, cmds # <<>>, cmds' = Tail(cmds), UNCHANGED client,
           \A u \in Seqs : state'[u] = "none" => state[u] = "none",
           \A u \in Seqs : Head(cmds).kind = "Submit" /\ Head(cmds).seq = u =>
               state'[u] # "none"
    PROVE  NoneLost'
<1>1. /\ cmds \in Seq(Command) /\ Len(cmds) \in Nat /\ Len(cmds) >= 1
      /\ Head(cmds) = cmds[1] /\ Len(cmds') = Len(cmds) - 1
      /\ \A i \in 1 .. Len(cmds') : cmds'[i] = cmds[i + 1]
  BY DEF CmdsInv
<1> SUFFICES ASSUME NEW u \in Seqs, client'[u] # "none", state'[u] = "none"
             PROVE  \E i \in 1 .. Len(cmds') : cmds'[i].kind = "Submit" /\ cmds'[i].seq = u
  BY DEF NoneLost
<1>2. PICK i \in 1 .. Len(cmds) : cmds[i].kind = "Submit" /\ cmds[i].seq = u
  BY DEF NoneLost
<1>3. i # 1
  BY <1>1, <1>2
<1>4. i - 1 \in 1 .. Len(cmds') /\ (i - 1) + 1 = i
  BY <1>1, <1>3
<1>5. cmds'[i - 1] = cmds[i]
  BY <1>1, <1>4
<1> QED BY <1>2, <1>4, <1>5

-----------------------------------------------------------------------------
(* The steps of the clients.                                               *)
LEMMA ClientsStream ==
    ASSUME Layers, EngineInv, StreamInv, Clients
    PROVE  StreamInv'
<1>0. CmdsInv /\ StreamTypes /\ Producers /\ StartedFirst /\ NoneLost
  BY DEF EngineInv, StreamInv
<1>1. UNCHANGED <<vars, mode, meta, started, completion, producing, held, events>>
  BY DEF Clients, Submit, ClientAbort, ClientDrop, HandleDrop
<1>2. UNCHANGED <<state, phase, batch, plen, maxNew, toks>>
  BY <1>1 DEF vars, schedVars, seqVars, stepVars, poolVars
<1>3. \A u \in Seqs : Owed(u)' <=> Owed(u)
  BY <1>1, <1>2 DEF Owed, Retiring, BatchSeqs
<1>4. StreamTypes' /\ Producers' /\ StartedFirst'
  BY <1>0, <1>1, <1>2 DEF StreamTypes, Producers, StartedFirst, BatchSeqs
<1>a. /\ asked \in [Seqs -> Int]
      /\ client \in [Seqs -> {"none", "open", "aborted", "gone"}]
  BY <1>0 DEF CmdsInv
<1>b. ASSUME NEW u \in Seqs, asked'[u] = asked[u], Listening(u)' => Listening(u)
      PROVE  StreamAt(u)'
  <2>1. Quiet(u)
    BY <1>1, <1>2, <1>3, <1>b DEF Quiet
  <2> QED BY <2>1, QuietKeeps DEF StreamInv
<1>5. ASSUME NEW s \in Seqs, NEW p \in Prompts, NEW m \in MaxNews, Submit(s, p, m)
      PROVE  NoneLost' /\ \A u \in Seqs : StreamAt(u)'
  <2>1. PICK c : c = [kind |-> "Submit", seq |-> s, prompt |-> p]
    OBVIOUS
  <2>2. /\ c.kind = "Submit" /\ c.seq = s /\ cmds' = Append(cmds, c) /\ client[s] = "none"
        /\ asked' = [asked EXCEPT ![s] = m] /\ client' = [client EXCEPT ![s] = "open"]
        /\ mode # "stopped"
    BY <1>5, <2>1 DEF Submit
  <2>3. \A u \in Seqs : u # s => asked'[u] = asked[u] /\ client'[u] = client[u]
    BY <1>a, <2>2
  <2>4. NoneLost'
    BY <1>0, <1>2, <2>2, <2>3, NoneLostAppend
  <2>5. state[s] = "none" /\ s \notin meta
    <3>1. state[s] = "none"
      BY <1>0, <2>2 DEF CmdsInv
    <3> QED BY <2>2, <3>1, InBooks
  <2>6. StreamAt(s)'
    <3>1. /\ Produced(s)' = Produced(s)
          /\ Body(s, Len(events[s])) <=> Body(s, Len(events[s]))'
          /\ Ended(s) <=> Ended(s)'
      BY <1>1, <1>2, SameStream
    <3> QED BY <1>1, <1>2, <2>5, <3>1 DEF StreamInv, StreamAt
  <2>7. ASSUME NEW u \in Seqs, u # s PROVE StreamAt(u)'
    BY <1>b, <2>3, <2>7 DEF Listening
  <2> QED BY <2>4, <2>6, <2>7
<1>6. ASSUME NEW s \in Seqs, ClientAbort(s)
      PROVE  NoneLost' /\ \A u \in Seqs : StreamAt(u)'
  <2>1. PICK c : c = [kind |-> "Abort", seq |-> s]
    OBVIOUS
  <2>2. /\ cmds' = Append(cmds, c) /\ asked' = asked /\ client[s] = "open"
        /\ client' \in {[client EXCEPT ![s] = x] : x \in {"aborted", "gone"}}
    BY <1>6, <2>1 DEF ClientAbort
  <2>3. PICK x \in {"aborted", "gone"} : client' = [client EXCEPT ![s] = x]
    BY <2>2
  <2>4. /\ client'[s] = x /\ \A u \in Seqs : u # s => client'[u] = client[u]
    BY <1>a, <2>3
  <2>5. NoneLost'
    BY <1>0, <1>2, <2>2, <2>4, NoneLostAppend
  <2>6. \A u \in Seqs : Listening(u)' => Listening(u)
    BY <2>2, <2>4 DEF Listening
  <2> QED BY <1>b, <2>2, <2>5, <2>6
<1>7. ASSUME NEW s \in Seqs, ClientDrop(s)
      PROVE  NoneLost' /\ \A u \in Seqs : StreamAt(u)'
  <2>1. /\ client[s] # "none" /\ client' = [client EXCEPT ![s] = "gone"]
        /\ UNCHANGED <<cmds, asked>>
    BY <1>7 DEF ClientDrop, Listening
  <2>2. /\ client'[s] = "gone" /\ \A u \in Seqs : u # s => client'[u] = client[u]
    BY <1>a, <2>1
  <2>3. NoneLost'
    BY <1>0, <1>2, <2>1, <2>2 DEF NoneLost
  <2>4. \A u \in Seqs : Listening(u)' => Listening(u)
    BY <2>2 DEF Listening
  <2> QED BY <1>b, <2>1, <2>3, <2>4
<1>8. ASSUME HandleDrop
      PROVE  NoneLost' /\ \A u \in Seqs : StreamAt(u)'
  <2>1. PICK c : c = [kind |-> "Shutdown"]
    OBVIOUS
  <2>2. cmds' = Append(cmds, c) /\ UNCHANGED <<asked, client>>
    BY <1>8, <2>1 DEF HandleDrop
  <2>3. NoneLost'
    BY <1>0, <1>2, <2>2, NoneLostAppend
  <2> QED BY <1>b, <2>2, <2>3 DEF Listening
<1> QED BY <1>4, <1>5, <1>6, <1>7, <1>8 DEF Clients, StreamInv

(* A request is refused or admitted.                                       *)
LEMMA SubmitStream ==
    ASSUME Layers, Layers', EngineInv, StreamInv, PollReject \/ PollAdmit
    PROVE  StreamInv'
<1>0. /\ CmdsInv /\ StreamTypes /\ Producers /\ StartedFirst /\ NoneLost
      /\ PlaceInv /\ mode = "poll" /\ mode' = "poll"
  BY DEF EngineInv, StreamInv, Layers, QueueInv, PollReject, PollAdmit, Polling
<1>1. PICK s, p : s = Head(cmds).seq /\ p = Head(cmds).prompt
  OBVIOUS
<1>2. /\ cmds # <<>> /\ cmds' = Tail(cmds) /\ Head(cmds).kind = "Submit"
      /\ UNCHANGED <<mode, asked, client, started, completion, producing>>
  BY DEF PollReject, PollAdmit, Polling
<1>3. s \in Seqs /\ p \in Prompts /\ asked[s] \in Nat /\ state[s] = "none"
  BY <1>0, <1>1, <1>2, HeadCommand
<1>4. s \notin meta
  BY <1>0, <1>3, InBooks
<1>5. /\ events[s] = <<>> /\ ~started[s] /\ completion[s] = 0
  BY <1>3 DEF StreamInv, StreamAt
<1>6. producing = <<>> /\ producing' = <<>>
  BY <1>0, <1>2 DEF Producers
<1>7. \A u \in Seqs : ~Owed(u) /\ ~Owed(u)'
  BY <1>6 DEF Owed, Range
<1>8. CASE PollReject
  <2>1. /\ state' = [state EXCEPT ![s] = "Aborted"] /\ UNCHANGED meta
        /\ UNCHANGED <<toks, plen, maxNew>>
        /\ events' = [events EXCEPT ![s] =
                        IF Listening(s) THEN <<Error, Done("Aborted", 0)>> ELSE @]
    BY <1>1, <1>8 DEF PollReject, poolVars
  <2>2. state'[s] = "Aborted" /\ \A u \in Seqs : u # s => state'[u] = state[u]
    BY <1>0, <1>3, <2>1 DEF PlaceInv, PlaceTypes
  <2>3. /\ events'[s] = IF Listening(s) THEN <<Error, Done("Aborted", 0)>> ELSE <<>>
        /\ \A u \in Seqs : u # s => events'[u] = events[u]
    BY <1>0, <1>3, <1>5, <2>1 DEF StreamTypes
  <2>4. <<Error, Done("Aborted", 0)>> \in Seq(Event) /\ <<>> \in Seq(Event)
    BY DEF Event
  <2>5. StreamTypes'
    BY <1>0, <1>2, <1>3, <2>1, <2>4 DEF StreamTypes
  <2>6. NoneLost'
    BY <1>0, <1>1, <1>2, <2>2, NoneLostTail
  <2>7. Producers' /\ StartedFirst'
    BY <1>0, <1>2, <1>6, <2>2 DEF Producers, StartedFirst
  <2>8. ASSUME NEW u \in Seqs, u # s PROVE StreamAt(u)'
    <3>1. Quiet(u)
      BY <1>0, <1>2, <1>7, <2>1, <2>2, <2>3, <2>8 DEF Quiet, Listening
    <3> QED BY <3>1, QuietKeeps DEF StreamInv
  <2>9. StreamAt(s)'
    <3>a. Produced(s)' \in Nat
      BY <1>3, <2>1, TextFacts DEF Produced
    <3>1. CASE Listening(s)
      <4>1. events'[s] = <<Error, Done("Aborted", 0)>>
        BY <2>3, <3>1
      <4>2. Body(s, 0)' /\ EndsAfter(s, 0)'
        BY <3>a, <4>1 DEF Body, EndsAfter
      <4>3. Ended(s)'
        BY <4>2 DEF Ended
      <4> QED BY <1>2, <1>4, <1>5, <2>1, <2>2, <4>3 DEF StreamAt
    <3>2. CASE ~Listening(s)
      <4>1. events'[s] = <<>> /\ ~Listening(s)'
        BY <1>2, <2>3, <3>2 DEF Listening
      <4>2. Body(s, Len(events[s]))'
        BY <3>a, <4>1 DEF Body
      <4> QED BY <1>2, <1>4, <1>5, <2>1, <2>2, <4>1, <4>2 DEF StreamAt
    <3> QED BY <3>1, <3>2
  <2> QED BY <2>5, <2>6, <2>7, <2>8, <2>9 DEF StreamInv
<1>9. CASE PollAdmit
  <2>1. PICK m : m = Smaller(asked[s], Capacity - Len(p) - 1)
    OBVIOUS
  <2>2. /\ Enqueue(s, p, m) /\ ~(Len(p) + 1 > Capacity)
        /\ meta' = meta \cup {s} /\ UNCHANGED events
    BY <1>1, <1>9, <2>1 DEF PollAdmit, Rejected
  <2>3. m \in Nat /\ m <= asked[s]
    <3>1. m \in Nat
      BY <1>3, <2>1, <2>2, AdmittedLimit
    <3> QED BY <1>3, <2>1, <3>1 DEF Smaller
  <2>4. /\ state' = [state EXCEPT ![s] = "Waiting"]
        /\ plen' = [plen EXCEPT ![s] = Len(p)] /\ maxNew' = [maxNew EXCEPT ![s] = m]
        /\ toks' = [toks EXCEPT ![s] = p]
    BY <2>2 DEF Enqueue, Arrive
  <2>5. /\ plen \in [Seqs -> Nat] /\ maxNew \in [Seqs -> Nat] /\ toks \in [Seqs -> Seq(Token)]
    BY DEF Layers, OutputInv, QueueInv, PoolInv, PoolTypeOK, PoolDataOK
  <2>6. /\ state'[s] = "Waiting" /\ plen'[s] = Len(p) /\ maxNew'[s] = m /\ toks'[s] = p
        /\ \A u \in Seqs : u # s =>
              /\ state'[u] = state[u] /\ plen'[u] = plen[u]
              /\ maxNew'[u] = maxNew[u] /\ toks'[u] = toks[u]
    BY <1>0, <1>3, <2>4, <2>5 DEF PlaceInv, PlaceTypes
  <2>7. StreamTypes'
    BY <1>0, <1>2, <2>2 DEF StreamTypes
  <2>8. NoneLost'
    BY <1>0, <1>1, <1>2, <2>6, NoneLostTail
  <2>9. Producers' /\ StartedFirst'
    BY <1>0, <1>2, <1>6, <2>6 DEF Producers, StartedFirst
  <2>10. ASSUME NEW u \in Seqs, u # s PROVE StreamAt(u)'
    <3>1. Quiet(u)
      BY <1>0, <1>2, <1>7, <2>2, <2>6, <2>10 DEF Quiet, Listening
    <3> QED BY <3>1, QuietKeeps DEF StreamInv
  <2>11. StreamAt(s)'
    <3>1. events'[s] = <<>> /\ Len(events'[s]) = 0
      BY <1>5, <2>2
    <3>2. Produced(s)' = 0
      <4>1. Len(p) \in Nat
        BY <1>3, PoolAssumption
      <4> QED BY <2>6, <4>1 DEF Produced
    <3>3. Body(s, Len(events[s]))'
      BY <3>1, <3>2 DEF Body
    <3>4. One(started'[s]) = 0 /\ One(Owed(s)') = 0
      BY <1>2, <1>3, <1>5, <1>7 DEF One
    <3> QED BY <1>2, <1>3, <1>5, <1>7, <2>2, <2>3, <2>6, <3>1, <3>2, <3>3, <3>4 DEF StreamAt, One
  <2> QED BY <2>7, <2>8, <2>9, <2>10, <2>11 DEF StreamInv
<1> QED BY <1>8, <1>9

(* An abort is taken from the queue, or the loop ends.                     *)
LEMMA PollStream ==
    ASSUME Layers, EngineInv, StreamInv, PollAbort \/ PollShutdown
    PROVE  StreamInv'
<1>0. /\ CmdsInv /\ StreamTypes /\ Producers /\ StartedFirst /\ NoneLost
      /\ mode = "poll" /\ op = Idle
  BY DEF EngineInv, StreamInv, PollAbort, PollShutdown, Polling
<1>1. /\ cmds # <<>> /\ cmds' = Tail(cmds) /\ Head(cmds).kind # "Submit"
      /\ UNCHANGED <<started, completion, producing, asked, events, client>>
  BY DEF PollAbort, PollShutdown, Polling
<1>2. producing = <<>>
  BY <1>0 DEF Producers
<1>3. \A u \in Seqs : ~Owed(u) /\ ~Owed(u)'
  BY <1>1, <1>2 DEF Owed, Range
<1>4. CASE PollAbort
  <2>1. AbortSequence(Head(cmds).seq) /\ UNCHANGED <<mode, meta>>
    BY <1>4 DEF PollAbort
  <2>2. /\ UNCHANGED <<toks, plen, maxNew>> /\ Carries
        /\ \A u \in Seqs : state'[u] = "Decode" => state[u] = "Decode"
    BY <1>0, <2>1, AbortText
  <2>3. \A u \in Seqs : state'[u] = "none" <=> state[u] = "none"
    BY <2>2 DEF Carries
  <2>4. StreamTypes' /\ \A u \in Seqs : StreamAt(u)'
    BY <1>1, <1>3, <2>1, <2>2, <2>3, Silent
  <2>5. Producers' /\ StartedFirst'
    BY <1>0, <1>1, <1>2, <2>1, <2>2 DEF Producers, StartedFirst
  <2>6. NoneLost'
    BY <1>0, <1>1, <2>3, NoneLostTail
  <2> QED BY <2>4, <2>5, <2>6 DEF StreamInv
<1>5. CASE PollShutdown
  <2>1. UNCHANGED vars /\ meta' = {} /\ mode' = "stopped"
    BY <1>5 DEF PollShutdown
  <2>2. UNCHANGED <<toks, plen, maxNew, state>>
    BY <2>1 DEF vars, poolVars, schedVars, seqVars
  <2>3. NoneLost'
    BY <1>0, <1>1, <2>2, NoneLostTail
  <2>4. StreamTypes' /\ Producers' /\ StartedFirst'
    BY <1>0, <1>1, <1>2, <2>1, <2>2 DEF StreamTypes, Producers, StartedFirst
  <2>5. ASSUME NEW u \in Seqs PROVE StreamAt(u)'
    <3>1. /\ Body(u, Len(events[u])) <=> Body(u, Len(events[u]))'
          /\ Ended(u) <=> Ended(u)'
      BY <1>1, <2>2, SameStream
    <3> QED BY <1>1, <2>1, <2>2, <3>1 DEF StreamInv, StreamAt
  <2> QED BY <2>3, <2>4, <2>5 DEF StreamInv
<1> QED BY <1>4, <1>5

(* Done goes to the listeners of the finished sequences.                   *)
LEMMA DrainStream ==
    ASSUME Layers, EngineInv, StreamInv, Drain, UNCHANGED stepVars, UNCHANGED producing,
           producing = <<>>, mode \in {"poll", "emit", "drain"}, mode' \in {"poll", "build"}
    PROVE  StreamInv'
<1>0. /\ StreamTypes /\ Producers /\ StartedFirst /\ NoneLost
  BY DEF StreamInv
<1>1. /\ meta' = meta \ Range(finished) /\ UNCHANGED <<started, completion>>
      /\ UNCHANGED <<cmds, asked, client>> /\ UNCHANGED <<batch, phase>>
      /\ UNCHANGED <<state, plen, maxNew, toks>>
      /\ \A s \in Seqs : events'[s] = IF s \in Range(finished) \cap meta
                                      THEN Sent(s, Done(reason[s], completion[s]))
                                      ELSE events[s]
      /\ DOMAIN events' = Seqs
      /\ events' = [s \in Seqs |-> events'[s]]
  BY DEF Drain, seqVars, stepVars, poolVars
<1>2. \A u \in Seqs : ~Owed(u) /\ ~Owed(u)'
  BY DEF Owed, Range
<1>3. ASSUME NEW u \in Seqs, ~(u \in Range(finished) \cap meta)
      PROVE  StreamAt(u)' /\ events'[u] \in Seq(Event)
  <2>1. Quiet(u)
    BY <1>1, <1>2, <1>3 DEF Quiet, Listening
  <2> QED BY <1>0, <1>1, <1>3, <2>1, QuietKeeps DEF StreamInv, StreamTypes
<1>4. ASSUME NEW u \in Seqs, u \in Range(finished) \cap meta
      PROVE  StreamAt(u)' /\ events'[u] \in Seq(Event)
  <2>0. state[u] # "none" /\ u \notin meta'
    BY <1>1, <1>4, InBooks
  <2>1. CASE ~Listening(u)
    <3>1. events'[u] = events[u] /\ ~Listening(u)'
      BY <1>1, <1>4, <2>1 DEF Sent, CanSend, Listening
    <3>2. /\ Body(u, Len(events[u])) <=> Body(u, Len(events[u]))'
          /\ Ended(u) <=> Ended(u)'
      BY <1>1, <3>1, SameStream
    <3> QED BY <1>0, <1>1, <2>0, <3>1, <3>2 DEF StreamInv, StreamAt, StreamTypes
  <2>2. CASE Listening(u)
    <3>1. PICK e : e = Done(reason[u], completion[u])
      OBVIOUS
    <3>2. events'[u] = Append(events[u], e)
      <4>1. CanSend(u, 1)
        BY <1>4, <2>2, NeverFull
      <4> QED BY <1>1, <1>4, <3>1, <4>1 DEF Sent
    <3>3. /\ events[u] \in Seq(Event) /\ Body(u, Len(events[u])) /\ completion[u] \in Nat
          /\ Produced(u) = completion[u] + One(Owed(u))
          /\ TokensIn(Len(events[u])) = completion[u]
      BY <1>4, <2>2, ListenerSync
    <3>4. TokensIn(Len(events[u])) = Produced(u)
      BY <1>2, <3>3 DEF One
    <3>5. reason[u] \in {"none", "Eos", "MaxTokens", "Aborted"}
      BY TextFacts
    <3>6. Ended(u)'
      BY <1>0, <1>1, <3>1, <3>2, <3>3, <3>4, <3>5, BodyEnds
    <3>7. e \in Event
      BY <3>1, <3>3, <3>5 DEF Event
    <3>8. ~started[u] => completion[u] = 0
      BY DEF StreamInv, StreamAt
    <3> QED BY <1>1, <2>0, <3>2, <3>3, <3>6, <3>7, <3>8 DEF StreamAt
  <2> QED BY <2>1, <2>2
<1>5. events' \in [Seqs -> Seq(Event)]
  BY <1>1, <1>3, <1>4
<1>6. StreamTypes'
  BY <1>0, <1>1, <1>5 DEF StreamTypes
<1>7. Producers' /\ StartedFirst'
  BY <1>0, <1>1 DEF Producers, StartedFirst
<1>8. NoneLost'
  BY <1>0, <1>1, NoneLostFrame
<1> QED BY <1>3, <1>4, <1>6, <1>7, <1>8 DEF StreamInv

-----------------------------------------------------------------------------
(* The batch without its first item has the other sequences.               *)
LEMMA BatchTailSeqs ==
    ASSUME StepTypes, StepDistinct, batch # <<>>, batch' = Tail(batch)
    PROVE  BatchSeqs' = BatchSeqs \ {Head(batch).seq}
<1>1. /\ Len(batch) \in Nat /\ Head(batch) = batch[1]
      /\ BatchSeqs' \subseteq BatchSeqs \ {Head(batch).seq}
  BY BatchTail
<1>2. /\ Len(batch') = Len(batch) - 1 /\ Len(batch) >= 1
      /\ \A i \in 1 .. Len(batch') : batch'[i] = batch[i + 1]
  BY DEF StepTypes
<1>3. ASSUME NEW u \in BatchSeqs, u # Head(batch).seq PROVE u \in BatchSeqs'
  <2>1. PICK i \in 1 .. Len(batch) : batch[i].seq = u
    BY DEF BatchSeqs
  <2>2. i # 1
    BY <1>1, <1>3, <2>1
  <2>3. i - 1 \in 1 .. Len(batch') /\ (i - 1) + 1 = i
    BY <1>1, <1>2, <2>2
  <2>4. batch'[i - 1] = batch[i]
    BY <1>2, <2>3
  <2> QED BY <2>1, <2>3, <2>4 DEF BatchSeqs
<1> QED BY <1>1, <1>3

(* The sequences of a batch that will be given a token, in order.          *)
LEMMA MakersOf ==
    ASSUME StepTypes, StepDistinct, NEW makers,
           makers = Filtered(batch, {it \in Range(batch) : ProducesToken(it)}),
           NEW q, q = [i \in 1 .. Len(makers) |-> makers[i].seq]
    PROVE  /\ q \in Seq(Seqs) /\ IsInjective(q) /\ Range(q) \subseteq BatchSeqs
           /\ \A i \in 1 .. Len(batch) : batch[i].seq \in Range(q) <=> ProducesToken(batch[i])
           /\ batch = <<>> => q = <<>>
<1> DEFINE P == {it \in Range(batch) : ProducesToken(it)}
<1>1. /\ batch \in Seq(ItemType) /\ Len(batch) \in Nat /\ DOMAIN batch = 1 .. Len(batch)
      /\ \A i \in 1 .. Len(batch) : batch[i] \in ItemType
  BY DEF StepTypes
<1>a. \A it \in ItemType : it.seq \in Seqs
  BY DEF ItemType
<1>2. IsInjective(batch)
  BY <1>1 DEF StepDistinct, IsInjective
<1>3. /\ makers \in Seq(ItemType) /\ IsInjective(makers) /\ Len(makers) \in Nat
      /\ Range(makers) = Range(batch) \cap P
  BY <1>1, <1>2, FilteredProperties
<1>4. DOMAIN makers = 1 .. Len(makers)
  BY <1>3
<1>5. \A k \in 1 .. Len(makers) : \E i \in 1 .. Len(batch) :
         makers[k] = batch[i] /\ ProducesToken(batch[i])
  BY <1>1, <1>3, <1>4 DEF Range
<1>6. ASSUME NEW i \in 1 .. Len(batch), ProducesToken(batch[i])
      PROVE  \E k \in 1 .. Len(makers) : makers[k] = batch[i]
  <2>1. batch[i] \in Range(batch)
    BY <1>1 DEF Range
  <2>2. batch[i] \in Range(makers)
    BY <1>3, <1>6, <2>1
  <2> QED BY <1>4, <2>2 DEF Range
<1> HIDE DEF P
<1>7. q \in [1 .. Len(makers) -> Seqs]
  BY <1>1, <1>5, <1>a
<1>8. q \in Seq(Seqs) /\ Len(q) = Len(makers) /\ DOMAIN q = 1 .. Len(makers)
  BY <1>3, <1>7
<1>9. IsInjective(q)
  <2>1. ASSUME NEW k \in 1 .. Len(makers), NEW l \in 1 .. Len(makers), q[k] = q[l]
        PROVE  k = l
    <3>1. makers[k].seq = makers[l].seq
      BY <2>1
    <3>2. PICK i \in 1 .. Len(batch) : makers[k] = batch[i]
      BY <1>5
    <3>3. PICK j \in 1 .. Len(batch) : makers[l] = batch[j]
      BY <1>5
    <3>4. i = j
      BY <3>1, <3>2, <3>3 DEF StepDistinct
    <3> QED BY <1>3, <1>4, <3>2, <3>3, <3>4 DEF IsInjective
  <2> QED BY <1>8, <2>1 DEF IsInjective
<1>10. Range(q) \subseteq BatchSeqs
  BY <1>5, <1>8 DEF Range, BatchSeqs
<1>11. ASSUME NEW i \in 1 .. Len(batch)
       PROVE  batch[i].seq \in Range(q) <=> ProducesToken(batch[i])
  <2>1. ASSUME ProducesToken(batch[i]) PROVE batch[i].seq \in Range(q)
    <3>1. PICK k \in 1 .. Len(makers) : makers[k] = batch[i]
      BY <1>6, <2>1
    <3>2. q[k] = batch[i].seq
      BY <3>1
    <3> QED BY <1>8, <3>2 DEF Range
  <2>2. ASSUME batch[i].seq \in Range(q) PROVE ProducesToken(batch[i])
    <3>1. PICK k \in 1 .. Len(makers) : q[k] = batch[i].seq
      BY <1>8, <2>2 DEF Range
    <3>2. PICK j \in 1 .. Len(batch) : makers[k] = batch[j] /\ ProducesToken(batch[j])
      BY <1>5
    <3>3. batch[j].seq = batch[i].seq
      BY <3>1, <3>2
    <3>4. i = j
      BY <3>3 DEF StepDistinct
    <3> QED BY <3>2, <3>4
  <2> QED BY <2>1, <2>2
<1>12. ASSUME batch = <<>> PROVE q = <<>>
  <2>1. 1 .. Len(batch) = {}
    BY <1>1, <1>12
  <2>2. Len(makers) = 0
    <3>1. CASE Len(makers) # 0
      <4>1. 1 \in 1 .. Len(makers)
        BY <1>3, <3>1
      <4> QED BY <1>5, <2>1, <4>1
    <3> QED BY <3>1
  <2>3. q \in Seq(Seqs) /\ Len(q) = 0
    BY <1>8, <2>2
  <2> QED BY ONLY <2>3
<1> QED BY <1>8, <1>9, <1>10, <1>11, <1>12

(* The batch is built.                                                     *)
LEMMA BuildStream ==
    ASSUME Layers, EngineInv, StreamInv, BuildBatch \/ BatchBuilt
    PROVE  StreamInv'
<1>0. /\ StreamTypes /\ Producers /\ StartedFirst /\ NoneLost /\ QueueInv
      /\ StepTypes /\ StepDistinct /\ StepStates /\ mode = "build" /\ BookInv /\ FitInv
  BY DEF StreamInv, EngineInv, Layers, SlotInv, StepInv, ShapeInv, BuildBatch, BatchBuilt
<1>1. producing = <<>>
  BY <1>0 DEF Producers
<1>2. \A u \in Seqs : ~Owed(u)
  BY <1>1 DEF Owed, Range
<1>3. StepNext /\ UNCHANGED <<cmds, meta, started, completion, asked, events, client>>
  BY DEF BuildBatch, BatchBuilt, engineVars, StepNext
<1>4. Carries /\ UNCHANGED <<plen, maxNew>>
  BY <1>0, <1>3, StepCarries
<1>5. \A u \in Seqs : state'[u] = "none" <=> state[u] = "none"
  BY <1>4 DEF Carries
<1>6. NoneLost'
  BY <1>0, <1>3, <1>5, NoneLostFrame
<1>7. CASE BuildBatch
  <2>1. UNCHANGED <<mode, producing, toks>>
    BY <1>7 DEF BuildBatch, engineVars, StepMixed, ScheduleChunk, AdmitEmpty, AdmitBegin,
                AllocateBegin, AdmitEnd, AllocateEnd, poolVars
  <2>2. \A u \in Seqs : ~Owed(u)'
    BY <1>1, <2>1 DEF Owed, Range
  <2>3. StreamTypes' /\ \A u \in Seqs : StreamAt(u)'
    BY <1>2, <1>3, <1>4, <1>5, <2>1, <2>2, Silent
  <2>4. \/ UNCHANGED state
        \/ \E s : \/ state' = [state EXCEPT ![s] = "Aborted"]
                 \/ state' = [state EXCEPT ![s] = "Prefill"]
    BY <1>7 DEF BuildBatch, StepMixed, ScheduleChunk, AdmitEmpty, AdmitBegin, AdmitEnd, Close,
                seqVars
  <2>5. state \in [Seqs -> {"none", "Waiting", "Prefill", "Decode", "Finished", "Aborted"}]
    BY DEF Layers, QueueInv, PlaceInv, PlaceTypes
  <2>6. \A u \in Seqs : state'[u] = "Decode" => state[u] = "Decode"
    BY <2>4, <2>5
  <2>7. Producers' /\ StartedFirst'
    BY <1>0, <1>1, <1>3, <2>1, <2>6 DEF Producers, StartedFirst
  <2> QED BY <1>6, <2>3, <2>7 DEF StreamInv
<1>8. CASE BatchBuilt
  <2>1. PICK makers : makers = Filtered(batch, {it \in Range(batch) : ProducesToken(it)})
    OBVIOUS
  <2>2. /\ producing' = [i \in 1 .. Len(makers) |-> makers[i].seq] /\ FinishBuild
        /\ mode' = IF batch = <<>> THEN "drain" ELSE "model"
    BY <1>8, <2>1 DEF BatchBuilt
  <2>3. /\ UNCHANGED <<toks, state, batch>> /\ phase = "build" /\ phase' \in {"idle", "stepped"}
    BY <2>2 DEF FinishBuild, poolVars, seqVars
  <2>4. /\ producing' \in Seq(Seqs) /\ IsInjective(producing') /\ Range(producing') \subseteq BatchSeqs
        /\ \A i \in 1 .. Len(batch) :
               batch[i].seq \in Range(producing') <=> ProducesToken(batch[i])
        /\ batch = <<>> => producing' = <<>>
    BY <1>0, <2>1, <2>2, MakersOf
  <2>5. BatchSeqs' = BatchSeqs
    BY <2>3 DEF BatchSeqs
  <2>6. BatchSeqs \subseteq meta
    <3>1. BatchSeqs \subseteq Range(running)
      BY <1>0 DEF FitInv
    <3>2. Range(running) \subseteq LiveSeqs
      BY <1>0, LiveIsQueued
    <3> QED BY <1>0, <3>1, <3>2 DEF BookInv
  <2>7. \A u \in Seqs : ~Owed(u)'
    BY <2>3, <2>4, <2>5 DEF Owed, Retiring
  <2>8. ASSUME NEW u \in Seqs PROVE StreamAt(u)'
    <3>1. Quiet(u)
      BY <1>0, <1>2, <1>3, <1>4, <1>5, <2>2, <2>3, <2>7 DEF Quiet, Listening
    <3> QED BY <3>1, QuietKeeps DEF StreamInv
  <2>9. StreamTypes'
    BY <1>0, <1>3, <2>4 DEF StreamTypes
  <2>10. Producers'
    BY <1>3, <2>2, <2>3, <2>4, <2>5, <2>6 DEF Producers
  <2>11. StartedFirst'
    BY <1>0, <1>3, <2>2, <2>3 DEF StartedFirst
  <2> QED BY <1>6, <2>8, <2>9, <2>10, <2>11 DEF StreamInv
<1> QED BY <1>7, <1>8

(* Started goes to the sequences whose prompt is begun, and the batch to   *)
(* the model.                                                              *)
LEMMA ModelStream ==
    ASSUME Layers, EngineInv, StreamInv, RunModel
    PROVE  StreamInv'
<1>0. /\ StreamTypes /\ Producers /\ StartedFirst /\ NoneLost /\ QueueInv
      /\ StepTypes /\ ItemsOK /\ mode = "model" /\ BookInv /\ FitInv /\ ModeInv
  BY DEF StreamInv, EngineInv, Layers, SlotInv, StepInv, ShapeInv, RunModel
<1>1. PICK first : first = {s \in {it.seq : it \in {i \in Range(batch) : i.prefill}} : ~started[s]}
  OBVIOUS
<1>2. /\ started' = [s \in Seqs |-> started[s] \/ s \in first]
      /\ events' = [s \in Seqs |-> IF s \in first THEN Sent(s, Started) ELSE events[s]]
      /\ mode' \in {"apply", "fail"} /\ UNCHANGED vars
      /\ UNCHANGED <<cmds, meta, completion, producing, asked, client>>
  BY <1>1 DEF RunModel
<1>3. UNCHANGED <<toks, plen, maxNew, state, batch, phase>>
  BY <1>2 DEF vars, poolVars, schedVars, seqVars, stepVars
<1>4. /\ BatchSeqs' = BatchSeqs /\ \A u \in Seqs : Owed(u)' <=> Owed(u)
  BY <1>2, <1>3 DEF BatchSeqs, Owed, Retiring
<1>5. /\ batch \in Seq(ItemType) /\ DOMAIN batch = 1 .. Len(batch)
  BY <1>0 DEF StepTypes
<1>6. /\ first \subseteq BatchSeqs /\ \A u \in first : ~started[u]
      /\ \A i \in 1 .. Len(batch) : batch[i].prefill /\ ~started[batch[i].seq] =>
            batch[i].seq \in first
  BY <1>1, <1>5 DEF Range, BatchSeqs
<1>7. BatchSeqs \subseteq Range(running) /\ BatchSeqs \subseteq meta /\ BatchSeqs \subseteq Seqs
  <2>1. BatchSeqs \subseteq Range(running)
    BY <1>0 DEF FitInv
  <2>2. Range(running) \subseteq LiveSeqs
    BY <1>0, LiveIsQueued
  <2> QED BY <1>0, <2>1, <2>2 DEF BookInv, LiveSeqs
<1>8. ASSUME NEW i \in 1 .. Len(batch) PROVE started'[batch[i].seq]
  <2>1. batch[i].seq \in BatchSeqs
    BY DEF BatchSeqs
  <2>2. CASE started[batch[i].seq]
    BY <1>2, <1>7, <2>1, <2>2
  <2>3. CASE ~started[batch[i].seq]
    <3>1. batch[i].prefill \/ state[batch[i].seq] = "Decode"
      <4>1. ~InHand(i)
        BY <1>0 DEF ModeInv, InHand
      <4> QED BY <1>0, <1>7, <2>1, <4>1 DEF ItemsOK, ItemOK
    <3>2. batch[i].prefill
      BY <1>0, <1>7, <2>1, <2>3, <3>1 DEF StartedFirst
    <3> QED BY <1>2, <1>6, <1>7, <2>1, <2>3, <3>2
  <2> QED BY <2>2, <2>3
<1>9. \A u \in BatchSeqs : started'[u]
  BY <1>8 DEF BatchSeqs
<1>10. StartedFirst'
  <2>1. \A u \in Seqs : started[u] => started'[u]
    BY <1>2
  <2>2. Range(producing) \subseteq BatchSeqs
    BY <1>0 DEF Producers
  <2> QED BY <1>0, <1>2, <1>3, <1>4, <1>9, <2>1, <2>2 DEF StartedFirst
<1>11. Producers'
  BY <1>0, <1>2, <1>3, <1>4 DEF Producers
<1>12. NoneLost'
  BY <1>0, <1>2, <1>3, NoneLostFrame
<1>13. ASSUME NEW u \in Seqs, u \notin first
       PROVE  StreamAt(u)' /\ events'[u] \in Seq(Event)
  <2>1. started'[u] = started[u] /\ events'[u] = events[u]
    BY <1>0, <1>2, <1>13 DEF StreamTypes
  <2>2. Quiet(u)
    BY <1>0, <1>2, <1>3, <1>4, <2>1 DEF Quiet, Listening
  <2> QED BY <1>0, <2>1, <2>2, QuietKeeps DEF StreamInv, StreamTypes
<1>14. ASSUME NEW u \in Seqs, u \in first
       PROVE  StreamAt(u)' /\ events'[u] \in Seq(Event)
  <2>1. /\ u \in meta /\ ~started[u] /\ started'[u] /\ events'[u] = Sent(u, Started)
    BY <1>2, <1>6, <1>7, <1>14
  <2>2. state'[u] # "none"
    BY <1>0, <1>3, <2>1, InBooks
  <2>3. /\ asked[u] \in Nat /\ maxNew[u] <= asked[u] /\ Body(u, Len(events[u]))
    BY <2>1 DEF StreamInv, StreamAt
  <2>4. CASE ~Listening(u)
    <3>1. events'[u] = events[u] /\ ~Listening(u)'
      BY <1>2, <2>1, <2>4 DEF Sent, CanSend, Listening
    <3>2. Body(u, Len(events[u]))'
      BY <1>3, <2>3, <3>1, SameStream
    <3> QED BY <1>0, <1>2, <1>3, <2>1, <2>2, <2>3, <3>1, <3>2 DEF StreamAt, StreamTypes
  <2>5. CASE Listening(u)
    <3>1. CanSend(u, 1)
      BY <1>0, <2>1, <2>5, NeverFull
    <3>2. events'[u] = Append(events[u], Started)
      BY <2>1, <3>1 DEF Sent
    <3>a. /\ events[u] \in Seq(Event) /\ completion[u] = 0
          /\ Len(events[u]) = One(started[u]) + completion[u]
          /\ Produced(u) = completion[u] + One(Owed(u))
      BY <2>1, <2>5, ListenerSync
    <3>b. One(started[u]) = 0
      BY <2>1 DEF One
    <3>3. /\ events[u] \in Seq(Event) /\ completion[u] = 0 /\ Len(events[u]) = 0
          /\ Produced(u) = completion[u] + One(Owed(u))
      BY <3>a, <3>b
    <3>4. Started = Beat(u, Len(events[u]) + 1) /\ Len(events[u]) <= Produced(u)
      BY <3>3 DEF Beat, One
    <3>5. Body(u, Len(events[u]))' /\ Len(events'[u]) = 1
      BY <1>0, <1>3, <2>3, <3>2, <3>3, <3>4, BodyGrows
    <3>6. Produced(u)' = Produced(u) /\ (Owed(u)' <=> Owed(u))
      BY <1>3, <1>4 DEF Produced
    <3>7. events'[u] \in Seq(Event)
      BY <3>2, <3>3 DEF Event
    <3> QED BY <1>2, <1>3, <2>1, <2>2, <2>3, <3>3, <3>5, <3>6, <3>7 DEF StreamAt, One
  <2> QED BY <2>4, <2>5
<1>15. StreamTypes'
  <2>1. events' \in [Seqs -> Seq(Event)]
    BY <1>2, <1>13, <1>14
  <2>2. started' \in [Seqs -> BOOLEAN]
    BY <1>0, <1>2 DEF StreamTypes
  <2> QED BY <1>0, <1>2, <2>1, <2>2 DEF StreamTypes
<1> QED BY <1>10, <1>11, <1>12, <1>13, <1>14, <1>15 DEF StreamInv

(* A token was given to s: it is owed, and the stream so far is of the     *)
(* longer text too.                                                        *)
LEMMA TokenOwed ==
    ASSUME Layers, EngineInv, StreamInv, NEW s \in Seqs, s \in meta, mode # "stopped",
           NEW t, toks'[s] = Append(toks[s], t),
           UNCHANGED <<events, started, completion, asked, meta, client, plen, maxNew>>,
           ~Owed(s), Owed(s)', state'[s] # "none"
    PROVE  StreamAt(s)'
<1>1. /\ toks[s] \in Seq(Token) /\ Len(toks[s]) \in Nat /\ plen[s] \in Nat
      /\ Produced(s) \in Nat
  BY TextFacts
<1>2. /\ Len(toks'[s]) = Len(toks[s]) + 1
      /\ \A i \in 1 .. Len(toks[s]) : toks'[s][i] = toks[s][i]
  BY <1>1
<1>3. Produced(s)' = Produced(s) + 1
  BY <1>1, <1>2 DEF Produced
<1>4. events[s] \in Seq(Event) /\ Len(events[s]) \in Nat
  BY DEF StreamInv, StreamTypes
<1>5. Body(s, Len(events[s]))
  BY DEF StreamInv, StreamAt
<1>6. ASSUME NEW i \in 1 .. Len(events[s]) PROVE Beat(s, i)' = Beat(s, i)
  <2>1. CASE i = 1
    BY <2>1 DEF Beat
  <2>2. CASE i # 1
    <3>1. plen[s] + i - 1 \in 1 .. Len(toks[s])
      BY <1>1, <1>4, <1>5, <2>2 DEF Body, Produced
    <3> QED BY <1>2, <2>2, <3>1 DEF Beat
  <2> QED BY <2>1, <2>2
<1>7. Body(s, Len(events[s]))'
  BY <1>1, <1>3, <1>4, <1>5, <1>6 DEF Body
<1>8. Listening(s)' <=> Listening(s)
  BY DEF Listening
<1>9. Listening(s) => Produced(s)' = completion[s] + 1
  BY <1>3, ListenerSync DEF One
<1> QED BY <1>7, <1>8, <1>9 DEF StreamInv, StreamAt, One

(* The sampled tokens are applied.                                         *)
LEMMA ApplyStream ==
    ASSUME Layers, EngineInv, StreamInv, ApplyItems \/ ItemsApplied
    PROVE  StreamInv'
<1>0. /\ StreamTypes /\ Producers /\ StartedFirst /\ NoneLost /\ QueueInv /\ HeadInv
      /\ StepTypes /\ StepDistinct /\ StepStates /\ mode = "apply" /\ BookInv /\ FitInv
      /\ phase \in {"stepped", "apply", "retire"}
  BY DEF StreamInv, EngineInv, Layers, SlotInv, StepInv, ShapeInv, QueueInv, ModeInv,
         ApplyItems, ItemsApplied
<1>1. /\ StepNext /\ mode' \in {"apply", "emit"} /\ (mode' = "apply" \/ StepDone)
      /\ UNCHANGED <<cmds, meta, started, completion, producing, asked, events, client>>
  BY <1>0 DEF ApplyItems, ItemsApplied, engineVars, StepNext
<1>2. Carries /\ UNCHANGED <<plen, maxNew>>
  BY <1>0, <1>1, StepCarries
<1>3. \A u \in Seqs : state'[u] = "none" <=> state[u] = "none"
  BY <1>2 DEF Carries
<1>4. NoneLost'
  BY <1>0, <1>1, <1>3, NoneLostFrame
<1>5. state \in [Seqs -> {"none", "Waiting", "Prefill", "Decode", "Finished", "Aborted"}]
  BY DEF Layers, QueueInv, PlaceInv, PlaceTypes
<1>6. /\ BatchSeqs \subseteq Range(running) /\ Range(running) \subseteq Seqs
      /\ Range(running) \subseteq meta
  <2>1. Range(running) \subseteq LiveSeqs
    BY <1>0, LiveIsQueued
  <2> QED BY <1>0, <2>1 DEF BookInv, FitInv, LiveSeqs
<1>7. batch # <<>> => /\ Head(batch) = batch[1] /\ 1 \in 1 .. Len(batch)
                      /\ Head(batch).seq \in BatchSeqs
  BY <1>0 DEF StepTypes, BatchSeqs
<1>a. ASSUME UNCHANGED toks, \A u \in Seqs : Owed(u)' <=> Owed(u)
      PROVE  StreamTypes' /\ \A u \in Seqs : StreamAt(u)'
  BY <1>0, <1>1, <1>2, <1>3, <1>a, Silent
<1>b. ASSUME UNCHANGED batch \/ (batch # <<>> /\ batch' = Tail(batch)),
             \A u \in Seqs : state'[u] = "Decode" => state[u] = "Decode" \/ u \in BatchSeqs
      PROVE  Producers' /\ StartedFirst'
  <2>1. BatchSeqs' \subseteq BatchSeqs
    BY <1>0, <1>b, BatchTailSeqs DEF BatchSeqs
  <2>2. \A i \in 1 .. Len(batch') : \E j \in 1 .. Len(batch) : batch'[i] = batch[j]
    <3>1. CASE UNCHANGED batch
      BY <3>1
    <3>2. CASE batch # <<>> /\ batch' = Tail(batch)
      BY <1>0, <3>2, BatchTail
    <3> QED BY <1>b, <3>1, <3>2
  <2>3. Producers'
    BY <1>0, <1>1, <2>2 DEF Producers
  <2>4. StartedFirst'
    BY <1>0, <1>1, <1>b, <2>1 DEF StartedFirst
  <2> QED BY <2>3, <2>4
<1>c. ASSUME UNCHANGED <<batch, toks>>, UNCHANGED phase \/ (phase # "retire" /\ phase' # "retire"),
             \A u \in Seqs : state'[u] = "Decode" => state[u] = "Decode"
      PROVE  StreamInv'
  <2>1. \A u \in Seqs : Owed(u)' <=> Owed(u)
    BY <1>1, <1>c DEF Owed, Retiring, BatchSeqs
  <2> QED BY <1>4, <1>a, <1>b, <1>c, <2>1 DEF StreamInv
<1>8. CASE ItemsApplied
  <2>1. UNCHANGED <<batch, toks, state>> /\ phase # "retire" /\ phase' # "retire"
    BY <1>8 DEF ItemsApplied, StepDone, poolVars, seqVars
  <2> QED BY <1>c, <2>1
<1>9. ASSUME ApplyItems, ItemNotRunning PROVE FALSE
  BY <1>6, <1>7, <1>9 DEF ItemNotRunning, Applying
<1>10. CASE ExtendDone
  <2>1. UNCHANGED <<batch, toks, state, phase>>
    BY <1>10 DEF ExtendDone, poolVars, seqVars
  <2> QED BY <1>c, <2>1
<1>11. CASE ExtendGrow
  <2>1. UNCHANGED <<batch, toks, state, phase>>
    BY <1>11 DEF ExtendGrow, ExtendFor, schedVars, seqVars, stepVars
  <2> QED BY <1>c, <2>1
<1>12. CASE ExtendOverflow \/ PreemptYoungest
  <2>1. UNCHANGED <<batch, toks, phase>>
    BY <1>12 DEF ExtendOverflow, PreemptYoungest, Preempt, DeallocateBegin
  <2>2. \E s : \/ state' = [state EXCEPT ![s] = "Aborted"]
              \/ state' = [state EXCEPT ![s] = "Waiting"]
    BY <1>12 DEF ExtendOverflow, PreemptYoungest, Preempt, Close
  <2>3. \A u \in Seqs : state'[u] = "Decode" => state[u] = "Decode"
    BY <1>5, <2>2
  <2> QED BY <1>c, <2>1, <2>3
<1>13. CASE ApplyChunk
  <2>1. /\ batch # <<>> /\ batch' = Tail(batch) /\ phase # "retire" /\ phase' = "apply"
        /\ UNCHANGED <<state, toks>> /\ ~ProducesToken(Head(batch))
    BY <1>13 DEF ApplyChunk, Applying, poolVars
  <2>2. Head(batch).seq \notin Range(producing)
    BY <1>0, <1>7, <2>1 DEF Producers
  <2>3. BatchSeqs' = BatchSeqs \ {Head(batch).seq}
    BY <1>0, <2>1, BatchTailSeqs
  <2>4. \A u \in Seqs : Owed(u)' <=> Owed(u)
    BY <1>1, <2>1, <2>2, <2>3 DEF Owed, Retiring
  <2> QED BY <1>4, <1>a, <1>b, <2>1, <2>4 DEF StreamInv
<1>14. CASE Retire
  <2>1. /\ phase = "retire" /\ batch' = Tail(batch) /\ phase' = "apply" /\ UNCHANGED toks
        /\ state' = [state EXCEPT ![Head(batch).seq] = "Finished"]
    BY <1>14 DEF Retire, Close, DeallocateBegin
  <2>2. batch # <<>>
    BY <1>0, <2>1 DEF StepStates
  <2>3. BatchSeqs' = BatchSeqs \ {Head(batch).seq}
    BY <1>0, <2>1, <2>2, BatchTailSeqs
  <2>4. \A u \in Seqs : Owed(u)' <=> Owed(u)
    BY <1>1, <2>1, <2>3 DEF Owed, Retiring
  <2>5. \A u \in Seqs : state'[u] = "Decode" => state[u] = "Decode"
    BY <1>5, <2>1
  <2> QED BY <1>4, <1>a, <1>b, <2>1, <2>2, <2>4, <2>5 DEF StreamInv
<1>15. ASSUME NEW t \in Token, ApplyToken(t) PROVE StreamInv'
  <2>1. PICK s : s = Head(batch).seq
    OBVIOUS
  <2>2. /\ batch # <<>> /\ phase # "retire" /\ ProducesToken(Head(batch))
        /\ toks' = [toks EXCEPT ![s] = Append(toks[s], t)]
        /\ state' = [state EXCEPT ![s] = "Decode"]
        /\ \/ phase' = "retire" /\ batch' = batch
           \/ phase' = "apply" /\ batch' = Tail(batch)
    BY <1>15, <2>1 DEF ApplyToken, Applying, AppendToken
  <2>3. /\ s \in BatchSeqs /\ s \in Seqs /\ s \in meta /\ s \in Range(producing)
    BY <1>0, <1>6, <1>7, <2>1, <2>2 DEF Producers
  <2>4. toks \in [Seqs -> Seq(Token)]
    BY DEF Layers, QueueInv, PoolInv, PoolTypeOK, PoolDataOK
  <2>5. /\ toks'[s] = Append(toks[s], t) /\ state'[s] = "Decode"
        /\ \A u \in Seqs : u # s => toks'[u] = toks[u] /\ state'[u] = state[u]
    BY <1>5, <2>2, <2>3, <2>4
  <2>6. batch' = batch => BatchSeqs' = BatchSeqs
    BY DEF BatchSeqs
  <2>7. batch' = Tail(batch) => BatchSeqs' = BatchSeqs \ {s}
    BY <1>0, <2>1, <2>2, BatchTailSeqs
  <2>8. ~Owed(s)
    BY <2>2, <2>3 DEF Owed, Retiring
  <2>9. Owed(s)'
    <3>1. CASE phase' = "retire" /\ batch' = batch
      BY <1>1, <2>1, <2>3, <3>1 DEF Owed, Retiring
    <3>2. CASE phase' = "apply" /\ batch' = Tail(batch)
      BY <1>1, <2>3, <2>7, <3>2 DEF Owed
    <3> QED BY <2>2, <3>1, <3>2
  <2>10. ASSUME NEW u \in Seqs, u # s PROVE Owed(u)' <=> Owed(u)
    <3>1. CASE phase' = "retire" /\ batch' = batch
      BY <1>1, <2>1, <2>2, <2>6, <2>10, <3>1 DEF Owed, Retiring
    <3>2. CASE phase' = "apply" /\ batch' = Tail(batch)
      BY <1>1, <2>2, <2>7, <2>10, <3>2 DEF Owed, Retiring
    <3> QED BY <2>2, <3>1, <3>2
  <2>11. StreamAt(s)'
    BY <1>0, <1>1, <1>2, <2>3, <2>5, <2>8, <2>9, TokenOwed
  <2>12. ASSUME NEW u \in Seqs, u # s PROVE StreamAt(u)'
    <3>1. Quiet(u)
      BY <1>0, <1>1, <1>2, <2>5, <2>10, <2>12 DEF Quiet, Listening
    <3> QED BY <3>1, QuietKeeps DEF StreamInv
  <2>13. StreamTypes'
    BY <1>0, <1>1 DEF StreamTypes
  <2>14. Producers' /\ StartedFirst'
    BY <1>b, <2>2, <2>3, <2>5
  <2> QED BY <1>4, <2>11, <2>12, <2>13, <2>14 DEF StreamInv
<1> QED BY <1>8, <1>9, <1>10, <1>11, <1>12, <1>13, <1>14, <1>15 DEF ApplyItems

(* A token is sent, or cannot be.                                          *)
LEMMA EmitStream ==
    ASSUME Layers, EngineInv, StreamInv, Emit \/ EmitRefused
    PROVE  StreamInv'
<1>0. /\ StreamTypes /\ Producers /\ StartedFirst /\ NoneLost
      /\ StepStates /\ ModeInv /\ FitInv /\ mode = "emit" /\ mode' = "emit" /\ op = Idle
      /\ producing # <<>> /\ producing' = Tail(producing)
      /\ UNCHANGED <<cmds, started, asked, client>>
  BY DEF StreamInv, EngineInv, Layers, SlotInv, StepInv, ShapeInv, Emit, EmitRefused
<1>1. phase = "idle" /\ batch = <<>> /\ BatchSeqs = {}
  BY <1>0 DEF ModeInv, StepStates, BatchSeqs
<1>2. PICK s : s = Head(producing)
  OBVIOUS
<1>3. /\ s \in Seqs /\ s \in Range(producing) /\ producing' \in Seq(Seqs)
      /\ IsInjective(producing') /\ Range(producing') = Range(producing) \ {s}
  BY <1>0, <1>2, TailInjective DEF StreamTypes, Producers
<1>4. s \in meta /\ started[s] /\ state[s] # "none"
  BY <1>0, <1>3, InBooks DEF Producers, StartedFirst
<1>5. Owed(s) /\ \A u \in Seqs : Owed(u) <=> u \in Range(producing)
  BY <1>1, <1>3 DEF Owed
<1>6. ASSUME UNCHANGED <<batch, phase>>
      PROVE  \A u \in Seqs : Owed(u)' <=> (Owed(u) /\ u # s)
  <2>1. BatchSeqs' = {}
    BY <1>1, <1>6 DEF BatchSeqs
  <2> QED BY <1>3, <1>5, <2>1 DEF Owed
<1>7. CASE Emit
  <2>1. PICK e : e = TokenOf(LastOf(toks[s]))
    OBVIOUS
  <2>2. s \notin failures
    BY <1>0 DEF FitInv
  <2>3. /\ CanSend(s, 1) /\ events' = [events EXCEPT ![s] = Append(@, e)]
        /\ completion' = [completion EXCEPT ![s] = @ + 1] /\ UNCHANGED vars /\ UNCHANGED meta
    BY <1>2, <1>7, <2>1, <2>2 DEF Emit
  <2>4. UNCHANGED <<toks, plen, maxNew, state, batch, phase>>
    BY <2>3 DEF vars, poolVars, schedVars, seqVars, stepVars
  <2>5. /\ events'[s] = Append(events[s], e) /\ completion'[s] = completion[s] + 1
        /\ \A u \in Seqs : u # s => events'[u] = events[u] /\ completion'[u] = completion[u]
    BY <1>0, <1>3, <2>3 DEF StreamTypes
  <2>6. Listening(s)
    BY <2>3 DEF CanSend
  <2>7. /\ events[s] \in Seq(Event) /\ Len(events[s]) \in Nat /\ Body(s, Len(events[s]))
        /\ completion[s] \in Nat
        /\ Len(events[s]) = One(started[s]) + completion[s]
        /\ Produced(s) = completion[s] + One(Owed(s))
    BY <1>3, <1>4, <2>6, ListenerSync
  <2>8. One(started[s]) = 1 /\ One(Owed(s)) = 1
    BY <1>4, <1>5 DEF One
  <2>9. Len(events[s]) = Produced(s) /\ Produced(s) = completion[s] + 1
    BY <2>7, <2>8
  <2>10. /\ toks[s] \in Seq(Token) /\ Len(toks[s]) \in Nat /\ plen[s] \in Nat
    BY <1>3, TextFacts
  <2>11. e = Beat(s, Len(events[s]) + 1) /\ e \in Event
    <3>0. Len(events[s]) = Len(toks[s]) - plen[s] /\ Len(events[s]) >= 1
      <4>1. Produced(s) = Len(toks[s]) - plen[s]
        BY DEF Produced
      <4>2. completion[s] \in Nat
        BY <2>7
      <4> QED BY <2>9, <4>1, <4>2
    <3>1. /\ plen[s] + (Len(events[s]) + 1) - 1 = Len(toks[s]) /\ Len(events[s]) + 1 # 1
          /\ Len(toks[s]) \in 1 .. Len(toks[s])
      BY <2>10, <3>0
    <3>2. toks[s][Len(toks[s])] \in Token
      BY <2>10, <3>1
    <3> QED BY <2>1, <3>1, <3>2 DEF Beat, LastOf, Event
  <2>12. Body(s, Len(events[s]))' /\ Len(events'[s]) = Len(events[s]) + 1
    BY <1>3, <1>0, <2>4, <2>5, <2>7, <2>9, <2>11, BodyGrows
  <2>13. \A u \in Seqs : Owed(u)' <=> (Owed(u) /\ u # s)
    BY <1>6, <2>4
  <2>14. StreamAt(s)'
    <3>1. Produced(s)' = Produced(s)
      BY <2>4 DEF Produced
    <3>2. One(Owed(s)') = 0 /\ One(started'[s]) = 1
      BY <1>0, <1>3, <1>4, <2>13 DEF One
    <3>3. asked[s] \in Nat /\ maxNew[s] <= asked[s]
      BY <1>3, <1>4 DEF StreamInv, StreamAt
    <3>4. /\ Len(events'[s]) = One(started'[s]) + completion'[s]
          /\ Produced(s)' = completion'[s] + One(Owed(s)')
      BY <2>5, <2>7, <2>9, <2>12, <3>1, <3>2
    <3> QED BY <1>0, <1>4, <2>3, <2>4, <2>12, <3>3, <3>4 DEF StreamAt, One
  <2>15. ASSUME NEW u \in Seqs, u # s PROVE StreamAt(u)'
    <3>1. Quiet(u)
      BY <1>0, <2>3, <2>4, <2>5, <2>13, <2>15 DEF Quiet, Listening
    <3> QED BY <3>1, QuietKeeps DEF StreamInv
  <2>16. StreamTypes'
    <3>1. events' \in [Seqs -> Seq(Event)]
      BY <1>0, <1>3, <2>3, <2>11 DEF StreamTypes
    <3>2. completion' \in [Seqs -> Nat]
      BY <1>0, <1>3, <2>3 DEF StreamTypes
    <3> QED BY <1>0, <1>3, <3>1, <3>2 DEF StreamTypes
  <2>17. Producers' /\ StartedFirst'
    BY <1>0, <1>3, <2>3, <2>4 DEF Producers, StartedFirst
  <2>18. NoneLost'
    BY <1>0, <2>4, NoneLostFrame
  <2> QED BY <2>14, <2>15, <2>16, <2>17, <2>18 DEF StreamInv
<1>8. CASE EmitRefused
  <2>1. /\ ~CanSend(s, 1) /\ AbortSequence(s) /\ meta' = meta \ {s}
        /\ UNCHANGED <<events, completion>>
    BY <1>2, <1>8 DEF EmitRefused
  <2>2. ~Listening(s)
    BY <1>0, <1>4, <2>1, NeverFull
  <2>3. /\ UNCHANGED <<toks, plen, maxNew, batch, phase>> /\ Carries
        /\ \A u \in Seqs : state'[u] = "Decode" => state[u] = "Decode"
    BY <1>0, <2>1, AbortText
  <2>4. \A u \in Seqs : state'[u] = "none" <=> state[u] = "none"
    BY <2>3 DEF Carries
  <2>5. \A u \in Seqs : Owed(u)' <=> (Owed(u) /\ u # s)
    BY <1>6, <2>3
  <2>6. StreamAt(s)'
    <3>1. ~Listening(s)' /\ s \notin meta' /\ state'[s] # "none"
      BY <1>0, <1>3, <1>4, <2>1, <2>2, <2>4 DEF Listening
    <3>2. Body(s, Len(events[s])) <=> Body(s, Len(events[s]))'
      BY <2>1, <2>3, SameStream
    <3> QED BY <1>0, <1>3, <1>4, <2>1, <3>1, <3>2 DEF StreamInv, StreamAt
  <2>7. ASSUME NEW u \in Seqs, u # s PROVE StreamAt(u)'
    <3>1. Quiet(u)
      BY <1>0, <2>1, <2>3, <2>4, <2>5, <2>7 DEF Quiet, Listening
    <3> QED BY <3>1, QuietKeeps DEF StreamInv
  <2>8. StreamTypes'
    BY <1>0, <1>3, <2>1 DEF StreamTypes
  <2>9. Producers' /\ StartedFirst'
    BY <1>0, <1>3, <2>1, <2>3 DEF Producers, StartedFirst
  <2>10. NoneLost'
    BY <1>0, <2>4, NoneLostFrame
  <2> QED BY <2>6, <2>7, <2>8, <2>9, <2>10 DEF StreamInv
<1> QED BY <1>7, <1>8

(* A failed step: every request gets an Error.                             *)
LEMMA FailStream ==
    ASSUME Layers, EngineInv, StreamInv, FailDone \/ \E s \in Seqs : FailOne(s)
    PROVE  StreamInv'
<1>0. /\ StreamTypes /\ Producers /\ StartedFirst /\ NoneLost /\ mode = "fail" /\ op = Idle
      /\ UNCHANGED <<cmds, started, completion, asked, client>>
  BY DEF StreamInv, FailDone, FailOne
<1>1. CASE FailDone
  <2>1. /\ meta = {} /\ meta' = {} /\ producing' = <<>> /\ mode' = "poll"
        /\ UNCHANGED <<events, toks, state, plen, maxNew>>
    BY <1>1 DEF FailDone, poolVars, seqVars
  <2>2. ASSUME NEW u \in Seqs PROVE StreamAt(u)'
    <3>1. Quiet(u)
      BY <1>0, <2>1 DEF Quiet, Listening
    <3> QED BY <3>1, QuietKeeps DEF StreamInv
  <2>3. <<>> \in Seq(Seqs) /\ IsInjective(<<>>) /\ Range(<<>>) = {}
    BY DEF IsInjective, Range
  <2>4. StreamTypes' /\ Producers' /\ StartedFirst'
    BY <1>0, <2>1, <2>3 DEF StreamTypes, Producers, StartedFirst
  <2>5. NoneLost'
    BY <1>0, <2>1, NoneLostFrame
  <2> QED BY <2>2, <2>4, <2>5 DEF StreamInv
<1>2. ASSUME NEW s \in Seqs, FailOne(s) PROVE StreamInv'
  <2>1. /\ s \in meta /\ AbortSequence(s) /\ meta' = meta \ {s} /\ UNCHANGED <<mode, producing>>
        /\ events' = [events EXCEPT ![s] = Sent(s, Error)]
    BY <1>2 DEF FailOne
  <2>2. /\ UNCHANGED <<toks, plen, maxNew, batch, phase>> /\ Carries
        /\ \A u \in Seqs : state'[u] = "Decode" => state[u] = "Decode"
    BY <1>0, <2>1, AbortText
  <2>3. \A u \in Seqs : state'[u] = "none" <=> state[u] = "none"
    BY <2>2 DEF Carries
  <2>4. BatchSeqs' = BatchSeqs /\ \A u \in Seqs : Owed(u)' <=> Owed(u)
    BY <2>1, <2>2 DEF Owed, Retiring, BatchSeqs
  <2>5. /\ events'[s] = Sent(s, Error) /\ \A u \in Seqs : u # s => events'[u] = events[u]
    BY <1>0, <2>1 DEF StreamTypes
  <2>6. state'[s] # "none" /\ s \notin meta'
    BY <1>0, <2>1, <2>3, InBooks
  <2>7. /\ Body(s, Len(events[s])) /\ (~started[s] => completion[s] = 0)
        /\ events[s] \in Seq(Event) /\ Error \in Event
    <3>1. Error \in Event
      BY DEF Event
    <3> QED BY <1>0, <2>1, <3>1 DEF StreamInv, StreamAt, StreamTypes
  <2>8. StreamAt(s)' /\ events'[s] \in Seq(Event)
    <3>1. CASE Listening(s)
      <4>1. CanSend(s, 1)
        BY <1>0, <2>1, <3>1, NeverFull
      <4>2. events'[s] = Append(events[s], Error)
        BY <2>5, <4>1 DEF Sent
      <4>3. Ended(s)'
        BY <1>0, <2>2, <2>7, <4>2, BodyEnds
      <4> QED BY <1>0, <2>6, <2>7, <4>2, <4>3 DEF StreamAt
    <3>2. CASE ~Listening(s)
      <4>1. events'[s] = events[s] /\ ~Listening(s)'
        BY <1>0, <2>5, <3>2 DEF Sent, CanSend, Listening
      <4>2. Body(s, Len(events[s]))'
        BY <2>2, <2>7, <4>1, SameStream
      <4> QED BY <1>0, <2>6, <2>7, <4>1, <4>2 DEF StreamAt
    <3> QED BY <3>1, <3>2
  <2>9. ASSUME NEW u \in Seqs, u # s PROVE StreamAt(u)'
    <3>1. Quiet(u)
      BY <1>0, <2>1, <2>2, <2>3, <2>4, <2>5, <2>9 DEF Quiet, Listening
    <3> QED BY <3>1, QuietKeeps DEF StreamInv
  <2>10. StreamTypes'
    <3>1. events' \in [Seqs -> Seq(Event)]
      BY <1>0, <2>1, <2>5, <2>8 DEF StreamTypes
    <3> QED BY <1>0, <2>1, <3>1 DEF StreamTypes
  <2>11. Producers' /\ StartedFirst'
    BY <1>0, <2>1, <2>2, <2>4 DEF Producers, StartedFirst
  <2>12. NoneLost'
    BY <1>0, <2>3, NoneLostFrame
  <2> QED BY <2>8, <2>9, <2>10, <2>11, <2>12 DEF StreamInv
<1> QED BY <1>1, <1>2

(* Loops of the pool, and steps of others.                                 *)
LEMMA PoolStream ==
    ASSUME StreamInv, UNCHANGED allVars \/ (PoolStep /\ UNCHANGED engineVars)
    PROVE  StreamInv'
<1>1. UNCHANGED <<state, phase, batch, plen, maxNew>> /\ UNCHANGED toks
  BY DEF PoolStep, AcquireShared, AcquireFresh, ExtendNext, ReleaseLast, schedVars, seqVars,
         stepVars, allVars, vars, poolVars
<1>2. UNCHANGED <<cmds, mode, meta, started, completion, producing, asked, events, client>>
  BY DEF engineVars, allVars
<1>3. BatchSeqs' = BatchSeqs /\ \A u \in Seqs : Owed(u)' <=> Owed(u)
  BY <1>1, <1>2 DEF Owed, Retiring, BatchSeqs
<1>4. StreamTypes' /\ \A u \in Seqs : StreamAt(u)'
  BY <1>1, <1>2, <1>3, Silent
<1>5. Producers' /\ StartedFirst' /\ NoneLost'
  BY <1>1, <1>2, <1>3 DEF StreamInv, Producers, StartedFirst, NoneLost
<1> QED BY <1>4, <1>5 DEF StreamInv

(* Every step of the engine keeps the streams.                             *)
LEMMA StreamNext ==
    ASSUME Layers, Layers', EngineInv, StreamInv, [EngineNext]_allVars
    PROVE  StreamInv'
<1>1. CASE UNCHANGED allVars \/ (PoolStep /\ UNCHANGED engineVars)
  BY <1>1, PoolStream
<1>2. CASE Clients
  BY <1>2, ClientsStream
<1>3. CASE PollReject \/ PollAdmit
  BY <1>3, SubmitStream
<1>4. CASE PollAbort \/ PollShutdown
  BY <1>4, PollStream
<1>5. CASE BeginStep
  <2>1. /\ Drain /\ UNCHANGED stepVars /\ UNCHANGED producing /\ mode = "poll"
        /\ mode' \in {"poll", "build"}
    BY <1>5 DEF BeginStep
  <2>2. producing = <<>>
    BY <2>1 DEF StreamInv, Producers
  <2> QED BY <2>1, <2>2, DrainStream
<1>6. CASE EndStep
  <2>1. /\ Drain /\ UNCHANGED stepVars /\ UNCHANGED producing /\ mode \in {"emit", "drain"}
        /\ mode' = "poll" /\ (mode = "drain" \/ producing = <<>>)
    BY <1>6 DEF EndStep
  <2>2. producing = <<>>
    BY <2>1 DEF StreamInv, Producers
  <2> QED BY <2>1, <2>2, DrainStream
<1>7. CASE BuildBatch \/ BatchBuilt
  BY <1>7, BuildStream
<1>8. CASE RunModel
  BY <1>8, ModelStream
<1>9. CASE ApplyItems \/ ItemsApplied
  BY <1>9, ApplyStream
<1>10. CASE Emit \/ EmitRefused
  BY <1>10, EmitStream
<1>11. CASE FailDone \/ \E s \in Seqs : FailOne(s)
  BY <1>11, FailStream
<1> QED BY <1>1, <1>2, <1>3, <1>4, <1>5, <1>6, <1>7, <1>8, <1>9, <1>10, <1>11
        DEF EngineNext, EngineThread

(* Nothing was sent at first.                                              *)
LEMMA StreamInit == EngineInit => StreamInv
<1> SUFFICES ASSUME EngineInit PROVE StreamInv
  OBVIOUS
<1>1. /\ cmds = <<>> /\ mode = "poll" /\ meta = {} /\ producing = <<>>
      /\ started = [s \in Seqs |-> FALSE] /\ completion = [s \in Seqs |-> 0]
      /\ events = [s \in Seqs |-> <<>>] /\ client = [s \in Seqs |-> "none"]
      /\ state = [s \in Seqs |-> "none"] /\ toks = [s \in Seqs |-> <<>>]
      /\ plen = [s \in Seqs |-> 0]
  BY DEF EngineInit, Init, SchedInit, PoolInit
<1>2. <<>> \in Seq(Seqs) /\ <<>> \in Seq(Event) /\ IsInjective(<<>>) /\ Range(<<>>) = {}
  BY DEF IsInjective, Range
<1>3. StreamTypes /\ Producers /\ StartedFirst /\ NoneLost
  BY <1>1, <1>2 DEF StreamTypes, Producers, StartedFirst, NoneLost
<1>4. ASSUME NEW s \in Seqs PROVE StreamAt(s)
  <2>1. events[s] = <<>> /\ Len(events[s]) = 0 /\ Produced(s) = 0
    BY <1>1 DEF Produced
  <2>2. Body(s, Len(events[s]))
    BY <2>1 DEF Body
  <2> QED BY <1>1, <2>1, <2>2 DEF StreamAt
<1> QED BY <1>3, <1>4 DEF StreamInv

(* The invariant of the streams.                                           *)
THEOREM StreamInvariant == EngineSpec => []StreamInv
<1>1. Layers /\ Layers' /\ EngineInv /\ StreamInv /\ [EngineNext]_allVars => StreamInv'
  BY StreamNext
<1> QED BY <1>1, StreamInit, EngineInvariant, PTL DEF EngineSpec

(* What the output is, position by position.                               *)
LEMMA OutputFacts ==
    ASSUME Layers, NEW s \in Seqs
    PROVE  /\ Produced(s) \in Nat /\ Len(Output(s)) = Produced(s)
           /\ \A k \in 1 .. Produced(s) : Output(s)[k] = toks[s][plen[s] + k]
<1>1. /\ toks[s] \in Seq(Token) /\ Len(toks[s]) \in Nat /\ plen[s] \in Nat
      /\ Produced(s) \in Nat /\ Produced(s) = Len(toks[s]) - plen[s]
  BY TextFacts DEF Produced
<1>2. Len(SubSeq(toks[s], plen[s] + 1, Len(toks[s]))) = Produced(s)
  BY <1>1
<1>3. \A k \in 1 .. Produced(s) :
         SubSeq(toks[s], plen[s] + 1, Len(toks[s]))[k] = toks[s][plen[s] + k]
  BY <1>1
<1> QED BY <1>1, <1>2, <1>3 DEF Output

(* The kinds of events.                                                    *)
LEMMA Kinds ==
    /\ Started.kind = "Started" /\ Error.kind = "Error"
    /\ \A t : TokenOf(t).kind = "Token" /\ TokenOf(t).token = t
    /\ \A why, n : /\ Done(why, n).kind = "Done" /\ Done(why, n).completion = n
                   /\ Done(why, n).reason = why
  BY DEF Started, Error, TokenOf, Done

(* The tokens that were sent are the ones of the body.                     *)
LEMMA SentCount ==
    ASSUME NEW s, events[s] \in Seq(Event), NEW n \in Nat, Body(s, n),
           \A i \in n + 1 .. Len(events[s]) : events[s][i].kind # "Token"
    PROVE  Cardinality(SentTokens(s)) = TokensIn(n)
<1>1. Len(events[s]) \in Nat /\ n <= Len(events[s])
  BY DEF Body
<1>2. \A i \in 1 .. n : events[s][i].kind = "Token" <=> i # 1
  BY Kinds DEF Body, Beat
<1>3. \A i \in 1 .. Len(events[s]) : i \in 1 .. n \/ i \in n + 1 .. Len(events[s])
  BY <1>1
<1>4. SentTokens(s) = 2 .. n
  <2>1. ASSUME NEW i \in SentTokens(s) PROVE i \in 2 .. n
    <3>1. i \in 1 .. Len(events[s]) /\ events[s][i].kind = "Token"
      BY DEF SentTokens
    <3>2. i \in 1 .. n /\ i # 1
      BY <1>2, <1>3, <3>1
    <3> QED BY <3>2
  <2>2. ASSUME NEW i \in 2 .. n PROVE i \in SentTokens(s)
    <3>1. i \in 1 .. n /\ i # 1 /\ i \in 1 .. Len(events[s])
      BY <1>1
    <3> QED BY <1>2, <3>1 DEF SentTokens
  <2> QED BY <2>1, <2>2
<1>5. Cardinality(2 .. n) = IF 2 > n THEN 0 ELSE n - 2 + 1
  BY FS_Interval
<1> QED BY <1>4, <1>5 DEF TokensIn

(* What comes after the body of a stream that ended.                       *)
LEMMA EndEvents ==
    ASSUME StreamTypes, NEW s \in Seqs, NEW n \in Nat, Body(s, n), EndsAfter(s, n)
    PROVE  /\ events[s] \in Seq(Event) /\ Len(events[s]) \in Nat /\ n + 1 <= Len(events[s])
           /\ Cardinality(SentTokens(s)) = TokensIn(n)
           /\ \A i \in n + 1 .. Len(events[s]) : events[s][i].kind \in {"Error", "Done"}
           /\ \A i \in n + 1 .. Len(events[s]) : events[s][i].kind = "Done" =>
                 i = Len(events[s]) /\ events[s][i].completion = TokensIn(n)
           /\ \A i \in n + 1 .. Len(events[s]), j \in n + 1 .. Len(events[s]) :
                 j > i => events[s][j].kind = "Done"
           /\ \A why \in {"Eos", "MaxTokens"} : \A m :
                 events[s][Len(events[s])] = Done(why, m) => TokensIn(n) = Produced(s)
<1>1. events[s] \in Seq(Event) /\ Len(events[s]) \in Nat
  BY DEF StreamTypes
<1>2. CASE Len(events[s]) = n + 1 /\ events[s][n + 1] = Error
  <2>1. \A i \in n + 1 .. Len(events[s]) : i = n + 1
    BY <1>2
  <2>2. /\ \A i \in n + 1 .. Len(events[s]) : events[s][i].kind = "Error"
        /\ n + 1 <= Len(events[s])
    BY <1>2, <2>1, Kinds
  <2>3. Cardinality(SentTokens(s)) = TokensIn(n)
    BY <1>1, <2>2, SentCount
  <2>4. events[s][Len(events[s])].kind = "Error"
    BY <1>2, Kinds
  <2> QED BY <1>1, <1>2, <2>1, <2>2, <2>3, <2>4, Kinds
<1>3. ASSUME Len(events[s]) = n + 1, NEW w \in {"none", "Eos", "MaxTokens", "Aborted"},
             events[s][n + 1] = Done(w, TokensIn(n)),
             w \in {"Eos", "MaxTokens"} => TokensIn(n) = Produced(s)
      PROVE  /\ n + 1 <= Len(events[s])
             /\ Cardinality(SentTokens(s)) = TokensIn(n)
             /\ \A i \in n + 1 .. Len(events[s]) :
                   /\ i = n + 1 /\ events[s][i].kind = "Done"
                   /\ events[s][i].completion = TokensIn(n)
             /\ \A why \in {"Eos", "MaxTokens"} : \A m :
                   events[s][Len(events[s])] = Done(why, m) => TokensIn(n) = Produced(s)
  <2>1. \A i \in n + 1 .. Len(events[s]) : i = n + 1
    BY <1>3
  <2>2. \A i \in n + 1 .. Len(events[s]) :
           events[s][i].kind = "Done" /\ events[s][i].completion = TokensIn(n)
    BY <1>3, <2>1, Kinds
  <2>3. Cardinality(SentTokens(s)) = TokensIn(n)
    BY <1>1, <2>2, SentCount
  <2>4. events[s][Len(events[s])].reason = w
    BY <1>3, Kinds
  <2> QED BY <1>1, <1>3, <2>1, <2>2, <2>3, <2>4, Kinds
<1>4. CASE n = 0 /\ events[s] = <<Error, Done("Aborted", 0)>>
  <2>1. /\ Len(events[s]) = 2 /\ events[s][1] = Error /\ events[s][2] = Done("Aborted", 0)
    BY <1>4
  <2>2. \A i \in n + 1 .. Len(events[s]) : i = 1 \/ i = 2
    BY <1>4, <2>1
  <2>3. \A i \in n + 1 .. Len(events[s]) : events[s][i].kind \in {"Error", "Done"}
    BY <2>1, <2>2, Kinds
  <2>4. Cardinality(SentTokens(s)) = TokensIn(n)
    BY <1>1, <2>3, SentCount
  <2>5. TokensIn(n) = 0
    BY <1>4 DEF TokensIn
  <2>6. /\ events[s][1].kind = "Error" /\ events[s][2].kind = "Done"
        /\ events[s][2].completion = 0 /\ events[s][2].reason = "Aborted"
    BY <2>1, Kinds
  <2>7. \A i \in n + 1 .. Len(events[s]) : events[s][i].kind = "Done" =>
           i = Len(events[s]) /\ events[s][i].completion = TokensIn(n)
    BY <2>1, <2>2, <2>5, <2>6
  <2>8. \A i \in n + 1 .. Len(events[s]), j \in n + 1 .. Len(events[s]) :
           j > i => events[s][j].kind = "Done"
    BY <2>2, <2>6
  <2>9. \A why \in {"Eos", "MaxTokens"} : \A m : events[s][Len(events[s])] # Done(why, m)
    BY <2>1, <2>6, Kinds
  <2> QED BY <1>1, <1>4, <2>1, <2>3, <2>4, <2>7, <2>8, <2>9
<1>5. CASE \E w \in {"none", "Eos", "MaxTokens", "Aborted"} :
              /\ Len(events[s]) = n + 1 /\ events[s][n + 1] = Done(w, TokensIn(n))
              /\ w \in {"Eos", "MaxTokens"} => TokensIn(n) = Produced(s)
  <2>1. PICK w \in {"none", "Eos", "MaxTokens", "Aborted"} :
              /\ Len(events[s]) = n + 1 /\ events[s][n + 1] = Done(w, TokensIn(n))
              /\ w \in {"Eos", "MaxTokens"} => TokensIn(n) = Produced(s)
    BY <1>5
  <2>2. /\ n + 1 <= Len(events[s])
        /\ Cardinality(SentTokens(s)) = TokensIn(n)
        /\ \A i \in n + 1 .. Len(events[s]) :
              /\ i = n + 1 /\ events[s][i].kind = "Done"
              /\ events[s][i].completion = TokensIn(n)
        /\ \A why \in {"Eos", "MaxTokens"} : \A m :
              events[s][Len(events[s])] = Done(why, m) => TokensIn(n) = Produced(s)
    BY <1>3, <2>1
  <2> QED BY <1>1, <2>1, <2>2
<1> QED BY <1>2, <1>4, <1>5 DEF EndsAfter

(* The events of the body are well formed.                                 *)
LEMMA BodyEvents ==
    ASSUME Layers, NEW s \in Seqs, NEW n \in Nat, Body(s, n), NEW i \in 1 .. n
    PROVE  /\ events[s][i].kind \in {"Started", "Token"}
           /\ events[s][i].kind = "Started" => i = 1
           /\ events[s][i].kind = "Token" =>
                 /\ events[s][1] = Started
                 /\ i - 1 <= Len(Output(s))
                 /\ events[s][i].token = Output(s)[i - 1]
<1>1. /\ events[s][i] = Beat(s, i) /\ events[s][1] = Beat(s, 1) /\ n <= Produced(s) + 1
  BY DEF Body
<1>2. Beat(s, 1) = Started
  BY DEF Beat
<1>3. CASE i = 1
  BY <1>1, <1>2, <1>3, Kinds
<1>4. CASE i # 1
  <2>1. /\ Produced(s) \in Nat /\ Len(Output(s)) = Produced(s)
        /\ \A k \in 1 .. Produced(s) : Output(s)[k] = toks[s][plen[s] + k]
    BY OutputFacts
  <2>2. i - 1 \in 1 .. Produced(s)
    BY <1>1, <1>4, <2>1
  <2>3. Output(s)[i - 1] = toks[s][plen[s] + (i - 1)]
    BY <2>1, <2>2
  <2>4. plen[s] + (i - 1) = plen[s] + i - 1
    BY TextFacts
  <2>5. events[s][i] = TokenOf(toks[s][plen[s] + i - 1])
    BY <1>1, <1>4 DEF Beat
  <2>6. events[s][i].kind = "Token" /\ events[s][i].token = Output(s)[i - 1]
    BY <2>3, <2>4, <2>5, Kinds
  <2> QED BY <1>1, <1>2, <2>1, <2>2, <2>6
<1> QED BY <1>3, <1>4

(* batch_engine.rs emit_started, emit_tokens, drain_finished and fail_all: *)
(* whatever is preempted, aborted, refused or fails, a reply stream is     *)
(* Started, the tokens of the output, each once and in order, and at most  *)
(* an ending, whose count is that of the tokens sent.                      *)
THEOREM StreamsCorrect == EngineSpec => []StreamWellFormed
<1>1. Layers /\ StreamInv => StreamWellFormed
  <2> SUFFICES ASSUME Layers, StreamInv, NEW s \in Seqs, NEW i \in 1 .. Len(events[s])
               PROVE  /\ events[s][i].kind = "Started" => i = 1
                      /\ events[s][i].kind = "Token" =>
                            /\ events[s][1] = Started
                            /\ i - 1 <= Len(Output(s))
                            /\ events[s][i].token = Output(s)[i - 1]
                      /\ events[s][i].kind = "Error" =>
                            \A j \in i + 1 .. Len(events[s]) : events[s][j].kind = "Done"
                      /\ events[s][i].kind = "Done" =>
                            /\ i = Len(events[s])
                            /\ events[s][i].completion = Cardinality(SentTokens(s))
    BY DEF StreamWellFormed
  <2>1. StreamTypes /\ StreamAt(s) /\ events[s] \in Seq(Event) /\ Len(events[s]) \in Nat
    BY DEF StreamInv, StreamTypes
  <2>2. CASE Body(s, Len(events[s]))
    BY <2>1, <2>2, BodyEvents
  <2>3. CASE Ended(s)
    <3>1. PICK n \in Nat : Body(s, n) /\ EndsAfter(s, n)
      BY <2>3 DEF Ended
    <3>2. CASE i \in 1 .. n
      BY <3>1, <3>2, BodyEvents
    <3>3. CASE i \in n + 1 .. Len(events[s])
      <4>1. /\ Cardinality(SentTokens(s)) = TokensIn(n)
            /\ events[s][i].kind \in {"Error", "Done"}
            /\ events[s][i].kind = "Done" =>
                  i = Len(events[s]) /\ events[s][i].completion = TokensIn(n)
            /\ \A j \in n + 1 .. Len(events[s]) : j > i => events[s][j].kind = "Done"
        BY <2>1, <3>1, <3>3, EndEvents
      <4>2. \A j \in i + 1 .. Len(events[s]) : j \in n + 1 .. Len(events[s]) /\ j > i
        BY <2>1, <3>3
      <4> QED BY <4>1, <4>2
    <3> QED BY <2>1, <3>2, <3>3
  <2> QED BY <2>1, <2>2, <2>3 DEF StreamAt
<1> QED BY <1>1, StreamInvariant, EngineInvariant, PTL

(* batch_engine.rs and batch_runtime.rs: a client that listens to the end  *)
(* is told how it ended, and one whose request finished by itself has been *)
(* sent all of its output: the reply channel, with room for what was asked *)
(* for and three more events, is never full.                               *)
THEOREM ListenerCorrect == EngineSpec => []ListenerGetsTheEnd
<1>1. Layers /\ StreamInv => ListenerGetsTheEnd
  <2> SUFFICES ASSUME Layers, StreamInv, NEW s \in Seqs,
                      Closed(s), Listening(s), mode # "stopped"
               PROVE  /\ events[s] # <<>>
                      /\ LastOf(events[s]).kind \in {"Done", "Error"}
                      /\ \A why \in {"Eos", "MaxTokens"} :
                            LastOf(events[s]) = Done(why, completion[s]) =>
                               Cardinality(SentTokens(s)) = Len(Output(s))
    BY DEF ListenerGetsTheEnd
  <2>1. state[s] # "none" /\ s \notin meta
    BY DEF Closed, StreamInv, NoneLost
  <2>2. Ended(s) /\ StreamTypes
    BY <2>1 DEF StreamInv, StreamAt
  <2>3. PICK n \in Nat : Body(s, n) /\ EndsAfter(s, n)
    BY <2>2 DEF Ended
  <2>4. /\ events[s] \in Seq(Event) /\ Len(events[s]) \in Nat /\ n + 1 <= Len(events[s])
        /\ Cardinality(SentTokens(s)) = TokensIn(n)
        /\ \A i \in n + 1 .. Len(events[s]) : events[s][i].kind \in {"Error", "Done"}
        /\ \A why \in {"Eos", "MaxTokens"} : \A m :
              events[s][Len(events[s])] = Done(why, m) => TokensIn(n) = Produced(s)
    BY <2>2, <2>3, EndEvents
  <2>5. Len(events[s]) \in n + 1 .. Len(events[s])
    BY <2>4
  <2>6. Len(Output(s)) = Produced(s)
    BY OutputFacts
  <2>7. events[s] # <<>>
    BY <2>4
  <2> QED BY <2>4, <2>5, <2>6, <2>7 DEF LastOf
<1> QED BY <1>1, StreamInvariant, EngineInvariant, PTL
=============================================================================
