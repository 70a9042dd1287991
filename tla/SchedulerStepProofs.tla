------------------------ MODULE SchedulerStepProofs ------------------------
(***************************************************************************)
(* What holds inside a step of the scheduler, between the calls of step    *)
(* and complete_step: the shape of the step (who is in the batch, in what  *)
(* state, and who is still to be visited), the room its members have in    *)
(* their block tables, and what the slots of the tables hold, so that      *)
(* attention never reads foreign KV. Each rests on the ones before.        *)
(***************************************************************************)
EXTENDS SchedulerProofs

Phases == {"idle", "build", "verify", "stepped", "apply", "accept", "retire"}

BatchSeqs == {batch[i].seq : i \in 1 .. Len(batch)}

\* The head of the batch is being worked on: it was sampled for already.
InHand(i) == i = 1 /\ phase \in {"accept", "retire"}

\* What the schedule of a running sequence says of it until it is applied.
ItemOK(it) ==
    LET s == it.seq
    IN  IF it.prefill
        THEN /\ state[s] = "Prefill" /\ ~it.verify
             /\ computed[s] + it.n <= Len(toks[s])
             /\ it.final <=> computed[s] + it.n = Len(toks[s])
        ELSE state[s] = "Decode" /\ (it.verify \/ drafts[s] = <<>>)

StepTypes ==
    /\ computed \in [Seqs -> Nat]
    /\ batch \in Seq(ItemType)
    /\ failures \subseteq Seqs
    /\ phase \in Phases
    /\ budget \in Nat
    /\ todo \in Seq(Seqs)
    /\ pending \in Seq(Token)

\* Nobody is in the batch twice, or in it and still to be visited.
StepDistinct ==
    /\ \A i, j \in 1 .. Len(batch) : batch[i].seq = batch[j].seq => i = j
    /\ IsInjective(todo)
    /\ BatchSeqs \cap Range(todo) = {}

StepStates ==
    /\ phase = "idle" => batch = <<>> /\ todo = <<>>
    /\ phase \in {"stepped", "accept", "retire"} => batch # <<>>
    /\ phase = "stepped" => todo = <<>>
    /\ phase \in {"build", "verify"} => BatchSeqs \subseteq Range(running)
    /\ phase = "build" =>
          \A s \in Range(todo) : s \in Range(running) /\ state[s] = "Prefill"
    /\ phase = "verify" =>
          \A s \in Range(todo) : s \in Range(running) /\ state[s] = "Decode"
    /\ phase \in {"apply", "accept", "retire"} =>
          \A s \in Range(todo) : s \in Range(running) => state[s] = "Decode"
    /\ phase \in {"accept", "retire"} => state[Head(batch).seq] = "Decode"
    /\ op.kind = "release" => op.seq \notin Range(running)

ItemsOK ==
    \A i \in 1 .. Len(batch) :
        batch[i].seq \in Range(running) /\ ~InHand(i) => ItemOK(batch[i])

PrefillsGoOn ==
    \A s \in Range(running) : state[s] = "Prefill" => computed[s] < Len(toks[s])

ShapeInv ==
    /\ StepTypes
    /\ StepDistinct
    /\ StepStates
    /\ ItemsOK
    /\ PrefillsGoOn

\* The tokens that the blocks of s have slots for.
Room(s) == Len(table[s]) * BlockSize

\* s has its next token, and not yet a slot for it.
Lags(s) ==
    /\ phase \in {"apply", "accept", "retire"}
    /\ s \in Range(todo) \/ (phase = "retire" /\ s = Head(batch).seq)

TextHasRoom ==
    \A s \in Range(running) :
        /\ Len(toks[s]) <= Room(s) + 1
        /\ ~Lags(s) => Len(toks[s]) <= Room(s)

\* The drafts of a verify item and the token after them.
DraftsHaveRoom ==
    \A i \in 1 .. Len(batch) :
        LET s == batch[i].seq
        IN  batch[i].verify /\ s \in Range(running) /\ ~InHand(i) =>
               Len(toks[s]) + Len(drafts[s]) + 1 <= Room(s)

AcceptedHaveRoom ==
    phase = "accept" =>
        LET s == Head(batch).seq IN Len(toks[s]) + Len(pending) <= Room(s)

RoomInv == TextHasRoom /\ DraftsHaveRoom /\ AcceptedHaveRoom

-----------------------------------------------------------------------------
(* The shape of a step.                                                    *)

StepInv == QueueInv /\ AllocInv /\ ShapeInv

(* The first item of the batch is done with.                               *)
LEMMA BatchTail ==
    ASSUME StepTypes, StepDistinct, batch # <<>>, batch' = Tail(batch)
    PROVE  /\ batch' \in Seq(ItemType) /\ Len(batch) \in Nat
           /\ Head(batch) = batch[1] /\ Head(batch) \in ItemType
           /\ Head(batch).seq \in Seqs /\ Head(batch).seq \in BatchSeqs
           /\ 1 \in 1 .. Len(batch)
           /\ \A i \in 1 .. Len(batch') :
                 i + 1 \in 1 .. Len(batch) /\ i + 1 # 1 /\ batch'[i] = batch[i + 1]
           /\ \A i, j \in 1 .. Len(batch') : batch'[i].seq = batch'[j].seq => i = j
           /\ BatchSeqs' \subseteq BatchSeqs \ {Head(batch).seq}
<1>1. /\ batch \in Seq(ItemType) /\ batch' \in Seq(ItemType) /\ Len(batch) \in Nat
      /\ Len(batch') = Len(batch) - 1 /\ Len(batch) >= 1
      /\ Head(batch) = batch[1]
      /\ \A i \in 1 .. Len(batch') : batch'[i] = batch[i + 1]
      /\ Head(batch) \in ItemType
  BY DEF StepTypes
<1>2. Head(batch).seq \in Seqs
  BY <1>1 DEF ItemType
<1>3. \A i \in 1 .. Len(batch') :
         i + 1 \in 1 .. Len(batch) /\ i + 1 # 1 /\ batch'[i] = batch[i + 1]
  BY <1>1
<1>4. 1 \in 1 .. Len(batch)
  BY <1>1
<1>5. \A i, j \in 1 .. Len(batch') : batch'[i].seq = batch'[j].seq => i = j
  <2> TAKE i, j \in 1 .. Len(batch')
  <2> HAVE batch'[i].seq = batch'[j].seq
  <2>1. i + 1 = j + 1
    BY <1>3 DEF StepDistinct
  <2> QED BY <1>1, <2>1
<1>6. BatchSeqs' \subseteq BatchSeqs \ {Head(batch).seq}
  <2> SUFFICES ASSUME NEW i \in 1 .. Len(batch')
               PROVE  batch'[i].seq \in BatchSeqs /\ batch'[i].seq # Head(batch).seq
    BY DEF BatchSeqs
  <2>1. batch'[i].seq = batch[i + 1].seq /\ i + 1 \in 1 .. Len(batch) /\ i + 1 # 1
    BY <1>3
  <2>2. batch[i + 1].seq # batch[1].seq
    BY <1>4, <2>1 DEF StepDistinct
  <2> QED BY <1>1, <2>1, <2>2 DEF BatchSeqs
<1>7. Head(batch).seq \in BatchSeqs
  BY <1>1, <1>4 DEF BatchSeqs
<1> QED BY <1>1, <1>2, <1>3, <1>4, <1>5, <1>6, <1>7

(* One more item is scheduled, for a sequence that has none.               *)
LEMMA BatchAppend ==
    ASSUME StepTypes, StepDistinct, NEW it \in ItemType, it.seq \notin BatchSeqs,
           batch' = Append(batch, it)
    PROVE  /\ batch' \in Seq(ItemType) /\ Len(batch) \in Nat /\ batch' # <<>>
           /\ Len(batch') = Len(batch) + 1 /\ batch'[Len(batch) + 1] = it
           /\ \A i \in 1 .. Len(batch) : batch'[i] = batch[i]
           /\ \A i, j \in 1 .. Len(batch') : batch'[i].seq = batch'[j].seq => i = j
           /\ BatchSeqs' = BatchSeqs \cup {it.seq}
<1>1. /\ batch \in Seq(ItemType) /\ batch' \in Seq(ItemType) /\ Len(batch) \in Nat
      /\ Len(batch') = Len(batch) + 1 /\ batch'[Len(batch) + 1] = it
      /\ \A i \in 1 .. Len(batch) : batch'[i] = batch[i]
      /\ batch' # <<>>
  BY DEF StepTypes
<1>2. \A i \in 1 .. Len(batch) : batch[i].seq # it.seq
  BY DEF BatchSeqs
<1>3. \A i, j \in 1 .. Len(batch') : batch'[i].seq = batch'[j].seq => i = j
  <2> TAKE i, j \in 1 .. Len(batch')
  <2> HAVE batch'[i].seq = batch'[j].seq
  <2>1. CASE i \in 1 .. Len(batch) /\ j \in 1 .. Len(batch)
    BY <1>1, <2>1 DEF StepDistinct
  <2>2. CASE i = Len(batch) + 1 /\ j = Len(batch) + 1
    BY <2>2
  <2>3. CASE i = Len(batch) + 1 /\ j \in 1 .. Len(batch)
    BY <1>1, <1>2, <2>3
  <2>4. CASE i \in 1 .. Len(batch) /\ j = Len(batch) + 1
    BY <1>1, <1>2, <2>4
  <2>5. \A x \in 1 .. Len(batch') : x \in 1 .. Len(batch) \/ x = Len(batch) + 1
    BY <1>1
  <2> QED BY <2>1, <2>2, <2>3, <2>4, <2>5
<1>4. BatchSeqs' = BatchSeqs \cup {it.seq}
  <2>1. BatchSeqs' = {batch'[i].seq : i \in 1 .. Len(batch) + 1}
    BY <1>1 DEF BatchSeqs
  <2>2. ASSUME NEW i \in 1 .. Len(batch) + 1
        PROVE  batch'[i].seq \in BatchSeqs \cup {it.seq}
    <3>1. CASE i \in 1 .. Len(batch)
      BY <1>1, <3>1 DEF BatchSeqs
    <3>2. CASE i = Len(batch) + 1
      BY <1>1, <3>2
    <3> QED BY <1>1, <3>1, <3>2
  <2>3. ASSUME NEW i \in 1 .. Len(batch)
        PROVE  batch[i].seq \in BatchSeqs'
    <3>1. i \in 1 .. Len(batch) + 1 /\ batch'[i].seq = batch[i].seq
      BY <1>1
    <3> QED BY <2>1, <3>1
  <2>4. it.seq \in BatchSeqs'
    <3>1. Len(batch) + 1 \in 1 .. Len(batch) + 1 /\ batch'[Len(batch) + 1].seq = it.seq
      BY <1>1
    <3> QED BY <2>1, <3>1
  <2>5. BatchSeqs' \subseteq BatchSeqs \cup {it.seq}
    BY <2>1, <2>2
  <2>6. BatchSeqs \subseteq BatchSeqs'
    BY <2>3 DEF BatchSeqs
  <2> QED BY <2>4, <2>5, <2>6
<1> QED BY <1>1, <1>3, <1>4

(* Steps that leave the batch and its members alone: other sequences come, *)
(* go or take blocks.                                                      *)
LEMMA ShapeFrame ==
    ASSUME StepInv,
           UNCHANGED <<batch, failures, phase, budget, todo, pending>>,
           computed' = computed,
           Range(running') \subseteq Range(running),
           phase \in {"build", "verify", "accept", "retire"} =>
              Range(running') = Range(running),
           \A s \in Range(running') :
              /\ state'[s] = state[s] /\ toks'[s] = toks[s]
              /\ phase = "idle" \/ drafts'[s] = drafts[s],
           op'.kind = "release" => op'.seq \notin Range(running')
    PROVE  ShapeInv'
<1>0. StepTypes /\ StepDistinct /\ StepStates /\ ItemsOK /\ PrefillsGoOn /\ HeadInv
  BY DEF StepInv, ShapeInv, QueueInv
<1>1. StepTypes' /\ BatchSeqs' = BatchSeqs
  BY <1>0 DEF StepTypes, BatchSeqs
<1>2. StepDistinct'
  BY <1>0, <1>1 DEF StepDistinct
<1>3. StepStates'
  BY <1>0, <1>1 DEF StepStates, HeadInv
<1>4. ItemsOK'
  <2> SUFFICES ASSUME NEW i \in 1 .. Len(batch), batch[i].seq \in Range(running'),
                      ~InHand(i)
               PROVE  ItemOK(batch[i])'
    BY DEF ItemsOK, InHand
  <2>1. ItemOK(batch[i]) /\ batch # <<>>
    BY <1>0 DEF ItemsOK, StepTypes
  <2>2. phase # "idle"
    BY <1>0, <2>1 DEF StepStates
  <2> QED BY <2>1, <2>2 DEF ItemOK
<1>5. PrefillsGoOn'
  BY <1>0 DEF PrefillsGoOn
<1> QED BY <1>1, <1>2, <1>3, <1>4, <1>5 DEF ShapeInv

(* The head of the batch is finished with, whatever became of it.          *)
LEMMA ShapeDrop ==
    ASSUME StepInv, phase \in {"stepped", "apply", "accept", "retire"},
           batch # <<>>, batch' = Tail(batch), phase' = "apply",
           NEW s, s = Head(batch).seq,
           computed' \in [Seqs -> Nat], failures' \subseteq Seqs,
           budget' = budget, pending' \in Seq(Token),
           todo' = todo \/ (todo' = Append(todo, s) /\ state'[s] = "Decode"),
           Range(running') \subseteq Range(running),
           \A u \in Range(running') : u # s =>
              /\ state'[u] = state[u] /\ toks'[u] = toks[u]
              /\ computed'[u] = computed[u] /\ drafts'[u] = drafts[u],
           s \in Range(running') /\ state'[s] = "Prefill" =>
              computed'[s] < Len(toks'[s]),
           op'.kind = "release" => op'.seq \notin Range(running')
    PROVE  ShapeInv'
<1>0. /\ StepTypes /\ StepDistinct /\ StepStates /\ ItemsOK /\ PrefillsGoOn
      /\ todo \in Seq(Seqs)
  BY DEF StepInv, ShapeInv, StepTypes
<1>1. /\ batch' \in Seq(ItemType)
      /\ Head(batch) = batch[1]
      /\ s \in Seqs /\ s \in BatchSeqs
      /\ 1 \in 1 .. Len(batch)
      /\ \A i \in 1 .. Len(batch') :
            i + 1 \in 1 .. Len(batch) /\ i + 1 # 1 /\ batch'[i] = batch[i + 1]
      /\ \A i, j \in 1 .. Len(batch') : batch'[i].seq = batch'[j].seq => i = j
      /\ BatchSeqs' \subseteq BatchSeqs \ {s}
  BY <1>0, BatchTail
<1>2. /\ todo' \in Seq(Seqs) /\ IsInjective(todo')
      /\ Range(todo') \subseteq Range(todo) \cup {s}
      /\ s \in Range(todo') => state'[s] = "Decode"
  <2>1. s \notin Range(todo)
    BY <1>0, <1>1 DEF StepDistinct
  <2>2. CASE todo' = todo
    BY <1>0, <2>1, <2>2 DEF StepDistinct
  <2>3. CASE todo' = Append(todo, s) /\ state'[s] = "Decode"
    <3>1. IsInjective(todo)
      BY <1>0 DEF StepDistinct
    <3> QED BY <1>0, <1>1, <2>1, <2>3, <3>1, AppendInjective2
  <2> QED BY <2>2, <2>3
<1>3. StepTypes'
  BY <1>0, <1>1, <1>2 DEF StepTypes, Phases
<1>4. StepDistinct'
  BY <1>0, <1>1, <1>2 DEF StepDistinct
<1>5. \A u \in Range(todo) : u \in Range(running) => state[u] = "Decode"
  <2>1. CASE phase = "stepped"
    BY <1>0, <2>1 DEF StepStates, Range
  <2>2. CASE phase # "stepped"
    BY <1>0, <2>2 DEF StepStates
  <2> QED BY <2>1, <2>2
<1>6. StepStates'
  <2>1. \A u \in Range(todo') : u \in Range(running') => state'[u] = "Decode"
    BY <1>2, <1>5
  <2> QED BY <2>1 DEF StepStates
<1>7. ItemsOK'
  <2> SUFFICES ASSUME NEW i \in 1 .. Len(batch'), batch'[i].seq \in Range(running')
               PROVE  ItemOK(batch[i])'
    BY DEF ItemsOK
  <2>1. PICK it : it = batch'[i]
    OBVIOUS
  <2>2. it = batch[i + 1] /\ i + 1 \in 1 .. Len(batch) /\ ~InHand(i + 1)
    BY <1>1, <2>1 DEF InHand
  <2>3. it.seq # s /\ it.seq \in Range(running') /\ it.seq \in Range(running)
    BY <1>1, <2>1 DEF BatchSeqs
  <2>4. ItemOK(it)
    BY <1>0, <2>2, <2>3 DEF ItemsOK
  <2>5. ItemOK(it)'
    BY <2>3, <2>4 DEF ItemOK
  <2> QED BY <2>1, <2>5 DEF ItemOK
<1>8. PrefillsGoOn'
  BY <1>0 DEF PrefillsGoOn
<1> QED BY <1>3, <1>4, <1>6, <1>7, <1>8 DEF ShapeInv

(* The head of the batch is in hand: it takes accepted tokens or retires.  *)
LEMMA ShapeInHand ==
    ASSUME StepInv, phase \in {"stepped", "apply", "accept"},
           batch # <<>>, phase' \in {"accept", "retire"},
           UNCHANGED <<batch, failures, budget, todo, running>>,
           NEW s, s = Head(batch).seq, state'[s] = "Decode",
           computed' \in [Seqs -> Nat], pending' \in Seq(Token),
           \A u \in Range(running) : u # s =>
              /\ state'[u] = state[u] /\ toks'[u] = toks[u]
              /\ computed'[u] = computed[u] /\ drafts'[u] = drafts[u],
           op'.kind # "release"
    PROVE  ShapeInv'
<1>0. /\ StepTypes /\ StepDistinct /\ StepStates /\ ItemsOK /\ PrefillsGoOn
  BY DEF StepInv, ShapeInv
<1>1. StepTypes' /\ StepDistinct'
  BY <1>0 DEF StepTypes, Phases, StepDistinct, BatchSeqs
<1>2. \A u \in Range(todo) : u \in Range(running) => state[u] = "Decode"
  <2>1. CASE phase = "stepped"
    BY <1>0, <2>1 DEF StepStates, Range
  <2>2. CASE phase # "stepped"
    BY <1>0, <2>2 DEF StepStates
  <2> QED BY <2>1, <2>2
<1>3. StepStates'
  BY <1>2 DEF StepStates
<1>4. ItemsOK'
  <2> SUFFICES ASSUME NEW i \in 1 .. Len(batch), batch[i].seq \in Range(running), i # 1
               PROVE  ItemOK(batch[i])'
    BY DEF ItemsOK, InHand
  <2>1. PICK it : it = batch[i]
    OBVIOUS
  <2>2. ItemOK(it)
    BY <1>0, <2>1 DEF ItemsOK, InHand
  <2>3. it.seq # s
    <3>1. 1 \in 1 .. Len(batch) /\ Head(batch) = batch[1]
      BY <1>0 DEF StepTypes
    <3> QED BY <1>0, <2>1, <3>1 DEF StepDistinct
  <2>4. ItemOK(it)'
    BY <2>1, <2>2, <2>3 DEF ItemOK
  <2> QED BY <2>1, <2>4 DEF ItemOK
<1>5. PrefillsGoOn'
  BY <1>0 DEF PrefillsGoOn
<1> QED BY <1>1, <1>3, <1>4, <1>5 DEF ShapeInv

(* A sequence is extended, preempted or aborted for want of blocks.        *)
LEMMA ShapeExtend ==
    ASSUME StepInv, Extending, UNCHANGED <<batch, phase, budget, pending>>,
           todo' = todo \/ todo' = Tail(todo), failures' \subseteq Seqs,
           computed' \in [Seqs -> Nat],
           Range(running') \subseteq Range(running),
           \A u \in Range(running') : /\ state'[u] = state[u] /\ toks'[u] = toks[u]
                                      /\ computed'[u] = computed[u],
           op'.kind = "release" => op'.seq \notin Range(running')
    PROVE  ShapeInv'
<1>0. /\ StepTypes /\ StepDistinct /\ StepStates /\ ItemsOK /\ PrefillsGoOn
      /\ todo \in Seq(Seqs) /\ todo # <<>> /\ IsInjective(todo)
      /\ phase = "apply" /\ batch = <<>>
  BY DEF StepInv, ShapeInv, StepTypes, StepDistinct, Extending
<1>1. /\ todo' \in Seq(Seqs) /\ IsInjective(todo')
      /\ Range(todo') \subseteq Range(todo)
  <2>1. CASE todo' = todo
    BY <1>0, <2>1
  <2>2. CASE todo' = Tail(todo)
    BY <1>0, <2>2, TailInjective
  <2> QED BY <2>1, <2>2
<1>2. StepTypes'
  BY <1>0, <1>1 DEF StepTypes
<1>3. BatchSeqs' = {}
  BY <1>0 DEF BatchSeqs
<1>4. StepDistinct'
  BY <1>0, <1>1, <1>3 DEF StepDistinct
<1>5. StepStates'
  BY <1>0, <1>1 DEF StepStates
<1>6. ItemsOK'
  BY <1>0 DEF ItemsOK
<1>7. PrefillsGoOn'
  BY <1>0 DEF PrefillsGoOn
<1> QED BY <1>2, <1>4, <1>5, <1>6, <1>7 DEF ShapeInv

(* The fields of a scheduled item.                                         *)
LEMMA ItemFacts ==
    ASSUME NEW s \in Seqs, NEW n \in Nat, NEW p \in BOOLEAN, NEW f \in BOOLEAN
    PROVE  /\ Item(s, n, p, f) \in ItemType
           /\ Item(s, n, p, f).seq = s /\ Item(s, n, p, f).n = n
           /\ Item(s, n, p, f).prefill = p /\ Item(s, n, p, f).final = f
           /\ Item(s, n, p, f).verify = FALSE
  BY DEF Item, ItemType

(* Building a mixed batch: the decodes, and whom to visit next.            *)
LEMMA ShapeStepMixed ==
    ASSUME StepInv, StepMixed
    PROVE  ShapeInv'
<1> DEFINE D == {s \in Seqs : state[s] = "Decode" /\ drafts[s] = <<>>}
           P == {s \in Seqs : state[s] = "Prefill"}
           decodes == Filtered(running, D)
           n == Smaller(Len(decodes), Smaller(MaxBatchedTokens, MaxBatchSize))
<1>0. /\ StepTypes /\ PrefillsGoOn /\ running \in Seq(Seqs) /\ IsInjective(running)
      /\ Range(running) \subseteq Seqs
  BY PlaceFacts DEF StepInv, ShapeInv, QueueInv, PlaceInv, PlaceTypes, OnePlace
<1>1. /\ batch' = [i \in 1 .. n |-> Item(decodes[i], 1, FALSE, FALSE)]
      /\ budget' = MaxBatchedTokens - n
      /\ todo' = Filtered(running, P)
      /\ phase' = "build" /\ failures' = {} /\ op = Idle /\ op' = op
      /\ UNCHANGED <<toks, state, computed, drafts, running, pending>>
  BY DEF StepMixed, poolVars, seqVars, queueVars
<1> HIDE DEF D, P, decodes
<1>2. /\ decodes \in Seq(Seqs) /\ IsInjective(decodes) /\ Len(decodes) \in Nat
      /\ Range(decodes) \subseteq Range(running) \cap D
      /\ todo' \in Seq(Seqs) /\ IsInjective(todo')
      /\ Range(todo') \subseteq Range(running) \cap P
  BY <1>0, <1>1, FilteredProperties DEF decodes
<1>3. n \in Nat /\ n <= Len(decodes) /\ n <= MaxBatchedTokens
  BY <1>2, SchedulerAssumption DEF Smaller
<1> HIDE DEF n
<1>4. ASSUME NEW i \in 1 .. n
      PROVE  /\ decodes[i] \in Range(running) /\ decodes[i] \in D /\ decodes[i] \in Seqs
             /\ i \in DOMAIN decodes
  <2>1. i \in DOMAIN decodes
    BY <1>2, <1>3
  <2>2. decodes[i] \in Range(decodes)
    BY <2>1 DEF Range
  <2> QED BY <1>0, <1>2, <2>1, <2>2
<1>5. \A i \in 1 .. n : /\ batch'[i] = Item(decodes[i], 1, FALSE, FALSE)
                        /\ batch'[i] \in ItemType
                        /\ batch'[i].seq = decodes[i]
                        /\ ~batch'[i].prefill /\ ~batch'[i].verify
  <2>1. \A i \in 1 .. n : batch'[i] = Item(decodes[i], 1, FALSE, FALSE)
    BY <1>1
  <2>2. 1 \in Nat /\ FALSE \in BOOLEAN
    OBVIOUS
  <2>3. ASSUME NEW i \in 1 .. n, NEW s, s = decodes[i]
        PROVE  /\ Item(s, 1, FALSE, FALSE) \in ItemType
               /\ Item(s, 1, FALSE, FALSE).seq = s
               /\ ~Item(s, 1, FALSE, FALSE).prefill /\ ~Item(s, 1, FALSE, FALSE).verify
    <3>1. s \in Seqs
      BY <1>4, <2>3
    <3> QED BY <2>2, <3>1, ItemFacts
  <2> QED BY <2>1, <2>3
<1>6. batch' \in Seq(ItemType) /\ Len(batch') = n
  <2>1. batch' \in [1 .. n -> ItemType]
    BY <1>1, <1>5
  <2> QED BY <1>3, <2>1
<1>7. StepTypes'
  <2>1. budget' \in Nat
    BY <1>1, <1>3, SchedulerAssumption
  <2> QED BY <1>0, <1>1, <1>2, <1>6, <2>1 DEF StepTypes, Phases
<1>8. BatchSeqs' \subseteq Range(running) \cap D
  <2>1. BatchSeqs' = {batch'[i].seq : i \in 1 .. n}
    BY <1>6 DEF BatchSeqs
  <2> QED BY <1>4, <1>5, <2>1
<1>9. StepDistinct'
  <2>1. \A i, j \in 1 .. Len(batch') : batch'[i].seq = batch'[j].seq => i = j
    <3>1. \A i, j \in 1 .. n : decodes[i] = decodes[j] => i = j
      BY <1>2, <1>4 DEF IsInjective
    <3>2. \A i \in 1 .. n : batch'[i].seq = decodes[i]
      BY <1>5
    <3>3. Len(batch') = n
      BY <1>6
    <3> QED BY <3>1, <3>2, <3>3, Zenon
  <2>2. BatchSeqs' \cap Range(todo') = {}
    BY <1>2, <1>8 DEF D, P
  <2> QED BY <1>2, <2>1, <2>2 DEF StepDistinct
<1>10. StepStates'
  <2>1. op'.kind # "release"
    BY <1>1 DEF Idle
  <2>2. \A s \in Range(todo') : s \in Range(running) /\ state[s] = "Prefill"
    BY <1>2 DEF P
  <2> QED BY <1>1, <1>8, <2>1, <2>2 DEF StepStates
<1>11. ItemsOK'
  <2>1. ASSUME NEW i \in 1 .. n PROVE ItemOK(batch[i])'
    <3>1. state'[decodes[i]] = "Decode" /\ drafts'[decodes[i]] = <<>>
      BY <1>1, <1>4 DEF D
    <3> QED BY <1>5, <3>1 DEF ItemOK
  <2> QED BY <1>6, <2>1 DEF ItemsOK
<1>12. PrefillsGoOn'
  BY <1>0, <1>1 DEF PrefillsGoOn
<1> QED BY <1>7, <1>9, <1>10, <1>11, <1>12 DEF ShapeInv

(* A prefilling sequence gets its next chunk.                              *)
LEMMA ShapeScheduleChunk ==
    ASSUME StepInv, ScheduleChunk
    PROVE  ShapeInv'
<1>0. /\ StepTypes /\ StepDistinct /\ StepStates /\ ItemsOK /\ PrefillsGoOn
      /\ todo \in Seq(Seqs) /\ IsInjective(todo)
      /\ toks \in [Seqs -> Seq(Token)] /\ computed \in [Seqs -> Nat] /\ budget \in Nat
  BY DEF StepInv, ShapeInv, StepDistinct, StepTypes, QueueInv, PoolInv, PoolTypeOK,
         PoolDataOK
<1>1. PICK s : s = Head(todo)
  OBVIOUS
<1>2. PICK take : take = FlooredTake(RemainingUncomputed(s), budget, PrefillChunkMin)
  OBVIOUS
<1> DEFINE it == Item(s, take, TRUE, take = RemainingUncomputed(s))
<1>3. /\ phase = "build" /\ phase' = "build" /\ op = Idle /\ op' = op
      /\ todo # <<>> /\ todo' = Tail(todo)
      /\ batch' = (IF take = 0 THEN batch ELSE Append(batch, it))
      /\ budget' = budget - take
      /\ UNCHANGED <<toks, state, computed, drafts, running, failures, pending>>
  BY <1>1, <1>2 DEF ScheduleChunk, poolVars, seqVars, queueVars
<1>4. /\ s \in Seqs /\ s \in Range(todo)
      /\ todo' \in Seq(Seqs) /\ IsInjective(todo')
      /\ Range(todo') = Range(todo) \ {s}
  BY <1>0, <1>1, <1>3, TailInjective
<1>5. s \in Range(running) /\ state[s] = "Prefill" /\ s \notin BatchSeqs
  BY <1>0, <1>3, <1>4 DEF StepStates, StepDistinct
<1>6. /\ RemainingUncomputed(s) \in Nat
      /\ computed[s] + RemainingUncomputed(s) = Len(toks[s])
      /\ computed[s] \in Nat /\ Len(toks[s]) \in Nat
  BY <1>0, <1>4, <1>5 DEF PrefillsGoOn, RemainingUncomputed
<1>7. take \in Nat /\ take <= RemainingUncomputed(s) /\ take <= budget
  <2>1. PICK r : r = RemainingUncomputed(s)
    OBVIOUS
  <2>2. r \in Nat /\ budget \in Nat /\ PrefillChunkMin \in Nat
    BY <1>0, <1>6, <2>1, SchedulerAssumption
  <2>3. take = FlooredTake(r, budget, PrefillChunkMin)
    BY <1>2, <2>1
  <2>4. take \in 0 .. r /\ take <= budget
    BY <2>2, <2>3, TakeFitsBudget
  <2> QED BY <2>1, <2>2, <2>4
<1>8. /\ it \in ItemType /\ it.seq = s /\ it.prefill /\ ~it.verify /\ it.n = take
      /\ it.final <=> take = RemainingUncomputed(s)
  <2>1. PICK r : r = RemainingUncomputed(s)
    OBVIOUS
  <2>2. PICK f : f = (take = r)
    OBVIOUS
  <2>3. f \in BOOLEAN
    BY <2>2
  <2>4. f <=> take = r
    BY <2>2
  <2>5. it = Item(s, take, TRUE, f)
    BY <2>1, <2>2
  <2> HIDE DEF it
  <2>6. /\ it \in ItemType /\ it.seq = s /\ it.n = take
        /\ it.prefill /\ ~it.verify /\ it.final = f
    BY <1>4, <1>7, <2>3, <2>5 DEF Item, ItemType
  <2> QED BY <2>1, <2>4, <2>6
<1> HIDE DEF it
<1>9. budget' \in Nat
  BY <1>0, <1>3, <1>7
<1>10. op'.kind # "release"
  BY <1>3 DEF Idle
<1>11. CASE take = 0
  <2>1. StepTypes'
    BY <1>0, <1>3, <1>4, <1>9, <1>11 DEF StepTypes
  <2>2. BatchSeqs' = BatchSeqs /\ batch' = batch
    BY <1>3, <1>11 DEF BatchSeqs
  <2>3. StepDistinct'
    BY <1>0, <1>4, <2>2 DEF StepDistinct
  <2>4. StepStates'
    BY <1>0, <1>3, <1>4, <1>10, <2>2 DEF StepStates
  <2>5. ItemsOK' /\ PrefillsGoOn'
    BY <1>0, <1>3, <2>2 DEF ItemsOK, ItemOK, InHand, PrefillsGoOn
  <2> QED BY <2>1, <2>3, <2>4, <2>5 DEF ShapeInv
<1>12. CASE take # 0
  <2>0. batch' = Append(batch, it)
    BY <1>3, <1>12
  <2>1. /\ batch' \in Seq(ItemType) /\ Len(batch) \in Nat
        /\ Len(batch') = Len(batch) + 1 /\ batch'[Len(batch) + 1] = it
        /\ \A i \in 1 .. Len(batch) : batch'[i] = batch[i]
        /\ \A i, j \in 1 .. Len(batch') : batch'[i].seq = batch'[j].seq => i = j
        /\ BatchSeqs' = BatchSeqs \cup {s}
    BY <1>0, <1>5, <1>8, <2>0, BatchAppend
  <2>2. StepTypes'
    BY <1>0, <1>3, <1>4, <1>9, <2>1 DEF StepTypes
  <2>3. StepDistinct'
    BY <1>0, <1>4, <1>5, <2>1 DEF StepDistinct
  <2>4. StepStates'
    BY <1>0, <1>3, <1>4, <1>5, <1>10, <2>1 DEF StepStates
  <2>5. ItemsOK'
    <3> SUFFICES ASSUME NEW i \in 1 .. Len(batch'), batch'[i].seq \in Range(running')
                 PROVE  ItemOK(batch[i])'
      BY DEF ItemsOK
    <3>1. CASE i = Len(batch) + 1
      <4>1. computed'[s] + it.n <= Len(toks'[s]) /\ state'[s] = "Prefill"
        BY <1>3, <1>5, <1>6, <1>7, <1>8
      <4>2. it.final <=> computed'[s] + it.n = Len(toks'[s])
        BY <1>3, <1>6, <1>7, <1>8
      <4> QED BY <1>8, <2>1, <3>1, <4>1, <4>2 DEF ItemOK
    <3>2. CASE i \in 1 .. Len(batch)
      <4>1. ItemOK(batch[i]) /\ batch'[i] = batch[i]
        BY <1>0, <1>3, <2>1, <3>2 DEF ItemsOK, InHand
      <4> QED BY <1>3, <4>1 DEF ItemOK
    <3> QED BY <2>1, <3>1, <3>2
  <2>6. PrefillsGoOn'
    BY <1>0, <1>3 DEF PrefillsGoOn
  <2> QED BY <2>2, <2>3, <2>4, <2>5, <2>6 DEF ShapeInv
<1> QED BY <1>11, <1>12

(* A sequence is admitted with its first chunk.                            *)
LEMMA ShapeAdmitEnd ==
    ASSUME StepInv, AdmitEnd
    PROVE  ShapeInv'
<1>0. /\ StepTypes /\ StepDistinct /\ StepStates /\ ItemsOK /\ PrefillsGoOn
      /\ PoolInv /\ AllocInv /\ PlaceInv
      /\ toks \in [Seqs -> Seq(Token)] /\ computed \in [Seqs -> Nat] /\ budget \in Nat
      /\ state \in [Seqs -> {"none", "Waiting", "Prefill", "Decode", "Finished", "Aborted"}]
      /\ running \in Seq(Seqs) /\ IsInjective(running)
      /\ Range(running) \subseteq Seqs
  BY PlaceFacts DEF StepInv, ShapeInv, StepTypes, QueueInv, PoolInv, PoolTypeOK,
         PoolDataOK, PlaceInv, PlaceTypes, OnePlace
<1>1. PICK s : s = op.seq
  OBVIOUS
<1>2. PICK start : start = IF PrefixCacheReuse THEN Smaller(CachedTokens, Len(toks[s]) - 1)
                           ELSE 0
  OBVIOUS
<1>3. PICK r : r = Len(toks[s]) - start
  OBVIOUS
<1>4. PICK take : take = FlooredTake(r, budget, PrefillChunkMin)
  OBVIOUS
<1>5. PICK f : f = (take = r)
  OBVIOUS
<1>6. f \in BOOLEAN
  BY <1>5
<1>7. f <=> take = r
  BY <1>5
<1>8. PICK it : it = Item(s, take, TRUE, f)
  OBVIOUS
<1>9. /\ phase = "build" /\ phase' = "build" /\ Allocated /\ op' = Idle
      /\ state' = [state EXCEPT ![s] = "Prefill"]
      /\ computed' = [computed EXCEPT ![s] = start]
      /\ running' = Append(running, s)
      /\ batch' = Append(batch, Item(s, take, TRUE, take = r))
      /\ budget' = budget - take
      /\ UNCHANGED <<toks, drafts, todo, failures, pending>>
  BY <1>1, <1>2, <1>3, <1>4 DEF AdmitEnd, AllocateEnd
<1>10. batch' = Append(batch, it)
  BY <1>5, <1>8, <1>9
<1>11. op.kind = "alloc" /\ s \in Seqs /\ s \in InTransit
  BY <1>0, <1>1, <1>9 DEF Allocated, PoolInv, PoolTypeOK, Op, Idle, InTransit
<1>12. s \notin Range(running)
  BY <1>0, <1>11 DEF PlaceInv, OnePlace
<1>13. s \notin BatchSeqs /\ s \notin Range(todo)
  BY <1>0, <1>9, <1>12 DEF StepStates
<1>14. CachedTokens \in 0 .. Len(toks[s]) - 1 /\ Len(toks[s]) \in Nat
  BY <1>0, <1>1, <1>9, <1>11, CachedFacts
<1>15. start \in Nat /\ start < Len(toks[s]) /\ r \in Nat /\ start + r = Len(toks[s])
  BY <1>2, <1>3, <1>14 DEF Smaller
<1>16. take \in 0 .. r /\ take <= budget
  BY <1>0, <1>4, <1>15, TakeFitsBudget, SchedulerAssumption
<1>17. /\ it \in ItemType /\ it.seq = s /\ it.n = take
       /\ it.prefill /\ ~it.verify /\ it.final = f
  BY <1>6, <1>8, <1>11, <1>15, <1>16 DEF Item, ItemType
<1>18. /\ batch' \in Seq(ItemType) /\ Len(batch) \in Nat
       /\ Len(batch') = Len(batch) + 1 /\ batch'[Len(batch) + 1] = it
       /\ \A i \in 1 .. Len(batch) : batch'[i] = batch[i]
       /\ \A i, j \in 1 .. Len(batch') : batch'[i].seq = batch'[j].seq => i = j
       /\ BatchSeqs' = BatchSeqs \cup {s}
  BY <1>0, <1>10, <1>13, <1>17, BatchAppend
<1>19. Range(running') = Range(running) \cup {s}
  BY <1>0, <1>9, <1>11, <1>12, AppendInjective2
<1>20. /\ state'[s] = "Prefill" /\ computed'[s] = start
       /\ \A u \in Seqs : u # s => state'[u] = state[u] /\ computed'[u] = computed[u]
       /\ computed' \in [Seqs -> Nat]
  BY <1>0, <1>9, <1>11, <1>15
<1>21. StepTypes'
  <2>1. budget' \in Nat
    BY <1>0, <1>9, <1>15, <1>16
  <2> QED BY <1>0, <1>9, <1>18, <1>20, <2>1 DEF StepTypes
<1>22. StepDistinct'
  BY <1>0, <1>9, <1>13, <1>18 DEF StepDistinct
<1>23. StepStates'
  <2>1. op'.kind # "release"
    BY <1>9 DEF Idle
  <2>2. \A u \in Range(todo') : u \in Range(running') /\ state'[u] = "Prefill"
    BY <1>0, <1>9, <1>13, <1>19, <1>20 DEF StepStates
  <2>3. BatchSeqs' \subseteq Range(running')
    BY <1>0, <1>9, <1>18, <1>19 DEF StepStates
  <2> QED BY <1>9, <2>1, <2>2, <2>3 DEF StepStates
<1>24. ItemsOK'
  <2> SUFFICES ASSUME NEW i \in 1 .. Len(batch'), batch'[i].seq \in Range(running')
               PROVE  ItemOK(batch[i])'
    BY DEF ItemsOK
  <2>1. CASE i = Len(batch) + 1
    <3>1. batch'[i] = it
      BY <1>18, <2>1
    <3>2. computed'[s] + it.n <= Len(toks'[s]) /\ state'[s] = "Prefill"
      BY <1>9, <1>15, <1>16, <1>17, <1>20
    <3>3. take = r <=> computed'[s] + it.n = Len(toks'[s])
      <4>1. computed'[s] = start /\ it.n = take /\ toks' = toks
        BY <1>9, <1>17, <1>20
      <4>2. take = r <=> start + take = Len(toks[s])
        BY <1>15, <1>16
      <4> QED BY <4>1, <4>2
    <3>4. it.final <=> computed'[s] + it.n = Len(toks'[s])
      BY <1>7, <1>17, <3>3
    <3> QED BY <1>17, <3>1, <3>2, <3>4 DEF ItemOK
  <2>2. CASE i \in 1 .. Len(batch)
    <3>1. PICK jt : jt = batch[i]
      OBVIOUS
    <3>2. batch'[i] = jt /\ jt.seq \in BatchSeqs
      BY <1>18, <2>2, <3>1 DEF BatchSeqs
    <3>3. jt.seq \in Range(running) /\ jt.seq \in Seqs /\ jt.seq # s
      BY <1>0, <1>9, <1>13, <3>2 DEF StepStates
    <3>4. ItemOK(jt)
      BY <1>0, <1>9, <2>2, <3>1, <3>3 DEF ItemsOK, InHand
    <3>5. ItemOK(jt)'
      BY <1>9, <1>20, <3>3, <3>4 DEF ItemOK
    <3> QED BY <3>2, <3>5 DEF ItemOK
  <2> QED BY <1>18, <2>1, <2>2
<1>25. PrefillsGoOn'
  BY <1>0, <1>9, <1>15, <1>19, <1>20 DEF PrefillsGoOn
<1> QED BY <1>21, <1>22, <1>23, <1>24, <1>25 DEF ShapeInv

(* A batch goes to the model, and a step ends.                             *)
LEMMA ShapeFinishes ==
    ASSUME StepInv, FinishBuild \/ FinishVerifyBatch \/ StepDone
    PROVE  ShapeInv'
<1>0. StepTypes /\ StepDistinct /\ StepStates /\ ItemsOK /\ PrefillsGoOn
  BY DEF StepInv, ShapeInv
<1>1. /\ phase \in {"build", "verify", "apply"} /\ op = Idle /\ op' = op
      /\ todo' = <<>>
      /\ phase' = IF batch = <<>> THEN "idle" ELSE "stepped"
      /\ UNCHANGED <<batch, budget, failures, toks, state, computed, drafts,
                     running, pending>>
  BY DEF FinishBuild, FinishVerifyBatch, StepDone, poolVars, seqVars, queueVars
<1>2. /\ <<>> \in Seq(Seqs) /\ IsInjective(<<>>) /\ Range(<<>>) = {}
  BY DEF IsInjective, Range
<1>3. StepTypes'
  BY <1>0, <1>1, <1>2 DEF StepTypes, Phases
<1>4. StepDistinct'
  BY <1>0, <1>1, <1>2 DEF StepDistinct, BatchSeqs
<1>5. StepStates'
  BY <1>0, <1>1, <1>2 DEF StepStates, Idle
<1>6. ItemsOK' /\ PrefillsGoOn'
  BY <1>0, <1>1 DEF ItemsOK, ItemOK, InHand, PrefillsGoOn
<1> QED BY <1>3, <1>4, <1>5, <1>6 DEF ShapeInv

(* A verify batch is begun: every decoding sequence is to be visited.      *)
LEMMA ShapeStepVerify ==
    ASSUME StepInv, StepVerify
    PROVE  ShapeInv'
<1> DEFINE D == {s \in Seqs : state[s] = "Decode"}
<1>0. /\ StepTypes /\ PrefillsGoOn /\ running \in Seq(Seqs) /\ IsInjective(running)
  BY DEF StepInv, ShapeInv, QueueInv, PlaceInv, PlaceTypes, OnePlace
<1>1. /\ todo' = Filtered(running, D) /\ batch' = <<>> /\ failures' = {}
      /\ phase' = "verify" /\ op = Idle /\ op' = op
      /\ UNCHANGED <<toks, state, computed, drafts, running, budget, pending>>
  BY DEF StepVerify, poolVars, seqVars, queueVars
<1> HIDE DEF D
<1>2. /\ todo' \in Seq(Seqs) /\ IsInjective(todo')
      /\ Range(todo') \subseteq Range(running) \cap D
  BY <1>0, <1>1, FilteredProperties
<1>3. batch' \in Seq(ItemType) /\ Len(batch') = 0 /\ BatchSeqs' = {}
  BY <1>1 DEF BatchSeqs
<1>4. StepTypes'
  BY <1>0, <1>1, <1>2, <1>3 DEF StepTypes, Phases
<1>5. StepDistinct'
  BY <1>2, <1>3 DEF StepDistinct
<1>6. StepStates'
  <2>1. op'.kind # "release"
    BY <1>1 DEF Idle
  <2>2. \A s \in Range(todo') : s \in Range(running) /\ state[s] = "Decode"
    BY <1>2 DEF D
  <2> QED BY <1>1, <1>3, <2>1, <2>2 DEF StepStates
<1>7. ItemsOK' /\ PrefillsGoOn'
  BY <1>0, <1>1, <1>3 DEF ItemsOK, PrefillsGoOn
<1> QED BY <1>4, <1>5, <1>6, <1>7 DEF ShapeInv

(* A sequence has its slots reserved and joins the verify batch.           *)
LEMMA ShapeReserveDone ==
    ASSUME StepInv, ReserveDone
    PROVE  ShapeInv'
<1>0. /\ StepTypes /\ StepDistinct /\ StepStates /\ ItemsOK /\ PrefillsGoOn
      /\ todo \in Seq(Seqs) /\ IsInjective(todo)
  BY DEF StepInv, ShapeInv, StepDistinct, StepTypes
<1>1. PICK s : s = Head(todo)
  OBVIOUS
<1>2. PICK it : it = VerifyItem(s)
  OBVIOUS
<1>3. /\ phase = "verify" /\ phase' = "verify" /\ op = Idle /\ op' = op
      /\ todo # <<>> /\ todo' = Tail(todo)
      /\ batch' = (IF s \in Range(running) THEN Append(batch, it) ELSE batch)
      /\ UNCHANGED <<toks, state, computed, drafts, running, failures, pending, budget>>
  BY <1>1, <1>2 DEF ReserveDone, Reserving, poolVars, seqVars, queueVars
<1>4. /\ s \in Seqs /\ s \in Range(todo)
      /\ todo' \in Seq(Seqs) /\ IsInjective(todo')
      /\ Range(todo') = Range(todo) \ {s}
  BY <1>0, <1>1, <1>3, TailInjective
<1>5. s \in Range(running) /\ state[s] = "Decode" /\ s \notin BatchSeqs
  BY <1>0, <1>3, <1>4 DEF StepStates, StepDistinct
<1>6. it \in ItemType /\ it.seq = s /\ ~it.prefill /\ it.verify
  BY <1>2, <1>4 DEF VerifyItem, ItemType
<1>7. op'.kind # "release"
  BY <1>3 DEF Idle
<1>8. /\ batch' \in Seq(ItemType) /\ Len(batch) \in Nat
      /\ Len(batch') = Len(batch) + 1 /\ batch'[Len(batch) + 1] = it
      /\ \A i \in 1 .. Len(batch) : batch'[i] = batch[i]
      /\ \A i, j \in 1 .. Len(batch') : batch'[i].seq = batch'[j].seq => i = j
      /\ BatchSeqs' = BatchSeqs \cup {s}
  BY <1>0, <1>3, <1>5, <1>6, BatchAppend
<1>9. StepTypes'
  BY <1>0, <1>3, <1>4, <1>8 DEF StepTypes
<1>10. StepDistinct'
  BY <1>0, <1>4, <1>5, <1>8 DEF StepDistinct
<1>11. StepStates'
  BY <1>0, <1>3, <1>4, <1>5, <1>7, <1>8 DEF StepStates
<1>12. ItemsOK'
  <2> SUFFICES ASSUME NEW i \in 1 .. Len(batch'), batch'[i].seq \in Range(running')
               PROVE  ItemOK(batch[i])'
    BY DEF ItemsOK
  <2>1. CASE i = Len(batch) + 1
    BY <1>3, <1>5, <1>6, <1>8, <2>1 DEF ItemOK
  <2>2. CASE i \in 1 .. Len(batch)
    <3>1. ItemOK(batch[i]) /\ batch'[i] = batch[i]
      BY <1>0, <1>3, <1>8, <2>2 DEF ItemsOK, InHand
    <3> QED BY <1>3, <3>1 DEF ItemOK
  <2> QED BY <1>8, <2>1, <2>2
<1>13. PrefillsGoOn'
  BY <1>0, <1>3 DEF PrefillsGoOn
<1> QED BY <1>9, <1>10, <1>11, <1>12, <1>13 DEF ShapeInv

(* A sequence without room for its drafts goes back to the queue.          *)
LEMMA ShapeReserveRefused ==
    ASSUME StepInv, ReserveRefused
    PROVE  ShapeInv'
<1>0. /\ StepTypes /\ StepDistinct /\ StepStates /\ ItemsOK /\ PrefillsGoOn
      /\ todo \in Seq(Seqs) /\ IsInjective(todo) /\ PoolInv /\ PlaceInv
      /\ drafts \in [Seqs -> Seq(Token)]
      /\ state \in [Seqs -> {"none", "Waiting", "Prefill", "Decode", "Finished", "Aborted"}]
      /\ Range(running) \subseteq Seqs
  BY PlaceFacts DEF StepInv, ShapeInv, StepDistinct, StepTypes, QueueInv, PlaceInv,
                    PlaceTypes, HeadInv
<1>1. PICK s : s = Head(todo)
  OBVIOUS
<1>2. /\ phase = "verify" /\ phase' = "verify"
      /\ todo # <<>> /\ todo' = Tail(todo)
      /\ s \in Range(running) /\ DeallocateBegin(s) /\ running' = Without(running, s)
      /\ state' = [state EXCEPT ![s] = "Waiting"] /\ drafts' = [drafts EXCEPT ![s] = <<>>]
      /\ UNCHANGED <<toks, computed, batch, failures, pending, budget>>
  BY <1>1 DEF ReserveRefused, Reserving, DeallocateBegin, ClearDrafts
<1>3. /\ s \in Seqs /\ s \in Range(todo)
      /\ todo' \in Seq(Seqs) /\ IsInjective(todo')
      /\ Range(todo') = Range(todo) \ {s}
  BY <1>0, <1>1, <1>2, TailInjective
<1>4. Range(running') = Range(running) \ {s}
  BY <1>0, <1>2, LeavesRunning
<1>5. op'.kind = "release" => op'.seq \notin Range(running')
  BY <1>2, <1>4 DEF DeallocateBegin, Idle
<1>6. s \notin BatchSeqs /\ BatchSeqs' = BatchSeqs
  BY <1>0, <1>2, <1>3 DEF StepDistinct, BatchSeqs
<1>7. \A u \in Seqs : u # s => state'[u] = state[u] /\ drafts'[u] = drafts[u]
  BY <1>0, <1>2
<1>8. StepTypes' /\ StepDistinct'
  BY <1>0, <1>2, <1>3, <1>6 DEF StepTypes, StepDistinct
<1>9. StepStates'
  <2>1. \A u \in Range(todo') : u \in Range(running') /\ state'[u] = "Decode"
    BY <1>0, <1>2, <1>3, <1>4, <1>7 DEF StepStates
  <2>2. BatchSeqs' \subseteq Range(running')
    BY <1>0, <1>2, <1>4, <1>6 DEF StepStates
  <2> QED BY <1>2, <1>5, <2>1, <2>2 DEF StepStates
<1>10. ItemsOK'
  <2> SUFFICES ASSUME NEW i \in 1 .. Len(batch), batch[i].seq \in Range(running')
               PROVE  ItemOK(batch[i])'
    BY <1>2 DEF ItemsOK
  <2>1. PICK it : it = batch[i] /\ batch'[i] = it
    BY <1>2
  <2>2. ItemOK(it)
    BY <1>0, <1>2, <1>4, <2>1 DEF ItemsOK, InHand
  <2>3. it.seq # s /\ it.seq \in Seqs
    BY <1>0, <1>4, <2>1
  <2>4. ItemOK(it)'
    BY <1>2, <1>7, <2>2, <2>3 DEF ItemOK
  <2> QED BY <2>1, <2>4 DEF ItemOK
<1>11. PrefillsGoOn'
  BY <1>0, <1>2, <1>4, <1>7 DEF PrefillsGoOn
<1> QED BY <1>8, <1>9, <1>10, <1>11 DEF ShapeInv

(* The steps that apply the head of the batch.                             *)
LEMMA ShapeApply ==
    ASSUME StepInv,
           \/ ItemNotRunning \/ ApplyChunk \/ Retire \/ Accept
           \/ \E t \in Token : ApplyToken(t) \/ VerifyOutcome(t)
    PROVE  ShapeInv'
<1>0. /\ StepTypes /\ StepDistinct /\ StepStates /\ ItemsOK /\ PrefillsGoOn
      /\ batch \in Seq(ItemType) /\ failures \subseteq Seqs
      /\ computed \in [Seqs -> Nat] /\ toks \in [Seqs -> Seq(Token)]
      /\ PoolInv /\ PlaceInv /\ HeadInv /\ pending \in Seq(Token)
      /\ drafts \in [Seqs -> Seq(Token)]
      /\ state \in [Seqs -> {"none", "Waiting", "Prefill", "Decode", "Finished", "Aborted"}]
      /\ Range(running) \subseteq Seqs
  BY PlaceFacts DEF StepInv, ShapeInv, StepTypes, QueueInv, PlaceInv, PlaceTypes, HeadInv,
                    PoolInv, PoolTypeOK, PoolDataOK
<1>1. PICK it : it = Head(batch)
  OBVIOUS
<1>2. PICK s : s = it.seq
  OBVIOUS
<1>3. ASSUME batch # <<>>
      PROVE  /\ it \in ItemType /\ s \in Seqs /\ it.n \in Nat
             /\ 1 \in 1 .. Len(batch) /\ batch[1] = it
  <2>1. it \in ItemType /\ 1 \in 1 .. Len(batch) /\ batch[1] = it
    BY <1>0, <1>1, <1>3
  <2> QED BY <1>2, <2>1 DEF ItemType
<1>4. ASSUME batch # <<>>, s \in Range(running), phase \in {"stepped", "apply"}
      PROVE  ItemOK(it)
  <2>1. 1 \in 1 .. Len(batch) /\ batch[1] = it /\ ~InHand(1)
    BY <1>3, <1>4 DEF InHand
  <2>2. batch[1].seq \in Range(running)
    BY <1>2, <1>4, <2>1
  <2> QED BY <1>0, <2>1, <2>2 DEF ItemsOK
<1>5. CASE ItemNotRunning
  <2>1. /\ phase \in {"stepped", "apply"} /\ batch # <<>> /\ op = Idle /\ op' = op
        /\ batch' = Tail(batch) /\ phase' = "apply" /\ s \notin Range(running)
        /\ failures' = failures \cup {s}
        /\ UNCHANGED <<budget, pending, todo, running, computed, toks, state, drafts>>
    BY <1>1, <1>2, <1>5 DEF ItemNotRunning, Applying, poolVars, seqVars, queueVars
  <2>2. op'.kind # "release"
    BY <2>1 DEF Idle
  <2>3. failures' \subseteq Seqs
    BY <1>0, <1>3, <2>1
  <2>4. s = Head(batch).seq
    BY <1>1, <1>2
  <2> QED BY <1>0, <2>1, <2>2, <2>3, <2>4, ShapeDrop
<1>6. CASE ApplyChunk
  <2>1. /\ phase \in {"stepped", "apply"} /\ batch # <<>> /\ op = Idle /\ op' = op
        /\ batch' = Tail(batch) /\ phase' = "apply" /\ s \in Range(running)
        /\ computed' = [computed EXCEPT ![s] = computed[s] + it.n]
        /\ it.prefill /\ ~it.final
        /\ UNCHANGED <<budget, pending, todo, running, failures, toks, state, drafts>>
    BY <1>1, <1>2, <1>6 DEF ApplyChunk, Applying, ProducesToken, poolVars, seqVars, queueVars
  <2>2. op'.kind # "release"
    BY <2>1 DEF Idle
  <2>3. /\ computed' \in [Seqs -> Nat] /\ computed'[s] = computed[s] + it.n
        /\ \A u \in Seqs : u # s => computed'[u] = computed[u]
    BY <1>0, <1>3, <2>1
  <2>4. s = Head(batch).seq
    BY <1>1, <1>2
  <2>5. computed[s] + it.n <= Len(toks[s]) /\ computed[s] + it.n # Len(toks[s])
    BY <1>2, <1>4, <2>1 DEF ItemOK
  <2>6. computed'[s] < Len(toks'[s])
    <3>1. s \in Seqs /\ it.n \in Nat /\ computed[s] \in Nat /\ Len(toks[s]) \in Nat
      BY <1>0, <1>3, <2>1
    <3> QED BY <2>1, <2>3, <2>5, <3>1
  <2> QED BY <1>0, <2>1, <2>2, <2>3, <2>4, <2>6, ShapeDrop
<1>7. ASSUME NEW t \in Token, ApplyToken(t)
      PROVE  ShapeInv'
  <2>1. PICK stop \in BOOLEAN : stop <=> StopReason(s, Append(toks[s], t)) # "none"
    OBVIOUS
  <2>2. /\ phase \in {"stepped", "apply"} /\ batch # <<>> /\ op = Idle /\ op' = op
        /\ s \in Range(running)
        /\ toks' = [toks EXCEPT ![s] = Append(toks[s], t)]
        /\ state' = [state EXCEPT ![s] = "Decode"]
        /\ computed' = [computed EXCEPT ![s] = computed[s] + (IF it.prefill THEN it.n ELSE 0) + 1]
        /\ UNCHANGED <<budget, pending, running, failures, drafts>>
        /\ phase' = IF StopReason(s, Append(toks[s], t)) # "none" THEN "retire" ELSE "apply"
        /\ batch' = IF StopReason(s, Append(toks[s], t)) # "none" THEN batch ELSE Tail(batch)
        /\ todo' = IF StopReason(s, Append(toks[s], t)) # "none" THEN todo ELSE Append(todo, s)
    BY <1>1, <1>2, <1>7 DEF ApplyToken, Applying, AppendToken, queueVars
  <2>3. op'.kind # "release"
    BY <2>2 DEF Idle
  <2>4. s \in Seqs /\ it.n \in Nat /\ s = Head(batch).seq
    BY <1>1, <1>2, <1>3, <2>2
  <2>5. /\ computed' \in [Seqs -> Nat] /\ state'[s] = "Decode"
        /\ \A u \in Seqs : u # s => /\ computed'[u] = computed[u] /\ state'[u] = state[u]
                                    /\ toks'[u] = toks[u]
    <3>1. computed[s] + (IF it.prefill THEN it.n ELSE 0) + 1 \in Nat
      BY <1>0, <2>4
    <3> QED BY <1>0, <2>2, <2>4, <3>1
  <2>6. \A u \in Range(running) : u # s =>
              /\ state'[u] = state[u] /\ toks'[u] = toks[u]
              /\ computed'[u] = computed[u] /\ drafts'[u] = drafts[u]
    BY <1>0, <2>2, <2>5
  <2>7. CASE StopReason(s, Append(toks[s], t)) # "none"
    <3>1. phase' = "retire" /\ batch' = batch /\ todo' = todo
      BY <2>2, <2>7
    <3> QED BY <1>0, <2>2, <2>3, <2>4, <2>5, <2>6, <3>1, ShapeInHand
  <2>8. CASE StopReason(s, Append(toks[s], t)) = "none"
    <3>1. phase' = "apply" /\ batch' = Tail(batch) /\ todo' = Append(todo, s)
      BY <2>2, <2>8
    <3>2. running' = running /\ pending' \in Seq(Token) /\ failures' \subseteq Seqs
      BY <1>0, <2>2
    <3> QED BY <1>0, <2>2, <2>3, <2>4, <2>5, <2>6, <3>1, <3>2, ShapeDrop
  <2> QED BY <2>7, <2>8
<1>8. CASE Retire
  <2>1. /\ phase = "retire" /\ phase' = "apply" /\ batch' = Tail(batch)
        /\ DeallocateBegin(s) /\ running' = Without(running, s)
        /\ state' = [state EXCEPT ![s] = "Finished"]
        /\ pending' = <<>>
        /\ UNCHANGED <<toks, computed, drafts, failures, budget, todo>>
    BY <1>1, <1>2, <1>8 DEF Retire, Close, DeallocateBegin
  <2>2. batch # <<>> /\ s \in Range(running) /\ s = Head(batch).seq /\ s \in Seqs
    BY <1>0, <1>1, <1>2, <1>3, <2>1 DEF StepStates, HeadInv
  <2>3. Range(running') = Range(running) \ {s}
    BY <1>0, <2>1, <2>2, LeavesRunning
  <2>4. op'.kind = "release" => op'.seq \notin Range(running')
    BY <2>1, <2>3 DEF DeallocateBegin, Idle
  <2>5. \A u \in Range(running') : u # s /\ u \in Seqs /\ state'[u] = state[u]
    BY <1>0, <2>1, <2>3
  <2>6. pending' \in Seq(Token)
    BY <2>1
  <2> QED BY <1>0, <2>1, <2>2, <2>3, <2>4, <2>5, <2>6, ShapeDrop
<1>9. CASE Accept
  <2>1. PICK t : t = Head(pending)
    OBVIOUS
  <2>2. /\ phase = "accept" /\ AcceptToken(s, t) /\ pending' = Tail(pending)
        /\ phase' = (IF StopReason(s, Append(toks[s], t)) # "none" THEN "retire"
                     ELSE IF Len(pending) > 1 THEN "accept" ELSE "apply")
        /\ batch' = (IF StopReason(s, Append(toks[s], t)) # "none" \/ Len(pending) > 1
                     THEN batch ELSE Tail(batch))
        /\ UNCHANGED <<state, computed, drafts, running, failures, budget, todo>>
    BY <1>1, <1>2, <1>9, <2>1 DEF Accept, seqVars, queueVars
  <2>3. /\ op = Idle /\ op' = op /\ toks' = [toks EXCEPT ![s] = Append(toks[s], t)]
    BY <2>2 DEF AcceptToken
  <2>4. /\ batch # <<>> /\ s \in Range(running) /\ s = Head(batch).seq /\ s \in Seqs
        /\ state[s] = "Decode" /\ pending # <<>>
    BY <1>0, <1>1, <1>2, <1>3, <2>2 DEF StepStates, HeadInv
  <2>5. \A u \in Range(running) : u # s =>
              /\ state'[u] = state[u] /\ toks'[u] = toks[u]
              /\ computed'[u] = computed[u] /\ drafts'[u] = drafts[u]
    BY <1>0, <2>2, <2>3
  <2>6. op'.kind # "release" /\ pending' \in Seq(Token) /\ computed' \in [Seqs -> Nat]
        /\ state'[s] = "Decode"
    BY <1>0, <2>2, <2>3, <2>4 DEF Idle
  <2>7. CASE StopReason(s, Append(toks[s], t)) # "none" \/ Len(pending) > 1
    <3>1. phase' \in {"accept", "retire"} /\ batch' = batch
      BY <2>2, <2>7
    <3> QED BY <1>0, <2>2, <2>4, <2>5, <2>6, <3>1, ShapeInHand
  <2>8. CASE ~(StopReason(s, Append(toks[s], t)) # "none" \/ Len(pending) > 1)
    <3>1. phase' = "apply" /\ batch' = Tail(batch)
      BY <2>2, <2>8
    <3>2. /\ todo' = todo /\ running' = running /\ failures' \subseteq Seqs
          /\ budget' = budget
          /\ ~(s \in Range(running') /\ state'[s] = "Prefill")
      BY <1>0, <2>2, <2>6
    <3> QED BY <1>0, <2>2, <2>4, <2>5, <2>6, <3>1, <3>2, ShapeDrop
  <2> QED BY <2>7, <2>8
<1>10. ASSUME NEW t \in Token, VerifyOutcome(t)
       PROVE  ShapeInv'
  <2>1. /\ phase \in {"stepped", "apply"} /\ phase' = "accept"
        /\ batch # <<>> /\ op = Idle /\ op' = op
        /\ s \in Range(running) /\ it.verify
        /\ drafts' = [drafts EXCEPT ![s] = <<>>]
        /\ \E k \in 0 .. Len(drafts[s]) : pending' = Append(SubSeq(drafts[s], 1, k), t)
        /\ UNCHANGED <<toks, state, computed, running, failures, budget, todo, batch>>
    BY <1>1, <1>2, <1>10 DEF VerifyOutcome, Applying, ClearDrafts, poolVars
  <2>2. s \in Seqs /\ s = Head(batch).seq /\ it \in ItemType
    BY <1>1, <1>2, <1>3, <2>1
  <2>3. state[s] = "Decode"
    BY <1>2, <1>4, <2>1 DEF ItemOK
  <2>4. pending' \in Seq(Token)
    <3>1. PICK k \in 0 .. Len(drafts[s]) : pending' = Append(SubSeq(drafts[s], 1, k), t)
      BY <2>1
    <3>2. SubSeq(drafts[s], 1, k) \in Seq(Token)
      BY <1>0, <2>2, PrefixProperties
    <3> QED BY <3>1, <3>2
  <2>5. op'.kind # "release"
    BY <2>1 DEF Idle
  <2>6. \A u \in Range(running) : u # s =>
              /\ state'[u] = state[u] /\ toks'[u] = toks[u]
              /\ computed'[u] = computed[u] /\ drafts'[u] = drafts[u]
    BY <1>0, <2>1
  <2>7. state'[s] = "Decode" /\ computed' \in [Seqs -> Nat]
    BY <1>0, <2>1, <2>3
  <2> QED BY <1>0, <2>1, <2>2, <2>4, <2>5, <2>6, <2>7, ShapeInHand
<1> QED BY <1>5, <1>6, <1>7, <1>8, <1>9, <1>10

(* The extensions after a step, and the preemptions they cause.            *)
LEMMA ShapeExtending ==
    ASSUME StepInv, ExtendDone \/ ExtendOverflow \/ PreemptYoungest
    PROVE  ShapeInv'
<1>0. /\ StepTypes /\ failures \subseteq Seqs /\ computed \in [Seqs -> Nat]
      /\ PoolInv /\ PlaceInv /\ running \in Seq(Seqs)
      /\ state \in [Seqs -> {"none", "Waiting", "Prefill", "Decode", "Finished", "Aborted"}]
      /\ Range(running) \subseteq Seqs
  BY PlaceFacts DEF StepInv, ShapeInv, StepTypes, QueueInv, PlaceInv, PlaceTypes
<1>1. ASSUME NEW s \in Range(running), DeallocateBegin(s), running' = Without(running, s)
      PROVE  /\ Range(running') = Range(running) \ {s} /\ s \in Seqs
             /\ op'.kind = "release" => op'.seq \notin Range(running')
             /\ toks' = toks
  <2>1. Range(running') = Range(running) \ {s}
    BY <1>0, <1>1, LeavesRunning
  <2> QED BY <1>0, <1>1, <2>1 DEF DeallocateBegin, Idle
<1>2. CASE ExtendDone
  <2>1. /\ Extending /\ todo' = Tail(todo) /\ op' = op /\ op = Idle
        /\ UNCHANGED <<batch, phase, budget, pending, failures, computed, running,
                       state, toks>>
    BY <1>2 DEF ExtendDone, Extending, poolVars, seqVars, queueVars
  <2>2. op'.kind # "release"
    BY <2>1 DEF Idle
  <2> QED BY <1>0, <2>1, <2>2, ShapeExtend
<1>3. CASE ExtendOverflow
  <2>1. PICK s : s = Head(todo)
    OBVIOUS
  <2>2. /\ Extending /\ todo' = Tail(todo) /\ s \in Range(running) /\ DeallocateBegin(s)
        /\ running' = Without(running, s) /\ failures' = failures \cup {s}
        /\ state' = [state EXCEPT ![s] = "Aborted"]
        /\ UNCHANGED <<batch, phase, budget, pending, computed>>
    BY <1>3, <2>1 DEF ExtendOverflow, OutOfBlocks, Close
  <2>3. /\ Range(running') = Range(running) \ {s} /\ s \in Seqs
        /\ op'.kind = "release" => op'.seq \notin Range(running')
        /\ toks' = toks
    BY <1>1, <2>2
  <2>4. \A u \in Range(running') : state'[u] = state[u]
    BY <1>0, <2>2, <2>3
  <2>5. failures' \subseteq Seqs
    BY <1>0, <2>2, <2>3
  <2> QED BY <1>0, <2>2, <2>3, <2>4, <2>5, ShapeExtend
<1>4. CASE PreemptYoungest
  <2>1. PICK v : v = LastOf(running)
    OBVIOUS
  <2>2. /\ Extending /\ (todo' = todo \/ todo' = Tail(todo)) /\ DeallocateBegin(v)
        /\ running' = Without(running, v)
        /\ state' = [state EXCEPT ![v] = "Waiting"]
        /\ computed' = [computed EXCEPT ![v] = 0]
        /\ UNCHANGED <<batch, phase, budget, pending, failures>>
    BY <1>4, <2>1 DEF PreemptYoungest, OutOfBlocks, Preempt
  <2>3. v \in Range(running)
    <3>1. Head(todo) \in Range(running)
      BY <1>4 DEF PreemptYoungest, OutOfBlocks
    <3>2. Len(running) \in 1 .. Len(running) /\ DOMAIN running = 1 .. Len(running)
      BY <1>0, <3>1 DEF Range
    <3> QED BY <2>1, <3>2 DEF LastOf, Range
  <2>4. /\ Range(running') = Range(running) \ {v} /\ v \in Seqs
        /\ op'.kind = "release" => op'.seq \notin Range(running')
        /\ toks' = toks
    BY <1>1, <2>2, <2>3
  <2>5. \A u \in Range(running') : state'[u] = state[u] /\ computed'[u] = computed[u]
    BY <1>0, <2>2, <2>4
  <2>6. failures' \subseteq Seqs /\ computed' \in [Seqs -> Nat]
    BY <1>0, <2>2
  <2> QED BY <1>0, <2>2, <2>4, <2>5, <2>6, ShapeExtend
<1> QED BY <1>2, <1>3, <1>4

(* Arrivals, proposals, aborts and the loops of the pool.                  *)
LEMMA ShapeOthers ==
    ASSUME StepInv,
           \/ \E s \in Seqs, p \in Prompts, m \in Nat : Enqueue(s, p, m)
           \/ \E s \in Seqs, d \in Drafts : SetDrafts(s, d)
           \/ \E s \in Seqs : Abort(s)
           \/ DrainFinished \/ PoolStep \/ AdmitEmpty \/ AdmitBegin
           \/ ExtendGrow \/ ReserveGrow
    PROVE  ShapeInv'
<1>0. /\ PoolInv /\ PlaceInv /\ StepStates
      /\ toks \in [Seqs -> Seq(Token)] /\ op \in Op
      /\ state \in [Seqs -> {"none", "Waiting", "Prefill", "Decode", "Finished", "Aborted"}]
      /\ Range(running) \subseteq Seqs /\ drafts \in [Seqs -> Seq(Token)]
      /\ Range(running) \cap Range(waiting) = {}
  BY PlaceFacts DEF StepInv, ShapeInv, QueueInv, PlaceInv, PlaceTypes, PoolInv, PoolTypeOK,
                    PoolDataOK, HeadInv
<1>1. ASSUME NEW s \in Seqs, NEW p \in Prompts, NEW m \in Nat, Enqueue(s, p, m)
      PROVE  ShapeInv'
  <2>1. /\ state[s] = "none" /\ op = Idle /\ op' = op
        /\ toks' = [toks EXCEPT ![s] = p] /\ state' = [state EXCEPT ![s] = "Waiting"]
        /\ UNCHANGED <<batch, failures, phase, budget, todo, pending, computed,
                       running, drafts>>
    BY <1>1 DEF Enqueue, Arrive, stepVars
  <2>2. s \notin Range(running)
    BY <1>0, <2>1 DEF PlaceInv, OnePlace
  <2>3. \A u \in Range(running) : state'[u] = state[u] /\ toks'[u] = toks[u]
    BY <1>0, <2>1, <2>2
  <2>4. op'.kind # "release"
    BY <2>1 DEF Idle
  <2> QED BY <2>1, <2>3, <2>4, ShapeFrame
<1>2. ASSUME NEW s \in Seqs, NEW d \in Drafts, SetDrafts(s, d)
      PROVE  ShapeInv'
  <2>1. /\ phase = "idle" /\ op = Idle /\ op' = op
        /\ UNCHANGED <<batch, failures, phase, budget, todo, pending, computed,
                       running, toks, state>>
    BY <1>2 DEF SetDrafts, stepVars, poolVars
  <2>2. op'.kind # "release"
    BY <2>1 DEF Idle
  <2> QED BY <2>1, <2>2, ShapeFrame
<1>3. ASSUME NEW s \in Seqs, Abort(s)
      PROVE  ShapeInv'
  <2>0. phase \in {"idle", "stepped"}
    BY <1>3 DEF Abort
  <2>1. CASE AbortWaiting(s)
    <3>1. /\ op = Idle /\ op' = op /\ s \in Range(waiting)
          /\ state' = [state EXCEPT ![s] = "Aborted"]
          /\ UNCHANGED <<batch, failures, phase, budget, todo, pending, computed,
                         running, drafts, toks>>
      BY <2>1 DEF AbortWaiting, Close, stepVars, poolVars
    <3>2. \A u \in Range(running) : state'[u] = state[u]
      BY <1>0, <3>1
    <3>3. op'.kind # "release"
      BY <3>1 DEF Idle
    <3> QED BY <3>1, <3>2, <3>3, ShapeFrame
  <2>2. CASE AbortRunning(s)
    <3>1. /\ s \in Range(running) /\ running' = Without(running, s)
          /\ DeallocateBegin(s)
          /\ state' = [state EXCEPT ![s] = "Aborted"]
          /\ drafts' = [drafts EXCEPT ![s] = <<>>]
          /\ UNCHANGED <<batch, failures, phase, budget, todo, pending, computed, toks>>
      BY <2>2 DEF AbortRunning, Close, ClearDrafts, DeallocateBegin, stepVars
    <3>2. Range(running') = Range(running) \ {s}
      BY <1>0, <3>1, LeavesRunning
    <3>3. \A u \in Range(running') : state'[u] = state[u] /\ drafts'[u] = drafts[u]
      BY <1>0, <3>1, <3>2
    <3>4. op'.kind = "release" => op'.seq \notin Range(running')
      BY <3>1, <3>2 DEF DeallocateBegin, Idle
    <3> QED BY <2>0, <3>1, <3>2, <3>3, <3>4, ShapeFrame
  <2> QED BY <1>3, <2>1, <2>2 DEF Abort
<1>4. CASE DrainFinished
  <2>1. /\ op = Idle /\ op' = op
        /\ UNCHANGED <<batch, failures, phase, budget, todo, pending, computed,
                       running, drafts, toks, state>>
    BY <1>4 DEF DrainFinished, stepVars, poolVars, seqVars
  <2>2. op'.kind # "release"
    BY <2>1 DEF Idle
  <2> QED BY <2>1, <2>2, ShapeFrame
<1>5. CASE PoolStep
  <2>1. UNCHANGED <<batch, failures, phase, budget, todo, pending, computed,
                    running, drafts, state>>
    BY <1>5 DEF PoolStep, schedVars, stepVars, seqVars, queueVars
  <2>2. toks' = toks /\ (op'.kind = "release" => op'.seq \notin Range(running))
    <3>1. CASE AcquireShared \/ AcquireFresh
      <4>1. op.kind = "alloc" /\ op'.kind = "alloc" /\ toks' = toks
        BY <1>0, <3>1 DEF AcquireShared, AcquireFresh, Op, Idle
      <4> QED BY <4>1
    <3>2. CASE ExtendNext
      <4>1. op.kind = "extend" /\ (op' = Idle \/ op' = op) /\ toks' = toks
        BY <3>2 DEF ExtendNext
      <4> QED BY <4>1 DEF Idle
    <3>3. CASE ReleaseLast
      <4>1. op.kind = "release" /\ (op' = Idle \/ op' = op) /\ toks' = toks
        BY <3>3 DEF ReleaseLast
      <4> QED BY <1>0, <4>1 DEF Idle, StepStates
    <3> QED BY <1>5, <3>1, <3>2, <3>3 DEF PoolStep
  <2> QED BY <2>1, <2>2, ShapeFrame
<1>6. CASE AdmitEmpty
  <2>1. PICK s : s = Head(waiting)
    OBVIOUS
  <2>2. /\ op = Idle /\ op' = op /\ waiting # <<>>
        /\ state' = [state EXCEPT ![s] = "Aborted"]
        /\ UNCHANGED <<batch, failures, phase, budget, todo, pending, computed,
                       running, drafts, toks>>
    BY <1>6, <2>1 DEF AdmitEmpty, Close, stepVars, poolVars
  <2>3. s \in Range(waiting)
    <3>1. waiting \in Seq(Seqs) /\ IsInjective(waiting)
      BY <1>0 DEF PlaceInv, PlaceTypes, OnePlace
    <3> QED BY <2>1, <2>2, <3>1, TailInjective
  <2>4. \A u \in Range(running) : state'[u] = state[u]
    BY <1>0, <2>2, <2>3
  <2>5. op'.kind # "release"
    BY <2>2 DEF Idle
  <2> QED BY <2>2, <2>4, <2>5, ShapeFrame
<1>7. CASE AdmitBegin
  <2>1. /\ op' = [kind |-> "alloc", seq |-> Head(waiting), cached |-> 0, leading |-> TRUE]
        /\ UNCHANGED <<batch, failures, phase, budget, todo, pending, computed,
                       running, drafts, toks, state>>
    BY <1>7 DEF AdmitBegin, AllocateBegin, stepVars, seqVars
  <2>2. op'.kind # "release"
    BY <2>1
  <2> QED BY <2>1, <2>2, ShapeFrame
<1>8. CASE ExtendGrow \/ ReserveGrow
  <2>1. UNCHANGED <<batch, failures, phase, budget, todo, pending, computed,
                    running, drafts, state>>
    BY <1>8 DEF ExtendGrow, ReserveGrow, schedVars, stepVars, seqVars, queueVars
  <2>2. \E s, goal : ExtendFor(s, goal)
    BY <1>8 DEF ExtendGrow, ReserveGrow
  <2>3. toks' = toks /\ op'.kind # "release"
    BY <2>2 DEF ExtendFor, Idle
  <2> QED BY <2>1, <2>3, ShapeFrame
<1> QED BY <1>1, <1>2, <1>3, <1>4, <1>5, <1>6, <1>7, <1>8

(* Every step of the scheduler keeps the shape of a step.                  *)
LEMMA StepNextInv == StepInv /\ [AnyNext]_vars => StepInv'
<1> SUFFICES ASSUME StepInv, [AnyNext]_vars PROVE StepInv'
  OBVIOUS
<1>1. QueueInv' /\ [PoolNext]_poolVars
  BY QueueNext DEF StepInv
<1>2. AllocInv'
  BY <1>1, AllocNext DEF StepInv, QueueInv
<1>3. ShapeInv'
  <2>1. CASE UNCHANGED vars
    <3>1. UNCHANGED <<batch, failures, phase, budget, todo, pending, computed, running,
                      state, toks, drafts, op>>
      BY <2>1 DEF vars, poolVars, schedVars, seqVars, queueVars, stepVars
    <3>2. op'.kind = "release" => op'.seq \notin Range(running')
      BY <3>1 DEF StepInv, ShapeInv, StepStates
    <3> QED BY <3>1, <3>2, ShapeFrame
  <2>2. CASE \E t \in Token : ApplyToken(t)
    BY <2>2, ShapeApply
  <2>3. CASE \E t \in Token : VerifyOutcome(t)
    BY <2>3, ShapeApply
  <2>4. CASE StepNext
    BY <2>2, <2>4, ShapeOthers, ShapeStepMixed, ShapeScheduleChunk, ShapeAdmitEnd,
       ShapeFinishes, ShapeApply, ShapeExtending DEF StepNext
  <2>5. CASE VerifyNext
    BY <2>3, <2>5, ShapeOthers, ShapeStepVerify, ShapeReserveDone, ShapeReserveRefused,
       ShapeFinishes, ShapeApply DEF VerifyNext
  <2> QED BY <2>1, <2>4, <2>5, ShapeOthers DEF AnyNext
<1> QED BY <1>1, <1>2, <1>3 DEF StepInv

(* The invariant holds initially.                                          *)
LEMMA StepInitInv == Init => StepInv
<1> SUFFICES ASSUME Init PROVE StepInv
  OBVIOUS
<1>1. QueueInv /\ AllocInv
  BY QueueInit DEF Init, PoolInit, AllocInv, Idle
<1>2. /\ computed = [s \in Seqs |-> 0] /\ batch = <<>> /\ failures = {} /\ phase = "idle"
      /\ budget = 0 /\ todo = <<>> /\ pending = <<>> /\ running = <<>> /\ op = Idle
  BY DEF Init, PoolInit, SchedInit
<1>3. <<>> \in Seq(Seqs) /\ <<>> \in Seq(ItemType) /\ <<>> \in Seq(Token)
      /\ IsInjective(<<>>) /\ Range(<<>>) = {} /\ Len(<<>>) = 0
  BY DEF IsInjective, Range
<1>4. StepTypes
  BY <1>2, <1>3 DEF StepTypes, Phases
<1>5. StepDistinct
  BY <1>2, <1>3 DEF StepDistinct, BatchSeqs
<1>6. StepStates
  BY <1>2, <1>3 DEF StepStates, Idle
<1>7. ItemsOK /\ PrefillsGoOn
  BY <1>2, <1>3 DEF ItemsOK, PrefillsGoOn
<1> QED BY <1>1, <1>4, <1>5, <1>6, <1>7 DEF StepInv, ShapeInv

-----------------------------------------------------------------------------
(* The room in the block tables.                                           *)

(* Lengths are numbers.                                                    *)
LEMMA RoomTypes ==
    ASSUME PoolInv, NEW s \in Seqs
    PROVE  /\ Len(toks[s]) \in Nat /\ Len(table[s]) \in Nat /\ Room(s) \in Nat
<1>1. Len(toks[s]) \in Nat /\ Len(table[s]) \in Nat
  BY DEF PoolInv, PoolTypeOK, PoolDataOK
<1> QED BY <1>1, PoolAssumption DEF Room

(* The same after a step.                                                  *)
LEMMA RoomTypesNext ==
    ASSUME PoolInv', NEW s \in Seqs
    PROVE  /\ Len(toks'[s]) \in Nat /\ Len(table'[s]) \in Nat /\ Room(s)' \in Nat
<1>1. Len(toks'[s]) \in Nat /\ Len(table'[s]) \in Nat
  BY DEF PoolInv, PoolTypeOK, PoolDataOK
<1> QED BY <1>1, PoolAssumption DEF Room

(* More blocks are more room.                                              *)
LEMMA RoomGrows ==
    ASSUME NEW m \in Nat, NEW n \in Nat, m <= n
    PROVE  m * BlockSize <= n * BlockSize
  BY PoolAssumption

(* Steps that leave the batch alone.                                       *)
LEMMA RoomFrame ==
    ASSUME StepInv, StepInv', RoomInv, UNCHANGED <<batch, phase, pending>>,
           Range(running') \subseteq Range(running),
           \A s \in Range(running') :
              /\ toks'[s] = toks[s]
              /\ Len(table[s]) <= Len(table'[s])
              /\ phase = "idle" \/ drafts'[s] = drafts[s]
              /\ Lags(s) /\ ~Lags(s)' => Len(toks[s]) <= Room(s)
    PROVE  RoomInv'
<1>0. /\ PoolInv /\ PoolInv' /\ Range(running) \subseteq Seqs /\ HeadInv' /\ HeadInv
      /\ TextHasRoom /\ DraftsHaveRoom /\ AcceptedHaveRoom /\ StepStates /\ StepTypes
  BY PlaceFacts DEF StepInv, QueueInv, RoomInv, ShapeInv
<1>1. ASSUME NEW s \in Range(running')
      PROVE  /\ s \in Range(running) /\ Len(toks[s]) \in Nat /\ toks'[s] = toks[s]
             /\ Room(s) \in Nat /\ Room(s)' \in Nat /\ Room(s) <= Room(s)'
  <2>1. s \in Seqs /\ s \in Range(running)
    BY <1>0
  <2>2. /\ Len(toks[s]) \in Nat /\ Len(table[s]) \in Nat /\ Room(s) \in Nat
        /\ Len(table'[s]) \in Nat /\ Room(s)' \in Nat
    BY <1>0, <2>1, RoomTypes, RoomTypesNext
  <2>3. Room(s) <= Room(s)'
    BY <2>2, RoomGrows DEF Room
  <2> QED BY <2>1, <2>2, <2>3
<1>2. TextHasRoom'
  <2> SUFFICES ASSUME NEW s \in Range(running')
               PROVE  /\ Len(toks'[s]) <= Room(s)' + 1
                      /\ ~Lags(s)' => Len(toks'[s]) <= Room(s)'
    BY DEF TextHasRoom
  <2>1. Len(toks[s]) <= Room(s) + 1 /\ (~Lags(s) => Len(toks[s]) <= Room(s))
    BY <1>0, <1>1 DEF TextHasRoom
  <2>2. ~Lags(s)' => Len(toks[s]) <= Room(s)
    BY <2>1
  <2> QED BY <1>1, <2>1, <2>2
<1>3. DraftsHaveRoom'
  <2> SUFFICES ASSUME NEW i \in 1 .. Len(batch), NEW s, s = batch[i].seq,
                      batch[i].verify, s \in Range(running'), ~InHand(i)
               PROVE  Len(toks'[s]) + Len(drafts'[s]) + 1 <= Room(s)'
    BY DEF DraftsHaveRoom, InHand
  <2>1. s \in Range(running) /\ Len(toks[s]) + Len(drafts[s]) + 1 <= Room(s)
    BY <1>0, <1>1 DEF DraftsHaveRoom
  <2>2. batch # <<>>
    BY <1>0 DEF StepTypes
  <2>3. phase # "idle"
    BY <1>0, <2>2 DEF StepStates
  <2>4. drafts'[s] = drafts[s] /\ Len(drafts[s]) \in Nat
    BY <1>0, <2>1, <2>3 DEF HeadInv
  <2>5. /\ Len(toks[s]) \in Nat /\ toks'[s] = toks[s]
        /\ Room(s) \in Nat /\ Room(s)' \in Nat /\ Room(s) <= Room(s)'
    BY <1>1
  <2>6. Len(toks[s]) + Len(drafts[s]) + 1 <= Room(s)'
    <3>1. \A a, b, c, d \in Nat : a + b + 1 <= c /\ c <= d => a + b + 1 <= d
      OBVIOUS
    <3>2. /\ Len(toks[s]) \in Nat /\ Len(drafts[s]) \in Nat /\ Room(s) \in Nat
          /\ Room(s)' \in Nat /\ Room(s) <= Room(s)'
          /\ Len(toks[s]) + Len(drafts[s]) + 1 <= Room(s)
      BY <2>1, <2>4, <2>5
    <3> QED BY ONLY <3>1, <3>2, Zenon
  <2> QED BY ONLY <2>4, <2>5, <2>6
<1>4. AcceptedHaveRoom'
  <2> SUFFICES ASSUME phase = "accept", NEW s, s = Head(batch).seq
               PROVE  Len(toks'[s]) + Len(pending) <= Room(s)'
    BY DEF AcceptedHaveRoom
  <2>1. s \in Range(running')
    BY <1>0 DEF HeadInv
  <2>2. Len(toks[s]) + Len(pending) <= Room(s) /\ Len(pending) \in Nat
    BY <1>0 DEF AcceptedHaveRoom, HeadInv
  <2> QED BY <1>1, <2>1, <2>2
<1> QED BY <1>2, <1>3, <1>4 DEF RoomInv

(* Steps before the model runs: nobody has a token without a slot.         *)
LEMMA RoomBuild ==
    ASSUME StepInv, StepInv', RoomInv,
           phase \in {"idle", "build", "verify", "stepped"} \/ todo = <<>>,
           phase \notin {"accept", "retire"},
           phase' \in {"idle", "build", "verify", "stepped"},
           UNCHANGED <<toks, table>>,
           \A s \in Range(running') :
              \/ s \in Range(running) /\ drafts'[s] = drafts[s]
              \/ Len(toks[s]) <= Room(s),
           \A i \in 1 .. Len(batch') :
              LET s == batch'[i].seq
              IN  \/ ~batch'[i].verify
                  \/ i \in 1 .. Len(batch) /\ batch'[i] = batch[i] /\ s \in Range(running)
                     /\ drafts'[s] = drafts[s]
                  \/ Len(toks[s]) + Len(drafts'[s]) + 1 <= Room(s)
    PROVE  RoomInv'
<1>0. /\ TextHasRoom /\ DraftsHaveRoom /\ StepTypes'
  BY DEF StepInv, RoomInv, ShapeInv
<1>1. \A s : ~Lags(s) /\ Room(s)' = Room(s)
  BY DEF Lags, Room, Range
<1>2. TextHasRoom'
  <2> SUFFICES ASSUME NEW s \in Range(running')
               PROVE  Len(toks[s]) <= Room(s) /\ Len(toks[s]) <= Room(s) + 1
    BY <1>1 DEF TextHasRoom
  <2>1. Len(toks[s]) <= Room(s)
    BY <1>0, <1>1 DEF TextHasRoom
  <2>2. Len(toks[s]) \in Nat /\ Room(s) \in Nat
    <3>1. s \in Seqs /\ PoolInv
      <4>1. QueueInv /\ QueueInv'
        BY DEF StepInv
      <4>2. running' \in Seq(Seqs)
        BY <4>1 DEF QueueInv, PlaceInv, PlaceTypes
      <4> QED BY <4>1, <4>2 DEF Range, QueueInv
    <3> QED BY <3>1, RoomTypes
  <2> QED BY <2>1, <2>2
<1>3. DraftsHaveRoom'
  <2> SUFFICES ASSUME NEW i \in 1 .. Len(batch'), NEW s, s = batch'[i].seq,
                      batch'[i].verify
               PROVE  Len(toks[s]) + Len(drafts'[s]) + 1 <= Room(s)
    BY <1>1 DEF DraftsHaveRoom
  <2>1. CASE i \in 1 .. Len(batch) /\ batch'[i] = batch[i] /\ s \in Range(running)
             /\ drafts'[s] = drafts[s]
    BY <1>0, <2>1 DEF DraftsHaveRoom, InHand
  <2> QED BY <2>1
<1>4. AcceptedHaveRoom'
  BY DEF AcceptedHaveRoom
<1> QED BY <1>2, <1>3, <1>4 DEF RoomInv

(* The head of the batch is finished with.                                 *)
LEMMA RoomDrop ==
    ASSUME StepInv, StepInv', RoomInv, phase \in {"stepped", "apply", "accept", "retire"},
           batch # <<>>, batch' = Tail(batch), phase' = "apply",
           NEW s, s = Head(batch).seq, UNCHANGED table,
           todo' = todo \/ todo' = Append(todo, s),
           Range(running') \subseteq Range(running),
           \A u \in Range(running') : u # s => toks'[u] = toks[u] /\ drafts'[u] = drafts[u],
           s \in Range(running') =>
              /\ Len(toks'[s]) <= Room(s) + 1
              /\ todo' = todo => Len(toks'[s]) <= Room(s)
    PROVE  RoomInv'
<1>0. /\ StepTypes /\ StepDistinct /\ StepStates /\ todo \in Seq(Seqs)
      /\ TextHasRoom /\ DraftsHaveRoom
  BY DEF StepInv, RoomInv, ShapeInv, StepTypes
<1>1. /\ Head(batch) = batch[1] /\ s \in BatchSeqs
      /\ \A i \in 1 .. Len(batch') :
            i + 1 \in 1 .. Len(batch) /\ i + 1 # 1 /\ batch'[i] = batch[i + 1]
      /\ BatchSeqs' \subseteq BatchSeqs \ {s}
      /\ s \in Seqs
  BY <1>0, BatchTail
<1>2. \A u : Room(u)' = Room(u)
  BY DEF Room
<1>3. s \notin Range(todo) /\ IsInjective(todo)
  BY <1>0, <1>1 DEF StepDistinct
<1>4. /\ \A u : u # s => (u \in Range(todo') <=> u \in Range(todo))
      /\ s \in Range(todo') <=> todo' # todo
  <2>1. CASE todo' = todo
    BY <1>3, <2>1
  <2>2. CASE todo' = Append(todo, s)
    <3>1. Range(todo') = Range(todo) \cup {s}
      BY <1>0, <1>1, <1>3, <2>2, AppendInjective2
    <3> QED BY <1>3, <3>1
  <2> QED BY <2>1, <2>2
<1>5. phase = "stepped" => Range(todo) = {}
  BY <1>0 DEF StepStates, Range
<1>6. TextHasRoom'
  <2> SUFFICES ASSUME NEW u \in Range(running')
               PROVE  /\ Len(toks'[u]) <= Room(u) + 1
                      /\ ~Lags(u)' => Len(toks'[u]) <= Room(u)
    BY <1>2 DEF TextHasRoom
  <2>1. CASE u = s
    <3>1. ~Lags(s)' => todo' = todo
      BY <1>4 DEF Lags
    <3> QED BY <2>1, <3>1
  <2>2. CASE u # s
    <3>1. Lags(u) <=> Lags(u)'
      BY <1>4, <1>5, <2>2 DEF Lags
    <3>2. u \in Range(running) /\ toks'[u] = toks[u]
      BY <2>2
    <3> QED BY <1>0, <3>1, <3>2 DEF TextHasRoom
  <2> QED BY <2>1, <2>2
<1>7. DraftsHaveRoom'
  <2> SUFFICES ASSUME NEW i \in 1 .. Len(batch'), NEW u, u = batch'[i].seq,
                      batch'[i].verify, u \in Range(running')
               PROVE  Len(toks'[u]) + Len(drafts'[u]) + 1 <= Room(u)
    BY <1>2 DEF DraftsHaveRoom
  <2>1. i + 1 \in 1 .. Len(batch) /\ batch'[i] = batch[i + 1] /\ ~InHand(i + 1)
    BY <1>1 DEF InHand
  <2>2. u # s /\ u \in Range(running)
    BY <1>1 DEF BatchSeqs
  <2>3. Len(toks[u]) + Len(drafts[u]) + 1 <= Room(u)
    BY <1>0, <2>1, <2>2 DEF DraftsHaveRoom
  <2> QED BY <2>2, <2>3
<1>8. AcceptedHaveRoom'
  BY DEF AcceptedHaveRoom
<1> QED BY <1>6, <1>7, <1>8 DEF RoomInv

(* The head of the batch is in hand.                                       *)
LEMMA RoomInHand ==
    ASSUME StepInv, StepInv', RoomInv, phase \in {"stepped", "apply", "accept"},
           batch # <<>>, phase' \in {"accept", "retire"},
           UNCHANGED <<batch, todo, running, table>>,
           NEW s, s = Head(batch).seq,
           \A u \in Range(running) : u # s => toks'[u] = toks[u] /\ drafts'[u] = drafts[u],
           Len(toks'[s]) <= Room(s) + 1,
           phase' = "accept" => /\ Len(toks'[s]) <= Room(s)
                                /\ Len(toks'[s]) + Len(pending') <= Room(s)
    PROVE  RoomInv'
<1>0. /\ StepTypes /\ StepDistinct /\ StepStates
      /\ TextHasRoom /\ DraftsHaveRoom
  BY DEF StepInv, RoomInv, ShapeInv
<1>1. \A u : Room(u)' = Room(u)
  BY DEF Room
<1>2. phase = "stepped" => Range(todo) = {}
  BY <1>0 DEF StepStates, Range
<1>3. TextHasRoom'
  <2> SUFFICES ASSUME NEW u \in Range(running)
               PROVE  /\ Len(toks'[u]) <= Room(u) + 1
                      /\ ~Lags(u)' => Len(toks'[u]) <= Room(u)
    BY <1>1 DEF TextHasRoom
  <2>1. CASE u = s
    <3>1. ~Lags(s)' => phase' = "accept"
      BY DEF Lags
    <3> QED BY <2>1, <3>1
  <2>2. CASE u # s
    <3>1. Lags(u) <=> Lags(u)'
      BY <1>2, <2>2 DEF Lags
    <3>2. toks'[u] = toks[u]
      BY <2>2
    <3> QED BY <1>0, <3>1, <3>2 DEF TextHasRoom
  <2> QED BY <2>1, <2>2
<1>4. DraftsHaveRoom'
  <2> SUFFICES ASSUME NEW i \in 1 .. Len(batch), NEW u, u = batch[i].seq,
                      batch[i].verify, u \in Range(running), i # 1
               PROVE  Len(toks'[u]) + Len(drafts'[u]) + 1 <= Room(u)
    BY <1>1 DEF DraftsHaveRoom, InHand
  <2>1. u # s
    <3>1. 1 \in 1 .. Len(batch) /\ Head(batch) = batch[1]
      BY <1>0 DEF StepTypes
    <3> QED BY <1>0, <3>1 DEF StepDistinct
  <2>2. Len(toks[u]) + Len(drafts[u]) + 1 <= Room(u)
    BY <1>0 DEF DraftsHaveRoom, InHand
  <2> QED BY <2>1, <2>2
<1>5. AcceptedHaveRoom'
  BY <1>1 DEF AcceptedHaveRoom
<1> QED BY <1>3, <1>4, <1>5 DEF RoomInv

\* The steps that leave the batch alone.
FrameStep ==
    \/ \E s \in Seqs, p \in Prompts, m \in Nat : Enqueue(s, p, m)
    \/ \E s \in Seqs, d \in Drafts : SetDrafts(s, d)
    \/ \E s \in Seqs : Abort(s)
    \/ DrainFinished \/ PoolStep \/ AdmitEmpty \/ AdmitBegin
    \/ ExtendGrow \/ ReserveGrow
    \/ ExtendDone \/ ExtendOverflow \/ PreemptYoungest \/ ReserveRefused

\* What such a step may do to a sequence that still runs after it.
KeptRunning(s) ==
    /\ toks'[s] = toks[s] /\ state'[s] = state[s] /\ computed'[s] = computed[s]
    /\ phase = "idle" \/ drafts'[s] = drafts[s]
    /\ table'[s] = table[s] \/ \E b \in Blocks : table'[s] = Append(table[s], b)
    /\ Lags(s) /\ ~Lags(s)' => Len(toks[s]) <= Room(s)

(* Those steps leave the sequences that run on as they are, but for a      *)
(* block more.                                                             *)
LEMMA FrameFacts ==
    ASSUME StepInv, FrameStep
    PROVE  /\ UNCHANGED <<batch, phase, pending, kv>>
           /\ Range(running') \subseteq Range(running)
           /\ \A u \in Range(running') : KeptRunning(u)
<1>0. /\ PoolInv /\ PlaceInv /\ StepStates
      /\ toks \in [Seqs -> Seq(Token)] /\ op \in Op /\ table \in [Seqs -> Seq(Blocks)]
      /\ state \in [Seqs -> {"none", "Waiting", "Prefill", "Decode", "Finished", "Aborted"}]
      /\ Range(running) \subseteq Seqs /\ drafts \in [Seqs -> Seq(Token)]
      /\ Range(running) \cap Range(waiting) = {} /\ computed \in [Seqs -> Nat]
      /\ todo \in Seq(Seqs) /\ IsInjective(todo) /\ running \in Seq(Seqs)
      /\ free \in Seq(Blocks)
  BY PlaceFacts DEF StepInv, ShapeInv, QueueInv, PlaceInv, PlaceTypes, PoolInv, PoolTypeOK,
                    PoolDataOK, HeadInv, StepTypes, StepDistinct
<1>a. ASSUME NEW s \in Range(running), running' = Without(running, s), DeallocateBegin(s)
      PROVE  Range(running') = Range(running) \ {s} /\ toks' = toks /\ table' = table /\ s \in Seqs
  <2>1. Range(running') = Range(running) \ {s}
    BY <1>0, <1>a, LeavesRunning
  <2> QED BY <1>0, <1>a, <2>1 DEF DeallocateBegin
<1>1. ASSUME NEW s \in Seqs, NEW p \in Prompts, NEW m \in Nat, Enqueue(s, p, m)
      PROVE  /\ UNCHANGED <<batch, phase, pending, kv, running>>
             /\ \A u \in Range(running) : KeptRunning(u)
  <2>1. /\ state[s] = "none" /\ table' = table
        /\ toks' = [toks EXCEPT ![s] = p] /\ state' = [state EXCEPT ![s] = "Waiting"]
        /\ UNCHANGED <<batch, phase, todo, pending, computed, running, drafts, kv>>
    BY <1>1 DEF Enqueue, Arrive, stepVars
  <2>2. s \notin Range(running)
    BY <1>0, <2>1 DEF PlaceInv, OnePlace
  <2>3. \A u \in Range(running) : state'[u] = state[u] /\ toks'[u] = toks[u]
    BY <1>0, <2>1, <2>2
  <2> QED BY <2>1, <2>3 DEF KeptRunning, Lags
<1>2. ASSUME NEW s \in Seqs, NEW d \in Drafts, SetDrafts(s, d)
      PROVE  /\ UNCHANGED <<batch, phase, pending, kv, running>>
             /\ \A u \in Range(running) : KeptRunning(u)
  <2>1. /\ phase = "idle" /\ table' = table
        /\ UNCHANGED <<batch, phase, todo, pending, computed, running, toks, state, kv>>
    BY <1>2 DEF SetDrafts, stepVars, poolVars
  <2> QED BY <2>1 DEF KeptRunning, Lags
<1>3. ASSUME NEW s \in Seqs, Abort(s)
      PROVE  /\ UNCHANGED <<batch, phase, pending, kv>>
             /\ Range(running') \subseteq Range(running)
             /\ \A u \in Range(running') : KeptRunning(u)
  <2>1. CASE AbortWaiting(s)
    <3>1. /\ s \in Range(waiting) /\ state' = [state EXCEPT ![s] = "Aborted"]
          /\ UNCHANGED <<batch, phase, todo, pending, computed, running, drafts, toks, table, kv>>
      BY <2>1 DEF AbortWaiting, Close, stepVars, poolVars
    <3>2. \A u \in Range(running) : state'[u] = state[u]
      BY <1>0, <3>1
    <3> QED BY <3>1, <3>2 DEF KeptRunning, Lags
  <2>2. CASE AbortRunning(s)
    <3>1. /\ s \in Range(running) /\ running' = Without(running, s)
          /\ DeallocateBegin(s)
          /\ state' = [state EXCEPT ![s] = "Aborted"]
          /\ drafts' = [drafts EXCEPT ![s] = <<>>]
          /\ UNCHANGED <<batch, phase, todo, pending, computed, kv>>
      BY <2>2 DEF AbortRunning, Close, ClearDrafts, stepVars
    <3>2. Range(running') = Range(running) \ {s} /\ toks' = toks /\ table' = table
      BY <1>a, <3>1
    <3>3. \A u \in Range(running') : state'[u] = state[u] /\ drafts'[u] = drafts[u]
      BY <1>0, <3>1, <3>2
    <3> QED BY <3>1, <3>2, <3>3 DEF KeptRunning, Lags
  <2> QED BY <1>3, <2>1, <2>2 DEF Abort
<1>4. CASE DrainFinished
  <2>1. UNCHANGED <<batch, phase, todo, pending, computed, running, drafts, toks, state,
                    table, kv>>
    BY <1>4 DEF DrainFinished, stepVars, poolVars, seqVars
  <2> QED BY <2>1 DEF KeptRunning, Lags
<1>5. CASE PoolStep
  <2>1. UNCHANGED <<batch, phase, todo, pending, computed, running, drafts, state, kv>>
    BY <1>5 DEF PoolStep, schedVars, stepVars, seqVars, queueVars
  <2>2. /\ toks' = toks
        /\ \A u \in Range(running) :
              table'[u] = table[u] \/ \E b \in Blocks : table'[u] = Append(table[u], b)
    <3>0. PICK s : s = op.seq
      OBVIOUS
    <3>1. CASE AcquireShared \/ AcquireFresh
      <4>1. op.kind = "alloc" /\ toks' = toks /\ \E r : table' = [table EXCEPT ![s] = r]
        BY <3>0, <3>1 DEF AcquireShared, AcquireFresh, Share, PopFree
      <4>2. s \notin Range(running) /\ s \in Seqs
        <5>1. s \in InTransit /\ s \in Seqs
          BY <1>0, <3>0, <4>1 DEF InTransit, Op, Idle
        <5> QED BY <1>0, <5>1 DEF PlaceInv, OnePlace
      <4> QED BY <1>0, <4>1, <4>2
    <3>2. CASE ExtendNext
      <4>1. /\ op.kind = "extend" /\ free # <<>> /\ toks' = toks
            /\ table' = [table EXCEPT ![s] = Append(table[s], Head(free))]
        BY <3>0, <3>2 DEF ExtendNext, PopFree
      <4>2. Head(free) \in Blocks
        BY <1>0, <4>1
      <4>3. s \in Range(running)
        BY <1>0, <3>0, <4>1 DEF PlaceInv
      <4> QED BY <1>0, <4>1, <4>2, <4>3
    <3>3. CASE ReleaseLast
      <4>1. op.kind = "release" /\ toks' = toks /\ \E r : table' = [table EXCEPT ![s] = r]
        BY <3>0, <3>3 DEF ReleaseLast
      <4>2. s \notin Range(running)
        BY <1>0, <3>0, <4>1 DEF StepStates
      <4> QED BY <1>0, <4>1, <4>2
    <3> QED BY <1>5, <3>1, <3>2, <3>3 DEF PoolStep
  <2> QED BY <2>1, <2>2 DEF KeptRunning, Lags
<1>6. CASE AdmitEmpty
  <2>1. PICK s : s = Head(waiting)
    OBVIOUS
  <2>2. /\ waiting # <<>> /\ state' = [state EXCEPT ![s] = "Aborted"]
        /\ UNCHANGED <<batch, phase, todo, pending, computed, running, drafts, toks, table, kv>>
    BY <1>6, <2>1 DEF AdmitEmpty, Close, stepVars, poolVars
  <2>3. s \in Range(waiting)
    <3>1. waiting \in Seq(Seqs) /\ IsInjective(waiting)
      BY <1>0 DEF PlaceInv, PlaceTypes, OnePlace
    <3> QED BY <2>1, <2>2, <3>1, TailInjective
  <2>4. \A u \in Range(running) : state'[u] = state[u]
    BY <1>0, <2>2, <2>3
  <2> QED BY <2>2, <2>4 DEF KeptRunning, Lags
<1>7. CASE AdmitBegin
  <2>1. UNCHANGED <<batch, phase, todo, pending, computed, running, drafts, toks, state,
                    table, kv>>
    BY <1>7 DEF AdmitBegin, AllocateBegin, stepVars, seqVars
  <2> QED BY <2>1 DEF KeptRunning, Lags
<1>8. CASE ExtendGrow \/ ReserveGrow
  <2>1. UNCHANGED <<batch, phase, todo, pending, computed, running, drafts, state, kv>>
    BY <1>8 DEF ExtendGrow, ReserveGrow, schedVars, stepVars, seqVars, queueVars
  <2>2. PICK s : s = Head(todo)
    OBVIOUS
  <2>3. \E goal : ExtendFor(s, goal)
    BY <1>8, <2>2 DEF ExtendGrow, ReserveGrow
  <2>4. /\ toks' = toks /\ free # <<>>
        /\ table' = [table EXCEPT ![s] = Append(table[s], Head(free))]
    BY <2>3 DEF ExtendFor, PopFree
  <2>5. Head(free) \in Blocks
    BY <1>0, <2>4
  <2>6. \A u \in Range(running) :
           table'[u] = table[u] \/ \E b \in Blocks : table'[u] = Append(table[u], b)
    BY <1>0, <2>4, <2>5
  <2> QED BY <2>1, <2>4, <2>6 DEF KeptRunning, Lags
<1>b. ASSUME todo # <<>>
      PROVE  \A u : u \in Range(todo) /\ u \notin Range(Tail(todo)) => u = Head(todo)
  BY <1>0, <1>b, TailInjective
<1>9. CASE ExtendDone
  <2>1. /\ Extending /\ todo' = Tail(todo)
        /\ Head(todo) \notin Range(running) \/ Len(table[Head(todo)]) >= Needed(Head(todo))
        /\ UNCHANGED <<batch, phase, pending, computed, running, state, toks, drafts, table, kv>>
    BY <1>9 DEF ExtendDone, poolVars, seqVars, queueVars
  <2>2. ASSUME NEW u \in Range(running), Lags(u), ~Lags(u)'
        PROVE  Len(toks[u]) <= Room(u)
    <3>1. u = Head(todo)
      BY <1>b, <2>1, <2>2 DEF Lags, Extending
    <3>2. Needed(u) <= Len(table[u]) /\ u \in Seqs
      <4>1. u \in Seqs /\ Len(table[u]) >= Needed(u)
        BY <1>0, <2>1, <3>1
      <4>2. Len(toks[u]) \in Nat /\ Len(table[u]) \in Nat
        BY <1>0, <4>1
      <4>3. Needed(u) \in Nat
        BY <4>2, BlocksNeeded DEF Needed
      <4> QED BY <4>1, <4>2, <4>3
    <3>3. Len(toks[u]) \in Nat /\ Len(table[u]) \in Nat
      BY <1>0, <3>2
    <3>4. \A m \in Nat : NumBlocksNeeded(Len(toks[u])) <= m <=> Len(toks[u]) <= m * BlockSize
      BY <3>3, BlocksNeeded
    <3> QED BY <3>2, <3>3, <3>4 DEF Needed, Room
  <2> QED BY <2>1, <2>2 DEF KeptRunning
<1>10. CASE ExtendOverflow
  <2>1. PICK s : s = Head(todo)
    OBVIOUS
  <2>2. /\ Extending /\ todo' = Tail(todo) /\ s \in Range(running) /\ DeallocateBegin(s)
        /\ running' = Without(running, s)
        /\ state' = [state EXCEPT ![s] = "Aborted"] /\ drafts' = [drafts EXCEPT ![s] = <<>>]
        /\ UNCHANGED <<batch, phase, pending, computed, kv>>
    BY <1>10, <2>1 DEF ExtendOverflow, OutOfBlocks, Close, ClearDrafts
  <2>3. Range(running') = Range(running) \ {s} /\ toks' = toks /\ table' = table /\ s \in Seqs
    BY <1>a, <2>2
  <2>4. \A u \in Range(running') : state'[u] = state[u] /\ drafts'[u] = drafts[u]
    BY <1>0, <2>2, <2>3
  <2>5. \A u \in Range(running') : Lags(u) => Lags(u)'
    BY <1>b, <2>1, <2>2, <2>3 DEF Lags, Extending
  <2> QED BY <2>2, <2>3, <2>4, <2>5 DEF KeptRunning
<1>11. CASE PreemptYoungest
  <2>1. PICK v : v = LastOf(running)
    OBVIOUS
  <2>2. /\ Extending /\ DeallocateBegin(v)
        /\ todo' = (IF v = Head(todo) THEN Tail(todo) ELSE todo)
        /\ running' = Without(running, v) /\ Head(todo) \in Range(running)
        /\ state' = [state EXCEPT ![v] = "Waiting"] /\ drafts' = [drafts EXCEPT ![v] = <<>>]
        /\ computed' = [computed EXCEPT ![v] = 0]
        /\ UNCHANGED <<batch, phase, pending, kv>>
    BY <1>11, <2>1 DEF PreemptYoungest, OutOfBlocks, Preempt, ClearDrafts
  <2>3. v \in Range(running)
    <3>1. Len(running) \in 1 .. Len(running) /\ DOMAIN running = 1 .. Len(running)
      BY <1>0, <2>2 DEF Range
    <3> QED BY <2>1, <3>1 DEF LastOf, Range
  <2>4. Range(running') = Range(running) \ {v} /\ toks' = toks /\ table' = table /\ v \in Seqs
    BY <1>a, <2>2, <2>3
  <2>5. \A u \in Range(running') : /\ state'[u] = state[u] /\ drafts'[u] = drafts[u]
                                   /\ computed'[u] = computed[u]
    BY <1>0, <2>2, <2>4
  <2>6. \A u \in Range(running') : Lags(u) => Lags(u)'
    BY <1>b, <2>2, <2>4 DEF Lags, Extending
  <2> QED BY <2>2, <2>4, <2>5, <2>6 DEF KeptRunning
<1>12. CASE ReserveRefused
  <2>1. PICK s : s = Head(todo)
    OBVIOUS
  <2>2. /\ phase = "verify" /\ s \in Range(running) /\ DeallocateBegin(s)
        /\ running' = Without(running, s)
        /\ state' = [state EXCEPT ![s] = "Waiting"] /\ drafts' = [drafts EXCEPT ![s] = <<>>]
        /\ UNCHANGED <<batch, phase, pending, computed, kv>>
    BY <1>12, <2>1 DEF ReserveRefused, Reserving, ClearDrafts
  <2>3. Range(running') = Range(running) \ {s} /\ toks' = toks /\ table' = table /\ s \in Seqs
    BY <1>a, <2>2
  <2>4. \A u \in Range(running') : state'[u] = state[u] /\ drafts'[u] = drafts[u]
    BY <1>0, <2>2, <2>3
  <2>5. \A u : ~Lags(u)
    BY <2>2 DEF Lags
  <2> QED BY <2>2, <2>3, <2>4, <2>5 DEF KeptRunning
<1> QED BY <1>1, <1>2, <1>3, <1>4, <1>5, <1>6, <1>7, <1>8, <1>9, <1>10, <1>11, <1>12
        DEF FrameStep

(* Steps that leave the batch alone take no room from anybody who runs on. *)
LEMMA RoomFrameStep ==
    ASSUME StepInv, StepInv', RoomInv, FrameStep
    PROVE  RoomInv'
<1>1. /\ UNCHANGED <<batch, phase, pending>>
      /\ Range(running') \subseteq Range(running)
      /\ \A u \in Range(running') : KeptRunning(u)
  BY FrameFacts
<1>2. Range(running) \subseteq Seqs /\ table \in [Seqs -> Seq(Blocks)]
  BY PlaceFacts DEF StepInv, QueueInv, PoolInv, PoolTypeOK, PoolDataOK
<1>3. ASSUME NEW u \in Range(running') PROVE Len(table[u]) <= Len(table'[u])
  <2>1. table[u] \in Seq(Blocks) /\ Len(table[u]) \in Nat
    BY <1>1, <1>2
  <2>2. CASE table'[u] = table[u]
    BY <2>1, <2>2
  <2>3. ASSUME NEW b \in Blocks, table'[u] = Append(table[u], b)
        PROVE  Len(table[u]) <= Len(table'[u])
    BY <2>1, <2>3
  <2> QED BY <1>1, <2>2, <2>3 DEF KeptRunning
<1>4. \A u \in Range(running') :
              /\ toks'[u] = toks[u]
              /\ Len(table[u]) <= Len(table'[u])
              /\ phase = "idle" \/ drafts'[u] = drafts[u]
              /\ Lags(u) /\ ~Lags(u)' => Len(toks[u]) <= Room(u)
  BY <1>1, <1>3 DEF KeptRunning
<1> QED BY <1>1, <1>4, RoomFrame

(* What appending does to a sequence, whatever the new element is.         *)
LEMMA AppendAny ==
    ASSUME NEW A, NEW q \in Seq(A), NEW e, NEW r, r = Append(q, e)
    PROVE  /\ Len(q) \in Nat /\ Len(r) = Len(q) + 1 /\ r[Len(q) + 1] = e
           /\ \A i \in 1 .. Len(q) : r[i] = q[i]
           /\ \A i \in 1 .. Len(r) : i \in 1 .. Len(q) \/ r[i] = e
<1> DEFINE B == A \cup {e}
<1>1. q \in Seq(B) /\ e \in B
  OBVIOUS
<1> HIDE DEF B
<1>2. /\ Len(q) \in Nat /\ Len(r) = Len(q) + 1 /\ r[Len(q) + 1] = e
      /\ \A i \in 1 .. Len(q) : r[i] = q[i]
  BY <1>1
<1> QED BY <1>2

(* Steps that build a batch reserve the room its drafts need.              *)
LEMMA RoomBuildStep ==
    ASSUME StepInv, StepInv', RoomInv,
           \/ StepMixed \/ ScheduleChunk \/ AdmitEnd \/ FinishBuild \/ StepDone
           \/ StepVerify \/ ReserveDone \/ FinishVerifyBatch
    PROVE  RoomInv'
<1>0. /\ StepTypes /\ StepTypes' /\ StepStates /\ PoolInv
      /\ batch \in Seq(ItemType) /\ batch' \in Seq(ItemType) /\ Len(batch) \in Nat
      /\ toks \in [Seqs -> Seq(Token)] /\ table \in [Seqs -> Seq(Blocks)]
      /\ drafts \in [Seqs -> Seq(Token)] /\ todo \in Seq(Seqs)
      /\ Range(running) \subseteq Seqs
  <2>1. /\ QueueInv /\ StepTypes /\ StepTypes' /\ StepStates
    BY DEF StepInv, ShapeInv
  <2>2. batch \in Seq(ItemType) /\ batch' \in Seq(ItemType) /\ todo \in Seq(Seqs)
    BY <2>1 DEF StepTypes
  <2>3. /\ PoolInv /\ toks \in [Seqs -> Seq(Token)] /\ table \in [Seqs -> Seq(Blocks)]
        /\ drafts \in [Seqs -> Seq(Token)]
    BY <2>1 DEF QueueInv, HeadInv, PoolInv, PoolTypeOK, PoolDataOK
  <2> QED BY <2>1, <2>2, <2>3, PlaceFacts DEF QueueInv
<1>1. CASE StepMixed
  <2>1. /\ phase = "idle" /\ phase' = "build"
        /\ UNCHANGED <<toks, table, running, drafts>>
        /\ \E n, f : batch' = [i \in 1 .. n |-> Item(f[i], 1, FALSE, FALSE)]
    BY <1>1 DEF StepMixed, poolVars, seqVars, queueVars
  <2>2. PICK n, f : batch' = [i \in 1 .. n |-> Item(f[i], 1, FALSE, FALSE)]
    BY <2>1
  <2>3. DOMAIN batch' = 1 .. n /\ DOMAIN batch' = 1 .. Len(batch')
    <3>1. DOMAIN batch' = 1 .. n
      BY <2>2, Zenon
    <3> QED BY <1>0, <3>1
  <2>4. \A i \in 1 .. Len(batch') : ~batch'[i].verify
    <3> SUFFICES ASSUME NEW i \in 1 .. Len(batch') PROVE ~batch'[i].verify
      OBVIOUS
    <3>1. batch'[i] = Item(f[i], 1, FALSE, FALSE)
      BY <2>2, <2>3
    <3> QED BY <3>1 DEF Item
  <2> QED BY <2>1, <2>4, RoomBuild
<1>2. CASE ScheduleChunk
  <2>1. /\ phase = "build" /\ phase' = "build"
        /\ UNCHANGED <<toks, table, running, drafts>>
        /\ batch' = batch \/ \E s, n, f : batch' = Append(batch, Item(s, n, TRUE, f))
    BY <1>2 DEF ScheduleChunk, poolVars, seqVars, queueVars
  <2>2. \A i \in 1 .. Len(batch) : batch[i].seq \in Range(running)
    BY <1>0, <2>1 DEF StepStates, BatchSeqs
  <2>3. \A i \in 1 .. Len(batch') :
           ~batch'[i].verify \/ (i \in 1 .. Len(batch) /\ batch'[i] = batch[i])
    <3>1. CASE batch' = batch
      BY <3>1
    <3>2. ASSUME NEW s, NEW n, NEW f, batch' = Append(batch, Item(s, n, TRUE, f))
          PROVE  \A i \in 1 .. Len(batch') :
                    ~batch'[i].verify \/ (i \in 1 .. Len(batch) /\ batch'[i] = batch[i])
      <4>1. PICK it : it = Item(s, n, TRUE, f)
        OBVIOUS
      <4>2. /\ Len(batch') = Len(batch) + 1 /\ batch'[Len(batch) + 1] = it
            /\ \A i \in 1 .. Len(batch) : batch'[i] = batch[i]
        <5>1. batch' = Append(batch, it)
          BY <3>2, <4>1
        <5>2. PICK q : q = batch
          OBVIOUS
        <5>3. PICK r : r = batch'
          OBVIOUS
        <5>4. q \in Seq(ItemType) /\ r = Append(q, it)
          BY <1>0, <5>1, <5>2, <5>3
        <5>5. /\ Len(r) = Len(q) + 1 /\ r[Len(q) + 1] = it
              /\ \A i \in 1 .. Len(q) : r[i] = q[i]
          BY ONLY <5>4, AppendAny
        <5> QED BY <5>2, <5>3, <5>5
      <4>3. ~it.verify
        BY <4>1 DEF Item
      <4> QED BY <1>0, <4>2, <4>3
    <3> QED BY <2>1, <3>1, <3>2
  <2>4. \A i \in 1 .. Len(batch') :
              LET s == batch'[i].seq
              IN  \/ ~batch'[i].verify
                  \/ i \in 1 .. Len(batch) /\ batch'[i] = batch[i] /\ s \in Range(running)
                     /\ drafts'[s] = drafts[s]
                  \/ Len(toks[s]) + Len(drafts'[s]) + 1 <= Room(s)
    BY <2>1, <2>2, <2>3
  <2> QED BY <2>1, <2>4, RoomBuild
<1>3. CASE AdmitEnd
  <2>0. PICK s : s = op.seq
    OBVIOUS
  <2>1. /\ phase = "build" /\ phase' = "build" /\ Allocated
        /\ UNCHANGED <<toks, table, drafts>> /\ running' = Append(running, s)
        /\ \E n, f : batch' = Append(batch, Item(s, n, TRUE, f))
    BY <1>3, <2>0 DEF AdmitEnd, AllocateEnd
  <2>2. s \in Seqs /\ Len(toks[s]) \in Nat /\ Len(table[s]) \in Nat
    BY <1>0, <2>0, <2>1 DEF Allocated, PoolInv, PoolTypeOK, Op, Idle
  <2>3. Len(toks[s]) <= Room(s)
    <3>1. NumBlocksNeeded(Len(toks[s])) <= Len(table[s])
      BY <2>0, <2>1, <2>2 DEF Allocated
    <3>2. \A m \in Nat : NumBlocksNeeded(Len(toks[s])) <= m <=> Len(toks[s]) <= m * BlockSize
      BY <2>2, BlocksNeeded
    <3> QED BY <2>2, <3>1, <3>2 DEF Room
  <2>4. \A u \in Range(running') : u \in Range(running) \/ u = s
    <3>1. running \in Seq(Seqs)
      BY DEF StepInv, QueueInv, PlaceInv, PlaceTypes
    <3>2. /\ DOMAIN running' = 1 .. Len(running) + 1 /\ running'[Len(running) + 1] = s
          /\ \A i \in 1 .. Len(running) : running'[i] = running[i]
          /\ Len(running) \in Nat /\ DOMAIN running = 1 .. Len(running)
      BY <2>1, <2>2, <3>1
    <3> QED BY <3>2 DEF Range
  <2>5. \A i \in 1 .. Len(batch) : batch[i].seq \in Range(running)
    BY <1>0, <2>1 DEF StepStates, BatchSeqs
  <2>6. PICK n, f : batch' = Append(batch, Item(s, n, TRUE, f))
    BY <2>1
  <2>7. PICK it : it = Item(s, n, TRUE, f)
    OBVIOUS
  <2>8. /\ Len(batch') = Len(batch) + 1 /\ batch'[Len(batch) + 1] = it
        /\ \A i \in 1 .. Len(batch) : batch'[i] = batch[i]
    <3>1. batch' = Append(batch, it)
      BY <2>6, <2>7
    <3>2. PICK q : q = batch
      OBVIOUS
    <3>3. PICK r : r = batch'
      OBVIOUS
    <3>4. q \in Seq(ItemType) /\ r = Append(q, it)
      BY <1>0, <3>1, <3>2, <3>3
    <3>5. /\ Len(r) = Len(q) + 1 /\ r[Len(q) + 1] = it
          /\ \A i \in 1 .. Len(q) : r[i] = q[i]
      BY ONLY <3>4, AppendAny
    <3> QED BY <3>2, <3>3, <3>5
  <2>9. ~it.verify
    BY <2>7 DEF Item
  <2>10. \A i \in 1 .. Len(batch') : i \in 1 .. Len(batch) \/ batch'[i] = it
    BY <1>0, <2>8
  <2>11. \A i \in 1 .. Len(batch') :
              LET u == batch'[i].seq
              IN  \/ ~batch'[i].verify
                  \/ i \in 1 .. Len(batch) /\ batch'[i] = batch[i] /\ u \in Range(running)
                     /\ drafts'[u] = drafts[u]
                  \/ Len(toks[u]) + Len(drafts'[u]) + 1 <= Room(u)
    BY <2>1, <2>5, <2>8, <2>9, <2>10
  <2>12. \A u \in Range(running') : \/ u \in Range(running) /\ drafts'[u] = drafts[u]
                                    \/ Len(toks[u]) <= Room(u)
    BY <2>1, <2>3, <2>4
  <2> QED BY <2>1, <2>11, <2>12, RoomBuild
<1>4. CASE FinishBuild \/ FinishVerifyBatch \/ StepDone
  <2>1. /\ phase \in {"build", "verify"} \/ (phase = "apply" /\ batch = <<>> /\ todo = <<>>)
        /\ phase' \in {"idle", "stepped"}
        /\ UNCHANGED <<toks, table, running, drafts, batch>>
    BY <1>4 DEF FinishBuild, FinishVerifyBatch, StepDone, poolVars, seqVars, queueVars
  <2>2. \A i \in 1 .. Len(batch) : batch[i].seq \in Range(running)
    BY <1>0, <2>1 DEF StepStates, BatchSeqs
  <2> QED BY <2>1, <2>2, RoomBuild
<1>5. CASE StepVerify
  <2>1. /\ phase = "idle" /\ phase' = "verify" /\ batch' = <<>>
        /\ UNCHANGED <<toks, table, running, drafts>>
    BY <1>5 DEF StepVerify, poolVars, seqVars, queueVars
  <2>2. Len(batch') = 0
    BY <2>1
  <2> QED BY <2>1, <2>2, RoomBuild
<1>6. CASE ReserveDone
  <2>0. PICK s : s = Head(todo)
    OBVIOUS
  <2>1. PICK it : it = VerifyItem(s)
    OBVIOUS
  <2>2. /\ phase = "verify" /\ phase' = "verify" /\ todo # <<>>
        /\ s \in Range(running) => Len(table[s]) >= Slots(s)
        /\ batch' = (IF s \in Range(running) THEN Append(batch, it) ELSE batch)
        /\ UNCHANGED <<toks, table, running, drafts>>
    BY <1>6, <2>0, <2>1 DEF ReserveDone, Reserving, poolVars, seqVars, queueVars
  <2>3. \A i \in 1 .. Len(batch) : batch[i].seq \in Range(running)
    BY <1>0, <2>2 DEF StepStates, BatchSeqs
  <2>4. s \in Seqs /\ s \in Range(running)
    <3>1. s \in Range(todo)
      BY <1>0, <2>0, <2>2 DEF Range
    <3> QED BY <1>0, <2>2, <3>1 DEF StepStates
  <2>5. it.seq = s
    BY <2>1 DEF VerifyItem
  <2>6. /\ Len(batch') = Len(batch) + 1 /\ batch'[Len(batch) + 1] = it
        /\ \A i \in 1 .. Len(batch) : batch'[i] = batch[i]
    BY <1>0, <2>2, <2>4
  <2>7. \A i \in 1 .. Len(batch') : i \in 1 .. Len(batch) \/ batch'[i] = it
    BY <1>0, <2>6
  <2>8. Len(toks[s]) + Len(drafts[s]) + 1 <= Room(s)
    <3>1. PICK n \in Nat : n = Len(toks[s]) + 1 + Len(drafts[s])
      BY <1>0, <2>4
    <3>2. NumBlocksNeeded(n) \in Nat /\ Len(table[s]) \in Nat
      <4>1. table[s] \in Seq(Blocks)
        BY <1>0, <2>4
      <4> QED BY <4>1, BlocksNeeded
    <3>3. NumBlocksNeeded(n) <= Len(table[s])
      BY <2>2, <2>4, <3>1, <3>2 DEF Slots
    <3>4. n <= Room(s)
      BY <3>2, <3>3, BlocksNeeded DEF Room
    <3> QED BY <1>0, <2>4, <3>1, <3>4
  <2>9. \A i \in 1 .. Len(batch') :
              LET u == batch'[i].seq
              IN  \/ ~batch'[i].verify
                  \/ i \in 1 .. Len(batch) /\ batch'[i] = batch[i] /\ u \in Range(running)
                     /\ drafts'[u] = drafts[u]
                  \/ Len(toks[u]) + Len(drafts'[u]) + 1 <= Room(u)
    BY <2>2, <2>3, <2>5, <2>6, <2>7, <2>8
  <2> QED BY <2>2, <2>9, RoomBuild
<1> QED BY <1>1, <1>2, <1>3, <1>4, <1>5, <1>6

(* The steps that apply the head of the batch.                             *)
LEMMA RoomApply ==
    ASSUME StepInv, StepInv', RoomInv,
           \/ ItemNotRunning \/ ApplyChunk \/ Retire \/ Accept
           \/ \E t \in Token : ApplyToken(t) \/ VerifyOutcome(t)
    PROVE  RoomInv'
<1>0. /\ StepDistinct /\ StepStates /\ HeadInv /\ PoolInv /\ PlaceInv
      /\ TextHasRoom /\ DraftsHaveRoom /\ AcceptedHaveRoom
      /\ batch \in Seq(ItemType) /\ pending \in Seq(Token)
      /\ toks \in [Seqs -> Seq(Token)] /\ drafts \in [Seqs -> Seq(Token)]
      /\ Range(running) \subseteq Seqs
  <2>1. QueueInv /\ StepTypes /\ StepDistinct /\ StepStates
    BY DEF StepInv, ShapeInv
  <2>2. /\ PoolInv /\ toks \in [Seqs -> Seq(Token)] /\ PlaceInv /\ HeadInv
        /\ drafts \in [Seqs -> Seq(Token)]
    BY <2>1 DEF QueueInv, HeadInv, PoolInv, PoolTypeOK, PoolDataOK
  <2> QED BY <2>1, <2>2, PlaceFacts DEF StepTypes, RoomInv
<1>1. PICK s : s = Head(batch).seq
  OBVIOUS
<1>2. ASSUME batch # <<>>
      PROVE  1 \in 1 .. Len(batch) /\ batch[1].seq = s /\ s \notin Range(todo)
             /\ batch[1] = Head(batch)
  <2>1. 1 \in 1 .. Len(batch) /\ batch[1] = Head(batch)
    BY <1>0, <1>2
  <2>2. s \in BatchSeqs
    BY <1>1, <2>1 DEF BatchSeqs
  <2> QED BY <1>0, <1>1, <2>1, <2>2 DEF StepDistinct
<1>3. ASSUME s \in Range(running)
      PROVE  /\ s \in Seqs /\ toks[s] \in Seq(Token) /\ Len(toks[s]) \in Nat
             /\ Room(s) \in Nat
  BY <1>0, <1>3, RoomTypes
<1>4. ASSUME batch # <<>>, s \in Range(running), phase # "retire"
      PROVE  Len(toks[s]) <= Room(s)
  BY <1>0, <1>2, <1>4 DEF TextHasRoom, Lags
<1>5. ASSUME NEW t \in Token, toks' = [toks EXCEPT ![s] = Append(toks[s], t)],
             s \in Range(running)
      PROVE  /\ Len(toks'[s]) = Len(toks[s]) + 1
             /\ \A u \in Range(running) : u # s => toks'[u] = toks[u]
  BY <1>0, <1>3, <1>5
<1>6. CASE ItemNotRunning
  <2>1. /\ phase \in {"stepped", "apply"} /\ batch # <<>>
        /\ batch' = Tail(batch) /\ phase' = "apply" /\ s \notin Range(running)
        /\ UNCHANGED <<todo, running, toks, drafts, table>>
    BY <1>1, <1>6 DEF ItemNotRunning, Applying, poolVars, seqVars, queueVars
  <2> QED BY <1>1, <2>1, RoomDrop
<1>7. CASE ApplyChunk
  <2>1. /\ phase \in {"stepped", "apply"} /\ batch # <<>>
        /\ batch' = Tail(batch) /\ phase' = "apply" /\ s \in Range(running)
        /\ UNCHANGED <<todo, running, toks, drafts, table>>
    BY <1>1, <1>7 DEF ApplyChunk, Applying, poolVars, queueVars
  <2>2. Len(toks[s]) <= Room(s) /\ Len(toks[s]) <= Room(s) + 1
    <3>1. Len(toks[s]) <= Room(s)
      BY <1>4, <2>1
    <3> QED BY <1>3, <2>1, <3>1
  <2> QED BY <1>1, <2>1, <2>2, RoomDrop
<1>8. ASSUME NEW t \in Token, ApplyToken(t) PROVE RoomInv'
  <2>1. /\ phase \in {"stepped", "apply"} /\ batch # <<>> /\ s \in Range(running)
        /\ toks' = [toks EXCEPT ![s] = Append(toks[s], t)]
        /\ UNCHANGED <<running, drafts, table>>
        /\ \/ phase' = "retire" /\ batch' = batch /\ todo' = todo
           \/ phase' = "apply" /\ batch' = Tail(batch) /\ todo' = Append(todo, s)
    BY <1>1, <1>8 DEF ApplyToken, Applying, AppendToken, queueVars
  <2>2. /\ Len(toks'[s]) = Len(toks[s]) + 1
        /\ \A u \in Range(running) : u # s => toks'[u] = toks[u]
    BY <1>5, <2>1
  <2>3. Len(toks'[s]) <= Room(s) + 1
    <3>1. Len(toks[s]) <= Room(s)
      BY <1>4, <2>1
    <3> QED BY <1>3, <2>1, <2>2, <3>1
  <2>4. CASE phase' = "retire" /\ batch' = batch /\ todo' = todo
    BY <1>1, <2>1, <2>2, <2>3, <2>4, RoomInHand
  <2>5. CASE phase' = "apply" /\ batch' = Tail(batch) /\ todo' = Append(todo, s)
    <3>1. todo' # todo
      <4>1. todo \in Seq(Seqs) /\ s \in Seqs
        BY <1>3, <2>1 DEF StepInv, ShapeInv, StepTypes
      <4> QED BY <2>5, <4>1
    <3> QED BY <1>1, <2>1, <2>2, <2>3, <2>5, <3>1, RoomDrop
  <2> QED BY <2>1, <2>4, <2>5
<1>9. CASE Retire
  <2>1. /\ phase = "retire" /\ phase' = "apply" /\ batch' = Tail(batch)
        /\ DeallocateBegin(s) /\ running' = Without(running, s)
        /\ UNCHANGED <<toks, drafts, todo, table>>
    BY <1>1, <1>9 DEF Retire, DeallocateBegin
  <2>2. batch # <<>> /\ s \in Range(running)
    BY <1>0, <1>1, <2>1 DEF StepStates, HeadInv
  <2>3. Range(running') = Range(running) \ {s}
    BY <1>0, <2>1, <2>2, LeavesRunning
  <2> QED BY <1>1, <2>1, <2>2, <2>3, RoomDrop
<1>10. CASE Accept
  <2>1. PICK t : t = Head(pending)
    OBVIOUS
  <2>2. /\ phase = "accept" /\ AcceptToken(s, t) /\ pending' = Tail(pending)
        /\ UNCHANGED <<drafts, running, todo>>
        /\ \/ phase' = "retire" /\ batch' = batch
           \/ phase' = "accept" /\ batch' = batch
           \/ phase' = "apply" /\ batch' = Tail(batch)
    BY <1>1, <1>10, <2>1 DEF Accept, seqVars, queueVars
  <2>3. table' = table /\ toks' = [toks EXCEPT ![s] = Append(toks[s], t)]
    BY <2>2 DEF AcceptToken
  <2>4. batch # <<>> /\ s \in Range(running) /\ pending # <<>>
    BY <1>0, <1>1, <2>2 DEF StepStates, HeadInv
  <2>5. t \in Token /\ Len(pending) \in Nat /\ Len(pending) >= 1 /\ Len(pending') = Len(pending) - 1
    <3>1. pending \in Seq(Token)
      BY <1>0
    <3> QED BY <2>1, <2>2, <2>4, <3>1
  <2>6. /\ Len(toks'[s]) = Len(toks[s]) + 1
        /\ \A u \in Range(running) : u # s => toks'[u] = toks[u]
    BY <1>5, <2>3, <2>4, <2>5
  <2>7. Len(toks[s]) + Len(pending) <= Room(s)
    BY <1>0, <1>1, <2>2 DEF AcceptedHaveRoom
  <2>8. /\ Len(toks'[s]) <= Room(s) + 1 /\ Len(toks'[s]) <= Room(s)
        /\ Len(toks'[s]) + Len(pending') <= Room(s)
    BY <1>3, <2>4, <2>5, <2>6, <2>7
  <2>9. CASE phase' \in {"retire", "accept"} /\ batch' = batch
    BY <1>1, <2>2, <2>3, <2>4, <2>6, <2>8, <2>9, RoomInHand
  <2>10. CASE phase' = "apply" /\ batch' = Tail(batch)
    BY <1>1, <2>2, <2>3, <2>4, <2>6, <2>8, <2>10, RoomDrop
  <2> QED BY <2>2, <2>9, <2>10
<1>11. ASSUME NEW t \in Token, VerifyOutcome(t) PROVE RoomInv'
  <2>1. /\ phase \in {"stepped", "apply"} /\ phase' = "accept" /\ batch # <<>>
        /\ s \in Range(running) /\ Head(batch).verify
        /\ drafts' = [drafts EXCEPT ![s] = <<>>]
        /\ \E k \in 0 .. Len(drafts[s]) : pending' = Append(SubSeq(drafts[s], 1, k), t)
        /\ UNCHANGED <<toks, running, todo, batch, table>>
    BY <1>1, <1>11 DEF VerifyOutcome, Applying, ClearDrafts, poolVars
  <2>2. PICK k \in 0 .. Len(drafts[s]) : pending' = Append(SubSeq(drafts[s], 1, k), t)
    BY <2>1
  <2>3. Len(pending') = k + 1 /\ Len(drafts[s]) \in Nat /\ k \in Nat
    <3>1. drafts[s] \in Seq(Token) /\ k \in Nat /\ k <= Len(drafts[s]) /\ Len(drafts[s]) \in Nat
      BY <1>0, <1>3, <2>1
    <3>2. SubSeq(drafts[s], 1, k) \in Seq(Token) /\ Len(SubSeq(drafts[s], 1, k)) = k
      BY <3>1, PrefixProperties
    <3> QED BY <2>2, <3>1, <3>2
  <2>4. Len(toks[s]) + Len(drafts[s]) + 1 <= Room(s)
    <3>1. 1 \in 1 .. Len(batch) /\ batch[1].seq = s /\ batch[1].verify /\ ~InHand(1)
      BY <1>2, <2>1 DEF InHand
    <3> QED BY <1>0, <2>1, <3>1 DEF DraftsHaveRoom
  <2>5. /\ Len(toks[s]) <= Room(s) + 1 /\ Len(toks[s]) <= Room(s)
        /\ Len(toks[s]) + Len(pending') <= Room(s)
    <3>1. \A a, d, r, j \in Nat : a + d + 1 <= r /\ j <= d =>
                                    a <= r + 1 /\ a <= r /\ a + (j + 1) <= r
      OBVIOUS
    <3>2. /\ Len(toks[s]) \in Nat /\ Room(s) \in Nat /\ Len(drafts[s]) \in Nat /\ k \in Nat
          /\ k <= Len(drafts[s])
      BY <1>3, <2>1, <2>3
    <3>3. /\ Len(toks[s]) <= Room(s) + 1 /\ Len(toks[s]) <= Room(s)
          /\ Len(toks[s]) + (k + 1) <= Room(s)
      BY ONLY <2>4, <3>1, <3>2, Zenon
    <3> QED BY <2>3, <3>3
  <2>6. \A u \in Range(running) : u # s => toks'[u] = toks[u] /\ drafts'[u] = drafts[u]
    BY <1>0, <2>1
  <2> QED BY <1>1, <2>1, <2>5, <2>6, RoomInHand
<1> QED BY <1>6, <1>7, <1>8, <1>9, <1>10, <1>11

SlotInv == StepInv /\ RoomInv

(* Every step of the scheduler keeps the room its sequences need.          *)
LEMMA SlotNextInv == SlotInv /\ [AnyNext]_vars => SlotInv'
<1> SUFFICES ASSUME StepInv, RoomInv, [AnyNext]_vars PROVE SlotInv'
  BY DEF SlotInv
<1>1. StepInv'
  BY StepNextInv
<1>2. RoomInv'
  <2>1. CASE UNCHANGED vars
    <3>1. UNCHANGED <<batch, phase, pending, running, toks, drafts, table, todo>>
      BY <2>1 DEF vars, poolVars, schedVars, seqVars, queueVars, stepVars
    <3> QED BY <3>1 DEF RoomInv, TextHasRoom, DraftsHaveRoom, AcceptedHaveRoom, Room, Lags,
                        InHand
  <2>2. CASE FrameStep
    BY <1>1, <2>2, RoomFrameStep
  <2>3. CASE \E t \in Token : ApplyToken(t)
    BY <1>1, <2>3, RoomApply
  <2>4. CASE \E t \in Token : VerifyOutcome(t)
    BY <1>1, <2>4, RoomApply
  <2>5. CASE StepNext
    BY <1>1, <2>2, <2>3, <2>5, RoomBuildStep, RoomApply DEF StepNext, FrameStep
  <2>6. CASE VerifyNext
    BY <1>1, <2>2, <2>4, <2>6, RoomBuildStep, RoomApply DEF VerifyNext, FrameStep
  <2> QED BY <2>1, <2>2, <2>5, <2>6 DEF AnyNext, FrameStep
<1> QED BY <1>1, <1>2 DEF SlotInv

(* Initially nobody runs.                                                  *)
LEMMA SlotInitInv == Init => SlotInv
<1> SUFFICES ASSUME Init PROVE SlotInv
  OBVIOUS
<1>1. running = <<>> /\ batch = <<>> /\ phase = "idle"
  BY DEF Init, SchedInit
<1>2. Range(running) = {} /\ Len(batch) = 0
  BY <1>1 DEF Range
<1>3. RoomInv
  BY <1>1, <1>2 DEF RoomInv, TextHasRoom, DraftsHaveRoom, AcceptedHaveRoom
<1> QED BY <1>3, StepInitInv DEF SlotInv

(* The layers proved so far are an invariant.                              *)
THEOREM SlotInvariant == Spec => []SlotInv
<1> QED BY SlotInitInv, SlotNextInv, NextIsAny, PTL DEF Spec

(* Between steps nobody lags, so everybody has room for its next token.    *)
LEMMA CanStepFollows == SlotInv => RunningCanStep
<1> SUFFICES ASSUME StepInv, RoomInv, phase = "idle", NEW s \in Range(running)
             PROVE  /\ Needed(s) <= Len(table[s])
                    /\ state[s] = "Prefill" => computed[s] < Len(toks[s])
  BY DEF SlotInv, RunningCanStep
<1>1. s \in Seqs /\ PoolInv /\ TextHasRoom /\ PrefillsGoOn
  BY PlaceFacts DEF StepInv, QueueInv, RoomInv, ShapeInv
<1>2. Len(toks[s]) \in Nat /\ Len(table[s]) \in Nat
  BY <1>1, RoomTypes
<1>3. Len(toks[s]) <= Len(table[s]) * BlockSize
  BY <1>1 DEF TextHasRoom, Lags, Room
<1>4. Needed(s) <= Len(table[s])
  BY <1>2, <1>3, BlocksNeeded DEF Needed
<1> QED BY <1>1, <1>4 DEF PrefillsGoOn

(* scheduler.rs step: between steps every running sequence has a slot for  *)
(* its next token and, while it prefills, something left to compute: no    *)
(* step is empty while a sequence runs, whatever was preempted or reserved *)
(* before.                                                                 *)
THEOREM CanStepCorrect == Spec => []RunningCanStep
<1> QED BY CanStepFollows, SlotInvariant, PTL

-----------------------------------------------------------------------------
(* Attention never reads foreign KV: what the slots of the block tables    *)
(* hold, on top of the shape of a step and the room its members have.      *)

(* Prefixes of texts.                                                      *)

(* Sequences that agree so far have the same prefix.                       *)
LEMMA SamePrefix ==
    ASSUME NEW A, NEW a \in Seq(A), NEW b \in Seq(A), NEW p \in Nat,
           p <= Len(a), p <= Len(b), \A i \in 1 .. p : a[i] = b[i]
    PROVE  SubSeq(a, 1, p) = SubSeq(b, 1, p)
<1>1. /\ SubSeq(a, 1, p) \in Seq(A) /\ Len(SubSeq(a, 1, p)) = p
      /\ \A i \in 1 .. p : SubSeq(a, 1, p)[i] = a[i]
  BY PrefixProperties
<1>2. /\ SubSeq(b, 1, p) \in Seq(A) /\ Len(SubSeq(b, 1, p)) = p
      /\ \A i \in 1 .. p : SubSeq(b, 1, p)[i] = b[i]
  BY PrefixProperties
<1>3. PICK x \in Seq(A) : x = SubSeq(a, 1, p)
  BY <1>1
<1>4. PICK y \in Seq(A) : y = SubSeq(b, 1, p)
  BY <1>2
<1>5. Len(x) = Len(y) /\ \A i \in 1 .. Len(x) : x[i] = y[i]
  BY <1>1, <1>2, <1>3, <1>4
<1>6. x = y
  BY <1>5, SeqEqual
<1> QED BY <1>3, <1>4, <1>6

(* What follows a text does not change its prefixes.                       *)
LEMMA ConcatPrefix ==
    ASSUME NEW A, NEW t \in Seq(A), NEW d \in Seq(A)
    PROVE  /\ t \o d \in Seq(A) /\ Len(t \o d) = Len(t) + Len(d)
           /\ Len(t) \in Nat /\ Len(d) \in Nat
           /\ \A p \in 0 .. Len(t) : SubSeq(t \o d, 1, p) = SubSeq(t, 1, p)
<1>1. /\ t \o d \in Seq(A) /\ Len(t \o d) = Len(t) + Len(d)
      /\ Len(t) \in Nat /\ Len(d) \in Nat
      /\ \A i \in 1 .. Len(t) : (t \o d)[i] = t[i]
  OBVIOUS
<1>2. PICK c \in Seq(A) : c = t \o d
  BY <1>1
<1>3. ASSUME NEW p \in 0 .. Len(t) PROVE SubSeq(c, 1, p) = SubSeq(t, 1, p)
  <2>1. /\ p \in Nat /\ p <= Len(t) /\ p <= Len(c) /\ \A i \in 1 .. p : c[i] = t[i]
    BY <1>1, <1>2
  <2> QED BY <2>1, SamePrefix
<1> QED BY <1>1, <1>2, <1>3

(* One more token leaves every prefix that ends before it as it was.      *)
LEMMA AppendPrefix ==
    ASSUME NEW A, NEW t \in Seq(A), NEW e \in A
    PROVE  /\ Append(t, e) \in Seq(A) /\ Len(Append(t, e)) = Len(t) + 1
           /\ Len(t) \in Nat /\ Append(t, e) # <<>>
           /\ \A p \in 0 .. Len(t) : SubSeq(Append(t, e), 1, p) = SubSeq(t, 1, p)
<1>1. /\ Append(t, e) \in Seq(A) /\ Len(Append(t, e)) = Len(t) + 1
      /\ Len(t) \in Nat /\ Append(t, e) # <<>>
      /\ \A i \in 1 .. Len(t) : Append(t, e)[i] = t[i]
  OBVIOUS
<1>2. PICK c \in Seq(A) : c = Append(t, e)
  BY <1>1
<1>3. ASSUME NEW p \in 0 .. Len(t) PROVE SubSeq(c, 1, p) = SubSeq(t, 1, p)
  <2>1. /\ p \in Nat /\ p <= Len(t) /\ p <= Len(c) /\ \A i \in 1 .. p : c[i] = t[i]
    BY <1>1, <1>2
  <2> QED BY <2>1, SamePrefix
<1> QED BY <1>1, <1>2, <1>3

(* A prefix of a prefix is a prefix.                                       *)
LEMMA PrefixPrefix ==
    ASSUME NEW A, NEW t \in Seq(A), NEW n \in Nat, n <= Len(t), NEW p \in 0 .. n
    PROVE  SubSeq(SubSeq(t, 1, n), 1, p) = SubSeq(t, 1, p)
<1>1. /\ SubSeq(t, 1, n) \in Seq(A) /\ Len(SubSeq(t, 1, n)) = n
      /\ \A i \in 1 .. n : SubSeq(t, 1, n)[i] = t[i]
  BY PrefixProperties
<1>2. PICK c \in Seq(A) : c = SubSeq(t, 1, n)
  BY <1>1
<1>3. /\ p \in Nat /\ p <= Len(t) /\ p <= Len(c) /\ \A i \in 1 .. p : c[i] = t[i]
  BY <1>1, <1>2
<1>4. SubSeq(c, 1, p) = SubSeq(t, 1, p)
  BY <1>3, SamePrefix
<1> QED BY <1>2, <1>4

(* Appending the tokens one by one.                                        *)
LEMMA HeadMoves ==
    ASSUME NEW A, NEW t \in Seq(A), NEW q \in Seq(A), q # <<>>
    PROVE  Append(t, Head(q)) \o Tail(q) = t \o q
<1>1. /\ Head(q) \in A /\ Head(q) = q[1] /\ Tail(q) \in Seq(A) /\ Len(q) \in Nat
      /\ Len(Tail(q)) = Len(q) - 1 /\ Len(q) >= 1
      /\ \A i \in 1 .. Len(Tail(q)) : Tail(q)[i] = q[i + 1]
  OBVIOUS
<1>2. PICK r \in Seq(A) : r = Tail(q)
  BY <1>1
<1>3. PICK e \in A : e = Head(q)
  BY <1>1
<1>13. Append(t, e) \in Seq(A)
  BY <1>3
<1>12. PICK c \in Seq(A) : c = Append(t, e)
  BY <1>13
<1>4. /\ Len(t) \in Nat /\ Len(c) = Len(t) + 1 /\ c[Len(t) + 1] = e
      /\ \A i \in 1 .. Len(t) : c[i] = t[i]
      /\ e = q[1]
  BY <1>1, <1>3, <1>12
<1>5. PICK x : x = c \o r
  OBVIOUS
<1>6. PICK y : y = t \o q
  OBVIOUS
<1>7. /\ x \in Seq(A) /\ Len(x) = Len(c) + Len(r)
      /\ \A i \in 1 .. Len(x) : x[i] = IF i <= Len(c) THEN c[i] ELSE r[i - Len(c)]
  BY <1>2, <1>12, <1>5
<1>8. /\ y \in Seq(A) /\ Len(y) = Len(t) + Len(q)
      /\ \A i \in 1 .. Len(y) : y[i] = IF i <= Len(t) THEN t[i] ELSE q[i - Len(t)]
  BY <1>6
<1>9. Len(x) = Len(y) /\ Len(x) \in Nat /\ Len(r) \in Nat
  BY <1>1, <1>2, <1>4, <1>7, <1>8
<1>10. ASSUME NEW i \in 1 .. Len(x) PROVE x[i] = y[i]
  <2>0. /\ i \in Nat /\ i >= 1 /\ i \in 1 .. Len(y)
        /\ x[i] = IF i <= Len(c) THEN c[i] ELSE r[i - Len(c)]
        /\ y[i] = IF i <= Len(t) THEN t[i] ELSE q[i - Len(t)]
    <3>1. i \in Nat /\ i >= 1 /\ i \in 1 .. Len(y)
      BY <1>9
    <3> QED BY <1>7, <1>8, <3>1
  <2>1. CASE i <= Len(t)
    <3>1. i \in 1 .. Len(t) /\ i <= Len(c)
      BY <1>4, <2>0, <2>1
    <3> QED BY <1>4, <2>0, <2>1, <3>1
  <2>2. CASE i = Len(t) + 1
    <3>1. i <= Len(c) /\ ~(i <= Len(t)) /\ i - Len(t) = 1
      BY <1>4, <2>0, <2>2
    <3> QED BY <1>4, <2>0, <2>2, <3>1
  <2>3. CASE i > Len(t) + 1
    <3>0. ~(i <= Len(c)) /\ ~(i <= Len(t)) /\ i - (Len(t) + 1) \in Nat
      BY <1>4, <2>0, <2>3
    <3>1. x[i] = r[i - (Len(t) + 1)] /\ y[i] = q[i - Len(t)]
      BY <1>4, <2>0, <3>0
    <3>2. PICK k \in Nat : k = i - (Len(t) + 1)
      BY <3>0
    <3>3. k \in 1 .. Len(r) /\ k + 1 = i - Len(t)
      BY <1>4, <1>7, <1>9, <2>3, <3>2
    <3>4. r[k] = q[k + 1]
      BY <1>1, <1>2, <3>3
    <3> QED BY <3>1, <3>2, <3>3, <3>4
  <2> QED BY <1>4, <1>9, <2>1, <2>2, <2>3
<1>11. x = y
  BY <1>7, <1>8, <1>9, <1>10, SeqEqual
<1> QED BY <1>2, <1>3, <1>12, <1>5, <1>6, <1>11

(* Texts that differ after the k drafts they share.                        *)
LEMMA DraftPrefix ==
    ASSUME NEW A, NEW t \in Seq(A), NEW d \in Seq(A), NEW k \in Nat, k <= Len(d),
           NEW e \in A, NEW p \in Nat, p <= Len(t) + k
    PROVE  SubSeq(t \o Append(SubSeq(d, 1, k), e), 1, p) = SubSeq(t \o d, 1, p)
<1>1. PICK c \in Seq(A) : c = SubSeq(d, 1, k)
  BY PrefixProperties
<1>2. Len(c) = k /\ \A i \in 1 .. k : c[i] = d[i]
  BY <1>1, PrefixProperties
<1>3. PICK q : q = Append(c, e)
  OBVIOUS
<1>4. q \in Seq(A) /\ Len(q) = k + 1 /\ \A i \in 1 .. k : q[i] = d[i]
  <2>1. q \in Seq(A) /\ Len(q) = Len(c) + 1 /\ \A i \in 1 .. Len(c) : q[i] = c[i]
    BY <1>1, <1>3
  <2> QED BY <1>2, <2>1
<1>5. PICK x : x = t \o q
  OBVIOUS
<1>6. PICK y : y = t \o d
  OBVIOUS
<1>7. /\ x \in Seq(A) /\ Len(x) = Len(t) + Len(q)
      /\ \A i \in 1 .. Len(x) : x[i] = IF i <= Len(t) THEN t[i] ELSE q[i - Len(t)]
  <2>1. q \in Seq(A)
    BY <1>4
  <2> QED BY <1>5, <2>1
<1>8. /\ y \in Seq(A) /\ Len(y) = Len(t) + Len(d)
      /\ \A i \in 1 .. Len(y) : y[i] = IF i <= Len(t) THEN t[i] ELSE d[i - Len(t)]
  BY <1>6
<1>9. p <= Len(x) /\ p <= Len(y) /\ Len(t) \in Nat /\ Len(x) \in Nat /\ Len(y) \in Nat
  <2>1. Len(t) \in Nat /\ Len(d) \in Nat /\ Len(x) = Len(t) + (k + 1) /\ Len(y) = Len(t) + Len(d)
    BY <1>4, <1>7, <1>8
  <2> QED BY <2>1
<1>10. ASSUME NEW i \in 1 .. p PROVE x[i] = y[i]
  <2>0. /\ i \in Nat /\ i >= 1
        /\ x[i] = IF i <= Len(t) THEN t[i] ELSE q[i - Len(t)]
        /\ y[i] = IF i <= Len(t) THEN t[i] ELSE d[i - Len(t)]
    <3>1. i \in Nat /\ i >= 1 /\ i \in 1 .. Len(x) /\ i \in 1 .. Len(y)
      BY <1>9
    <3> QED BY <1>7, <1>8, <3>1
  <2>1. CASE i <= Len(t)
    BY <2>0, <2>1
  <2>2. CASE i > Len(t)
    <3>4. i - Len(t) \in Nat
      <4>1. \A a, b \in Nat : a > b => a - b \in Nat
        OBVIOUS
      <4>2. i \in Nat /\ Len(t) \in Nat
        BY <1>9, <2>0
      <4> QED BY ONLY <2>2, <4>1, <4>2, Zenon
    <3>1. PICK j \in Nat : j = i - Len(t)
      BY <3>4
    <3>2. ~(i <= Len(t)) /\ j \in 1 .. k
      BY <1>9, <2>0, <2>2, <3>1
    <3>3. x[i] = q[j] /\ y[i] = d[j] /\ j \in 1 .. k
      BY <2>0, <3>1, <3>2
    <3> QED BY <1>4, <3>3
  <2> QED BY <1>9, <2>0, <2>1, <2>2
<1>11. SubSeq(x, 1, p) = SubSeq(y, 1, p)
  BY <1>7, <1>8, <1>9, <1>10, SamePrefix
<1> QED BY <1>1, <1>3, <1>5, <1>6, <1>11

-----------------------------------------------------------------------------
(* Blocks and slots.                                                       *)

\* The place in its table of the block that position p is in.
IndexOf(p) == ((p - 1) \div BlockSize) + 1

(* A position within m blocks has its block among them, and a slot of it.  *)
LEMMA SlotFacts ==
    ASSUME NEW p \in Nat, p >= 1
    PROVE  /\ IndexOf(p) \in Nat /\ IndexOf(p) >= 1
           /\ SlotOf(p) \in 1 .. BlockSize
           /\ p = (IndexOf(p) - 1) * BlockSize + SlotOf(p)
           /\ \A m \in Nat : p <= m * BlockSize => IndexOf(p) <= m
<1>1. BlockSize \in Nat /\ BlockSize > 0
  BY PoolAssumption
<1>2. PICK n \in Nat : n = p - 1
  OBVIOUS
<1>3. /\ n \div BlockSize \in Nat /\ n % BlockSize \in 0 .. BlockSize - 1
      /\ n = BlockSize * (n \div BlockSize) + (n % BlockSize)
  BY <1>1
<1>4. PICK k \in Nat : k = n \div BlockSize
  BY <1>3
<1>5. ASSUME NEW m \in Nat, p <= m * BlockSize PROVE k + 1 <= m
  <2>1. k * BlockSize <= n
    BY <1>4, FullBlocksBound
  <2>2. k * BlockSize < m * BlockSize
    <3>1. m * BlockSize \in Nat /\ k * BlockSize \in Nat
      BY <1>1
    <3> QED BY <1>2, <1>5, <2>1, <3>1
  <2>3. ASSUME m <= k PROVE m * BlockSize <= k * BlockSize
    BY <2>3, RoomGrows
  <2> QED BY <1>1, <2>2, <2>3
<1>6. n = k * BlockSize + (n % BlockSize)
  BY <1>1, <1>3, <1>4
<1>7. IndexOf(p) = k + 1 /\ SlotOf(p) = (n % BlockSize) + 1
  BY <1>2, <1>4 DEF IndexOf, SlotOf
<1>8. PICK r \in 0 .. BlockSize - 1 : r = n % BlockSize
  BY <1>3
<1>9. p = (IndexOf(p) - 1) * BlockSize + SlotOf(p)
  <2>1. (k + 1) - 1 = k
    OBVIOUS
  <2>2. p = k * BlockSize + (r + 1)
    <3>1. k * BlockSize \in Nat
      BY <1>1
    <3> QED BY <1>1, <1>2, <1>6, <1>8, <3>1
  <2> QED BY <1>7, <1>8, <2>1, <2>2
<1> QED BY <1>1, <1>5, <1>7, <1>8, <1>9

(* The other way round.                                                    *)
LEMMA SlotPosition ==
    ASSUME NEW i \in Nat, i >= 1, NEW slot \in 1 .. BlockSize,
           NEW p, p = (i - 1) * BlockSize + slot
    PROVE  /\ p \in Nat /\ p >= 1 /\ p <= i * BlockSize
           /\ IndexOf(p) = i /\ SlotOf(p) = slot
<1>1. BlockSize \in Nat /\ BlockSize > 0
  BY PoolAssumption
<1>2. PICK k \in Nat : k = i - 1
  OBVIOUS
<1>3. k * BlockSize \in Nat /\ i * BlockSize = k * BlockSize + BlockSize
  BY <1>1, <1>2
<1>4. p \in Nat /\ p >= 1 /\ p <= i * BlockSize /\ p = k * BlockSize + slot
  BY <1>1, <1>2, <1>3
<1>5. PICK n \in Nat : n = p - 1
  BY <1>4
<1>6. n \div BlockSize = k
  <2>1. n \div BlockSize \in Nat
    BY <1>1
  <2>2. k <= n \div BlockSize
    BY <1>1, <1>3, <1>4, <1>5, FullBlocksBound
  <2>3. ~(k + 1 <= n \div BlockSize)
    <3>1. (k + 1) * BlockSize = k * BlockSize + BlockSize
      BY <1>1
    <3>2. ~((k + 1) * BlockSize <= n)
      BY <1>1, <1>3, <1>4, <1>5, <3>1
    <3> QED BY <3>2, FullBlocksBound
  <2> QED BY <2>1, <2>2, <2>3
<1>7. n % BlockSize = slot - 1
  <2>1. n = BlockSize * (n \div BlockSize) + (n % BlockSize) /\ n % BlockSize \in 0 .. BlockSize - 1
    BY <1>1
  <2>2. BlockSize * k = k * BlockSize
    BY <1>1
  <2> QED BY <1>1, <1>3, <1>4, <1>5, <1>6, <2>1, <2>2
<1>8. IndexOf(p) = i
  BY <1>2, <1>5, <1>6 DEF IndexOf
<1>9. SlotOf(p) = slot
  BY <1>1, <1>5, <1>7 DEF SlotOf
<1> QED BY <1>4, <1>8, <1>9

-----------------------------------------------------------------------------
(* What the slots hold.                                                    *)

\* In memory mem, the first n slots of the blocks in tab hold the KV of text.
Holds(mem, tab, text, n) ==
    \A p \in 1 .. n : mem[tab[IndexOf(p)]][SlotOf(p)] = SubSeq(text, 1, p)

\* Once the model has run, an item's slots hold what it was to compute.
ItemHolds(it) ==
    LET s == it.seq
    IN  IF it.verify
        THEN Holds(kv, table[s], toks[s] \o drafts[s], Len(toks[s]) + Len(drafts[s]))
        ELSE Holds(kv, table[s], toks[s],
                   IF it.prefill THEN computed[s] + it.n ELSE Len(toks[s]))

RunningHold ==
    \A s \in Range(running) :
        toks[s] # <<>> /\ Holds(kv, table[s], toks[s], ValidTokens(s))

BatchHolds ==
    phase \in {"stepped", "apply", "accept", "retire"} =>
        \A i \in 1 .. Len(batch) :
            batch[i].seq \in Range(running) /\ ~InHand(i) => ItemHolds(batch[i])

\* The accepted drafts that are still to be appended, but not the bonus token.
AcceptedHold ==
    phase = "accept" =>
        LET s == Head(batch).seq
        IN  Holds(kv, table[s], toks[s] \o pending, Len(toks[s]) + Len(pending) - 1)

\* What an allocation under way has found in the prefix cache.
AllocHolds ==
    op.kind = "alloc" => Holds(kv, table[op.seq], toks[op.seq], op.cached)

KvInv ==
    /\ RunningHold
    /\ BatchHolds
    /\ AcceptedHold
    /\ AllocHolds
    /\ CachedKvMatchesHash

(* A shorter text, or another one that begins the same way.                *)
LEMMA HoldsText ==
    ASSUME NEW mem, NEW tab, NEW t, NEW n \in Int, Holds(mem, tab, t, n),
           NEW u, NEW m \in Int, m <= n,
           \A p \in 1 .. m : SubSeq(u, 1, p) = SubSeq(t, 1, p)
    PROVE  Holds(mem, tab, u, m)
<1> SUFFICES ASSUME NEW p \in 1 .. m
             PROVE  mem[tab[IndexOf(p)]][SlotOf(p)] = SubSeq(u, 1, p)
  BY DEF Holds
<1>1. p \in 1 .. n
  OBVIOUS
<1> QED BY <1>1 DEF Holds

(* A block more in the table.                                              *)
LEMMA HoldsKept ==
    ASSUME NEW mem, NEW tab \in Seq(Blocks), NEW t, NEW n \in Int,
           n <= Len(tab) * BlockSize, Holds(mem, tab, t, n),
           NEW tab2, tab2 = tab \/ \E b \in Blocks : tab2 = Append(tab, b)
    PROVE  Holds(mem, tab2, t, n)
<1> SUFFICES ASSUME NEW p \in 1 .. n
             PROVE  mem[tab2[IndexOf(p)]][SlotOf(p)] = SubSeq(t, 1, p)
  BY DEF Holds
<1>1. p \in Nat /\ p >= 1 /\ p <= Len(tab) * BlockSize /\ Len(tab) \in Nat
  <2>1. Len(tab) \in Nat /\ BlockSize \in Nat
    BY PoolAssumption
  <2>2. Len(tab) * BlockSize \in Nat
    BY <2>1
  <2> QED BY <2>1, <2>2
<1>2. IndexOf(p) \in 1 .. Len(tab)
  <2>1. IndexOf(p) \in Nat /\ IndexOf(p) >= 1 /\ IndexOf(p) <= Len(tab)
    BY <1>1, SlotFacts
  <2> QED BY <1>1, <2>1
<1>3. tab2[IndexOf(p)] = tab[IndexOf(p)]
  <2>1. PICK i \in 1 .. Len(tab) : i = IndexOf(p)
    BY <1>2
  <2>2. \A b \in Blocks : Append(tab, b)[i] = tab[i]
    BY <1>1, <2>1
  <2> QED BY <2>1, <2>2
<1> QED BY <1>3 DEF Holds

Text(s) == toks[s] \o drafts[s]

(* The types everything below rests on.                                    *)
LEMMA TextTypes ==
    ASSUME QueueInv, NEW s \in Seqs
    PROVE  /\ toks[s] \in Seq(Token) /\ drafts[s] \in Seq(Token)
           /\ table[s] \in Seq(Blocks)
           /\ Len(toks[s]) \in Nat /\ Len(drafts[s]) \in Nat /\ Len(table[s]) \in Nat
           /\ Room(s) \in Nat
           /\ Text(s) \in Seq(Token) /\ Len(Text(s)) = Len(toks[s]) + Len(drafts[s])
           /\ \A p \in 0 .. Len(toks[s]) : SubSeq(Text(s), 1, p) = SubSeq(toks[s], 1, p)
<1>1. /\ toks[s] \in Seq(Token) /\ drafts[s] \in Seq(Token)
      /\ table[s] \in Seq(Blocks) /\ PoolInv
  BY DEF QueueInv, HeadInv, PoolInv, PoolTypeOK, PoolDataOK
<1>2. /\ Text(s) \in Seq(Token) /\ Len(Text(s)) = Len(toks[s]) + Len(drafts[s])
      /\ Len(toks[s]) \in Nat /\ Len(drafts[s]) \in Nat
      /\ \A p \in 0 .. Len(toks[s]) : SubSeq(Text(s), 1, p) = SubSeq(toks[s], 1, p)
  BY <1>1, ConcatPrefix DEF Text
<1>3. Len(table[s]) \in Nat /\ Room(s) \in Nat
  BY <1>1, RoomTypes
<1> QED BY <1>1, <1>2, <1>3

(* A block with a hash holds the prefix that its hash stands for.          *)
LEMMA HashedSlot ==
    ASSUME QueueInv, NEW s \in Seqs, NEW p \in 1 .. Room(s),
           hash[BlockOf(s, p)] # NoHash
    PROVE  /\ BlockOf(s, p) \in Blocks
           /\ hash[BlockOf(s, p)] \in Seq(Token)
           /\ Len(hash[BlockOf(s, p)]) = IndexOf(p) * BlockSize
           /\ p <= Len(toks[s])
           /\ p = Len(hash[BlockOf(s, p)]) - BlockSize + SlotOf(p)
           /\ SubSeq(hash[BlockOf(s, p)], 1, p) = SubSeq(toks[s], 1, p)
           /\ SubSeq(Text(s), 1, p) = SubSeq(toks[s], 1, p)
<1>1. /\ toks[s] \in Seq(Token) /\ Len(toks[s]) \in Nat /\ table[s] \in Seq(Blocks)
      /\ Len(table[s]) \in Nat /\ Room(s) \in Nat
      /\ \A k \in 0 .. Len(toks[s]) : SubSeq(Text(s), 1, k) = SubSeq(toks[s], 1, k)
  BY TextTypes
<1>2. p \in Nat /\ p >= 1 /\ p <= Len(table[s]) * BlockSize
  BY <1>1 DEF Room
<1>3. PICK i : i = IndexOf(p)
  OBVIOUS
<1>4. /\ i \in Nat /\ i >= 1 /\ i <= Len(table[s]) /\ SlotOf(p) \in 1 .. BlockSize
      /\ p = (i - 1) * BlockSize + SlotOf(p)
  BY <1>1, <1>2, <1>3, SlotFacts
<1>5. BlockOf(s, p) = table[s][i] /\ i \in 1 .. Len(table[s])
  BY <1>1, <1>3, <1>4 DEF BlockOf, IndexOf
<1>6. table[s][i] \in Blocks
  BY <1>1, <1>5
<1>7. i <= FullBlocks(s) /\ hash[table[s][i]] = BlockHash(toks[s], i)
  <2>1. SharedPrefixIsOwn
    BY DEF QueueInv, PoolInv, PoolCore
  <2> QED BY <1>5, <2>1 DEF SharedPrefixIsOwn
<1>8. i * BlockSize <= Len(toks[s])
  BY <1>1, <1>4, <1>7, FullBlocksBound DEF FullBlocks
<1>9. i * BlockSize \in Nat /\ BlockSize \in Nat /\ i * BlockSize = (i - 1) * BlockSize + BlockSize
  BY <1>4, PoolAssumption
<1>10. p <= i * BlockSize /\ p = i * BlockSize - BlockSize + SlotOf(p)
  <2>1. (i - 1) * BlockSize \in Nat
    BY <1>4, PoolAssumption
  <2>2. PICK m \in Nat : m = (i - 1) * BlockSize
    BY <2>1
  <2> QED BY <1>4, <1>9, <2>2
<1>11. PICK n \in Nat : n = i * BlockSize
  BY <1>9
<1>12. /\ SubSeq(toks[s], 1, n) \in Seq(Token) /\ Len(SubSeq(toks[s], 1, n)) = n
  BY <1>1, <1>8, <1>11, PrefixProperties
<1>13. p \in 0 .. n
  BY <1>2, <1>10, <1>11
<1>14. SubSeq(SubSeq(toks[s], 1, n), 1, p) = SubSeq(toks[s], 1, p)
  BY <1>1, <1>8, <1>11, <1>13, PrefixPrefix
<1>15. hash[BlockOf(s, p)] = SubSeq(toks[s], 1, n)
  BY <1>5, <1>7, <1>11 DEF BlockHash
<1>16. p <= Len(toks[s]) /\ p \in 0 .. Len(toks[s])
  BY <1>1, <1>2, <1>8, <1>10, <1>9
<1>17. BlockOf(s, p) \in Blocks
  BY <1>5, <1>6
<1>18. Len(hash[BlockOf(s, p)]) = IndexOf(p) * BlockSize /\ hash[BlockOf(s, p)] \in Seq(Token)
  BY <1>3, <1>11, <1>12, <1>15
<1>19. p = Len(hash[BlockOf(s, p)]) - BlockSize + SlotOf(p)
  BY <1>3, <1>10, <1>18
<1>20. SubSeq(hash[BlockOf(s, p)], 1, p) = SubSeq(toks[s], 1, p)
  BY <1>14, <1>15
<1> QED BY <1>1, <1>16, <1>17, <1>18, <1>19, <1>20

(* Two sequences that have a slot in common have it for the same position  *)
(* of the same text.                                                       *)
LEMMA SameSlot ==
    ASSUME QueueInv, NEW s \in Seqs, NEW u \in Seqs,
           NEW p \in 1 .. Room(s), NEW q \in 1 .. Room(u),
           BlockOf(s, p) = BlockOf(u, q), SlotOf(p) = SlotOf(q)
    PROVE  p = q /\ SubSeq(Text(s), 1, p) = SubSeq(Text(u), 1, q)
<1>1. CASE hash[BlockOf(s, p)] # NoHash
  <2>1. /\ p = Len(hash[BlockOf(s, p)]) - BlockSize + SlotOf(p)
        /\ SubSeq(hash[BlockOf(s, p)], 1, p) = SubSeq(Text(s), 1, p)
    BY <1>1, HashedSlot
  <2>2. hash[BlockOf(u, q)] # NoHash
    BY <1>1
  <2>3. /\ q = Len(hash[BlockOf(u, q)]) - BlockSize + SlotOf(q)
        /\ SubSeq(hash[BlockOf(u, q)], 1, q) = SubSeq(Text(u), 1, q)
    BY <2>2, HashedSlot
  <2> QED BY <2>1, <2>3
<1>2. CASE hash[BlockOf(s, p)] = NoHash
  <2>1. /\ table[s] \in Seq(Blocks) /\ table[u] \in Seq(Blocks)
        /\ Len(table[s]) \in Nat /\ Room(s) \in Nat
        /\ Len(table[u]) \in Nat /\ Room(u) \in Nat
    BY TextTypes
  <2>2. /\ p \in Nat /\ p >= 1 /\ p <= Len(table[s]) * BlockSize
        /\ q \in Nat /\ q >= 1 /\ q <= Len(table[u]) * BlockSize
    BY <2>1 DEF Room
  <2>3. PICK i : i = IndexOf(p)
    OBVIOUS
  <2>4. PICK j : j = IndexOf(q)
    OBVIOUS
  <2>5. /\ i \in Nat /\ i >= 1 /\ i <= Len(table[s]) /\ p = (i - 1) * BlockSize + SlotOf(p)
    BY <2>1, <2>2, <2>3, SlotFacts
  <2>6. /\ j \in Nat /\ j >= 1 /\ j <= Len(table[u]) /\ q = (j - 1) * BlockSize + SlotOf(q)
    BY <2>1, <2>2, <2>4, SlotFacts
  <2>7. /\ i \in 1 .. Len(table[s]) /\ j \in 1 .. Len(table[u])
        /\ BlockOf(s, p) = table[s][i] /\ BlockOf(u, q) = table[u][j]
    BY <2>1, <2>3, <2>4, <2>5, <2>6 DEF BlockOf, IndexOf
  <2>8. PICK b : b = table[s][i]
    OBVIOUS
  <2>9. b \in Blocks /\ b \in Range(table[s]) /\ b \in Range(table[u]) /\ hash[b] = NoHash
    <3>1. DOMAIN table[s] = 1 .. Len(table[s]) /\ DOMAIN table[u] = 1 .. Len(table[u])
      BY <2>1
    <3>2. b = table[s][i] /\ b = table[u][j]
      BY <2>7, <2>8
    <3>3. b \in Range(table[s]) /\ b \in Range(table[u])
      BY <2>7, <3>1, <3>2 DEF Range
    <3>4. b \in Blocks
      BY <2>1, <2>7, <3>2
    <3> QED BY <1>2, <2>7, <3>2, <3>3, <3>4
  <2>10. s = u
    <3>1. UnhashedIsPrivate
      BY DEF QueueInv, PoolInv, PoolCore
    <3> QED BY <2>9, <3>1 DEF UnhashedIsPrivate, Holders
  <2>11. i = j
    <3>1. IsInjective(table[s])
      BY DEF QueueInv, PoolInv, PoolCore, SharedPrefixIsOwn
    <3>2. DOMAIN table[s] = 1 .. Len(table[s])
      BY <2>1
    <3> QED BY <2>7, <2>10, <3>1, <3>2 DEF IsInjective
  <2> QED BY <2>5, <2>6, <2>10, <2>11
<1> QED BY <1>1, <1>2

(* An item of a batch that is about to run computes positions for which    *)
(* its sequence has tokens and slots.                                      *)
LEMMA PositionsFit ==
    ASSUME SlotInv, RunningHold, phase \in {"build", "verify"},
           NEW k \in 1 .. Len(batch), NEW s, s = batch[k].seq,
           NEW p \in Positions(batch[k])
    PROVE  /\ s \in Seqs /\ s \in Range(running)
           /\ p \in 1 .. Room(s) /\ p <= Len(Text(s))
<1>0. /\ QueueInv /\ StepStates /\ ItemsOK /\ TextHasRoom /\ DraftsHaveRoom
      /\ batch \in Seq(ItemType) /\ computed \in [Seqs -> Nat] /\ Range(running) \subseteq Seqs
  BY PlaceFacts DEF SlotInv, StepInv, ShapeInv, RoomInv, StepTypes, QueueInv
<1>1. PICK it \in ItemType : it = batch[k]
  <2>1. batch[k] \in ItemType
    BY <1>0
  <2> QED BY <2>1
<1>2. s \in Range(running) /\ s \in Seqs /\ it.seq = s /\ ~InHand(k)
  BY <1>0, <1>1 DEF StepStates, BatchSeqs, InHand
<1>3. /\ it.prefill \in BOOLEAN /\ it.verify \in BOOLEAN /\ it.n \in Nat
  BY <1>1 DEF ItemType
<1>4. ItemOK(it)
  BY <1>0, <1>1, <1>2 DEF ItemsOK
<1>5. /\ toks[s] \in Seq(Token) /\ Len(toks[s]) \in Nat /\ Len(drafts[s]) \in Nat
      /\ Room(s) \in Nat /\ Len(Text(s)) = Len(toks[s]) + Len(drafts[s])
  BY <1>0, <1>2, TextTypes
<1>6. Len(toks[s]) <= Room(s)
  BY <1>0, <1>2 DEF TextHasRoom, Lags
<1>7. Len(toks[s]) >= 1
  <2>1. toks[s] # <<>>
    BY <1>2 DEF RunningHold
  <2> QED BY <1>5, <2>1
<1>8. CASE it.prefill
  <2>1. PICK c \in Nat : c = computed[s]
    BY <1>0, <1>2
  <2>2. p \in c + 1 .. c + it.n /\ c + it.n <= Len(toks[s])
    BY <1>1, <1>2, <1>4, <1>8, <2>1 DEF Positions, ItemOK
  <2>3. \A a, m, l, d, r \in Nat : \A x \in a + 1 .. a + m :
           a + m <= l /\ l <= r => x \in 1 .. r /\ x <= l + d
    OBVIOUS
  <2>4. p \in 1 .. Room(s) /\ p <= Len(toks[s]) + Len(drafts[s])
    BY ONLY <1>3, <1>5, <1>6, <2>1, <2>2, <2>3, Zenon
  <2> QED BY <1>2, <1>5, <2>4
<1>9. CASE ~it.prefill /\ ~it.verify
  <2>1. drafts[s] = <<>>
    BY <1>2, <1>4, <1>9 DEF ItemOK
  <2>2. Len(drafts[s]) = 0
    BY <2>1
  <2>3. p \in Len(toks[s]) .. Len(toks[s]) + Len(drafts[s])
    BY <1>1, <1>2, <1>9 DEF Positions
  <2> QED BY <1>2, <1>5, <1>6, <1>7, <2>2, <2>3
<1>10. CASE ~it.prefill /\ it.verify
  <2>1. p \in Len(toks[s]) .. Len(toks[s]) + Len(drafts[s])
    BY <1>1, <1>2, <1>10 DEF Positions
  <2>2. Len(toks[s]) + Len(drafts[s]) + 1 <= Room(s)
    BY <1>0, <1>1, <1>2, <1>10 DEF DraftsHaveRoom
  <2>3. \A l, d, r \in Nat : \A x \in l .. l + d :
           l >= 1 /\ l + d + 1 <= r => x \in 1 .. r /\ x <= l + d
    OBVIOUS
  <2>4. p \in 1 .. Room(s) /\ p <= Len(toks[s]) + Len(drafts[s])
    BY ONLY <1>5, <1>7, <2>1, <2>2, <2>3, Zenon
  <2> QED BY <1>2, <1>5, <2>4
<1> QED BY <1>3, <1>8, <1>9, <1>10

(* The forward pass writes each slot it reaches once, with the text of a   *)
(* member of the batch.                                                    *)
LEMMA ForwardFacts ==
    ASSUME NEW b \in Blocks, NEW slot \in 1 .. BlockSize, batch \in Seq(ItemType),
           kv' = Forward(Range(batch))
    PROVE  \/ /\ kv'[b][slot] = kv[b][slot]
              /\ \A k \in 1 .. Len(batch) : \A p \in Positions(batch[k]) :
                    ~(BlockOf(batch[k].seq, p) = b /\ SlotOf(p) = slot)
           \/ \E k \in 1 .. Len(batch) : \E p \in Positions(batch[k]) :
                 /\ BlockOf(batch[k].seq, p) = b /\ SlotOf(p) = slot
                 /\ kv'[b][slot] = SubSeq(Text(batch[k].seq), 1, p)
<1> DEFINE writes == UNION {{<<it.seq, p>> : p \in Positions(it)} : it \in Range(batch)}
           hits == {w \in writes : BlockOf(w[1], w[2]) = b /\ SlotOf(w[2]) = slot}
<1>1. kv'[b][slot] = IF hits = {} THEN kv[b][slot]
                     ELSE LET w == CHOOSE w \in hits : TRUE
                          IN  SubSeq(Text(w[1]), 1, w[2])
  BY DEF Forward, Text
<1>2. Range(batch) = {batch[k] : k \in 1 .. Len(batch)}
  BY DEF Range
<1>3. ASSUME NEW k \in 1 .. Len(batch), NEW p \in Positions(batch[k])
      PROVE  <<batch[k].seq, p>> \in writes
  BY <1>2
<1>4. ASSUME NEW w \in writes
      PROVE  \E k \in 1 .. Len(batch) : \E p \in Positions(batch[k]) : w = <<batch[k].seq, p>>
  BY <1>2
<1>5. ASSUME NEW w \in hits
      PROVE  w \in writes /\ BlockOf(w[1], w[2]) = b /\ SlotOf(w[2]) = slot
  OBVIOUS
<1>6. ASSUME NEW w \in writes, BlockOf(w[1], w[2]) = b, SlotOf(w[2]) = slot
      PROVE  w \in hits
  BY <1>6
<1> HIDE DEF writes, hits
<1>7. CASE hits = {}
  <2>1. kv'[b][slot] = kv[b][slot]
    BY <1>1, <1>7
  <2>2. ASSUME NEW k \in 1 .. Len(batch), NEW p \in Positions(batch[k]),
               BlockOf(batch[k].seq, p) = b, SlotOf(p) = slot
        PROVE  FALSE
    <3>1. PICK w : w = <<batch[k].seq, p>>
      OBVIOUS
    <3>2. w[1] = batch[k].seq /\ w[2] = p /\ w \in writes
      BY <1>3, <3>1
    <3> QED BY <1>6, <1>7, <2>2, <3>2
  <2> QED BY <2>1, <2>2
<1>8. CASE hits # {}
  <2>1. PICK w : w = CHOOSE x \in hits : TRUE
    OBVIOUS
  <2>2. w \in hits
    BY <1>8, <2>1
  <2>3. kv'[b][slot] = SubSeq(Text(w[1]), 1, w[2])
    BY <1>1, <1>8, <2>1
  <2>4. w \in writes /\ BlockOf(w[1], w[2]) = b /\ SlotOf(w[2]) = slot
    BY <1>5, <2>2
  <2>5. PICK k \in 1 .. Len(batch) : \E p \in Positions(batch[k]) : w = <<batch[k].seq, p>>
    BY <1>4, <2>4
  <2>7. PICK p \in Positions(batch[k]) : w = <<batch[k].seq, p>>
    BY <2>5
  <2>6. w[1] = batch[k].seq /\ w[2] = p
    BY <2>7
  <2> QED BY <2>3, <2>4, <2>7, <2>6
<1> QED BY <1>7, <1>8

(* Seen from a sequence: a slot of its table keeps what it held, or holds  *)
(* the sequence's own text; and it does if the sequence was to compute it. *)
LEMMA ForwardOwn ==
    ASSUME SlotInv, RunningHold, phase \in {"build", "verify"},
           kv' = Forward(Range(batch)), NEW u \in Seqs, NEW q \in 1 .. Room(u)
    PROVE  /\ \/ kv'[BlockOf(u, q)][SlotOf(q)] = kv[BlockOf(u, q)][SlotOf(q)]
              \/ kv'[BlockOf(u, q)][SlotOf(q)] = SubSeq(Text(u), 1, q)
           /\ \A k \in 1 .. Len(batch) :
                 batch[k].seq = u /\ q \in Positions(batch[k]) =>
                    kv'[BlockOf(u, q)][SlotOf(q)] = SubSeq(Text(u), 1, q)
<1>0. QueueInv /\ batch \in Seq(ItemType)
  BY DEF SlotInv, StepInv, ShapeInv, StepTypes
<1>1. PICK b : b = BlockOf(u, q)
  OBVIOUS
<1>2. PICK slot : slot = SlotOf(q)
  OBVIOUS
<1>3. b \in Blocks /\ slot \in 1 .. BlockSize
  <2>1. /\ table[u] \in Seq(Blocks) /\ Len(table[u]) \in Nat /\ Room(u) \in Nat
    BY <1>0, TextTypes
  <2>2. q \in Nat /\ q >= 1 /\ q <= Len(table[u]) * BlockSize
    BY <2>1 DEF Room
  <2>3. PICK i : i = IndexOf(q)
    OBVIOUS
  <2>4. i \in Nat /\ i >= 1 /\ i <= Len(table[u]) /\ slot \in 1 .. BlockSize
    BY <1>2, <2>1, <2>2, <2>3, SlotFacts
  <2>5. i \in 1 .. Len(table[u]) /\ b = table[u][i]
    BY <1>1, <2>1, <2>3, <2>4 DEF BlockOf, IndexOf
  <2> QED BY <2>1, <2>4, <2>5
<1>4. ASSUME NEW k \in 1 .. Len(batch), NEW p \in Positions(batch[k]),
             BlockOf(batch[k].seq, p) = b, SlotOf(p) = slot
      PROVE  SubSeq(Text(batch[k].seq), 1, p) = SubSeq(Text(u), 1, q)
  <2>1. PICK s : s = batch[k].seq
    OBVIOUS
  <2>2. s \in Seqs /\ p \in 1 .. Room(s)
    BY <2>1, PositionsFit
  <2>3. BlockOf(s, p) = BlockOf(u, q) /\ SlotOf(p) = SlotOf(q)
    BY <1>1, <1>2, <1>4, <2>1
  <2> QED BY <1>0, <2>1, <2>2, <2>3, SameSlot
<1>5. CASE /\ kv'[b][slot] = kv[b][slot]
           /\ \A k \in 1 .. Len(batch) : \A p \in Positions(batch[k]) :
                    ~(BlockOf(batch[k].seq, p) = b /\ SlotOf(p) = slot)
  BY <1>1, <1>2, <1>5
<1>6. CASE \E k \in 1 .. Len(batch) : \E p \in Positions(batch[k]) :
                 /\ BlockOf(batch[k].seq, p) = b /\ SlotOf(p) = slot
                 /\ kv'[b][slot] = SubSeq(Text(batch[k].seq), 1, p)
  BY <1>1, <1>2, <1>4, <1>6
<1> QED BY <1>0, <1>3, <1>5, <1>6, ForwardFacts

(* Running the batch computes what its items say, and no more than the KV  *)
(* that its blocks are to hold anyway, shared or not.                      *)
LEMMA KvForward ==
    ASSUME SlotInv, SlotInv', KvInv, FinishBuild \/ FinishVerifyBatch
    PROVE  KvInv'
<1>0. /\ phase \in {"build", "verify"} /\ op = Idle /\ kv' = Forward(Range(batch))
      /\ phase' \in {"idle", "stepped"}
      /\ UNCHANGED <<hash, kvComputed, hashToBlock, toks, table, op, state, computed,
                     drafts, running, batch>>
  BY DEF FinishBuild, FinishVerifyBatch, poolVars, seqVars, queueVars
<1>1. /\ QueueInv /\ StepStates /\ ItemsOK /\ TextHasRoom /\ DraftsHaveRoom
      /\ batch \in Seq(ItemType) /\ computed \in [Seqs -> Nat] /\ Range(running) \subseteq Seqs
      /\ PrefillsGoOn /\ RunningHold
  BY PlaceFacts DEF SlotInv, StepInv, ShapeInv, RoomInv, StepTypes, QueueInv, KvInv
<1>2. ASSUME NEW u \in Range(running)
      PROVE  /\ u \in Seqs /\ toks[u] \in Seq(Token) /\ toks[u] # <<>>
             /\ Len(toks[u]) \in Nat /\ Len(toks[u]) >= 1 /\ Room(u) \in Nat
             /\ Len(toks[u]) <= Room(u) /\ Len(drafts[u]) \in Nat
             /\ computed[u] \in Nat
             /\ ValidTokens(u) \in Nat /\ ValidTokens(u) <= Len(toks[u])
             /\ Holds(kv, table[u], toks[u], ValidTokens(u))
             /\ \A p \in 0 .. Len(toks[u]) : SubSeq(Text(u), 1, p) = SubSeq(toks[u], 1, p)
  <2>1. u \in Seqs /\ toks[u] # <<>> /\ Holds(kv, table[u], toks[u], ValidTokens(u))
    BY <1>1 DEF RunningHold
  <2>2. /\ toks[u] \in Seq(Token) /\ Len(toks[u]) \in Nat /\ Room(u) \in Nat
        /\ Len(drafts[u]) \in Nat
        /\ \A p \in 0 .. Len(toks[u]) : SubSeq(Text(u), 1, p) = SubSeq(toks[u], 1, p)
    BY <1>1, <2>1, TextTypes
  <2>3. Len(toks[u]) >= 1
    BY <2>1, <2>2
  <2>4. Len(toks[u]) <= Room(u)
    BY <1>0, <1>1 DEF TextHasRoom, Lags
  <2>5. computed[u] \in Nat
    BY <1>1, <2>1
  <2>6. state[u] = "Decode" \/ state[u] = "Prefill"
    BY <1>1, <2>1 DEF QueueInv, PlaceInv, OnePlace
  <2>7. ValidTokens(u) \in Nat /\ ValidTokens(u) <= Len(toks[u])
    <3>1. CASE state[u] = "Decode"
      BY <2>2, <2>3, <3>1 DEF ValidTokens
    <3>2. CASE state[u] = "Prefill"
      <4>1. computed[u] < Len(toks[u]) /\ ValidTokens(u) = computed[u]
        BY <1>1, <3>2 DEF PrefillsGoOn, ValidTokens
      <4> QED BY <2>2, <2>5, <4>1
    <3> QED BY <2>6, <3>1, <3>2
  <2> QED BY <2>1, <2>2, <2>3, <2>4, <2>5, <2>7
<1>3. ASSUME NEW u \in Range(running), NEW q \in 1 .. ValidTokens(u)
      PROVE  kv'[table[u][IndexOf(q)]][SlotOf(q)] = SubSeq(toks[u], 1, q)
  <2>1. q \in 1 .. Room(u) /\ u \in Seqs /\ q \in 0 .. Len(toks[u])
    BY <1>2
  <2>2. \/ kv'[BlockOf(u, q)][SlotOf(q)] = kv[BlockOf(u, q)][SlotOf(q)]
        \/ kv'[BlockOf(u, q)][SlotOf(q)] = SubSeq(Text(u), 1, q)
    BY <1>0, <1>1, <2>1, ForwardOwn
  <2>3. BlockOf(u, q) = table[u][IndexOf(q)]
    BY DEF BlockOf, IndexOf
  <2>4. SubSeq(Text(u), 1, q) = SubSeq(toks[u], 1, q)
    BY <1>2, <2>1
  <2>5. Holds(kv, table[u], toks[u], ValidTokens(u))
    BY <1>2
  <2> QED BY <2>2, <2>3, <2>4, <2>5 DEF Holds
<1>4. RunningHold'
  <2>1. \A u : ValidTokens(u)' = ValidTokens(u)
    BY <1>0 DEF ValidTokens
  <2> QED BY <1>0, <1>2, <1>3, <2>1 DEF RunningHold, Holds
<1>5. ASSUME NEW k \in 1 .. Len(batch), NEW it \in ItemType, it = batch[k],
             NEW u, u = it.seq, NEW q \in Nat, q >= 1,
             q <= ValidTokens(u) \/ q \in Positions(it)
      PROVE  kv'[table[u][IndexOf(q)]][SlotOf(q)] = SubSeq(Text(u), 1, q)
  <2>1. u \in Range(running)
    BY <1>0, <1>1, <1>5 DEF StepStates, BatchSeqs
  <2>2. CASE q <= ValidTokens(u)
    <3>1. q \in 1 .. ValidTokens(u) /\ q \in 0 .. Len(toks[u])
      BY <1>2, <1>5, <2>1, <2>2
    <3> QED BY <1>2, <1>3, <2>1, <3>1
  <2>3. CASE q \in Positions(it)
    <3>1. q \in 1 .. Room(u) /\ u \in Seqs
      BY <1>0, <1>1, <1>5, <2>3, PositionsFit
    <3>2. kv'[BlockOf(u, q)][SlotOf(q)] = SubSeq(Text(u), 1, q)
      BY <1>0, <1>1, <1>5, <2>3, <3>1, ForwardOwn
    <3> QED BY <3>2 DEF BlockOf, IndexOf
  <2> QED BY <1>5, <2>2, <2>3
<1>6. BatchHolds'
  <2> SUFFICES ASSUME NEW k \in 1 .. Len(batch), batch[k].seq \in Range(running)
               PROVE  ItemHolds(batch[k])'
    BY <1>0 DEF BatchHolds
  <2>1. PICK it \in ItemType : it = batch[k]
    <3>1. batch[k] \in ItemType
      BY <1>1
    <3> QED BY <3>1
  <2>2. PICK u : u = it.seq
    OBVIOUS
  <2>3. /\ it.prefill \in BOOLEAN /\ it.verify \in BOOLEAN /\ it.n \in Nat
    BY <2>1 DEF ItemType
  <2>4. ItemOK(it) /\ u \in Range(running)
    BY <1>0, <1>1, <2>1, <2>2 DEF ItemsOK, InHand
  <2>5. ASSUME NEW q \in Nat, q >= 1, q <= ValidTokens(u) \/ q \in Positions(it)
        PROVE  kv'[table[u][IndexOf(q)]][SlotOf(q)] = SubSeq(Text(u), 1, q)
    BY <1>5, <2>1, <2>2, <2>5
  <2>6. CASE it.prefill
    <3>1. /\ state[u] = "Prefill" /\ ~it.verify /\ computed[u] + it.n <= Len(toks[u])
      BY <2>2, <2>4, <2>6 DEF ItemOK
    <3>2. PICK c \in Nat : c = computed[u]
      BY <1>2, <2>4
    <3>3. ValidTokens(u) = c /\ Positions(it) = c + 1 .. c + it.n
      BY <2>2, <2>6, <3>1, <3>2 DEF ValidTokens, Positions
    <3>4. ASSUME NEW q \in 1 .. c + it.n
          PROVE  kv'[table[u][IndexOf(q)]][SlotOf(q)] = SubSeq(toks[u], 1, q)
      <4>1. q \in Nat /\ q >= 1 /\ (q <= c \/ q \in c + 1 .. c + it.n)
        BY <2>3, <3>2, <3>4
      <4>2. q \in 0 .. Len(toks[u])
        BY <1>2, <2>3, <2>4, <3>1, <3>2, <3>4
      <4>3. SubSeq(Text(u), 1, q) = SubSeq(toks[u], 1, q)
        BY <1>2, <2>4, <4>2
      <4>4. kv'[table[u][IndexOf(q)]][SlotOf(q)] = SubSeq(Text(u), 1, q)
        BY <2>5, <3>3, <4>1
      <4> QED BY <4>3, <4>4
    <3>5. Holds(kv', table[u], toks[u], computed[u] + it.n)
      BY <3>2, <3>4 DEF Holds
    <3>6. ItemHolds(batch[k])' = Holds(kv', table[u], toks[u], computed[u] + it.n)
      BY <1>0, <2>1, <2>2, <2>6, <3>1 DEF ItemHolds
    <3> QED BY <3>5, <3>6
  <2>7. CASE ~it.prefill
    <3>1. state[u] = "Decode" /\ (it.verify \/ drafts[u] = <<>>)
      BY <2>2, <2>4, <2>7 DEF ItemOK
    <3>2. /\ ValidTokens(u) = Len(toks[u]) - 1
          /\ Positions(it) = Len(toks[u]) .. Len(toks[u]) + Len(drafts[u])
      BY <2>2, <2>7, <3>1 DEF ValidTokens, Positions
    <3>3. Len(toks[u]) \in Nat /\ Len(drafts[u]) \in Nat /\ Len(toks[u]) >= 1
      BY <1>2, <2>4
    <3>4. ASSUME NEW q \in 1 .. Len(toks[u]) + Len(drafts[u])
          PROVE  kv'[table[u][IndexOf(q)]][SlotOf(q)] = SubSeq(Text(u), 1, q)
      <4>1. /\ q \in Nat /\ q >= 1
            /\ q <= Len(toks[u]) - 1 \/ q \in Len(toks[u]) .. Len(toks[u]) + Len(drafts[u])
        <5>1. \A l, d \in Nat : l >= 1 =>
                 \A x \in 1 .. l + d : x \in Nat /\ x >= 1 /\ (x <= l - 1 \/ x \in l .. l + d)
          OBVIOUS
        <5> QED BY ONLY <3>3, <3>4, <5>1, Zenon
      <4> QED BY <2>5, <3>2, <4>1
    <3>5. CASE it.verify
      <4>1. Holds(kv', table[u], toks[u] \o drafts[u], Len(toks[u]) + Len(drafts[u]))
        BY <3>4 DEF Holds, Text
      <4>2. ItemHolds(batch[k])' =
               Holds(kv', table[u], toks[u] \o drafts[u], Len(toks[u]) + Len(drafts[u]))
        BY <1>0, <2>1, <2>2, <3>5 DEF ItemHolds
      <4> QED BY <4>1, <4>2
    <3>6. CASE ~it.verify
      <4>1. Len(drafts[u]) = 0
        BY <3>1, <3>6
      <4>2. ASSUME NEW q \in 1 .. Len(toks[u])
            PROVE  kv'[table[u][IndexOf(q)]][SlotOf(q)] = SubSeq(toks[u], 1, q)
        <5>1. q \in 0 .. Len(toks[u]) /\ q \in 1 .. Len(toks[u]) + Len(drafts[u])
          BY <3>3, <4>1, <4>2
        <5>2. SubSeq(Text(u), 1, q) = SubSeq(toks[u], 1, q)
          BY <1>2, <2>4, <5>1
        <5> QED BY <3>4, <5>1, <5>2
      <4>3. Holds(kv', table[u], toks[u], Len(toks[u]))
        BY <4>2 DEF Holds
      <4>4. ItemHolds(batch[k])' = Holds(kv', table[u], toks[u], Len(toks[u]))
        BY <1>0, <2>1, <2>2, <2>7, <3>6 DEF ItemHolds
      <4> QED BY <4>3, <4>4
    <3> QED BY <3>5, <3>6
  <2> QED BY <2>6, <2>7
<1>7. AcceptedHold' /\ AllocHolds'
  BY <1>0 DEF AcceptedHold, AllocHolds, Idle
<1>8. CachedKvMatchesHash'
  <2> SUFFICES ASSUME NEW h \in DOMAIN hashToBlock, NEW b, b = hashToBlock[h],
                      kvComputed[b], NEW slot \in 1 .. BlockSize
               PROVE  kv'[b][slot] = SubSeq(h, 1, Len(h) - BlockSize + slot)
    BY <1>0 DEF CachedKvMatchesHash
  <2>1. b \in Blocks /\ hash[b] = h /\ h # NoHash
    BY <1>1 DEF QueueInv, PoolInv, PoolCore, PoolDataOK, MapPointsAtItsHash
  <2>2. kv[b][slot] = SubSeq(h, 1, Len(h) - BlockSize + slot)
    BY DEF KvInv, CachedKvMatchesHash
  <2>3. ASSUME NEW k \in 1 .. Len(batch), NEW p \in Positions(batch[k]),
               BlockOf(batch[k].seq, p) = b, SlotOf(p) = slot
        PROVE  SubSeq(Text(batch[k].seq), 1, p) = SubSeq(h, 1, Len(h) - BlockSize + slot)
    <3>1. PICK s : s = batch[k].seq
      OBVIOUS
    <3>2. s \in Seqs /\ p \in 1 .. Room(s)
      BY <1>0, <1>1, <3>1, PositionsFit
    <3>3. BlockOf(s, p) = b /\ hash[BlockOf(s, p)] # NoHash
      BY <2>1, <2>3, <3>1
    <3>4. /\ p = Len(hash[BlockOf(s, p)]) - BlockSize + SlotOf(p)
          /\ SubSeq(hash[BlockOf(s, p)], 1, p) = SubSeq(toks[s], 1, p)
          /\ SubSeq(Text(s), 1, p) = SubSeq(toks[s], 1, p)
      BY <1>1, <3>2, <3>3, HashedSlot
    <3>5. p = Len(h) - BlockSize + slot /\ SubSeq(h, 1, p) = SubSeq(Text(s), 1, p)
      BY <2>1, <2>3, <3>3, <3>4
    <3> QED BY <3>1, <3>5
  <2> QED BY <1>0, <1>1, <2>1, <2>2, <2>3, ForwardFacts
<1> QED BY <1>4, <1>6, <1>7, <1>8 DEF KvInv

(* What the scheduler relies on lies in the blocks of the sequence.        *)
LEMMA RunningFacts ==
    ASSUME SlotInv, RunningHold, NEW u \in Range(running)
    PROVE  /\ u \in Seqs /\ toks[u] \in Seq(Token) /\ toks[u] # <<>>
           /\ table[u] \in Seq(Blocks) /\ drafts[u] \in Seq(Token)
           /\ Len(toks[u]) \in Nat /\ Len(toks[u]) >= 1 /\ Len(table[u]) \in Nat
           /\ Room(u) \in Nat /\ Len(drafts[u]) \in Nat /\ computed[u] \in Nat
           /\ state[u] \in {"Prefill", "Decode"}
           /\ ValidTokens(u) \in Nat /\ ValidTokens(u) <= Room(u)
           /\ Holds(kv, table[u], toks[u], ValidTokens(u))
<1>1. /\ QueueInv /\ TextHasRoom /\ PrefillsGoOn
      /\ computed \in [Seqs -> Nat] /\ Range(running) \subseteq Seqs
  BY PlaceFacts DEF SlotInv, StepInv, ShapeInv, RoomInv, StepTypes, QueueInv
<1>2. u \in Seqs /\ toks[u] # <<>> /\ Holds(kv, table[u], toks[u], ValidTokens(u))
  BY <1>1 DEF RunningHold
<1>3. /\ toks[u] \in Seq(Token) /\ Len(toks[u]) \in Nat /\ Room(u) \in Nat
      /\ Len(drafts[u]) \in Nat /\ Len(table[u]) \in Nat
      /\ table[u] \in Seq(Blocks) /\ drafts[u] \in Seq(Token)
  BY <1>1, <1>2, TextTypes
<1>4. Len(toks[u]) >= 1
  BY <1>2, <1>3
<1>5. Len(toks[u]) <= Room(u) + 1
  BY <1>1 DEF TextHasRoom
<1>6. computed[u] \in Nat
  BY <1>1, <1>2
<1>7. state[u] \in {"Prefill", "Decode"}
  BY <1>1, <1>2 DEF QueueInv, PlaceInv, OnePlace
<1>8. ValidTokens(u) \in Nat /\ ValidTokens(u) <= Room(u)
  <2>1. CASE state[u] = "Decode"
    BY <1>3, <1>4, <1>5, <2>1 DEF ValidTokens
  <2>2. CASE state[u] = "Prefill"
    <3>1. computed[u] < Len(toks[u]) /\ ValidTokens(u) = computed[u]
      BY <1>1, <2>2 DEF PrefillsGoOn, ValidTokens
    <3> QED BY <1>3, <1>5, <1>6, <3>1
  <2> QED BY <1>7, <2>1, <2>2
<1> QED BY <1>2, <1>3, <1>4, <1>6, <1>7, <1>8

(* A sequence whose item is still to be applied has slots for its text.    *)
LEMMA ItemRoom ==
    ASSUME SlotInv, NEW i \in 1 .. Len(batch), NEW it \in ItemType, it = batch[i],
           NEW s, s = it.seq, s \in Range(running), ~InHand(i)
    PROVE  /\ Len(toks[s]) <= Room(s) /\ ItemOK(it)
           /\ it.verify => Len(toks[s]) + Len(drafts[s]) + 1 <= Room(s)
           /\ it.prefill \in BOOLEAN /\ it.verify \in BOOLEAN /\ it.n \in Nat
<1>1. /\ TextHasRoom /\ DraftsHaveRoom /\ ItemsOK /\ StepDistinct /\ StepStates
      /\ batch \in Seq(ItemType)
  BY DEF SlotInv, StepInv, ShapeInv, RoomInv, StepTypes
<1>2. ~Lags(s)
  <2>1. s \notin Range(todo)
    BY <1>1 DEF StepDistinct, BatchSeqs
  <2>2. ~(phase = "retire" /\ s = Head(batch).seq)
    <3> SUFFICES ASSUME phase = "retire", s = Head(batch).seq PROVE FALSE
      OBVIOUS
    <3>1. Head(batch) = batch[1] /\ 1 \in 1 .. Len(batch)
      BY <1>1
    <3>2. i = 1
      BY <1>1, <3>1 DEF StepDistinct
    <3> QED BY <3>2 DEF InHand
  <2> QED BY <2>1, <2>2 DEF Lags
<1>3. Len(toks[s]) <= Room(s)
  BY <1>1, <1>2 DEF TextHasRoom
<1>4. ItemOK(it)
  BY <1>1 DEF ItemsOK
<1>5. it.verify => Len(toks[s]) + Len(drafts[s]) + 1 <= Room(s)
  BY <1>1 DEF DraftsHaveRoom
<1>6. it.prefill \in BOOLEAN /\ it.verify \in BOOLEAN /\ it.n \in Nat
  BY DEF ItemType
<1> QED BY <1>3, <1>4, <1>5, <1>6

(* A recycled block leaves the prefix cache.                               *)
LEMMA PopKeepsCached ==
    ASSUME PoolInv, CachedKvMatchesHash, NEW s, NEW h, PopFree(s, h), UNCHANGED kv
    PROVE  CachedKvMatchesHash'
<1>1. PICK b : b = Head(free)
  OBVIOUS
<1>2. PICK kept : kept = IF Mapped(hash[b]) /\ hashToBlock[hash[b]] = b
                         THEN Unmap(hash[b]) ELSE hashToBlock
  OBVIOUS
<1>3. /\ kvComputed' = [kvComputed EXCEPT ![b] = FALSE]
      /\ hashToBlock' = IF h = NoHash THEN kept
                        ELSE [g \in DOMAIN kept \cup {h} |-> IF g = h THEN b ELSE kept[g]]
  BY <1>1, <1>2 DEF PopFree
<1>4. /\ kvComputed \in [Blocks -> BOOLEAN] /\ hashToBlock \in [DOMAIN hashToBlock -> Blocks]
      /\ MapPointsAtItsHash
  BY DEF PoolInv, PoolTypeOK, PoolDataOK, PoolCore
<1>5. \A g \in DOMAIN kept : g \in DOMAIN hashToBlock /\ kept[g] = hashToBlock[g]
  BY <1>2 DEF Unmap
<1>6. ASSUME NEW g \in DOMAIN hashToBlock', kvComputed'[hashToBlock'[g]], b \in Blocks
      PROVE  g \in DOMAIN hashToBlock /\ hashToBlock'[g] = hashToBlock[g]
  <2>1. hashToBlock'[g] # b
    BY <1>3, <1>4, <1>6
  <2>2. CASE h = NoHash
    BY <1>3, <1>5, <2>2
  <2>3. CASE h # NoHash
    <3>1. hashToBlock' = [x \in DOMAIN kept \cup {h} |-> IF x = h THEN b ELSE kept[x]]
      BY <1>3, <2>3
    <3>2. g \in DOMAIN kept \cup {h} /\ g # h
      BY <2>1, <3>1
    <3>3. g \in DOMAIN kept /\ hashToBlock'[g] = kept[g]
      BY <3>1, <3>2
    <3> QED BY <1>5, <3>3
  <2> QED BY <2>2, <2>3
<1>7. b \in Blocks
  <2>1. free \in Seq(Blocks) /\ free # <<>>
    BY DEF PoolInv, PoolTypeOK, PoolDataOK, PopFree
  <2> QED BY <1>1, <2>1
<1> SUFFICES ASSUME NEW g \in DOMAIN hashToBlock', NEW c, c = hashToBlock'[g],
                    kvComputed'[c], NEW slot \in 1 .. BlockSize
             PROVE  kv[c][slot] = SubSeq(g, 1, Len(g) - BlockSize + slot)
  BY DEF CachedKvMatchesHash
<1>8. g \in DOMAIN hashToBlock /\ hashToBlock[g] = c
  BY <1>6, <1>7
<1>9. c \in Blocks
  BY <1>4, <1>8
<1>10. kvComputed[c]
  BY <1>3, <1>4, <1>9
<1> QED BY <1>8, <1>10 DEF CachedKvMatchesHash

(* An allocation that finds its next block in the cache has found its KV.  *)
LEMMA AllocExtends ==
    ASSUME SlotInv, KvInv, AcquireShared \/ AcquireFresh, UNCHANGED kv
    PROVE  AllocHolds'
<1>0. /\ QueueInv /\ PoolInv /\ AllocInv /\ op.kind = "alloc" /\ op \in Op
      /\ AllocHolds /\ CachedKvMatchesHash
  BY DEF SlotInv, StepInv, QueueInv, PoolInv, PoolTypeOK, AcquireShared, AcquireFresh, KvInv
<1>1. op.seq \in Seqs /\ op.cached \in Nat /\ op = [kind |-> "alloc", seq |-> op.seq,
                                       cached |-> op.cached, leading |-> op.leading]
  BY <1>0 DEF Op, Idle
<1>2. PICK s \in Seqs : s = op.seq
  BY <1>1
<1>3. PICK c \in Nat : c = op.cached
  BY <1>1
<1>4. PICK l : l = op.leading
  OBVIOUS
<1>5. AllocCached(s, c, l) /\ Holds(kv, table[s], toks[s], c)
  BY <1>0, <1>2, <1>3, <1>4 DEF AllocInv, AllocHolds
<1>6. PICK k \in 0 .. Len(table[s]) :
         c = k * BlockSize /\ k <= FullBlocks(s) /\ (l => k = Len(table[s]))
  BY <1>5 DEF AllocCached
<1>7. /\ table[s] \in Seq(Blocks) /\ Len(table[s]) \in Nat /\ k \in Nat
      /\ toks[s] \in Seq(Token) /\ Len(toks[s]) \in Nat
      /\ table \in [Seqs -> Seq(Blocks)] /\ free \in Seq(Blocks)
      /\ hashToBlock \in [DOMAIN hashToBlock -> Blocks]
  <2>1. /\ table \in [Seqs -> Seq(Blocks)] /\ free \in Seq(Blocks)
        /\ hashToBlock \in [DOMAIN hashToBlock -> Blocks] /\ toks \in [Seqs -> Seq(Token)]
    BY <1>0 DEF PoolInv, PoolTypeOK, PoolDataOK
  <2>2. table[s] \in Seq(Blocks) /\ toks[s] \in Seq(Token)
    BY <2>1
  <2> QED BY <1>6, <2>1, <2>2
<1>8. c <= Len(table[s]) * BlockSize
  <2>1. k <= Len(table[s])
    BY <1>6, <1>7
  <2> QED BY <1>6, <1>7, <2>1, RoomGrows
<1>9. PICK i : i = Len(table[s]) + 1
  OBVIOUS
<1>10. PICK h : h = BlockHash(toks[s], i)
  OBVIOUS
<1>11. CASE AcquireFresh
  <2>1. /\ free # <<>> /\ table' = [table EXCEPT ![s] = Append(table[s], Head(free))]
        /\ op'.seq = s /\ op'.cached = c /\ toks' = toks
    BY <1>1, <1>2, <1>3, <1>11 DEF AcquireFresh, PopFree
  <2>2. table'[s] = Append(table[s], Head(free)) /\ Head(free) \in Blocks
    BY <1>7, <2>1
  <2>3. Holds(kv, table'[s], toks[s], c)
    <3>1. \E b \in Blocks : table'[s] = Append(table[s], b)
      BY <2>2
    <3>2. c \in Int
      BY <1>3
    <3> QED BY <1>5, <1>7, <1>8, <3>1, <3>2, HoldsKept
  <2> QED BY <2>1, <2>3 DEF AllocHolds
<1>12. CASE AcquireShared
  <2>1. PICK b : b = hashToBlock[h]
    OBVIOUS
  <2>2. /\ i <= FullBlocks(s) /\ Mapped(h) /\ toks' = toks
        /\ table' = [table EXCEPT ![s] = Append(table[s], b)]
        /\ op'.seq = s
        /\ op'.cached = IF l /\ kvComputed[b] THEN c + BlockSize ELSE c
    <3>1. /\ i <= FullBlocks(s) /\ Mapped(h) /\ toks' = toks
          /\ table' = [table EXCEPT ![s] = Append(table[s], b)]
      BY <1>2, <1>9, <1>10, <1>12, <2>1 DEF AcquireShared, Share
    <3>2. op' = [op EXCEPT !.leading = l /\ kvComputed[b],
                           !.cached = IF l /\ kvComputed[b] THEN op.cached + BlockSize
                                      ELSE op.cached]
      BY <1>2, <1>4, <1>9, <1>10, <1>12, <2>1 DEF AcquireShared
    <3>3. op'.seq = s /\ op'.cached = IF l /\ kvComputed[b] THEN c + BlockSize ELSE c
      BY <1>1, <1>2, <1>3, <3>2
    <3> QED BY <3>1, <3>3
  <2>3. b \in Blocks
    BY <1>7, <2>1, <2>2 DEF Mapped
  <2>4. table'[s] = Append(table[s], b)
    BY <1>7, <2>2
  <2>5. Holds(kv, table'[s], toks[s], c)
    <3>1. \E e \in Blocks : table'[s] = Append(table[s], e)
      BY <2>3, <2>4
    <3>2. c \in Int
      BY <1>3
    <3> QED BY <1>5, <1>7, <1>8, <3>1, <3>2, HoldsKept
  <2>6. CASE ~(l /\ kvComputed[b])
    BY <2>2, <2>5, <2>6 DEF AllocHolds
  <2>7. CASE l /\ kvComputed[b]
    <3>1. k = Len(table[s]) /\ i = k + 1 /\ c = k * BlockSize
      BY <1>6, <1>9, <2>7
    <3>2. i \in Nat /\ i >= 1 /\ i * BlockSize <= Len(toks[s])
      <4>1. i \in Nat /\ i >= 1
        BY <1>7, <3>1
      <4>2. i <= Len(toks[s]) \div BlockSize
        BY <2>2 DEF FullBlocks
      <4> QED BY <1>7, <4>1, <4>2, FullBlocksBound
    <3>3. i * BlockSize \in Nat /\ i * BlockSize = c + BlockSize /\ BlockSize \in Nat
      <4>1. BlockSize \in Nat
        BY PoolAssumption
      <4>2. \A x, y \in Nat : (x + 1) * y \in Nat /\ (x + 1) * y = x * y + y
        OBVIOUS
      <4> QED BY <1>7, <3>1, <4>1, <4>2
    <3>4. PICK n \in Nat : n = i * BlockSize
      BY <3>3
    <3>5. h = SubSeq(toks[s], 1, n) /\ Len(h) = n
      <4>1. h = SubSeq(toks[s], 1, n)
        BY <1>10, <3>4 DEF BlockHash
      <4>2. Len(SubSeq(toks[s], 1, n)) = n
        BY <1>7, <3>2, <3>4, PrefixProperties
      <4> QED BY <4>1, <4>2
    <3>6. ASSUME NEW p \in 1 .. n
          PROVE  kv[table'[s][IndexOf(p)]][SlotOf(p)] = SubSeq(toks[s], 1, p)
      <4>1. CASE p <= c
        <5>1. p \in 1 .. c
          BY <3>4, <4>1
        <5> QED BY <2>5, <5>1 DEF Holds
      <4>2. CASE p > c
        <5>1. p \in Nat /\ p >= 1 /\ p \in 0 .. n
          BY <3>4
        <5>2. IndexOf(p) = i
          <6>1. IndexOf(p) \in Nat /\ IndexOf(p) <= i
            BY <3>2, <3>4, <5>1, SlotFacts
          <6>2. ~(IndexOf(p) <= k)
            <7>1. /\ p = (IndexOf(p) - 1) * BlockSize + SlotOf(p)
                  /\ SlotOf(p) \in 1 .. BlockSize
                  /\ IndexOf(p) \in Nat /\ IndexOf(p) >= 1
              BY <5>1, SlotFacts
            <7>2. PICK j \in Nat : j = IndexOf(p)
              BY <7>1
            <7>3. (j - 1) * BlockSize + BlockSize = j * BlockSize /\ (j - 1) * BlockSize \in Nat
                  /\ j * BlockSize \in Nat
              <8>1. PICK j0 \in Nat : j = j0 + 1
                <9>1. \A x \in Nat : x >= 1 => x - 1 \in Nat /\ x = (x - 1) + 1
                  OBVIOUS
                <9> QED BY <7>1, <7>2, <9>1
              <8>2. \A x, y \in Nat : /\ (x + 1) * y \in Nat /\ (x + 1) * y = x * y + y
                                      /\ x * y \in Nat /\ (x + 1) - 1 = x
                OBVIOUS
              <8> QED BY <3>3, <8>1, <8>2
            <7>4. p <= j * BlockSize
              BY <3>3, <7>1, <7>2, <7>3
            <7>5. ASSUME j <= k PROVE j * BlockSize <= k * BlockSize
              BY <1>7, <7>5, RoomGrows
            <7> QED BY <3>1, <4>2, <5>1, <7>2, <7>3, <7>4, <7>5
          <6> QED BY <1>7, <3>1, <6>1, <6>2
        <5>3. p = c + SlotOf(p) /\ SlotOf(p) \in 1 .. BlockSize
          <6>1. p = (IndexOf(p) - 1) * BlockSize + SlotOf(p) /\ SlotOf(p) \in 1 .. BlockSize
            BY <5>1, SlotFacts
          <6>2. i - 1 = k
            BY <1>7, <3>1
          <6> QED BY <3>1, <5>2, <6>1, <6>2
        <5>4. table'[s][i] = b
          BY <1>7, <1>9, <2>3, <2>4
        <5>5. kv[b][SlotOf(p)] = SubSeq(h, 1, Len(h) - BlockSize + SlotOf(p))
          <6>1. h \in DOMAIN hashToBlock /\ hashToBlock[h] = b /\ kvComputed[b]
            BY <2>1, <2>2, <2>7 DEF Mapped
          <6> QED BY <1>0, <5>3, <6>1 DEF CachedKvMatchesHash
        <5>6. Len(h) - BlockSize + SlotOf(p) = p
          BY <3>3, <3>4, <3>5, <5>3
        <5>7. SubSeq(h, 1, p) = SubSeq(toks[s], 1, p)
          BY <1>7, <3>2, <3>4, <3>5, <5>1, PrefixPrefix
        <5> QED BY <5>2, <5>4, <5>5, <5>6, <5>7
      <4> QED BY <3>4, <4>1, <4>2
    <3>7. Holds(kv, table'[s], toks[s], n)
      BY <3>6 DEF Holds
    <3>8. op'.cached = n
      BY <2>2, <2>7, <3>3, <3>4
    <3> QED BY <2>2, <3>7, <3>8 DEF AllocHolds
  <2> QED BY <2>6, <2>7
<1> QED BY <1>11, <1>12

(* What those steps do to the prefix cache and to an allocation under way. *)
LEMMA FramePool ==
    ASSUME StepInv, FrameStep
    PROVE  /\ \/ UNCHANGED <<kvComputed, hashToBlock>>
              \/ \E s, h : PopFree(s, h)
           /\ op'.kind = "alloc" => op'.cached = 0 \/ AcquireShared \/ AcquireFresh
<1>0. op \in Op
  BY DEF StepInv, QueueInv, PoolInv, PoolTypeOK
<1>1. ASSUME NEW s, DeallocateBegin(s)
      PROVE  UNCHANGED <<kvComputed, hashToBlock>> /\ op'.kind # "alloc"
  BY <1>1 DEF DeallocateBegin, Idle
<1>2. CASE \E s \in Seqs, p \in Prompts, m \in Nat : Enqueue(s, p, m)
  BY <1>2 DEF Enqueue, Arrive, Idle
<1>3. CASE \E s \in Seqs, d \in Drafts : SetDrafts(s, d)
  BY <1>3 DEF SetDrafts, poolVars, Idle
<1>4. CASE \E s \in Seqs : Abort(s)
  <2>1. ASSUME NEW s, AbortWaiting(s)
        PROVE  UNCHANGED <<kvComputed, hashToBlock>> /\ op'.kind # "alloc"
    BY <2>1 DEF AbortWaiting, poolVars, Idle
  <2>2. ASSUME NEW s, AbortRunning(s)
        PROVE  UNCHANGED <<kvComputed, hashToBlock>> /\ op'.kind # "alloc"
    BY <1>1, <2>2 DEF AbortRunning
  <2> QED BY <1>4, <2>1, <2>2 DEF Abort
<1>5. CASE DrainFinished \/ AdmitEmpty \/ ExtendDone
  <2>1. op = Idle /\ UNCHANGED <<kvComputed, hashToBlock, op>>
    BY <1>5 DEF DrainFinished, AdmitEmpty, ExtendDone, Extending, poolVars
  <2> QED BY <2>1 DEF Idle
<1>6. CASE PoolStep
  <2>1. CASE AcquireShared
    BY <2>1 DEF AcquireShared, Share
  <2>2. CASE AcquireFresh
    BY <2>2 DEF AcquireFresh
  <2>3. CASE ExtendNext
    <3>1. \E s, h : PopFree(s, h)
      BY <2>3 DEF ExtendNext
    <3>2. op'.kind # "alloc"
      BY <2>3 DEF ExtendNext, Idle
    <3> QED BY <3>1, <3>2
  <2>4. CASE ReleaseLast
    <3>1. UNCHANGED <<kvComputed, hashToBlock>> /\ op.kind = "release" /\ op' \in {Idle, op}
      BY <2>4 DEF ReleaseLast
    <3>2. op'.kind # "alloc"
      BY <3>1 DEF Idle
    <3> QED BY <3>1, <3>2
  <2> QED BY <1>6, <2>1, <2>2, <2>3, <2>4 DEF PoolStep
<1>7. CASE AdmitBegin
  <2>1. PICK s : AllocateBegin(s)
    BY <1>7 DEF AdmitBegin
  <2> QED BY <2>1 DEF AllocateBegin
<1>8. CASE ExtendGrow \/ ReserveGrow
  <2>1. PICK s, goal : ExtendFor(s, goal)
    BY <1>8 DEF ExtendGrow, ReserveGrow
  <2>2. \E h : PopFree(s, h)
    BY <2>1 DEF ExtendFor
  <2>3. op'.kind # "alloc"
    BY <2>1 DEF ExtendFor, Idle
  <2> QED BY <2>2, <2>3
<1>9. CASE ExtendOverflow \/ PreemptYoungest \/ ReserveRefused
  <2>1. \E s : DeallocateBegin(s)
    BY <1>9 DEF ExtendOverflow, PreemptYoungest, Preempt, ReserveRefused
  <2> QED BY <1>1, <2>1
<1> QED BY <1>2, <1>3, <1>4, <1>5, <1>6, <1>7, <1>8, <1>9 DEF FrameStep

(* Steps that leave the batch alone leave every slot in use alone.         *)
LEMMA KvFrame ==
    ASSUME SlotInv, SlotInv', KvInv, FrameStep
    PROVE  KvInv'
<1>1. /\ UNCHANGED <<batch, phase, pending, kv>>
      /\ Range(running') \subseteq Range(running)
      /\ \A u \in Range(running') : KeptRunning(u)
  BY FrameFacts DEF SlotInv
<1>2. /\ RunningHold /\ BatchHolds /\ AcceptedHold /\ AllocHolds /\ CachedKvMatchesHash
      /\ StepInv /\ PoolInv /\ HeadInv' /\ HeadInv /\ batch \in Seq(ItemType)
      /\ StepStates /\ AcceptedHaveRoom /\ pending \in Seq(Token)
  BY DEF KvInv, SlotInv, StepInv, QueueInv, ShapeInv, StepTypes, RoomInv
<1>3. ASSUME NEW u \in Range(running'), NEW t, NEW n \in Int, n <= Room(u),
             Holds(kv, table[u], t, n)
      PROVE  Holds(kv, table'[u], t, n)
  <2>1. table'[u] = table[u] \/ \E b \in Blocks : table'[u] = Append(table[u], b)
    BY <1>1 DEF KeptRunning
  <2>2. table[u] \in Seq(Blocks)
    BY <1>1, <1>2, RunningFacts
  <2>3. PICK tab2 : tab2 = table'[u]
    OBVIOUS
  <2>4. n <= Len(table[u]) * BlockSize
    BY <1>3 DEF Room
  <2> QED BY <1>3, <2>1, <2>2, <2>3, <2>4, HoldsKept
<1>4. RunningHold'
  <2> SUFFICES ASSUME NEW u \in Range(running')
               PROVE  toks'[u] # <<>> /\ Holds(kv, table'[u], toks'[u], ValidTokens(u)')
    BY <1>1 DEF RunningHold
  <2>1. /\ ValidTokens(u) \in Nat /\ ValidTokens(u) <= Room(u) /\ toks[u] # <<>>
        /\ Holds(kv, table[u], toks[u], ValidTokens(u))
    BY <1>1, <1>2, RunningFacts
  <2>2. toks'[u] = toks[u] /\ ValidTokens(u)' = ValidTokens(u)
    BY <1>1 DEF KeptRunning, ValidTokens
  <2>3. Holds(kv, table'[u], toks[u], ValidTokens(u))
    BY <1>3, <2>1
  <2> QED BY <2>1, <2>2, <2>3
<1>5. BatchHolds'
  <2> SUFFICES ASSUME phase \in {"stepped", "apply", "accept", "retire"},
                      NEW i \in 1 .. Len(batch), batch[i].seq \in Range(running'),
                      ~InHand(i)
               PROVE  ItemHolds(batch[i])'
    BY <1>1 DEF BatchHolds, InHand
  <2>1. PICK it \in ItemType : it = batch[i]
    <3>1. batch[i] \in ItemType
      BY <1>2
    <3> QED BY <3>1
  <2>2. PICK u : u = it.seq
    OBVIOUS
  <2>3. u \in Range(running') /\ u \in Range(running) /\ batch'[i] = it
    BY <1>1, <2>1, <2>2
  <2>4. ItemHolds(it)
    BY <1>2, <2>1, <2>2, <2>3 DEF BatchHolds
  <2>5. /\ Len(toks[u]) <= Room(u) /\ ItemOK(it)
        /\ it.verify => Len(toks[u]) + Len(drafts[u]) + 1 <= Room(u)
        /\ it.prefill \in BOOLEAN /\ it.verify \in BOOLEAN /\ it.n \in Nat
    BY <2>1, <2>2, <2>3, ItemRoom
  <2>6. /\ Len(toks[u]) \in Nat /\ Len(drafts[u]) \in Nat /\ computed[u] \in Nat
        /\ Room(u) \in Nat
    BY <1>2, <2>3, RunningFacts
  <2>7. toks'[u] = toks[u] /\ drafts'[u] = drafts[u] /\ computed'[u] = computed[u]
    BY <1>1, <2>3 DEF KeptRunning
  <2>8. CASE it.verify
    <3>1. Holds(kv, table[u], toks[u] \o drafts[u], Len(toks[u]) + Len(drafts[u]))
      BY <2>2, <2>4, <2>8 DEF ItemHolds
    <3>2. Len(toks[u]) + Len(drafts[u]) <= Room(u) /\ Len(toks[u]) + Len(drafts[u]) \in Int
      <4>1. \A a, b, c \in Nat : a + b + 1 <= c => a + b <= c /\ a + b \in Int
        OBVIOUS
      <4>2. Len(toks[u]) + Len(drafts[u]) + 1 <= Room(u)
        BY <2>5, <2>8
      <4> QED BY ONLY <2>6, <4>1, <4>2, Zenon
    <3>3. Holds(kv, table'[u], toks[u] \o drafts[u], Len(toks[u]) + Len(drafts[u]))
      BY <1>3, <2>3, <3>1, <3>2
    <3> QED BY <1>1, <2>1, <2>2, <2>7, <2>8, <3>3 DEF ItemHolds
  <2>9. CASE ~it.verify
    <3>1. PICK n : n = IF it.prefill THEN computed[u] + it.n ELSE Len(toks[u])
      OBVIOUS
    <3>2. Holds(kv, table[u], toks[u], n)
      BY <2>2, <2>4, <2>9, <3>1 DEF ItemHolds
    <3>3. n \in Int /\ n <= Room(u)
      <4>1. CASE it.prefill
        <5>1. computed[u] + it.n <= Len(toks[u]) /\ n = computed[u] + it.n
          BY <2>2, <2>5, <3>1, <4>1 DEF ItemOK
        <5> QED BY <2>5, <2>6, <5>1
      <4>2. CASE ~it.prefill
        BY <2>5, <2>6, <3>1, <4>2
      <4> QED BY <4>1, <4>2
    <3>4. Holds(kv, table'[u], toks[u], n)
      BY <1>3, <2>3, <3>2, <3>3
    <3> QED BY <1>1, <2>1, <2>2, <2>7, <2>9, <3>1, <3>4 DEF ItemHolds
  <2> QED BY <2>5, <2>8, <2>9
<1>6. AcceptedHold'
  <2> SUFFICES ASSUME phase = "accept", NEW u, u = Head(batch).seq
               PROVE  Holds(kv, table'[u], toks'[u] \o pending, Len(toks'[u]) + Len(pending) - 1)
    BY <1>1 DEF AcceptedHold
  <2>1. u \in Range(running') /\ u \in Range(running)
    BY <1>1, <1>2 DEF HeadInv
  <2>2. /\ Len(toks[u]) \in Nat /\ Room(u) \in Nat
    BY <1>2, <2>1, RunningFacts
  <2>3. Len(toks[u]) + Len(pending) <= Room(u) /\ Len(pending) \in Nat
    BY <1>2 DEF AcceptedHaveRoom
  <2>4. Holds(kv, table[u], toks[u] \o pending, Len(toks[u]) + Len(pending) - 1)
    BY <1>2 DEF AcceptedHold
  <2>5. Len(toks[u]) + Len(pending) - 1 \in Int /\ Len(toks[u]) + Len(pending) - 1 <= Room(u)
    <3>1. \A a, b, c \in Nat : a + b <= c => a + b - 1 \in Int /\ a + b - 1 <= c
      OBVIOUS
    <3> QED BY ONLY <2>2, <2>3, <3>1, Zenon
  <2>6. Holds(kv, table'[u], toks[u] \o pending, Len(toks[u]) + Len(pending) - 1)
    BY <1>3, <2>1, <2>4, <2>5
  <2>7. toks'[u] = toks[u]
    BY <1>1, <2>1 DEF KeptRunning
  <2> QED BY <2>6, <2>7
<1>7. AllocHolds'
  <2>1. CASE op'.kind = "alloc" /\ op'.cached = 0
    BY <2>1 DEF AllocHolds, Holds
  <2>2. CASE AcquireShared \/ AcquireFresh
    BY <1>1, <2>2, AllocExtends
  <2>3. CASE op'.kind # "alloc"
    BY <2>3 DEF AllocHolds
  <2> QED BY <1>2, <2>1, <2>2, <2>3, FramePool
<1>8. CachedKvMatchesHash'
  <2>1. CASE UNCHANGED <<kvComputed, hashToBlock>>
    BY <1>1, <1>2, <2>1 DEF CachedKvMatchesHash
  <2>2. CASE \E s, h : PopFree(s, h)
    BY <1>1, <1>2, <2>2, PopKeepsCached
  <2> QED BY <1>2, <2>1, <2>2, FramePool
<1> QED BY <1>4, <1>5, <1>6, <1>7, <1>8 DEF KvInv

(* Building a batch computes nothing; an admitted sequence starts where    *)
(* its cached prefix ends.                                                 *)
LEMMA KvBuild ==
    ASSUME SlotInv, SlotInv', KvInv,
           \/ StepMixed \/ ScheduleChunk \/ AdmitEnd \/ StepDone \/ StepVerify
           \/ ReserveDone
    PROVE  KvInv'
<1>1. /\ RunningHold /\ AllocHolds /\ CachedKvMatchesHash /\ QueueInv /\ AllocInv
      /\ Range(running) \subseteq Seqs /\ running \in Seq(Seqs)
      /\ computed \in [Seqs -> Nat]
      /\ state \in [Seqs -> {"none", "Waiting", "Prefill", "Decode", "Finished", "Aborted"}]
  BY PlaceFacts DEF KvInv, SlotInv, StepInv, QueueInv, PlaceInv, PlaceTypes, ShapeInv,
                    StepTypes
<1>2. /\ phase' \in {"idle", "build", "verify"} /\ op' = Idle
      /\ UNCHANGED <<kv, toks, table, kvComputed, hashToBlock>>
  BY DEF StepMixed, ScheduleChunk, AdmitEnd, AllocateEnd, StepDone, StepVerify, ReserveDone,
         Reserving, poolVars
<1>3. BatchHolds' /\ AcceptedHold' /\ AllocHolds'
  BY <1>2 DEF BatchHolds, AcceptedHold, AllocHolds, Idle
<1>4. CachedKvMatchesHash'
  BY <1>1, <1>2 DEF CachedKvMatchesHash
<1>5. RunningHold'
  <2>1. CASE StepMixed \/ ScheduleChunk \/ StepDone \/ StepVerify \/ ReserveDone
    <3>1. UNCHANGED <<running, state, computed>>
      BY <2>1 DEF StepMixed, ScheduleChunk, StepDone, StepVerify, ReserveDone, seqVars, queueVars
    <3> QED BY <1>1, <1>2, <3>1 DEF RunningHold, ValidTokens
  <2>2. CASE AdmitEnd
    <3>1. Allocated /\ op \in Op
      BY <1>1, <2>2 DEF AdmitEnd, AllocateEnd, QueueInv, PoolInv, PoolTypeOK
    <3>2. PICK s : s = op.seq
      OBVIOUS
    <3>3. PICK start : start = IF PrefixCacheReuse
                               THEN Smaller(CachedTokens, Len(toks[s]) - 1) ELSE 0
      OBVIOUS
    <3>4. /\ state' = [state EXCEPT ![s] = "Prefill"]
          /\ computed' = [computed EXCEPT ![s] = start]
          /\ running' = Append(running, s)
      BY <2>2, <3>2, <3>3 DEF AdmitEnd
    <3>5. s \in Seqs /\ op.kind = "alloc" /\ op.cached \in Nat
      BY <3>1, <3>2 DEF Allocated, Op, Idle
    <3>6. /\ Len(toks[s]) \in Nat /\ toks[s] \in Seq(Token)
      BY <1>1, <3>5, TextTypes
    <3>7. toks[s] # <<>> /\ Holds(kv, table[s], toks[s], op.cached)
      BY <1>1, <3>2, <3>5 DEF AllocInv, AllocRoom, AllocHolds
    <3>8. CachedTokens \in 0 .. Len(toks[s]) - 1 /\ CachedTokens <= op.cached
      BY <1>1, <3>1, <3>2, CachedFacts DEF QueueInv
    <3>9. start \in Nat /\ start <= op.cached /\ start <= Len(toks[s])
      <4>1. PICK c : c = CachedTokens
        OBVIOUS
      <4>2. c \in 0 .. Len(toks[s]) - 1 /\ c <= op.cached
        BY <3>8, <4>1
      <4>3. CASE PrefixCacheReuse
        <5>1. start = Smaller(c, Len(toks[s]) - 1)
          BY <3>3, <4>1, <4>3
        <5> QED BY <3>5, <3>6, <4>2, <5>1 DEF Smaller
      <4>4. CASE ~PrefixCacheReuse
        BY <3>3, <3>5, <3>6, <4>4
      <4> QED BY <4>3, <4>4
    <3>10. Holds(kv, table[s], toks[s], start)
      <4>1. op.cached \in Int /\ start \in Int
        BY <3>5, <3>9
      <4> QED BY <3>7, <3>9, <4>1, HoldsText
    <3>11. \A u \in Range(running') : u \in Range(running) \/ u = s
      <4>1. /\ DOMAIN running' = 1 .. Len(running) + 1 /\ running'[Len(running) + 1] = s
            /\ \A i \in 1 .. Len(running) : running'[i] = running[i]
            /\ Len(running) \in Nat /\ DOMAIN running = 1 .. Len(running)
        BY <1>1, <3>4, <3>5
      <4> QED BY <4>1 DEF Range
    <3>12. s \notin Range(running)
      <4>1. s \in InTransit
        BY <3>2, <3>5 DEF InTransit
      <4> QED BY <1>1, <3>5, <4>1 DEF QueueInv, PlaceInv, OnePlace
    <3> SUFFICES ASSUME NEW u \in Range(running')
                 PROVE  toks[u] # <<>> /\ Holds(kv, table[u], toks[u], ValidTokens(u)')
      BY <1>2 DEF RunningHold
    <3>13. CASE u = s
      <4>1. ValidTokens(s)' = start
        BY <1>1, <3>4, <3>5 DEF ValidTokens
      <4> QED BY <3>7, <3>10, <3>13, <4>1
    <3>14. CASE u \in Range(running)
      <4>1. state'[u] = state[u] /\ computed'[u] = computed[u]
        BY <1>1, <3>4, <3>12, <3>14
      <4>2. ValidTokens(u)' = ValidTokens(u)
        BY <1>2, <4>1 DEF ValidTokens
      <4> QED BY <1>1, <3>14, <4>2 DEF RunningHold
    <3> QED BY <3>11, <3>13, <3>14
  <2> QED BY <2>1, <2>2
<1> QED BY <1>3, <1>4, <1>5 DEF KvInv

(* The head of the batch is worked on or done with: the other members keep *)
(* what they hold.                                                         *)
LEMMA KvHead ==
    ASSUME SlotInv, KvInv, UNCHANGED <<kv, table>>,
           phase \in {"stepped", "apply", "accept", "retire"}, batch # <<>>,
           \/ batch' = Tail(batch)
           \/ batch' = batch /\ phase' \in {"accept", "retire"},
           NEW s, s = Head(batch).seq,
           Range(running') \subseteq Range(running),
           \A u \in Range(running') : u # s =>
              /\ toks'[u] = toks[u] /\ drafts'[u] = drafts[u]
              /\ state'[u] = state[u] /\ computed'[u] = computed[u],
           s \in Range(running') =>
              toks'[s] # <<>> /\ Holds(kv, table[s], toks'[s], ValidTokens(s)')
    PROVE  RunningHold' /\ BatchHolds'
<1>0. RunningHold /\ BatchHolds /\ StepTypes /\ StepDistinct /\ batch \in Seq(ItemType)
  BY DEF KvInv, SlotInv, StepInv, ShapeInv, StepTypes
<1>1. RunningHold'
  <2> SUFFICES ASSUME NEW u \in Range(running')
               PROVE  toks'[u] # <<>> /\ Holds(kv, table[u], toks'[u], ValidTokens(u)')
    BY DEF RunningHold
  <2>1. CASE u # s
    <3>1. /\ u \in Range(running) /\ toks'[u] = toks[u]
          /\ state'[u] = state[u] /\ computed'[u] = computed[u]
      BY <2>1
    <3>2. ValidTokens(u)' = ValidTokens(u)
      BY <3>1 DEF ValidTokens
    <3> QED BY <1>0, <3>1, <3>2 DEF RunningHold
  <2> QED BY <2>1
<1>2. ASSUME NEW i \in 1 .. Len(batch'), ~InHand(i)'
      PROVE  \E j \in 1 .. Len(batch) : j # 1 /\ batch'[i] = batch[j]
  <2>1. CASE batch' = Tail(batch)
    BY <1>0, <2>1, BatchTail
  <2>2. CASE batch' = batch /\ phase' \in {"accept", "retire"}
    BY <1>2, <2>2 DEF InHand
  <2> QED BY <2>1, <2>2
<1>3. BatchHolds'
  <2> SUFFICES ASSUME NEW i \in 1 .. Len(batch'), batch'[i].seq \in Range(running'),
                      ~InHand(i)'
               PROVE  ItemHolds(batch[i])'
    BY DEF BatchHolds
  <2>1. PICK j \in 1 .. Len(batch) : j # 1 /\ batch'[i] = batch[j]
    BY <1>2
  <2>2. PICK it : it = batch[j]
    OBVIOUS
  <2>3. PICK u : u = it.seq
    OBVIOUS
  <2>4. u \in Range(running') /\ u \in Range(running) /\ u # s
    <3>1. Head(batch) = batch[1] /\ 1 \in 1 .. Len(batch)
      BY <1>0
    <3>2. u # s
      BY <1>0, <2>1, <2>2, <2>3, <3>1 DEF StepDistinct
    <3> QED BY <2>1, <2>2, <2>3, <3>2
  <2>5. ItemHolds(it)
    BY <1>0, <2>1, <2>2, <2>3, <2>4 DEF BatchHolds, InHand
  <2>6. toks'[u] = toks[u] /\ drafts'[u] = drafts[u] /\ computed'[u] = computed[u]
    BY <2>4
  <2> QED BY <2>1, <2>2, <2>3, <2>5, <2>6 DEF ItemHolds
<1> QED BY <1>1, <1>3

(* A block whose tokens are all computed holds the prefix its hash stands  *)
(* for.                                                                    *)
LEMMA ComputedBlockHolds ==
    ASSUME QueueInv, NEW s \in Seqs, Holds(kv, table[s], toks[s], Len(toks[s])),
           NEW i \in ComputedBlocks(s, Len(toks[s])),
           NEW b, b = table[s][i], NEW h, h = BlockHash(toks[s], i),
           NEW slot \in 1 .. BlockSize
    PROVE  kv[b][slot] = SubSeq(h, 1, Len(h) - BlockSize + slot)
<1>1. toks[s] \in Seq(Token) /\ Len(toks[s]) \in Nat /\ table[s] \in Seq(Blocks)
      /\ Len(table[s]) \in Nat
  BY TextTypes
<1>2. i \in Nat /\ i >= 1 /\ i <= Len(toks[s]) \div BlockSize
  BY <1>1 DEF ComputedBlocks
<1>3. i * BlockSize <= Len(toks[s])
  BY <1>1, <1>2, FullBlocksBound
<1>4. PICK n \in Nat : n = i * BlockSize
  <2>1. i * BlockSize \in Nat
    BY <1>2, PoolAssumption
  <2> QED BY <2>1
<1>5. h = SubSeq(toks[s], 1, n) /\ Len(SubSeq(toks[s], 1, n)) = n
  BY <1>1, <1>3, <1>4, PrefixProperties DEF BlockHash
<1>6. PICK p : p = (i - 1) * BlockSize + slot
  OBVIOUS
<1>7. p \in Nat /\ p >= 1 /\ p <= n /\ IndexOf(p) = i /\ SlotOf(p) = slot
  BY <1>2, <1>4, <1>6, SlotPosition
<1>8. Len(h) - BlockSize + slot = p
  <2>1. PICK k \in Nat : i = k + 1
    <3>1. \A x \in Nat : x >= 1 => x - 1 \in Nat /\ x = (x - 1) + 1
      OBVIOUS
    <3> QED BY <1>2, <3>1
  <2>2. \A x, y \in Nat : /\ (x + 1) * y = x * y + y /\ x * y \in Nat
                          /\ (x + 1) - 1 = x
    OBVIOUS
  <2>3. BlockSize \in Nat
    BY PoolAssumption
  <2>4. PICK m \in Nat : m = k * BlockSize
    BY <2>2, <2>3
  <2>5. n = m + BlockSize /\ p = m + slot
    BY <1>4, <1>6, <2>1, <2>2, <2>3, <2>4
  <2> QED BY <1>5, <2>3, <2>5
<1>9. p \in 1 .. Len(toks[s])
  BY <1>1, <1>3, <1>4, <1>7
<1>10. kv[table[s][i]][slot] = SubSeq(toks[s], 1, p)
  BY <1>7, <1>9 DEF Holds
<1>11. SubSeq(h, 1, p) = SubSeq(toks[s], 1, p)
  <2>1. p \in 0 .. n /\ n <= Len(toks[s])
    BY <1>3, <1>4, <1>7
  <2> QED BY <1>1, <1>5, <2>1, PrefixPrefix
<1> QED BY <1>8, <1>10, <1>11

(* Marking and publishing the blocks that a sequence has filled.           *)
LEMMA PublishKeepsCached ==
    ASSUME QueueInv, CachedKvMatchesHash, NEW s \in Seqs, NEW t \in Token,
           NEW publish, AppendToken(s, t, publish), UNCHANGED kv,
           Holds(kv, table[s], toks[s], Len(toks[s]))
    PROVE  CachedKvMatchesHash'
<1>0. /\ toks[s] \in Seq(Token) /\ Len(toks[s]) \in Nat /\ table[s] \in Seq(Blocks)
      /\ Len(table[s]) \in Nat
  BY TextTypes
<1>1. PICK n : n = Len(toks[s])
  OBVIOUS
<1>2. PICK g : g = Append(toks[s], t)
  OBVIOUS
<1>3. /\ kvComputed' = MarkedComputed(s, n)
      /\ \/ hashToBlock' = hashToBlock
         \/ hashToBlock' = PublishedMap(s, g, n)
  BY <1>1, <1>2 DEF AppendToken
<1>4. /\ kvComputed \in [Blocks -> BOOLEAN] /\ hashToBlock \in [DOMAIN hashToBlock -> Blocks]
      /\ MapPointsAtItsHash /\ SharedPrefixIsOwn
  BY DEF QueueInv, PoolInv, PoolTypeOK, PoolDataOK, PoolCore
<1>5. ASSUME NEW i \in ComputedBlocks(s, n)
      PROVE  /\ i \in 1 .. Len(table[s]) /\ i \in Nat /\ i >= 1 /\ i * BlockSize <= Len(toks[s])
             /\ table[s][i] \in Blocks
             /\ BlockHash(g, i) = BlockHash(toks[s], i)
  <2>1. i \in 1 .. Len(table[s]) /\ i \in Nat /\ i >= 1 /\ i <= Len(toks[s]) \div BlockSize
    BY <1>0, <1>1 DEF ComputedBlocks
  <2>2. i * BlockSize <= Len(toks[s])
    BY <1>0, <2>1, FullBlocksBound
  <2> QED BY <1>0, <1>2, <2>1, <2>2, BlockHashStable
<1>6. ASSUME NEW h \in DOMAIN hashToBlock, NEW b, b = hashToBlock[h], kvComputed'[b],
             NEW slot \in 1 .. BlockSize
      PROVE  kv[b][slot] = SubSeq(h, 1, Len(h) - BlockSize + slot)
  <2>1. b \in Blocks /\ hash[b] = h /\ h # NoHash
    BY <1>4, <1>6 DEF MapPointsAtItsHash
  <2>2. kvComputed[b] \/ \E i \in ComputedBlocks(s, n) : table[s][i] = b
    BY <1>3, <1>6, <2>1 DEF MarkedComputed
  <2>3. CASE kvComputed[b]
    BY <1>6, <2>3 DEF CachedKvMatchesHash
  <2>4. ASSUME NEW i \in ComputedBlocks(s, n), table[s][i] = b
        PROVE  kv[b][slot] = SubSeq(h, 1, Len(h) - BlockSize + slot)
    <3>1. i \in 1 .. Len(table[s])
      BY <1>5
    <3>2. h = BlockHash(toks[s], i)
      BY <1>4, <2>1, <2>4, <3>1 DEF SharedPrefixIsOwn
    <3> QED BY <1>1, <2>4, <3>2, ComputedBlockHolds
  <2> QED BY <2>2, <2>3, <2>4
<1>7. CASE hashToBlock' = hashToBlock
  BY <1>6, <1>7 DEF CachedKvMatchesHash
<1>8. CASE hashToBlock' = PublishedMap(s, g, n)
  <2> DEFINE idx == Publishable(s, g, n)
  <2>1. hashToBlock' = [h \in DOMAIN hashToBlock \cup {BlockHash(g, i) : i \in idx} |->
                          IF Mapped(h) THEN hashToBlock[h]
                          ELSE table[s][CHOOSE i \in idx : BlockHash(g, i) = h]]
    BY <1>8 DEF PublishedMap
  <2>2. idx \subseteq ComputedBlocks(s, n)
    BY DEF Publishable
  <2> HIDE DEF idx
  <2> SUFFICES ASSUME NEW h \in DOMAIN hashToBlock', NEW b, b = hashToBlock'[h],
                      kvComputed'[b], NEW slot \in 1 .. BlockSize
               PROVE  kv[b][slot] = SubSeq(h, 1, Len(h) - BlockSize + slot)
    BY DEF CachedKvMatchesHash
  <2>3. CASE h \in DOMAIN hashToBlock
    <3>1. b = hashToBlock[h]
      BY <2>1, <2>3 DEF Mapped
    <3> QED BY <1>6, <2>3, <3>1
  <2>4. CASE h \notin DOMAIN hashToBlock
    <3>1. PICK i \in idx : BlockHash(g, i) = h
      BY <2>1, <2>4
    <3>2. PICK j : j = CHOOSE x \in idx : BlockHash(g, x) = h
      OBVIOUS
    <3>3. j \in idx /\ BlockHash(g, j) = h
      BY <3>1, <3>2
    <3>4. b = table[s][j]
      BY <2>1, <2>4, <3>2 DEF Mapped
    <3>5. j \in ComputedBlocks(s, n) /\ h = BlockHash(toks[s], j)
      BY <1>5, <2>2, <3>3
    <3> QED BY <1>1, <3>4, <3>5, ComputedBlockHolds
  <2> QED BY <2>3, <2>4
<1> QED BY <1>3, <1>7, <1>8

(* Applying an item counts as computed what the model computed, publishes  *)
(* only such blocks, and appends accepted drafts whose KV is there.        *)
LEMMA KvApply ==
    ASSUME SlotInv, SlotInv', KvInv,
           \/ ItemNotRunning \/ ApplyChunk \/ Retire \/ Accept
           \/ \E t \in Token : ApplyToken(t) \/ VerifyOutcome(t)
    PROVE  KvInv'
<1>0. /\ RunningHold /\ BatchHolds /\ AcceptedHold /\ CachedKvMatchesHash
      /\ StepStates /\ HeadInv /\ QueueInv /\ PoolInv /\ PlaceInv
      /\ batch \in Seq(ItemType) /\ pending \in Seq(Token)
      /\ toks \in [Seqs -> Seq(Token)] /\ drafts \in [Seqs -> Seq(Token)]
      /\ state \in [Seqs -> {"none", "Waiting", "Prefill", "Decode", "Finished", "Aborted"}]
      /\ computed \in [Seqs -> Nat] /\ Range(running) \subseteq Seqs
  <2>1. QueueInv /\ StepTypes /\ StepStates
    BY DEF SlotInv, StepInv, ShapeInv
  <2>2. /\ PoolInv /\ toks \in [Seqs -> Seq(Token)] /\ PlaceInv /\ HeadInv
        /\ drafts \in [Seqs -> Seq(Token)]
        /\ state \in [Seqs -> {"none", "Waiting", "Prefill", "Decode", "Finished", "Aborted"}]
    BY <2>1 DEF QueueInv, HeadInv, PoolInv, PoolTypeOK, PoolDataOK, PlaceInv, PlaceTypes
  <2> QED BY <2>1, <2>2, PlaceFacts DEF StepTypes, KvInv
<1>1. PICK s : s = Head(batch).seq
  OBVIOUS
<1>2. ASSUME batch # <<>>
      PROVE  1 \in 1 .. Len(batch) /\ batch[1] = Head(batch) /\ Head(batch) \in ItemType
  BY <1>0, <1>2
<1>3. ASSUME s \in Range(running)
      PROVE  /\ s \in Seqs /\ toks[s] \in Seq(Token) /\ toks[s] # <<>>
             /\ Len(toks[s]) \in Nat /\ drafts[s] \in Seq(Token) /\ Len(drafts[s]) \in Nat
             /\ computed[s] \in Nat /\ ValidTokens(s) \in Nat
             /\ Holds(kv, table[s], toks[s], ValidTokens(s))
  BY <1>0, <1>3, RunningFacts
<1>4. ASSUME phase \in {"stepped", "apply"}, batch # <<>>, s \in Range(running),
             NEW it, it = Head(batch)
      PROVE  /\ ItemHolds(it) /\ ItemOK(it) /\ it \in ItemType /\ it.seq = s
             /\ it.prefill \in BOOLEAN /\ it.verify \in BOOLEAN /\ it.n \in Nat
  <2>1. /\ 1 \in 1 .. Len(batch) /\ it = batch[1] /\ it \in ItemType /\ it.seq = s
    BY <1>1, <1>2, <1>4
  <2>2. ~InHand(1)
    BY <1>4 DEF InHand
  <2>3. ItemHolds(it)
    BY <1>0, <1>4, <2>1, <2>2 DEF BatchHolds
  <2> QED BY <1>4, <2>1, <2>2, <2>3, ItemRoom
<1>5. ASSUME NEW t \in Token, toks' = [toks EXCEPT ![s] = Append(toks[s], t)],
             s \in Range(running)
      PROVE  /\ toks'[s] = Append(toks[s], t) /\ Len(toks'[s]) = Len(toks[s]) + 1
             /\ toks'[s] # <<>> /\ toks'[s] \in Seq(Token)
             /\ \A p \in 0 .. Len(toks[s]) : SubSeq(toks'[s], 1, p) = SubSeq(toks[s], 1, p)
             /\ \A u \in Range(running) : u # s => toks'[u] = toks[u]
  <2>1. toks'[s] = Append(toks[s], t) /\ \A u \in Range(running) : u # s => toks'[u] = toks[u]
    BY <1>0, <1>3, <1>5
  <2> QED BY <1>3, <1>5, <2>1, AppendPrefix
<1>6. CASE ItemNotRunning
  <2>1. /\ phase \in {"stepped", "apply"} /\ batch # <<>> /\ op = Idle
        /\ batch' = Tail(batch) /\ phase' = "apply" /\ s \notin Range(running)
        /\ UNCHANGED <<running, toks, drafts, table, kv, state, computed, op,
                       kvComputed, hashToBlock>>
    BY <1>1, <1>6 DEF ItemNotRunning, Applying, poolVars, seqVars, queueVars
  <2>2. RunningHold' /\ BatchHolds'
    BY <1>1, <2>1, KvHead
  <2>3. AcceptedHold' /\ AllocHolds' /\ CachedKvMatchesHash'
    BY <1>0, <2>1 DEF AcceptedHold, AllocHolds, CachedKvMatchesHash, Idle
  <2> QED BY <2>2, <2>3 DEF KvInv
<1>7. CASE ApplyChunk
  <2>1. PICK it : it = Head(batch)
    OBVIOUS
  <2>2. /\ phase \in {"stepped", "apply"} /\ batch # <<>> /\ op = Idle
        /\ batch' = Tail(batch) /\ phase' = "apply" /\ s \in Range(running)
        /\ computed' = [computed EXCEPT ![s] = computed[s] + it.n]
        /\ ~ProducesToken(it)
        /\ UNCHANGED <<running, toks, drafts, table, kv, state, op, kvComputed, hashToBlock>>
    BY <1>1, <1>7, <2>1 DEF ApplyChunk, Applying, poolVars, queueVars
  <2>3. /\ ItemHolds(it) /\ ItemOK(it) /\ it.seq = s /\ it.prefill
    BY <1>4, <2>1, <2>2 DEF ProducesToken
  <2>4. Holds(kv, table[s], toks[s], computed[s] + it.n) /\ state[s] = "Prefill"
    BY <2>3 DEF ItemHolds, ItemOK
  <2>5. ValidTokens(s)' = computed[s] + it.n
    BY <1>0, <1>3, <2>2, <2>4 DEF ValidTokens
  <2>6. \A u \in Range(running) : u # s => computed'[u] = computed[u]
    BY <1>0, <2>2
  <2>7. RunningHold' /\ BatchHolds'
    BY <1>1, <1>3, <2>2, <2>4, <2>5, <2>6, KvHead
  <2>8. AcceptedHold' /\ AllocHolds' /\ CachedKvMatchesHash'
    BY <1>0, <2>2 DEF AcceptedHold, AllocHolds, CachedKvMatchesHash, Idle
  <2> QED BY <2>7, <2>8 DEF KvInv
<1>8. ASSUME NEW t \in Token, ApplyToken(t) PROVE KvInv'
  <2>1. PICK it : it = Head(batch)
    OBVIOUS
  <2>2. /\ phase \in {"stepped", "apply"} /\ batch # <<>> /\ s \in Range(running)
        /\ ProducesToken(it) /\ ~it.verify /\ AppendToken(s, t, PrefixCacheReuse)
        /\ state' = [state EXCEPT ![s] = "Decode"]
        /\ UNCHANGED <<running, drafts, kv>>
        /\ \/ phase' = "retire" /\ batch' = batch
           \/ phase' = "apply" /\ batch' = Tail(batch)
    BY <1>1, <1>8, <2>1 DEF ApplyToken, Applying, queueVars
  <2>3. \A u \in Range(running) : u # s => computed'[u] = computed[u]
    <3>1. \E c : computed' = [computed EXCEPT ![s] = c]
      BY <1>1, <1>8 DEF ApplyToken
    <3> QED BY <1>0, <3>1
  <2>4. op = Idle /\ toks' = [toks EXCEPT ![s] = Append(toks[s], t)] /\ UNCHANGED <<table, op>>
    BY <2>2 DEF AppendToken
  <2>5. ItemHolds(it) /\ ItemOK(it) /\ it.seq = s /\ it.prefill \in BOOLEAN
    BY <1>4, <2>1, <2>2
  <2>6. Holds(kv, table[s], toks[s], Len(toks[s]))
    <3>1. CASE it.prefill
      <4>1. it.final
        BY <2>2, <3>1 DEF ProducesToken
      <4>2. computed[s] + it.n = Len(toks[s])
        BY <2>5, <3>1, <4>1 DEF ItemOK
      <4> QED BY <2>2, <2>5, <3>1, <4>2 DEF ItemHolds
    <3>2. CASE ~it.prefill
      BY <2>2, <2>5, <3>2 DEF ItemHolds
    <3> QED BY <3>1, <3>2
  <2>7. /\ Len(toks'[s]) = Len(toks[s]) + 1 /\ toks'[s] # <<>>
        /\ \A p \in 0 .. Len(toks[s]) : SubSeq(toks'[s], 1, p) = SubSeq(toks[s], 1, p)
        /\ \A u \in Range(running) : u # s => toks'[u] = toks[u]
    BY <1>5, <2>2, <2>4
  <2>8. ValidTokens(s)' = Len(toks[s])
    <3>1. state'[s] = "Decode" /\ Len(toks[s]) \in Nat
      BY <1>0, <1>3, <2>2
    <3>2. ValidTokens(s)' = Len(toks'[s]) - 1
      BY <3>1 DEF ValidTokens
    <3> QED BY <2>7, <3>1, <3>2
  <2>9. Holds(kv, table[s], toks'[s], Len(toks[s]))
    <3>1. Len(toks[s]) \in Int /\ Len(toks[s]) <= Len(toks[s])
      BY <1>3, <2>2
    <3>2. \A p \in 1 .. Len(toks[s]) : SubSeq(toks'[s], 1, p) = SubSeq(toks[s], 1, p)
      BY <2>7, <3>1
    <3> QED BY <2>6, <3>1, <3>2, HoldsText
  <2>10. \A u \in Range(running) : u # s => state'[u] = state[u]
    BY <1>0, <2>2
  <2>11. RunningHold' /\ BatchHolds'
    BY <1>1, <2>2, <2>3, <2>4, <2>7, <2>8, <2>9, <2>10, KvHead
  <2>12. AcceptedHold' /\ AllocHolds'
    BY <2>2, <2>4 DEF AcceptedHold, AllocHolds, Idle
  <2>13. CachedKvMatchesHash'
    BY <1>0, <1>3, <2>2, <2>6, PublishKeepsCached
  <2> QED BY <2>11, <2>12, <2>13 DEF KvInv
<1>9. CASE Retire
  <2>1. /\ phase = "retire" /\ phase' = "apply" /\ batch' = Tail(batch)
        /\ DeallocateBegin(s) /\ running' = Without(running, s)
        /\ state' = [state EXCEPT ![s] = "Finished"]
        /\ UNCHANGED <<toks, drafts, table, kv, computed, kvComputed, hashToBlock>>
    BY <1>1, <1>9 DEF Retire, DeallocateBegin, Close
  <2>2. batch # <<>> /\ s \in Range(running)
    BY <1>0, <1>1, <2>1 DEF StepStates, HeadInv
  <2>3. Range(running') = Range(running) \ {s}
    BY <1>0, <2>1, <2>2, LeavesRunning
  <2>4. \A u \in Range(running') : u # s => state'[u] = state[u]
    BY <1>0, <2>1, <2>3
  <2>5. RunningHold' /\ BatchHolds'
    BY <1>1, <2>1, <2>2, <2>3, <2>4, KvHead
  <2>6. op'.kind # "alloc"
    BY <2>1 DEF DeallocateBegin, Idle
  <2>7. AcceptedHold' /\ AllocHolds' /\ CachedKvMatchesHash'
    BY <1>0, <2>1, <2>6 DEF AcceptedHold, AllocHolds, CachedKvMatchesHash
  <2> QED BY <2>5, <2>7 DEF KvInv
<1>10. CASE Accept
  <2>1. PICK t : t = Head(pending)
    OBVIOUS
  <2>2. /\ phase = "accept" /\ AcceptToken(s, t) /\ pending' = Tail(pending)
        /\ UNCHANGED <<drafts, running, state, computed, kv>>
        /\ \/ phase' \in {"accept", "retire"} /\ batch' = batch
           \/ phase' = "apply" /\ batch' = Tail(batch)
    BY <1>1, <1>10, <2>1 DEF Accept, seqVars, queueVars
  <2>3. /\ toks' = [toks EXCEPT ![s] = Append(toks[s], t)] /\ op = Idle
        /\ UNCHANGED <<table, op, kvComputed, hashToBlock>>
    BY <2>2 DEF AcceptToken
  <2>4. batch # <<>> /\ s \in Range(running) /\ pending # <<>> /\ state[s] = "Decode"
    BY <1>0, <1>1, <2>2 DEF StepStates, HeadInv
  <2>5. t \in Token /\ Len(pending) \in Nat /\ Len(pending) >= 1 /\ Len(pending') = Len(pending) - 1
        /\ pending' \in Seq(Token)
    <3>1. pending \in Seq(Token)
      BY <1>0
    <3> QED BY <2>1, <2>2, <2>4, <3>1
  <2>6. /\ toks'[s] = Append(toks[s], t) /\ Len(toks'[s]) = Len(toks[s]) + 1 /\ toks'[s] # <<>>
        /\ \A p \in 0 .. Len(toks[s]) : SubSeq(toks'[s], 1, p) = SubSeq(toks[s], 1, p)
        /\ \A u \in Range(running) : u # s => toks'[u] = toks[u]
        /\ Len(toks[s]) \in Nat /\ toks[s] \in Seq(Token)
    BY <1>3, <1>5, <2>3, <2>4, <2>5
  <2>7. Holds(kv, table[s], toks[s] \o pending, Len(toks[s]) + Len(pending) - 1)
    BY <1>0, <1>1, <2>2 DEF AcceptedHold
  <2>8. toks'[s] \o pending' = toks[s] \o pending
    BY <1>0, <2>1, <2>2, <2>4, <2>6, HeadMoves
  <2>9. Len(toks'[s]) + Len(pending') - 1 = Len(toks[s]) + Len(pending) - 1
    BY <2>5, <2>6
  <2>10. Holds(kv, table[s], toks'[s] \o pending', Len(toks'[s]) + Len(pending') - 1)
    BY <2>7, <2>8, <2>9
  <2>11. AcceptedHold'
    <3>1. phase' = "accept" => batch' = batch
      BY <2>2
    <3> QED BY <1>1, <2>2, <2>3, <2>10, <3>1 DEF AcceptedHold
  <2>12. ValidTokens(s)' = Len(toks[s])
    <3>1. ValidTokens(s)' = Len(toks'[s]) - 1
      BY <2>2, <2>4 DEF ValidTokens
    <3> QED BY <2>6, <3>1
  <2>13. Holds(kv, table[s], toks'[s], Len(toks[s]))
    <3>1. PICK m \in Nat : m = Len(toks[s])
      BY <2>6
    <3>2. PICK n : n = Len(toks[s]) + Len(pending) - 1
      OBVIOUS
    <3>3. m <= n /\ m \in Int /\ n \in Int
      <4>1. \A a, b \in Nat : b >= 1 => a <= a + b - 1 /\ a \in Int /\ a + b - 1 \in Int
        OBVIOUS
      <4>2. m \in Nat /\ Len(pending) \in Nat /\ Len(pending) >= 1
            /\ n = m + Len(pending) - 1
        BY <2>5, <3>1, <3>2
      <4> QED BY ONLY <4>1, <4>2, Zenon
    <3>4. \A p \in 0 .. Len(toks[s]) : SubSeq(toks[s] \o pending, 1, p) = SubSeq(toks[s], 1, p)
      BY <1>0, <2>6, ConcatPrefix
    <3>5. \A p \in 1 .. m : SubSeq(toks'[s], 1, p) = SubSeq(toks[s] \o pending, 1, p)
      BY <2>6, <3>1, <3>4
    <3>6. Holds(kv, table[s], toks'[s], m)
      <4>1. Holds(kv, table[s], toks[s] \o pending, n)
        BY <2>7, <3>2
      <4> QED BY <3>3, <3>5, <4>1, HoldsText
    <3> QED BY <3>1, <3>6
  <2>14. RunningHold' /\ BatchHolds'
    BY <1>1, <2>2, <2>3, <2>4, <2>6, <2>12, <2>13, KvHead
  <2>15. AllocHolds' /\ CachedKvMatchesHash'
    BY <1>0, <2>2, <2>3 DEF AllocHolds, CachedKvMatchesHash, Idle
  <2> QED BY <2>11, <2>14, <2>15 DEF KvInv
<1>11. ASSUME NEW t \in Token, VerifyOutcome(t) PROVE KvInv'
  <2>1. PICK it : it = Head(batch)
    OBVIOUS
  <2>2. /\ phase \in {"stepped", "apply"} /\ phase' = "accept" /\ batch # <<>> /\ op = Idle
        /\ s \in Range(running) /\ it.verify
        /\ drafts' = [drafts EXCEPT ![s] = <<>>]
        /\ \E k \in 0 .. Len(drafts[s]) : pending' = Append(SubSeq(drafts[s], 1, k), t)
        /\ UNCHANGED <<toks, running, batch, table, op, state, computed, kv,
                       kvComputed, hashToBlock>>
    BY <1>1, <1>11, <2>1 DEF VerifyOutcome, Applying, ClearDrafts, poolVars
  <2>3. PICK k \in 0 .. Len(drafts[s]) : pending' = Append(SubSeq(drafts[s], 1, k), t)
    BY <2>2
  <2>4. Len(pending') = k + 1 /\ k \in Nat /\ k <= Len(drafts[s])
    <3>1. drafts[s] \in Seq(Token) /\ k \in Nat /\ k <= Len(drafts[s]) /\ Len(drafts[s]) \in Nat
      BY <1>3, <2>2
    <3>2. SubSeq(drafts[s], 1, k) \in Seq(Token) /\ Len(SubSeq(drafts[s], 1, k)) = k
      BY <3>1, PrefixProperties
    <3> QED BY <2>3, <3>1, <3>2
  <2>5. Holds(kv, table[s], toks[s] \o drafts[s], Len(toks[s]) + Len(drafts[s]))
    BY <1>4, <2>1, <2>2 DEF ItemHolds
  <2>6. Holds(kv, table[s], toks[s] \o pending', Len(toks[s]) + Len(pending') - 1)
    <3>1. PICK m : m = Len(toks[s]) + k
      OBVIOUS
    <3>2. PICK n : n = Len(toks[s]) + Len(drafts[s])
      OBVIOUS
    <3>3. m <= n /\ m \in Int /\ n \in Int /\ m = Len(toks[s]) + Len(pending') - 1
      <4>1. \A a, b, d \in Nat : b <= d => /\ a + b <= a + d /\ a + b \in Int /\ a + d \in Int
                                           /\ a + b = a + (b + 1) - 1
        OBVIOUS
      <4>2. Len(toks[s]) \in Nat /\ Len(drafts[s]) \in Nat /\ k \in Nat /\ k <= Len(drafts[s])
        BY <1>3, <2>2, <2>4
      <4>3. /\ m <= n /\ m \in Int /\ n \in Int /\ m = Len(toks[s]) + (k + 1) - 1
        BY ONLY <3>1, <3>2, <4>1, <4>2, Zenon
      <4> QED BY <2>4, <4>3
    <3>4. ASSUME NEW p \in 1 .. m
          PROVE  SubSeq(toks[s] \o pending', 1, p) = SubSeq(toks[s] \o drafts[s], 1, p)
      <4>1. p \in Nat /\ p <= m
        BY <3>3
      <4>2. p <= Len(toks[s]) + k
        BY <3>1, <4>1
      <4>3. toks[s] \in Seq(Token) /\ drafts[s] \in Seq(Token)
        BY <1>3, <2>2
      <4>4. SubSeq(toks[s] \o Append(SubSeq(drafts[s], 1, k), t), 1, p)
               = SubSeq(toks[s] \o drafts[s], 1, p)
        <5>1. PICK a \in Seq(Token) : a = toks[s]
          BY <4>3
        <5>2. PICK d \in Seq(Token) : d = drafts[s]
          BY <4>3
        <5>3. k \in Nat /\ k <= Len(d) /\ p \in Nat /\ p <= Len(a) + k
          BY <2>4, <4>1, <4>2, <5>1, <5>2
        <5>4. SubSeq(a \o Append(SubSeq(d, 1, k), t), 1, p) = SubSeq(a \o d, 1, p)
          BY <5>3, DraftPrefix
        <5> QED BY <5>1, <5>2, <5>4
      <4> QED BY <2>3, <4>4
    <3>5. Holds(kv, table[s], toks[s] \o pending', m)
      <4>1. Holds(kv, table[s], toks[s] \o drafts[s], n)
        BY <2>5, <3>2
      <4> QED BY <3>3, <3>4, <4>1, HoldsText
    <3> QED BY <3>3, <3>5
  <2>7. AcceptedHold'
    BY <1>1, <2>2, <2>6 DEF AcceptedHold
  <2>8. \A u \in Range(running) : u # s => drafts'[u] = drafts[u]
    BY <1>0, <2>2
  <2>9. ValidTokens(s)' = ValidTokens(s)
    BY <2>2 DEF ValidTokens
  <2>10. RunningHold' /\ BatchHolds'
    BY <1>1, <1>3, <2>2, <2>8, <2>9, KvHead
  <2>11. AllocHolds' /\ CachedKvMatchesHash'
    BY <1>0, <2>2 DEF AllocHolds, CachedKvMatchesHash, Idle
  <2> QED BY <2>7, <2>10, <2>11 DEF KvInv
<1> QED BY <1>6, <1>7, <1>8, <1>9, <1>10, <1>11

(* Every step of the scheduler keeps every slot in use.                    *)
LEMMA KvNextInv == SlotInv /\ KvInv /\ [AnyNext]_vars => KvInv'
<1> SUFFICES ASSUME SlotInv, KvInv, [AnyNext]_vars PROVE KvInv'
  OBVIOUS
<1>1. SlotInv'
  BY SlotNextInv
<1>2. CASE UNCHANGED vars
  <2>1. UNCHANGED <<batch, phase, pending, running, toks, drafts, table, state, computed, kv,
                    op, hashToBlock, kvComputed>>
    BY <1>2 DEF vars, poolVars, schedVars, seqVars, queueVars, stepVars
  <2> QED BY <2>1 DEF KvInv, RunningHold, BatchHolds, AcceptedHold, AllocHolds, ItemHolds,
                      InHand, ValidTokens, CachedKvMatchesHash
<1>3. CASE FrameStep
  BY <1>1, <1>3, KvFrame
<1>4. CASE \E t \in Token : ApplyToken(t)
  BY <1>1, <1>4, KvApply
<1>5. CASE \E t \in Token : VerifyOutcome(t)
  BY <1>1, <1>5, KvApply
<1>6. CASE StepNext
  BY <1>1, <1>3, <1>4, <1>6, KvBuild, KvForward, KvApply DEF StepNext, FrameStep
<1>7. CASE VerifyNext
  BY <1>1, <1>3, <1>5, <1>7, KvBuild, KvForward, KvApply DEF VerifyNext, FrameStep
<1> QED BY <1>2, <1>3, <1>6, <1>7 DEF AnyNext, FrameStep

(* Initially nobody runs and nothing is cached.                            *)
LEMMA KvInitInv == Init => KvInv
<1> SUFFICES ASSUME Init PROVE KvInv
  OBVIOUS
<1>1. running = <<>> /\ phase = "idle" /\ op = Idle /\ hashToBlock = [h \in {} |-> 0]
  BY DEF Init, SchedInit, PoolInit
<1>2. Range(running) = {} /\ DOMAIN hashToBlock = {}
  BY <1>1 DEF Range
<1> QED BY <1>1, <1>2 DEF KvInv, RunningHold, BatchHolds, AcceptedHold, AllocHolds,
                          CachedKvMatchesHash, Idle

(* The three layers together are an invariant of the scheduler.            *)
THEOREM KvInvariant == Spec => [](SlotInv /\ KvInv)
<1>1. SlotInv /\ KvInv /\ [AnyNext]_vars => (SlotInv /\ KvInv)'
  BY SlotNextInv, KvNextInv
<1>2. Init => SlotInv /\ KvInv
  BY SlotInitInv, KvInitInv
<1> QED BY <1>1, <1>2, NextIsAny, PTL DEF Spec

(* scheduler.rs step and complete_step, block_manager.rs                   *)
(* allocate_with_prefix: attention never reads foreign KV. Every position  *)
(* that a running sequence counts as computed holds the KV of its own      *)
(* prefix, whether it was computed, found in the prefix cache, recomputed  *)
(* after a preemption or accepted from a draft, for every pool, every      *)
(* batch limit and any number of sequences.                                *)
THEOREM OwnKvCorrect == Spec => []RunningKvIsOwn
<1>1. KvInv => RunningKvIsOwn
  BY DEF KvInv, RunningHold, Holds, RunningKvIsOwn, BlockOf, IndexOf
<1> QED BY <1>1, KvInvariant, PTL

(* block_manager.rs mark_computed and publish_computed_blocks: a block     *)
(* that the prefix cache would hand out as computed holds the KV of the    *)
(* prefix its hash stands for, even after its last holder gave it back.    *)
THEOREM CachedKvCorrect == Spec => []CachedKvMatchesHash
<1>1. KvInv => CachedKvMatchesHash
  BY DEF KvInv
<1> QED BY <1>1, KvInvariant, PTL

-----------------------------------------------------------------------------
(* The layers know the type of every variable.                             *)
LEMMA TypeFollows == QueueInv /\ OutputInv /\ DraftInv /\ SlotInv => TypeOK
  BY DEF QueueInv, PoolInv, PlaceInv, PlaceTypes, HeadInv, OutputInv, DraftInv,
         SlotInv, StepInv, ShapeInv, StepTypes, Phases, TypeOK

(* scheduler.rs: every field of the scheduler and of its sequences keeps   *)
(* its type; in particular no unsigned counter (num_running_with_drafts,   *)
(* the token budget of a batch, num_computed_tokens) underflows.           *)
THEOREM TypeCorrect == Spec => []TypeOK
<1> QED BY TypeFollows, QueueInvariant, OutputInvariant, DraftCountBounds, SlotInvariant, PTL

(* scheduler.rs: what a caller of the scheduler relies on, together.       *)
(* Whatever it enqueues, drafts and aborts, no sequence is lost or         *)
(* duplicated, no block leaks, no foreign KV is read, every running        *)
(* sequence can take its next step and every output stops in time.         *)
THEOREM SchedulerCorrect == Spec => []SchedulerInv
<1>1. /\ TypeOK /\ OnePlace /\ OnlyRunningHoldBlocks /\ RunningKvIsOwn
      /\ RunningCanStep /\ OutputStopsInTime
      => SchedulerInv
  BY DEF SchedulerInv
<1> QED BY <1>1, TypeCorrect, PlaceCorrect, HoldersCorrect, OwnKvCorrect,
           CanStepCorrect, OutputCorrect, PTL
=============================================================================
