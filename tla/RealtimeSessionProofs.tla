------------------------ MODULE RealtimeSessionProofs ------------------------
(***************************************************************************)
(* Theorems about the voice session's response slot, the lanes and the     *)
(* lock that keeps their events in order, and the utterances, for any      *)
(* number of utterances, responses and client events.                      *)
(***************************************************************************)
EXTENDS RealtimeSession, SequenceTheorems, TLAPS

-----------------------------------------------------------------------------
(* The slot.                                                               *)

(* A critical section that leaves the slot alone keeps the invariant.      *)
LEMMA SlotUntouched ==
    RuntimeMatchesPhase /\ UNCHANGED slot => RuntimeMatchesPhase'
BY DEF RuntimeMatchesPhase, slot

(* The transitions of the slot: filling it, emptying it, dropping a        *)
(* prediction and marking a response as streaming.                         *)
LEMMA SlotTransitions ==
    ASSUME RuntimeMatchesPhase
    PROVE  /\ \A r : RespCreateFromNone(r) => RuntimeMatchesPhase'
           /\ RespRetireToNone => RuntimeMatchesPhase'
           /\ RespRetirePredicted /\ UNCHANGED current => RuntimeMatchesPhase'
           /\ \A r : RespAdvanceToStreaming(r) /\ UNCHANGED current => RuntimeMatchesPhase'
           /\ \A r : resp = RespNone /\ RespStartPredicted(r) => RuntimeMatchesPhase'
<1>1. \A r : RespCreateFromNone(r) => RuntimeMatchesPhase'
  BY DEF RuntimeMatchesPhase, RespCreateFromNone, Created, ActivePhases
<1>2. RespRetireToNone => RuntimeMatchesPhase'
  BY DEF RuntimeMatchesPhase, RespRetireToNone, RespNone, ActivePhases
<1>3. RespRetirePredicted /\ UNCHANGED current => RuntimeMatchesPhase'
  BY DEF RuntimeMatchesPhase, RespRetirePredicted, RespNone, ActivePhases
<1>4. \A r : RespAdvanceToStreaming(r) /\ UNCHANGED current => RuntimeMatchesPhase'
  BY DEF RuntimeMatchesPhase, RespAdvanceToStreaming, Created, Streaming, ActivePhases
<1>5. \A r : resp = RespNone /\ RespStartPredicted(r) => RuntimeMatchesPhase'
  BY DEF RuntimeMatchesPhase, RespStartPredicted, RespNone, Predicted, ActivePhases
<1> QED BY <1>1, <1>2, <1>3, <1>4, <1>5

(* Every step of the session keeps the runtime and the phase together.     *)
LEMMA SlotStep ==
    ASSUME RuntimeMatchesPhase, [Next]_vars
    PROVE  RuntimeMatchesPhase'
<1>1. CASE VadStep
  <2>1. UNCHANGED slot
    BY <1>1 DEF VadStep, SpeechStarted, SpeechCommitted, VadHears, CancelCommitTimer,
       DecideBargeIn, SetPendingBargein, SuppressBargein, VadStops, SendSpeechStopped,
       RejectShort, InstallCommitTimer, slot, stateVars
  <2> QED BY <2>1, SlotUntouched
<1>2. ASSUME NEW t \in Cancellers, CancelStep(t) PROVE RuntimeMatchesPhase'
  <2>1. CASE RollbackPredicted(t)
    BY <2>1, SlotTransitions DEF RollbackPredicted
  <2>2. CASE RetireResponse(t)
    BY <2>2, SlotTransitions DEF RetireResponse
  <2>3. CASE ReadWireOpened(t) \/ GateCancelled(t) \/ SendCancelled(t)
             \/ TruncateAssistant(t) \/ VadSpeaks(t) \/ SendSpeechStarted(t)
    <3>1. UNCHANGED slot
      BY <2>3 DEF ReadWireOpened, GateCancelled, SendCancelled, TruncateAssistant,
         VadSpeaks, SendSpeechStarted, slot, stateVars
    <3> QED BY <3>1, SlotUntouched
  <2> QED BY <1>2, <2>1, <2>2, <2>3 DEF CancelStep
<1>3. ASSUME NEW i \in Items, DelayElapsed(i) \/ DispatchStep(i)
      PROVE  RuntimeMatchesPhase'
  <2>1. CASE StartPredicted(i)
    BY <2>1, SlotTransitions DEF StartPredicted
  <2>2. CASE \/ DelayElapsed(i) \/ EouScored(i) \/ EagerScored(i)
             \/ PredictionRefused(i) \/ ClearCommitTimer(i)
    <3>1. UNCHANGED slot
      BY <2>2 DEF DelayElapsed, EouScored, EagerScored, PredictionRefused, ClearCommitTimer, slot, stateVars
    <3> QED BY <3>1, SlotUntouched
  <2> QED BY <1>3, <2>1, <2>2 DEF DispatchStep
<1>4. ASSUME NEW t \in Committers, CommitStep(t) PROVE RuntimeMatchesPhase'
  <2>1. CASE CommitItem(t)
    BY <2>1, SlotTransitions DEF CommitItem
  <2>2. CASE AdmitTurn(t)
    <3>1. (\E r : RespCreateFromNone(r)) \/ UNCHANGED slot
      BY <2>2 DEF AdmitTurn, slot
    <3> QED BY <3>1, SlotTransitions, SlotUntouched
  <2>3. CASE SendCommitted(t) \/ \E transcript, text \in BOOLEAN : AwaitPrediction(t, transcript, text)
    <3>1. UNCHANGED slot
      BY <2>3 DEF SendCommitted, AwaitPrediction, slot, stateVars
    <3> QED BY <3>1, SlotUntouched
  <2> QED BY <1>4, <2>1, <2>2, <2>3 DEF CommitStep
<1>5. ASSUME NEW t \in Workers, UtteranceStep(t) PROVE RuntimeMatchesPhase'
  <2>1. UNCHANGED slot
    BY <1>5 DEF UtteranceStep, StoreSealed, Transcribed, TranscriptRejected,
       TranscriptionFailed, MarkIncomplete, SendTranscriptionCompleted, DropSealed,
       slot, stateVars
  <2> QED BY <2>1, SlotUntouched
<1>6. ASSUME NEW r \in Responses, LaneStep(r) PROVE RuntimeMatchesPhase'
  <2>1. CASE LlmDelta(r)
    <3>1. UNCHANGED current /\ (RespAdvanceToStreaming(r) \/ UNCHANGED resp)
      BY <2>1 DEF LlmDelta
    <3> QED BY <3>1, SlotTransitions, SlotUntouched DEF slot
  <2>2. ASSUME NEW ok \in BOOLEAN, CloseResponse(r, ok) PROVE RuntimeMatchesPhase'
    <3>1. RespRetireToNone \/ UNCHANGED slot
      BY <2>2 DEF CloseResponse, slot
    <3> QED BY <3>1, SlotTransitions, SlotUntouched
  <2>3. CASE ClearResponse(r)
    <3>1. CASE resp.id = r
      BY <2>3, <3>1, SlotTransitions DEF ClearResponse
    <3>2. CASE resp.id # r
      BY <2>3, <3>2 DEF ClearResponse, RuntimeMatchesPhase, RespNone, ActivePhases
    <3> QED BY <3>1, <3>2
  <2>4. CASE Announce(r) \/ SendCreated(r) \/ GateDelta(r) \/ SendDelta(r) \/ SendDone(r)
    <3>1. UNCHANGED slot
      BY <2>4 DEF Announce, SendCreated, GateDelta, SendDelta, SendDone, slot, stateVars
    <3> QED BY <3>1, SlotUntouched
  <2> QED BY <1>6, <2>1, <2>2, <2>3, <2>4 DEF LaneStep
<1>7. CASE ClientStep
  <2>1. CASE ClientCreate
    BY <2>1, SlotTransitions DEF ClientCreate
  <2>2. CASE ClientCancel \/ ClientClear \/ ClearInputBuffer \/ ClientItem
    <3>1. UNCHANGED slot
      BY <2>2 DEF ClientCancel, ClientClear, ClearInputBuffer, ClientItem, slot, stateVars
    <3> QED BY <3>1, SlotUntouched
  <2> QED BY <1>7, <2>1, <2>2 DEF ClientStep
<1>8. CASE Terminate \/ UNCHANGED vars
  <2>1. UNCHANGED slot
    BY <1>8 DEF Terminate, vars, slot, stateVars
  <2> QED BY <2>1, SlotUntouched
<1> QED BY <1>1, <1>2, <1>3, <1>4, <1>5, <1>6, <1>7, <1>8 DEF Next

(* The response runtime the session holds (current_response) is that of    *)
(* the response in the slot, whichever task fills, advances or empties it. *)
THEOREM RuntimeCorrect == Spec => []RuntimeMatchesPhase
<1>1. Init => RuntimeMatchesPhase
  BY DEF Init, StateInit, RuntimeMatchesPhase, RespNone, ActivePhases
<1>2. RuntimeMatchesPhase /\ [Next]_vars => RuntimeMatchesPhase'
  BY SlotStep
<1> QED BY <1>1, <1>2, PTL DEF Spec

-----------------------------------------------------------------------------
(* The lanes.  Where a lane listens to its utterance, where it streams its *)
(* reply, where a task is about to end a response it took out of the slot, *)
(* and where a committed turn waits to be admitted.                        *)
Hearing == {"store", "stt", "completed", "incomplete", "release", "announce"}
Replying == {"llm", "gate", "delta"}
Ending == {"opened", "gate", "cancelled"}
Turning == {"await", "committed", "admit"}

\* Every task is somewhere.
Placed == pc = [t \in Tasks |-> pc[t]]

SessionTypes ==
    /\ Placed
    /\ resp \in RespPhases
    /\ nextResp \in 0..MaxResp
    /\ outLock \in 0..MaxResp
    /\ snap \in [Tasks -> [id : 0..MaxResp, lane : 0..MaxResp]]
    /\ turn \in [Tasks -> [id : 0..MaxResp, text : BOOLEAN]]
    /\ wire \in [Responses -> Seq({"created", "delta", "done"})]

\* An id that has no lane has left no trace.
FreshLanes ==
    \A r \in Responses :
        /\ pc[Lane(r)] = "none" => wire[r] = <<>> /\ Lane(r) \notin aborted
        /\ r > nextResp => pc[Lane(r)] = "none"

\* A prediction has no lane yet. An active response's lane runs, was not
\* aborted, and has not ended.
SlotLane ==
    /\ resp.id <= nextResp
    /\ resp.phase = "Predicted" => pc[Lane(resp.id)] = "none"
    /\ resp.phase \in ActivePhases =>
          /\ pc[Lane(resp.id)] \notin {"none", "closing"}
          /\ Lane(resp.id) \notin aborted
          /\ ~EndedWire(resp.id)

\* The id a turn took over from a prediction is that turn's alone.
TurnIds ==
    \A t \in Committers : pc[t] \in Turning =>
        /\ turn[t].id <= nextResp
        /\ turn[t].id = 0 => pc[t] # "await" /\ turn[t].text = FALSE
        /\ turn[t].id # 0 =>
              /\ pc[Lane(turn[t].id)] = "none" /\ resp.id # turn[t].id
              /\ \A u \in Committers :
                    u # t /\ pc[u] \in Turning => turn[u].id # turn[t].id

\* A lane has outbound_send exactly while it sends its brackets, and no lane
\* is aborted that has it.
LockOwner ==
    \A r \in Responses :
        /\ outLock = r <=> pc[Lane(r)] \in {"created", "closing"}
        /\ outLock = r => Lane(r) \notin aborted

\* What is on the wire, by where the lane is.
WireShape ==
    \A r \in Responses :
        /\ wire[r] = <<>> \/ OpenWire(r) \/ EndedWire(r)
        /\ pc[Lane(r)] \in Hearing \cup {"created"} => wire[r] = <<>>
        /\ pc[Lane(r)] \in Replying \cup {"closing"} => wire[r] # <<>>
        /\ pc[Lane(r)] = "closing" => OpenWire(r) /\ resp.id # r
        /\ r \in wireOpened <=> wire[r] # <<>>

\* A task that cancels a response has it for itself.
Cancels ==
    \A t \in Cancellers : pc[t] \in Ending =>
        /\ snap[t].id # 0 /\ snap[t].lane = snap[t].id
        /\ resp.id # snap[t].id
        /\ pc[Lane(snap[t].id)] \notin {"none", "closing"}
        /\ ~EndedWire(snap[t].id)
        /\ pc[t] # "opened" => OpenWire(snap[t].id)
        /\ \A u \in Cancellers :
              u # t /\ pc[u] \in Ending => snap[u].id # snap[t].id

LaneInv ==
    /\ SessionTypes /\ RuntimeMatchesPhase /\ FreshLanes /\ SlotLane /\ TurnIds
    /\ LockOwner /\ WireShape /\ Cancels

\* Only a session set up for it speculates.
EagerInv == \A i \in Items : pc[EouTask(i)] = "eager" => config.eager

\* Every open response, and every one about to be opened, has a closer.
CloserInv ==
    /\ ~config.eager => resp.phase # "Predicted"
    /\ session = "Active" =>
          \A r \in Responses :
              /\ resp.phase \in ActivePhases /\ resp.id = r =>
                    /\ pc[Lane(r)] # "end"
                    /\ pc[Lane(r)] = "fin" => wire[r] = <<>>
              /\ ~config.eager /\ (OpenWire(r) \/ pc[Lane(r)] = "created") => Closer(r)

-----------------------------------------------------------------------------
(* The names of tasks are distinct.                                        *)
LEMMA TaskNames ==
    /\ VadTask \in Tasks /\ ClientTask \in Tasks /\ VadTask # ClientTask
    /\ VadTask \in Cancellers /\ ClientTask \in Cancellers
    /\ VadTask \in Committers /\ ClientTask \notin Committers
    /\ VadTask \notin Lanes /\ ClientTask \notin Lanes
    /\ VadTask \notin Workers /\ ClientTask \notin Workers
    /\ Cancellers \subseteq Tasks /\ Committers \subseteq Tasks /\ Workers \subseteq Tasks
    /\ Lanes \subseteq Workers /\ Utterances \subseteq Workers /\ Workers = Lanes \cup Utterances
    /\ \A r \in Responses :
          /\ Lane(r) \in Tasks /\ Lane(r) \in Lanes /\ Lane(r) \notin Utterances
          /\ Lane(r) \notin Cancellers /\ Lane(r) \notin Committers
    /\ \A i \in Items :
          /\ DelayTask(i) \in Cancellers /\ DelayTask(i) \in Tasks
          /\ DelayTask(i) \notin Committers
          /\ DelayTask(i) \notin Workers /\ DelayTask(i) \notin {VadTask, ClientTask}
          /\ EouTask(i) \in Committers /\ EouTask(i) \in Tasks
          /\ EouTask(i) \notin Cancellers
          /\ EouTask(i) \notin Workers /\ EouTask(i) \notin {VadTask, ClientTask}
          /\ Utterance(i) \in Tasks /\ Utterance(i) \in Utterances /\ Utterance(i) \notin Lanes
          /\ Utterance(i) \notin Cancellers /\ Utterance(i) \notin Committers
    /\ \A t \in Committers : t = VadTask \/ \E i \in Items : t = EouTask(i)
    /\ \A t \in Cancellers : t \in {VadTask, ClientTask} \/ \E i \in Items : t = DelayTask(i)
    /\ \A t \in Utterances : \E i \in Items : t = Utterance(i)
    /\ \A t \in Lanes : \E r \in Responses : t = Lane(r)
<1> USE DEF VadTask, ClientTask, DelayTask, EouTask, Utterance, Lane, Delays, Dispatches,
        Lanes, Utterances, Tasks, Cancellers, Committers, Workers
<1>1. /\ VadTask \in Tasks /\ ClientTask \in Tasks /\ VadTask # ClientTask
      /\ VadTask \in Cancellers /\ ClientTask \in Cancellers
      /\ VadTask \in Committers /\ ClientTask \notin Committers
      /\ VadTask \notin Lanes /\ ClientTask \notin Lanes
      /\ VadTask \notin Workers /\ ClientTask \notin Workers
  OBVIOUS
<1>2. /\ Cancellers \subseteq Tasks /\ Committers \subseteq Tasks /\ Workers \subseteq Tasks
      /\ Lanes \subseteq Workers /\ Utterances \subseteq Workers /\ Workers = Lanes \cup Utterances
  OBVIOUS
<1>3. \A r \in Responses :
          /\ Lane(r) \in Tasks /\ Lane(r) \in Lanes /\ Lane(r) \notin Utterances
          /\ Lane(r) \notin Cancellers /\ Lane(r) \notin Committers
  OBVIOUS
<1>4. \A i \in Items :
          /\ DelayTask(i) \in Cancellers /\ DelayTask(i) \in Tasks
          /\ DelayTask(i) \notin Committers
          /\ DelayTask(i) \notin Workers /\ DelayTask(i) \notin {VadTask, ClientTask}
  OBVIOUS
<1>5. \A i \in Items :
          /\ EouTask(i) \in Committers /\ EouTask(i) \in Tasks
          /\ EouTask(i) \notin Cancellers
          /\ EouTask(i) \notin Workers /\ EouTask(i) \notin {VadTask, ClientTask}
  OBVIOUS
<1>6. \A i \in Items :
          /\ Utterance(i) \in Tasks /\ Utterance(i) \in Utterances /\ Utterance(i) \notin Lanes
          /\ Utterance(i) \notin Cancellers /\ Utterance(i) \notin Committers
  OBVIOUS
<1>7. /\ \A t \in Committers : t = VadTask \/ \E i \in Items : t = EouTask(i)
      /\ \A t \in Cancellers : t \in {VadTask, ClientTask} \/ \E i \in Items : t = DelayTask(i)
      /\ \A t \in Utterances : \E i \in Items : t = Utterance(i)
      /\ \A t \in Lanes : \E r \in Responses : t = Lane(r)
  OBVIOUS
<1> QED BY <1>1, <1>2, <1>3, <1>4, <1>5, <1>6, <1>7

(* A name tells for whom the task works.                                   *)
LEMMA NamesDiffer ==
    /\ \A r, s : Lane(r) = Lane(s) => r = s
    /\ \A i, j : EouTask(i) = EouTask(j) => i = j
    /\ \A i, j : Utterance(i) = Utterance(j) => i = j
    /\ \A i, j : DelayTask(i) = DelayTask(j) => i = j
    /\ \A r, i : Lane(r) # EouTask(i) /\ Lane(r) # DelayTask(i) /\ Lane(r) # Utterance(i)
    /\ \A i : /\ EouTask(i) # VadTask /\ DelayTask(i) # VadTask /\ Utterance(i) # VadTask
             /\ EouTask(i) # ClientTask /\ DelayTask(i) # ClientTask /\ Utterance(i) # ClientTask
    /\ \A i, j : EouTask(i) # DelayTask(j) /\ Utterance(i) # EouTask(j) /\ Utterance(i) # DelayTask(j)
BY DEF Lane, EouTask, Utterance, DelayTask, VadTask, ClientTask

-----------------------------------------------------------------------------
(* What one more event makes of a response's events.                       *)
LEMMA WireGrows ==
    ASSUME wire \in [Responses -> Seq({"created", "delta", "done"})],
           NEW r \in Responses, NEW e \in {"created", "delta", "done"}, SendResp(r, e)
    PROVE  /\ wire' \in [Responses -> Seq({"created", "delta", "done"})]
           /\ wire'[r] # <<>>
           /\ wire[r] = <<>> /\ e = "created" => OpenWire(r)'
           /\ OpenWire(r) /\ e = "delta" => OpenWire(r)'
           /\ OpenWire(r) /\ e = "done" => EndedWire(r)'
           /\ EndedWire(r) /\ e = "delta" => EndedWire(r)'
           /\ \A s \in Responses : s # r =>
                 /\ wire'[s] = wire[s]
                 /\ OpenWire(s)' <=> OpenWire(s)
                 /\ EndedWire(s)' <=> EndedWire(s)
<1>1. wire' = [wire EXCEPT ![r] = Append(wire[r], e)]
  BY DEF SendResp
<1>2. PICK w : w = wire[r]
  OBVIOUS
<1>3. w \in Seq({"created", "delta", "done"}) /\ Len(w) \in Nat
  BY <1>2
<1>4. /\ wire'[r] = Append(w, e) /\ Len(wire'[r]) = Len(w) + 1
      /\ \A k \in 1..Len(w) : wire'[r][k] = w[k]
      /\ wire'[r][Len(w) + 1] = e
  BY <1>1, <1>2, <1>3
<1>5. wire' \in [Responses -> Seq({"created", "delta", "done"})] /\ wire'[r] # <<>>
  BY <1>1, <1>3, <1>4
<1>6. wire[r] = <<>> /\ e = "created" => OpenWire(r)'
  BY <1>2, <1>3, <1>4 DEF OpenWire
<1>7. OpenWire(r) /\ e = "delta" => OpenWire(r)'
  BY <1>2, <1>3, <1>4 DEF OpenWire
<1>8. ASSUME OpenWire(r), e = "done" PROVE EndedWire(r)'
  <2>1. Len(w) > 0 /\ w[1] = "created" /\ \A k \in 2..Len(w) : w[k] = "delta"
    BY <1>2, <1>8 DEF OpenWire
  <2>2. Len(wire'[r]) \in 2..Len(wire'[r]) /\ wire'[r][Len(wire'[r])] = "done"
    BY <1>3, <1>4, <1>8, <2>1
  <2>3. \A k \in 2..Len(wire'[r]) : k # Len(wire'[r]) => wire'[r][k] = "delta"
    BY <1>3, <1>4, <2>1
  <2>4. Len(wire'[r]) > 0 /\ wire'[r][1] = "created"
    BY <1>3, <1>4, <2>1
  <2> QED BY <2>2, <2>3, <2>4 DEF EndedWire
<1>9. ASSUME EndedWire(r), e = "delta" PROVE EndedWire(r)'
  <2>1. Len(w) > 0 /\ w[1] = "created"
    BY <1>2, <1>9 DEF EndedWire
  <2>2. PICK d \in 2..Len(w) : w[d] = "done" /\ \A k \in 2..Len(w) : k # d => w[k] = "delta"
    BY <1>2, <1>9 DEF EndedWire
  <2>3. d \in 2..Len(wire'[r]) /\ wire'[r][d] = "done"
    BY <1>3, <1>4, <2>2
  <2>4. \A k \in 2..Len(wire'[r]) : k # d => wire'[r][k] = "delta"
    BY <1>3, <1>4, <1>9, <2>2
  <2>5. Len(wire'[r]) > 0 /\ wire'[r][1] = "created"
    BY <1>3, <1>4, <2>1
  <2> QED BY <2>3, <2>4, <2>5 DEF EndedWire
<1>10. ASSUME NEW s \in Responses, s # r
       PROVE  /\ wire'[s] = wire[s]
              /\ OpenWire(s)' <=> OpenWire(s)
              /\ EndedWire(s)' <=> EndedWire(s)
  <2>1. wire'[s] = wire[s]
    BY <1>1, <1>10
  <2> QED BY <2>1 DEF OpenWire, EndedWire
<1> QED BY <1>5, <1>6, <1>7, <1>8, <1>9, <1>10

(* An open wire is neither empty nor ended; an ended one is not empty.     *)
LEMMA WireKinds ==
    ASSUME NEW r \in Responses
    PROVE  /\ OpenWire(r) => wire[r] # <<>> /\ ~EndedWire(r)
           /\ EndedWire(r) => wire[r] # <<>>
BY DEF OpenWire, EndedWire

(* Nothing is sent.                                                        *)
LEMMA WireSame ==
    ASSUME wire' = wire
    PROVE  \A r \in Responses : (OpenWire(r)' <=> OpenWire(r)) /\ (EndedWire(r)' <=> EndedWire(r))
BY DEF OpenWire, EndedWire

-----------------------------------------------------------------------------
(* A step that leaves the responses alone: the slot, the ids, the wire and *)
(* the lock stay as they are; lanes move on while they listen or stream;   *)
(* nobody starts to end a response, and who has one to end goes on, unless *)
(* a prediction stops it; and nobody takes a turn's place.                 *)
CalmPc ==
    /\ Placed'
    /\ \A r \in Responses :
          \/ pc'[Lane(r)] = pc[Lane(r)]
          \/ pc[Lane(r)] \in Hearing /\ pc'[Lane(r)] \in Hearing \cup {"fin"}
          \/ pc[Lane(r)] \in Replying /\ pc'[Lane(r)] \in Replying
    /\ \A t \in Cancellers :
          /\ pc'[t] \in Ending => pc'[t] = pc[t] \/ (pc[t] = "gate" /\ pc'[t] = "cancelled")
          /\ pc[t] \in Ending /\ resp.phase # "Predicted" => pc'[t] \in Ending
    /\ \A t \in Committers :
          pc'[t] \in Turning => pc[t] \in Turning /\ (pc'[t] = "await" => pc[t] = "await")

Calm ==
    /\ CalmPc
    /\ UNCHANGED <<slot, nextResp, snap, wireOpened, wire, outLock, session, config>>
    /\ turn' \in [Tasks -> [id : 0..MaxResp, text : BOOLEAN]]
    /\ \A t \in Committers : pc'[t] \in Turning =>
          turn'[t].id = turn[t].id /\ (turn[t].id = 0 => turn'[t].text = turn[t].text)
    /\ \A r \in Responses : Lane(r) \in aborted' <=> Lane(r) \in aborted

(* One task moves.                                                         *)
LEMMA OneMoves ==
    ASSUME Placed, NEW t, NEW l, pc' = [pc EXCEPT ![t] = l]
    PROVE  /\ Placed'
           /\ \A u \in Tasks : pc'[u] = IF u = t THEN l ELSE pc[u]
BY DEF Placed

(* More than calm steps keep the lanes in order: the slot may be emptied   *)
(* or marked as streaming, a lane that has not got the lock may be over,   *)
(* and whoever was to end a response may leave it.                         *)
LoosePc ==
    /\ Placed'
    /\ \A r \in Responses :
          \/ pc'[Lane(r)] = pc[Lane(r)]
          \/ pc[Lane(r)] \in Hearing /\ pc'[Lane(r)] \in Hearing
          \/ pc[Lane(r)] \in Replying /\ pc'[Lane(r)] \in Replying
          \/ pc[Lane(r)] \notin {"none", "created", "closing"} /\ pc'[Lane(r)] \in {"fin", "end"}
    /\ \A t \in Cancellers :
          pc'[t] \in Ending => pc'[t] = pc[t] \/ (pc[t] = "gate" /\ pc'[t] = "cancelled")
    /\ \A t \in Committers :
          pc'[t] \in Turning => pc[t] \in Turning /\ (pc'[t] = "await" => pc[t] = "await")

SlotShrinks ==
    \/ resp' = resp \/ resp' = RespNone
    \/ \E r \in Responses : resp = Created(r) /\ resp' = Streaming(r)

Loose ==
    /\ LoosePc
    /\ SlotShrinks
    /\ UNCHANGED <<nextResp, snap, wireOpened, wire, outLock>>
    /\ turn' \in [Tasks -> [id : 0..MaxResp, text : BOOLEAN]]
    /\ \A t \in Committers : pc'[t] \in Turning =>
          turn'[t].id = turn[t].id /\ (turn[t].id = 0 => turn'[t].text = turn[t].text)
    /\ \A r \in Responses : Lane(r) \in aborted' <=> Lane(r) \in aborted

(* A calm step is one.                                                     *)
LEMMA CalmIsLoose == Calm => Loose
<1> SUFFICES ASSUME Calm PROVE Loose
  OBVIOUS
<1>1. LoosePc
  BY DEF Calm, CalmPc, LoosePc, Hearing, Replying, Ending
<1> QED BY <1>1 DEF Calm, Loose, SlotShrinks, slot

(* Such a step keeps the lanes in order.                                   *)
LEMMA LooseKeepsLanes ==
    ASSUME LaneInv, Loose, RuntimeMatchesPhase'
    PROVE  LaneInv'
<1>1. /\ SessionTypes /\ RuntimeMatchesPhase /\ FreshLanes /\ SlotLane /\ TurnIds
      /\ LockOwner /\ WireShape /\ Cancels
  BY DEF LaneInv
<1>2. /\ nextResp' = nextResp /\ snap' = snap
      /\ wireOpened' = wireOpened /\ wire' = wire /\ outLock' = outLock
  BY DEF Loose
<1>a. /\ resp' \in RespPhases /\ resp'.id \in {0, resp.id}
      /\ resp'.phase = "Predicted" => resp' = resp
      /\ resp'.phase \in ActivePhases => resp.phase \in ActivePhases /\ resp'.id = resp.id
  BY <1>1 DEF SessionTypes, Loose, SlotShrinks, RespPhases, RespNone, Predicted, Created,
     Streaming, ActivePhases
<1>b. resp.phase = "Predicted" \/ resp.phase \in ActivePhases => resp.id \in Responses
  BY <1>1 DEF SessionTypes, RespPhases, RespNone, Predicted, Created, Streaming, ActivePhases
<1>3. \A r \in Responses : (OpenWire(r)' <=> OpenWire(r)) /\ (EndedWire(r)' <=> EndedWire(r))
  BY <1>2, WireSame
<1>4. /\ \A r \in Responses :
            /\ pc'[Lane(r)] = "none" <=> pc[Lane(r)] = "none"
            /\ pc'[Lane(r)] = "closing" <=> pc[Lane(r)] = "closing"
            /\ pc'[Lane(r)] = "created" <=> pc[Lane(r)] = "created"
            /\ pc'[Lane(r)] \in Hearing => pc[Lane(r)] \in Hearing
            /\ pc'[Lane(r)] \in Replying => pc[Lane(r)] \in Replying
  BY DEF Loose, LoosePc, Hearing, Replying
<1>5. SessionTypes'
  BY <1>1, <1>2, <1>a DEF SessionTypes, Loose, LoosePc
<1>7. FreshLanes'
  BY <1>1, <1>2, <1>4 DEF FreshLanes, Loose
<1>8. SlotLane'
  <2>1. nextResp \in Nat
    BY <1>1, SessionBounds DEF SessionTypes
  <2>2. resp'.id <= nextResp'
    BY <1>1, <1>2, <1>a, <2>1 DEF SlotLane
  <2>3. resp'.phase = "Predicted" => pc'[Lane(resp'.id)] = "none"
    BY <1>1, <1>4, <1>a, <1>b DEF SlotLane
  <2>4. ASSUME resp'.phase \in ActivePhases
        PROVE  /\ pc'[Lane(resp'.id)] \notin {"none", "closing"}
               /\ Lane(resp'.id) \notin aborted'
               /\ ~(EndedWire(resp.id)')
    <3>1. PICK r : r = resp.id
      OBVIOUS
    <3>2. r \in Responses /\ resp'.id = r /\ resp.phase \in ActivePhases
      BY <1>a, <1>b, <2>4, <3>1
    <3>3. EndedWire(r)' <=> EndedWire(r)
      BY <1>3, <3>2
    <3>4. pc[Lane(r)] \notin {"none", "closing"} /\ Lane(r) \notin aborted /\ ~EndedWire(r)
      BY <1>1, <3>1, <3>2 DEF SlotLane
    <3>5. EndedWire(resp.id)' <=> EndedWire(r)'
      BY <3>1, <3>2 DEF EndedWire
    <3> QED BY <1>4, <3>2, <3>3, <3>4, <3>5 DEF Loose
  <2> QED BY <2>2, <2>3, <2>4 DEF SlotLane
<1>9. TurnIds'
  <2> SUFFICES ASSUME NEW t \in Committers, pc'[t] \in Turning
               PROVE  /\ turn'[t].id <= nextResp'
                      /\ turn'[t].id = 0 => pc'[t] # "await" /\ turn'[t].text = FALSE
                      /\ turn'[t].id # 0 =>
                            /\ pc'[Lane(turn'[t].id)] = "none" /\ resp'.id # turn'[t].id
                            /\ \A u \in Committers :
                                  u # t /\ pc'[u] \in Turning => turn'[u].id # turn'[t].id
    BY DEF TurnIds
  <2>1. /\ pc[t] \in Turning /\ turn'[t].id = turn[t].id
        /\ pc'[t] = "await" => pc[t] = "await"
        /\ turn[t].id = 0 => turn'[t].text = turn[t].text
    BY DEF Loose, LoosePc
  <2>2. turn[t].id \in 0..MaxResp
    BY <1>1, TaskNames DEF SessionTypes
  <2>3. turn[t].id # 0 => turn[t].id \in Responses
    BY <2>2, SessionBounds DEF Responses
  <2>4. /\ turn[t].id <= nextResp
        /\ turn[t].id = 0 => pc[t] # "await" /\ turn[t].text = FALSE
        /\ turn[t].id # 0 =>
              /\ pc[Lane(turn[t].id)] = "none" /\ resp.id # turn[t].id
              /\ \A u \in Committers :
                    u # t /\ pc[u] \in Turning => turn[u].id # turn[t].id
    BY <1>1, <2>1 DEF TurnIds
  <2>5. \A u \in Committers : pc'[u] \in Turning => pc[u] \in Turning /\ turn'[u].id = turn[u].id
    BY DEF Loose, LoosePc
  <2> QED BY <1>2, <1>4, <1>a, <2>1, <2>3, <2>4, <2>5
<1>10. LockOwner'
  BY <1>1, <1>2, <1>4 DEF LockOwner, Loose
<1>11. WireShape'
  <2>1. 0 \notin Responses
    BY SessionBounds DEF Responses
  <2> QED BY <1>1, <1>2, <1>3, <1>4, <1>a, <2>1 DEF WireShape
<1>12. Cancels'
  <2> SUFFICES ASSUME NEW t \in Cancellers, pc'[t] \in Ending
               PROVE  /\ snap[t].id # 0 /\ snap[t].lane = snap[t].id
                      /\ resp'.id # snap[t].id
                      /\ pc'[Lane(snap[t].id)] \notin {"none", "closing"}
                      /\ ~(EndedWire(snap[t].id)')
                      /\ pc'[t] # "opened" => OpenWire(snap[t].id)'
                      /\ \A u \in Cancellers :
                            u # t /\ pc'[u] \in Ending => snap[u].id # snap[t].id
    BY <1>2 DEF Cancels
  <2>1. pc[t] \in Ending /\ (pc'[t] # "opened" => pc[t] # "opened")
    BY DEF Loose, LoosePc, Ending
  <2>2. PICK r : r = snap[t].id
    OBVIOUS
  <2>3. /\ r # 0 /\ snap[t].lane = r /\ resp.id # r
        /\ pc[Lane(r)] \notin {"none", "closing"} /\ ~EndedWire(r)
        /\ pc[t] # "opened" => OpenWire(r)
        /\ \A u \in Cancellers : u # t /\ pc[u] \in Ending => snap[u].id # r
    BY <1>1, <2>1, <2>2 DEF Cancels
  <2>4. r \in 0..MaxResp
    BY <1>1, <2>2, TaskNames DEF SessionTypes
  <2>5. r \in Responses
    BY <2>3, <2>4, SessionBounds DEF Responses
  <2>6. (OpenWire(r)' <=> OpenWire(r)) /\ (EndedWire(r)' <=> EndedWire(r))
    BY <1>3, <2>5
  <2>7. \A u \in Cancellers : pc'[u] \in Ending => pc[u] \in Ending
    BY DEF Loose, LoosePc, Ending
  <2>8. OpenWire(snap[t].id)' <=> OpenWire(r)'
    BY <1>2, <2>2 DEF OpenWire
  <2>9. EndedWire(snap[t].id)' <=> EndedWire(r)'
    BY <1>2, <2>2 DEF EndedWire
  <2> QED BY <1>4, <1>a, <2>1, <2>2, <2>3, <2>5, <2>6, <2>7, <2>8, <2>9
<1> QED BY <1>5, <1>7, <1>8, <1>9, <1>10, <1>11, <1>12 DEF LaneInv

(* The moves of one task that are calm.                                    *)
LEMMA CalmGoto ==
    ASSUME SessionTypes, NEW t \in Tasks, NEW l, Goto(t, l),
           \/ /\ t \in Lanes
              /\ \/ pc[t] \in Hearing /\ l \in Hearing \cup {"fin"}
                 \/ pc[t] \in Replying /\ l \in Replying
           \/ /\ t \notin Lanes
              /\ l \in Ending => pc[t] = "gate" /\ l = "cancelled"
              /\ pc[t] \in Ending /\ resp.phase # "Predicted" => l \in Ending
              /\ l \in Turning => pc[t] \in Turning /\ l # "await"
    PROVE  CalmPc
<1>1. Placed /\ pc' = [pc EXCEPT ![t] = l]
  BY DEF SessionTypes, Goto
<1>2. Placed' /\ \A u \in Tasks : pc'[u] = IF u = t THEN l ELSE pc[u]
  BY <1>1, OneMoves
<1>3. /\ \A r \in Responses : Lane(r) \in Tasks /\ Lane(r) \in Lanes
      /\ \A u \in Cancellers : u \in Tasks /\ u \notin Lanes
      /\ \A u \in Committers : u \in Tasks /\ u \notin Lanes
  BY TaskNames
<1> QED BY <1>2, <1>3 DEF CalmPc

-----------------------------------------------------------------------------
(* An utterance's delay task is spawned once: nobody decides on a barge-in *)
(* for an utterance that has one.                                          *)
DelayInv ==
    /\ vitem \in 0..MaxItem /\ openItem \in 0..MaxItem /\ nextItem \in 0..MaxItem
    /\ vitem <= nextItem /\ openItem <= nextItem
    /\ \A i \in Items : i > nextItem => pc[DelayTask(i)] = "none"
    /\ pc[VadTask] \in {"timer", "rollback", "decide"} =>
          vitem # 0 /\ pc[DelayTask(vitem)] = "none"

(* A step that spawns no delay task and starts no utterance.               *)
LEMMA DelayUntouched ==
    ASSUME DelayInv, UNCHANGED <<vitem, openItem, nextItem>>,
           pc'[VadTask] \in {"timer", "rollback", "decide"} =>
              pc[VadTask] \in {"timer", "rollback", "decide"},
           \A i \in Items : pc[DelayTask(i)] = "none" => pc'[DelayTask(i)] = "none"
    PROVE  DelayInv'
<1>1. pc'[VadTask] \in {"timer", "rollback", "decide"} => vitem \in Items
  BY SessionBounds DEF DelayInv, Items
<1> QED BY <1>1 DEF DelayInv

(* One task moves on, and it is no delay task that was not spawned.        *)
LEMMA DelayGoto ==
    ASSUME SessionTypes, DelayInv, UNCHANGED <<vitem, openItem, nextItem>>,
           NEW t \in Tasks, NEW l, Goto(t, l),
           t = VadTask /\ l \in {"timer", "rollback", "decide"} =>
              pc[VadTask] \in {"timer", "rollback", "decide"},
           t \in Cancellers => pc[t] # "none" \/ t = VadTask
    PROVE  DelayInv'
<1>1. \A u \in Tasks : pc'[u] = IF u = t THEN l ELSE pc[u]
  BY OneMoves DEF SessionTypes, Goto
<1>2. pc'[VadTask] \in {"timer", "rollback", "decide"} =>
         pc[VadTask] \in {"timer", "rollback", "decide"}
  BY <1>1, TaskNames
<1>3. \A i \in Items : pc[DelayTask(i)] = "none" => pc'[DelayTask(i)] = "none"
  BY <1>1, TaskNames
<1> QED BY <1>2, <1>3, DelayUntouched

(* The steps of the voice detector's task leave the responses alone.       *)
LEMMA VadIsCalm ==
    ASSUME SessionTypes, DelayInv, VadStep
    PROVE  Calm /\ DelayInv'
<1>0. /\ UNCHANGED <<slot, nextResp, snap, turn, wireOpened, wire, outLock, session, config>>
      /\ \A r \in Responses : Lane(r) \in aborted' <=> Lane(r) \in aborted
  <2>1. UNCHANGED <<slot, nextResp, snap, turn, wireOpened, wire, outLock, session, config>>
    BY DEF VadStep, SpeechStarted, SpeechCommitted, VadHears, CancelCommitTimer,
       DecideBargeIn, SetPendingBargein, SuppressBargein, VadStops, SendSpeechStopped,
       RejectShort, InstallCommitTimer, SendItem, slot, stateVars, taskVars, turnLocals,
       laneLocals, wires
  <2>2. \/ aborted' = aborted \/ AbortCommitTimer \/ AbortBargeinTask
    BY DEF VadStep, SpeechStarted, SpeechCommitted, VadHears, CancelCommitTimer,
       DecideBargeIn, SetPendingBargein, SuppressBargein, VadStops, SendSpeechStopped,
       RejectShort, InstallCommitTimer, taskVars
  <2>3. \A r \in Responses : Lane(r) \in aborted' <=> Lane(r) \in aborted
    BY <2>2, NamesDiffer DEF AbortCommitTimer, AbortBargeinTask
  <2> QED BY <2>1, <2>3
<1>1. ASSUME CalmPc PROVE Calm
  BY <1>0, <1>1 DEF Calm, SessionTypes
<1>2. /\ Placed
      /\ VadTask \in Tasks /\ VadTask \notin Lanes
  BY TaskNames DEF SessionTypes
<1> DEFINE QuietLabels == {"timer", "suppress", "rollback", "set-pending", "retire", "idle", "stop", "stopped",
                           "reject", "install", "commit"}
<1>3. ASSUME NEW l \in QuietLabels, Goto(VadTask, l), pc[VadTask] \notin Ending
      PROVE  Calm
  <2>1. l \notin Ending /\ l \notin Turning
    BY <1>3 DEF Ending, Turning
  <2>2. CalmPc
    BY <1>2, <1>3, <2>1, CalmGoto
  <2> QED BY <1>1, <2>2
<1>4. ASSUME NEW l \in QuietLabels, Goto(VadTask, l), pc[VadTask] \notin Ending,
             UNCHANGED vadLocals,
             l \in {"timer", "rollback", "decide"} => pc[VadTask] \in {"timer", "rollback", "decide"}
      PROVE  Calm /\ DelayInv'
  <2>1. Calm
    BY <1>3, <1>4
  <2>2. DelayInv'
    BY <1>2, <1>4, DelayGoto DEF vadLocals
  <2> QED BY <2>1, <2>2
<1>5. CASE SpeechStarted
  <2>1. /\ nextItem < MaxItem /\ nextItem' = nextItem + 1 /\ openItem' = nextItem' /\ vitem' = nextItem'
        /\ Goto(VadTask, "timer") /\ pc[VadTask] = "idle"
    BY <1>5 DEF SpeechStarted, VadHears
  <2>2. Calm
    BY <1>3, <2>1 DEF Ending, Turning
  <2>3. \A i \in Items : pc'[DelayTask(i)] = pc[DelayTask(i)]
    BY <1>2, <2>1, TaskNames, OneMoves DEF Goto
  <2>4. nextItem' \in Items /\ nextItem' > nextItem /\ nextItem \in 0..MaxItem
    BY <2>1, SessionBounds DEF DelayInv, Items
  <2>5. DelayInv'
    BY <2>1, <2>3, <2>4, SessionBounds DEF DelayInv, Items
  <2> QED BY <2>2, <2>5
<1>6. ASSUME NEW length \in {"short", "quick", "full"}, SpeechCommitted(length)
      PROVE  Calm /\ DelayInv'
  <2>1. /\ nextItem' = nextItem /\ openItem' = 0 /\ vitem' \in {openItem, 0}
        /\ Goto(VadTask, "suppress") /\ pc[VadTask] = "idle"
    BY <1>6 DEF SpeechCommitted, VadHears, Open
  <2>2. Calm
    BY <1>3, <2>1 DEF Ending, Turning
  <2>3. \A i \in Items : pc'[DelayTask(i)] = pc[DelayTask(i)]
    BY <1>2, <2>1, TaskNames, OneMoves DEF Goto
  <2>4. pc'[VadTask] = "suppress"
    BY <1>2, <2>1 DEF Goto, Placed
  <2>5. DelayInv'
    BY <2>1, <2>3, <2>4, SessionBounds DEF DelayInv, Items
  <2> QED BY <2>2, <2>5
<1>7. CASE CancelCommitTimer
  BY <1>4, <1>7 DEF CancelCommitTimer, At, Ending
<1>8. CASE DecideBargeIn
  <2>1. /\ pc[VadTask] = "decide" /\ UNCHANGED vadLocals
        /\ pc' = IF current # 0 /\ config.delay
                 THEN [pc EXCEPT ![DelayTask(vitem)] = "sleep", ![VadTask] = "set-pending"]
                 ELSE [pc EXCEPT ![VadTask] = "retire"]
    BY <1>8 DEF DecideBargeIn, At, taskVars
  <2>2. CASE ~(current # 0 /\ config.delay)
    BY <1>4, <2>1, <2>2 DEF Goto, Ending, Turning
  <2>3. CASE current # 0 /\ config.delay
    <3>2. pc[DelayTask(vitem)] = "none" /\ vitem \in Items /\ vitem <= nextItem
      BY <2>1, SessionBounds DEF DelayInv, Items
    <3>1. /\ Placed'
          /\ \A u \in Tasks : pc'[u] = IF u = VadTask THEN "set-pending"
                                       ELSE IF u = DelayTask(vitem) THEN "sleep" ELSE pc[u]
      <4>1. PICK d : d = DelayTask(vitem)
        OBVIOUS
      <4>2. pc' = [pc EXCEPT ![d] = "sleep", ![VadTask] = "set-pending"]
        BY <2>1, <2>3, <4>1
      <4>3. Placed
        BY <1>2
      <4>4. Placed' /\ \A u \in Tasks : pc'[u] = IF u = VadTask THEN "set-pending"
                                                ELSE IF u = d THEN "sleep" ELSE pc[u]
        BY <4>2, <4>3 DEF Placed
      <4> QED BY <4>1, <4>4
    <3>3. CalmPc
      <4>1. \A r \in Responses : pc'[Lane(r)] = pc[Lane(r)]
        BY <3>1, TaskNames, NamesDiffer
      <4>2. \A t \in Cancellers : t \notin {VadTask, DelayTask(vitem)} => pc'[t] = pc[t]
        BY <3>1, TaskNames
      <4>3. \A t \in Committers : t # VadTask => pc'[t] = pc[t]
        BY <3>1, <3>2, TaskNames
      <4>4. pc'[VadTask] = "set-pending" /\ pc'[DelayTask(vitem)] = "sleep"
        BY <3>1, <3>2, TaskNames
      <4> QED BY <2>1, <3>1, <3>2, <4>1, <4>2, <4>3, <4>4 DEF CalmPc, Ending, Turning
    <3>4. Calm
      BY <1>1, <3>3
    <3>5. \A i \in Items : i # vitem => pc'[DelayTask(i)] = pc[DelayTask(i)]
      BY <3>1, TaskNames, NamesDiffer
    <3>6. pc'[VadTask] = "set-pending"
      BY <3>1, TaskNames
    <3>7. DelayInv'
      <4>1. UNCHANGED <<vitem, openItem, nextItem>>
        BY <2>1 DEF vadLocals
      <4> QED BY <3>2, <3>5, <3>6, <4>1 DEF DelayInv, Items
    <3> QED BY <3>4, <3>7
  <2> QED BY <2>2, <2>3
<1>9. CASE SetPendingBargein
  BY <1>4, <1>9 DEF SetPendingBargein, At, Ending
<1>10. CASE SuppressBargein
  <2>1. PICK l \in {"idle", "stop"} : Goto(VadTask, l)
    BY <1>10 DEF SuppressBargein
  <2> QED BY <1>4, <1>10, <2>1 DEF SuppressBargein, At, Ending
<1>11. CASE VadStops
  BY <1>4, <1>11 DEF VadStops, At, Ending, taskVars
<1>12. CASE SendSpeechStopped
  <2>1. pc[VadTask] = "stopped" /\ UNCHANGED vadLocals
    BY <1>12 DEF SendSpeechStopped, At, taskVars
  <2>2. \/ \E l \in {"reject", "commit"} : pc' = [pc EXCEPT ![VadTask] = l]
        \/ pc' = [pc EXCEPT ![EouTask(vitem)] = "score", ![VadTask] = "install"]
    BY <1>12 DEF SendSpeechStopped
  <2>3. ASSUME NEW l \in {"reject", "commit"}, pc' = [pc EXCEPT ![VadTask] = l]
        PROVE  Calm /\ DelayInv'
    BY <1>4, <2>1, <2>3 DEF Goto, Ending, Turning
  <2>4. CASE pc' = [pc EXCEPT ![EouTask(vitem)] = "score", ![VadTask] = "install"]
    <3>1. /\ Placed'
          /\ \A u \in Tasks : pc'[u] = IF u = VadTask THEN "install"
                                       ELSE IF u = EouTask(vitem) THEN "score" ELSE pc[u]
      <4>1. PICK d : d = EouTask(vitem)
        OBVIOUS
      <4>2. pc' = [pc EXCEPT ![d] = "score", ![VadTask] = "install"]
        BY <2>4, <4>1
      <4>3. Placed
        BY <1>2
      <4>4. Placed' /\ \A u \in Tasks : pc'[u] = IF u = VadTask THEN "install"
                                                ELSE IF u = d THEN "score" ELSE pc[u]
        BY <4>2, <4>3 DEF Placed
      <4> QED BY <4>1, <4>4
    <3>2. \A r \in Responses : pc'[Lane(r)] = pc[Lane(r)]
      BY <3>1, TaskNames, NamesDiffer
    <3>3. ASSUME NEW t \in Cancellers, t # VadTask PROVE pc'[t] = pc[t]
      <4>1. t = ClientTask \/ \E i \in Items : t = DelayTask(i)
        BY <3>3, TaskNames
      <4>2. t # EouTask(vitem)
        BY <4>1, NamesDiffer
      <4> QED BY <3>1, <3>3, <4>2, TaskNames
    <3>4. \A t \in Committers : pc'[t] = pc[t] \/ pc'[t] \in {"score", "install"}
      BY <3>1, TaskNames
    <3>5. pc'[VadTask] = "install"
      BY <3>1, TaskNames
    <3>6. CalmPc
      BY <2>1, <3>1, <3>2, <3>3, <3>4, <3>5 DEF CalmPc, Ending, Turning
    <3>7. DelayInv'
      BY <2>1, <3>3, <3>5, TaskNames, DelayUntouched DEF vadLocals
    <3> QED BY <1>1, <3>6, <3>7
  <2> QED BY <2>2, <2>3, <2>4
<1>13. CASE RejectShort
  BY <1>4, <1>13 DEF RejectShort, At, Ending, taskVars
<1>14. CASE InstallCommitTimer
  BY <1>4, <1>14 DEF InstallCommitTimer, At, Ending
<1> QED BY <1>5, <1>6, <1>7, <1>8, <1>9, <1>10, <1>11, <1>12, <1>13, <1>14 DEF VadStep

(* One task moves on, and nothing of the responses changes.                *)
LEMMA QuietGoto ==
    ASSUME SessionTypes, DelayInv, NEW t \in Tasks, NEW l, Goto(t, l), pc[t] # "none",
           UNCHANGED <<slot, nextResp, snap, turn, wireOpened, wire, outLock, session, config>>,
           UNCHANGED <<vitem, openItem, nextItem>>,
           \A r \in Responses : Lane(r) \in aborted' <=> Lane(r) \in aborted,
           l \notin {"timer", "rollback", "decide"},
           \/ /\ t \in Lanes
              /\ \/ pc[t] \in Hearing /\ l \in Hearing \cup {"fin"}
                 \/ pc[t] \in Replying /\ l \in Replying
           \/ /\ t \notin Lanes
              /\ l \in Ending => pc[t] = "gate" /\ l = "cancelled"
              /\ pc[t] \in Ending /\ resp.phase # "Predicted" => l \in Ending
              /\ l \in Turning => pc[t] \in Turning /\ l # "await"
    PROVE  Calm /\ DelayInv'
<1>1. CalmPc
  BY CalmGoto
<1>2. Calm
  BY <1>1 DEF Calm, SessionTypes
<1>3. DelayInv'
  BY DelayGoto
<1> QED BY <1>2, <1>3

(* The steps of a cancellation that touch neither the slot nor the wire.   *)
LEMMA CancelIsCalm ==
    ASSUME SessionTypes, DelayInv, NEW t \in Cancellers,
           GateCancelled(t) \/ TruncateAssistant(t) \/ VadSpeaks(t) \/ SendSpeechStarted(t)
    PROVE  Calm /\ DelayInv'
<1>1. t \in Tasks /\ t \notin Lanes
  BY TaskNames
<1>2. /\ UNCHANGED <<slot, nextResp, snap, turn, wireOpened, wire, outLock, session, config>>
      /\ UNCHANGED <<vitem, openItem, nextItem, aborted>>
  BY DEF GateCancelled, TruncateAssistant, VadSpeaks, SendSpeechStarted, SendItem, stateVars, slot,
     taskVars, turnLocals, laneLocals, vadLocals, wires
<1>3. PICK l : /\ Goto(t, l)
               /\ \/ pc[t] = "gate" /\ l = IF resp.phase = "Predicted" THEN "truncate" ELSE "cancelled"
                  \/ pc[t] \in {"truncate", "speak", "started"}
                     /\ l \in {"idle", "speak", "started", "end"}
  BY DEF GateCancelled, TruncateAssistant, VadSpeaks, SendSpeechStarted, At, AfterCancel, Rest
<1>4. /\ pc[t] # "none" /\ l \notin {"timer", "rollback", "decide"}
      /\ l \in Ending => pc[t] = "gate" /\ l = "cancelled"
      /\ pc[t] \in Ending /\ resp.phase # "Predicted" => l \in Ending
      /\ l \in Turning => pc[t] \in Turning /\ l # "await"
  BY <1>3 DEF Ending, Turning
<1> QED BY <1>1, <1>2, <1>3, <1>4, QuietGoto

(* Transcribing an utterance leaves the responses alone.                   *)
LEMMA WorkIsCalm ==
    ASSUME SessionTypes, DelayInv, NEW t \in Workers, UtteranceStep(t)
    PROVE  Calm /\ DelayInv'
<1>1. t \in Tasks
  BY TaskNames
<1>2. /\ UNCHANGED <<slot, nextResp, snap, turn, wireOpened, wire, outLock, session, config>>
      /\ UNCHANGED <<vitem, openItem, nextItem, aborted>>
  BY DEF UtteranceStep, StoreSealed, Transcribed, TranscriptRejected, TranscriptionFailed,
     MarkIncomplete, SendTranscriptionCompleted, DropSealed, SendItem, stateVars, slot,
     taskVars, turnLocals, laneLocals, vadLocals, wires
<1>3. PICK l : /\ Goto(t, l) /\ pc[t] \in {"store", "stt", "incomplete", "completed", "release"}
               /\ \/ l \in {"stt", "completed", "incomplete", "release"}
                  \/ t \in Lanes /\ l \in {"fin", "announce"}
                  \/ t \notin Lanes /\ l = "end"
  BY DEF UtteranceStep, StoreSealed, Transcribed, TranscriptRejected, TranscriptionFailed,
     MarkIncomplete, SendTranscriptionCompleted, DropSealed, At, Finish
<1>4. /\ pc[t] # "none" /\ l \notin {"timer", "rollback", "decide"}
      /\ t \in Lanes => pc[t] \in Hearing /\ l \in Hearing \cup {"fin"}
      /\ l \notin Ending /\ pc[t] \notin Ending /\ l \notin Turning
  BY <1>3 DEF Ending, Turning, Hearing
<1> QED BY <1>1, <1>2, <1>3, <1>4, QuietGoto

(* So do the delay, and a dispatch that does not speculate.                *)
LEMMA DispatchIsCalm ==
    ASSUME SessionTypes, DelayInv, NEW i \in Items,
           \/ DelayElapsed(i) \/ EouScored(i) \/ EagerScored(i)
           \/ PredictionRefused(i) \/ ClearCommitTimer(i)
    PROVE  Calm /\ DelayInv'
<1>1. /\ UNCHANGED <<slot, nextResp, snap, turn, wireOpened, wire, outLock, session, config>>
      /\ UNCHANGED <<vitem, openItem, nextItem, aborted>>
  BY DEF DelayElapsed, EouScored, EagerScored, PredictionRefused, ClearCommitTimer, stateVars, slot,
     taskVars, turnLocals, laneLocals, vadLocals, wires
<1>2. PICK t \in {DelayTask(i), EouTask(i)}, l \in {"retire", "end", "eager", "delay", "commit"} :
         Goto(t, l) /\ pc[t] \in {"sleep", "score", "eager", "delay"}
  BY DEF DelayElapsed, EouScored, EagerScored, PredictionRefused, ClearCommitTimer, At
<1>3. t \in Tasks /\ t \notin Lanes
  BY <1>2, TaskNames
<1>4. /\ pc[t] # "none" /\ l \notin {"timer", "rollback", "decide"}
      /\ l \notin Ending /\ pc[t] \notin Ending /\ l \notin Turning
  BY <1>2 DEF Ending, Turning
<1> QED BY <1>1, <1>2, <1>3, <1>4, QuietGoto

(* So do the client's events that create nothing, and a delta held back.   *)
LEMMA ClientIsCalm ==
    ASSUME SessionTypes, DelayInv,
           \/ ClientCancel \/ ClientClear \/ ClearInputBuffer \/ ClientItem
           \/ \E r \in Responses : GateDelta(r)
           \/ UNCHANGED vars
    PROVE  Calm /\ DelayInv'
<1>1. /\ UNCHANGED <<slot, nextResp, snap, turn, wireOpened, wire, outLock, session, config>>
      /\ UNCHANGED <<vitem, openItem, nextItem>>
  BY DEF ClientCancel, ClientClear, ClearInputBuffer, ClientItem, GateDelta, vars, stateVars, slot,
     taskVars, turnLocals, laneLocals, vadLocals, clientLocals, wires
<1>2. \A r \in Responses : Lane(r) \in aborted' <=> Lane(r) \in aborted
  <2>1. aborted' = aborted \/ AbortCommitTimer
    BY DEF ClientCancel, ClientClear, ClearInputBuffer, ClientItem, GateDelta, vars, taskVars
  <2> QED BY <2>1, NamesDiffer DEF AbortCommitTimer
<1>3. ASSUME pc' = pc PROVE Calm /\ DelayInv'
  <2>1. CalmPc
    BY <1>3 DEF CalmPc, SessionTypes, Placed
  <2>2. Calm
    BY <1>1, <1>2, <2>1 DEF Calm, SessionTypes
  <2> QED BY <1>1, <1>3, <2>2, DelayUntouched
<1>4. ASSUME NEW r \in Responses, GateDelta(r) PROVE Calm /\ DelayInv'
  <2>1. PICK l \in {"llm", "delta"} : Goto(Lane(r), l) /\ pc[Lane(r)] = "gate"
    BY <1>4 DEF GateDelta, At
  <2>2. /\ pc[Lane(r)] # "none" /\ l \notin {"timer", "rollback", "decide"}
        /\ pc[Lane(r)] \in Replying /\ l \in Replying
    BY <2>1 DEF Replying
  <2> QED BY <1>1, <1>2, <2>1, <2>2, TaskNames, QuietGoto
<1>5. ASSUME ClientCancel \/ ClientClear \/ ClearInputBuffer PROVE Calm /\ DelayInv'
  <2>1. PICK l \in {"rollback", "retire", "clear", "idle"} :
           Goto(ClientTask, l) /\ pc[ClientTask] \in {"idle", "clear"}
    BY <1>5 DEF ClientCancel, ClientClear, ClearInputBuffer, ClientEvent, At
  <2>2. ClientTask \in Tasks /\ ClientTask \notin Lanes /\ ClientTask # VadTask
    BY TaskNames
  <2>3. l \notin Ending /\ pc[ClientTask] \notin Ending /\ l \notin Turning
    BY <2>1 DEF Ending, Turning
  <2>4. CalmPc
    BY <2>1, <2>2, <2>3, CalmGoto
  <2>5. Calm
    BY <1>1, <1>2, <2>4 DEF Calm, SessionTypes
  <2>6. DelayInv'
    BY <1>1, <2>1, <2>2, DelayGoto
  <2> QED BY <2>5, <2>6
<1>6. ClientItem \/ UNCHANGED vars => pc' = pc
  BY DEF ClientItem, vars
<1> QED BY <1>3, <1>4, <1>5, <1>6

(* A turn waits for its prediction and announces its item.                 *)
LEMMA TurnIsCalm ==
    ASSUME LaneInv, DelayInv, NEW t \in Committers,
           SendCommitted(t) \/ \E transcript, text \in BOOLEAN : AwaitPrediction(t, transcript, text)
    PROVE  Calm /\ DelayInv'
<1>1. SessionTypes /\ TurnIds
  BY DEF LaneInv
<1>2. t \in Tasks /\ t \notin Lanes
  BY TaskNames
<1>3. /\ UNCHANGED <<slot, nextResp, snap, wireOpened, wire, outLock, session, config>>
      /\ UNCHANGED <<vitem, openItem, nextItem, aborted>>
  BY DEF SendCommitted, AwaitPrediction, stateVars, slot, taskVars, laneLocals, vadLocals, wires
<1>4. CASE SendCommitted(t)
  <2>1. Goto(t, "admit") /\ pc[t] = "committed" /\ turn' = turn
    BY <1>4 DEF SendCommitted, At, taskVars, turnLocals
  <2>2. "admit" \notin Ending /\ pc[t] \notin Ending /\ pc[t] \in Turning
    BY <2>1 DEF Ending, Turning
  <2>3. UNCHANGED <<slot, nextResp, snap, turn, wireOpened, wire, outLock, session, config>>
    BY <1>3, <2>1
  <2> QED BY <1>1, <1>2, <1>3, <2>1, <2>2, <2>3, QuietGoto
<1>5. ASSUME NEW transcript \in BOOLEAN, NEW text \in BOOLEAN, AwaitPrediction(t, transcript, text)
      PROVE  Calm /\ DelayInv'
  <2>1. /\ Goto(t, "committed") /\ pc[t] = "await" /\ turn' = [turn EXCEPT ![t].text = text]
    BY <1>5 DEF AwaitPrediction, At
  <2>2. "committed" \notin Ending /\ pc[t] \notin Ending /\ pc[t] \in Turning
    BY <2>1 DEF Ending, Turning
  <2>3. CalmPc
    BY <1>1, <1>2, <2>1, <2>2, CalmGoto
  <2>4. turn[t].id # 0
    BY <1>1, <2>1, <2>2 DEF TurnIds
  <2>5. /\ turn' \in [Tasks -> [id : 0..MaxResp, text : BOOLEAN]]
        /\ \A u \in Tasks : turn'[u].id = turn[u].id /\ (u # t => turn'[u] = turn[u])
    BY <1>1, <1>2, <2>1 DEF SessionTypes
  <2>6. \A u \in Committers :
           turn'[u].id = turn[u].id /\ (turn[u].id = 0 => turn'[u].text = turn[u].text)
    BY <2>4, <2>5, TaskNames
  <2>7. Calm
    BY <1>3, <2>3, <2>5, <2>6 DEF Calm
  <2>8. DelayInv'
    BY <1>1, <1>2, <1>3, <2>1, DelayGoto
  <2> QED BY <2>7, <2>8
<1> QED BY <1>4, <1>5

-----------------------------------------------------------------------------
(* The steps that are about a response.                                    *)

(* The ids in use.                                                         *)
LEMMA KnownIds ==
    ASSUME SessionTypes
    PROVE  /\ 0 \notin Responses /\ nextResp \in Nat /\ resp.id \in Nat
           /\ resp.phase = "Predicted" \/ resp.phase \in ActivePhases <=> resp # RespNone
           /\ resp # RespNone => resp.id \in Responses
           /\ resp.id \in Responses => resp # RespNone
           /\ \A t \in Tasks :
                 /\ snap[t].id # 0 => snap[t].id \in Responses
                 /\ turn[t].id # 0 => turn[t].id \in Responses
                 /\ turn[t].id \in Nat /\ snap[t].id \in Nat
<1>1. 0 \notin Responses /\ Responses \subseteq Nat
  BY SessionBounds DEF Responses
<1>2. nextResp \in Nat
  BY SessionBounds DEF SessionTypes
<1>3. /\ resp.phase = "Predicted" \/ resp.phase \in ActivePhases <=> resp # RespNone
      /\ resp # RespNone => resp.id \in Responses
      /\ resp.id \in Responses => resp # RespNone
      /\ resp.id \in Nat
  BY <1>1 DEF SessionTypes, RespPhases, RespNone, Predicted, Created, Streaming, ActivePhases
<1>4. ASSUME NEW t \in Tasks
      PROVE  /\ snap[t].id # 0 => snap[t].id \in Responses
             /\ turn[t].id # 0 => turn[t].id \in Responses
             /\ turn[t].id \in Nat /\ snap[t].id \in Nat
  <2>1. snap[t].id \in 0..MaxResp /\ turn[t].id \in 0..MaxResp
    BY DEF SessionTypes
  <2> QED BY <2>1, SessionBounds DEF Responses
<1> QED BY <1>1, <1>2, <1>3, <1>4

(* A response is admitted: its lane starts and it takes the slot.          *)
LaneStarts(r) ==
    /\ Placed'
    /\ resp = RespNone /\ resp' = Created(r) /\ current = 0 /\ current' = r
    /\ pc[Lane(r)] = "none" /\ pc'[Lane(r)] \in {"store", "announce"}
    /\ nextResp' \in 0..MaxResp /\ nextResp <= nextResp' /\ r <= nextResp'
    /\ \A s \in Responses : s # r => pc'[Lane(s)] = pc[Lane(s)]
    /\ \A t \in Cancellers : pc'[t] = pc[t] \/ (pc[t] \notin Ending /\ pc'[t] \notin Ending)
    /\ \A t \in Committers : pc'[t] \in Turning => pc'[t] = pc[t] /\ turn[t].id # r
    /\ UNCHANGED <<snap, turn, aborted, wireOpened, wire, outLock, session, config>>

(* That keeps the lanes in order.                                          *)
LEMMA LaneOpens ==
    ASSUME LaneInv, RuntimeMatchesPhase', NEW r \in Responses, LaneStarts(r)
    PROVE  LaneInv'
<1> USE DEF LaneStarts
<1>1. /\ SessionTypes /\ RuntimeMatchesPhase /\ FreshLanes /\ SlotLane /\ TurnIds
      /\ LockOwner /\ WireShape /\ Cancels
  BY DEF LaneInv
<1>2. \A s \in Responses : (OpenWire(s)' <=> OpenWire(s)) /\ (EndedWire(s)' <=> EndedWire(s))
  BY WireSame
<1>3. /\ resp'.id = r /\ resp'.phase = "Created" /\ resp' \in RespPhases /\ r # 0
      /\ resp'.phase \in ActivePhases /\ r \in Nat
  BY SessionBounds DEF Created, RespPhases, Responses, ActivePhases
<1>4. wire[r] = <<>> /\ Lane(r) \notin aborted /\ ~EndedWire(r) /\ ~OpenWire(r)
  BY <1>1, WireKinds DEF FreshLanes
<1>5. SessionTypes'
  BY <1>1, <1>3 DEF SessionTypes
<1>6. FreshLanes'
  BY <1>1, <1>3, <1>4, KnownIds, SessionBounds DEF FreshLanes, Responses
<1>7. SlotLane'
  <2>1. EndedWire(resp.id)' <=> EndedWire(r)'
    BY <1>3 DEF EndedWire
  <2> QED BY <1>2, <1>3, <1>4, <2>1 DEF SlotLane
<1>8. TurnIds'
  <2> SUFFICES ASSUME NEW t \in Committers, pc'[t] \in Turning
               PROVE  /\ turn[t].id <= nextResp'
                      /\ turn[t].id = 0 => pc'[t] # "await" /\ turn[t].text = FALSE
                      /\ turn[t].id # 0 =>
                            /\ pc'[Lane(turn[t].id)] = "none" /\ resp'.id # turn[t].id
                            /\ \A u \in Committers :
                                  u # t /\ pc'[u] \in Turning => turn[u].id # turn[t].id
    BY DEF TurnIds
  <2>1. t \in Tasks /\ pc[t] \in Turning /\ turn[t].id # r
    BY TaskNames
  <2>2. turn[t].id \in Nat /\ (turn[t].id # 0 => turn[t].id \in Responses) /\ nextResp \in Nat
    BY <1>1, <2>1, KnownIds
  <2>3. turn[t].id <= nextResp'
    BY <1>1, <2>1, <2>2, SessionBounds DEF TurnIds
  <2> QED BY <1>1, <1>3, <2>1, <2>2, <2>3 DEF TurnIds
<1>9. LockOwner'
  BY <1>1 DEF LockOwner
<1>10. WireShape'
  BY <1>1, <1>2, <1>3, <1>4 DEF WireShape, Hearing, Replying
<1>11. Cancels'
  <2> SUFFICES ASSUME NEW t \in Cancellers, pc'[t] \in Ending
               PROVE  /\ snap[t].id # 0 /\ snap[t].lane = snap[t].id
                      /\ resp'.id # snap[t].id
                      /\ pc'[Lane(snap[t].id)] \notin {"none", "closing"}
                      /\ ~(EndedWire(snap[t].id)')
                      /\ pc'[t] # "opened" => OpenWire(snap[t].id)'
                      /\ \A u \in Cancellers :
                            u # t /\ pc'[u] \in Ending => snap[u].id # snap[t].id
    BY DEF Cancels
  <2>1. PICK s : s = snap[t].id
    OBVIOUS
  <2>2. /\ s # 0 /\ snap[t].lane = s
        /\ pc[Lane(s)] \notin {"none", "closing"} /\ ~EndedWire(s)
        /\ pc[t] # "opened" => OpenWire(s)
        /\ \A u \in Cancellers : u # t /\ pc[u] \in Ending => snap[u].id # s
    BY <1>1, <2>1 DEF Cancels
  <2>3. s \in Responses /\ s # r
    BY <1>1, <2>1, <2>2, KnownIds, TaskNames
  <2>4. OpenWire(snap[t].id)' <=> OpenWire(s)'
    BY <2>1 DEF OpenWire
  <2>5. EndedWire(snap[t].id)' <=> EndedWire(s)'
    BY <2>1 DEF EndedWire
  <2> QED BY <1>2, <1>3, <2>1, <2>2, <2>3, <2>4, <2>5
<1> QED BY <1>5, <1>6, <1>7, <1>8, <1>9, <1>10, <1>11 DEF LaneInv

(* Who cancels a response keeps it, if nobody else touches it.             *)
LEMMA CancelsKept ==
    ASSUME SessionTypes, Cancels,
           \A t \in Cancellers : pc'[t] \in Ending =>
              /\ snap'[t] = snap[t]
              /\ pc'[t] = pc[t] \/ (pc[t] = "gate" /\ pc'[t] = "cancelled"),
           \A s \in Responses : (\E t \in Cancellers : pc'[t] \in Ending /\ snap[t].id = s) =>
              /\ resp.id # s /\ pc[Lane(s)] \notin {"none", "closing"} =>
                    resp'.id # s /\ pc'[Lane(s)] \notin {"none", "closing"}
              /\ ~EndedWire(s) => ~(EndedWire(s)')
              /\ OpenWire(s) => OpenWire(s)'
    PROVE  Cancels'
<1> SUFFICES ASSUME NEW t \in Cancellers, pc'[t] \in Ending
             PROVE  /\ snap'[t].id # 0 /\ snap'[t].lane = snap'[t].id
                    /\ resp'.id # snap'[t].id
                    /\ pc'[Lane(snap'[t].id)] \notin {"none", "closing"}
                    /\ ~(EndedWire(snap[t].id)')
                    /\ pc'[t] # "opened" => OpenWire(snap[t].id)'
                    /\ \A u \in Cancellers :
                          u # t /\ pc'[u] \in Ending => snap'[u].id # snap'[t].id
  BY DEF Cancels
<1>1. PICK s : s = snap[t].id
  OBVIOUS
<1>2. pc[t] \in Ending /\ snap'[t].id = s /\ snap'[t] = snap[t]
      /\ (pc'[t] # "opened" => pc[t] # "opened")
  BY <1>1 DEF Ending
<1>3. /\ s # 0 /\ snap[t].lane = s /\ resp.id # s
      /\ pc[Lane(s)] \notin {"none", "closing"} /\ ~EndedWire(s)
      /\ pc[t] # "opened" => OpenWire(s)
      /\ \A u \in Cancellers : u # t /\ pc[u] \in Ending => snap[u].id # s
  BY <1>1, <1>2 DEF Cancels
<1>4. s \in Responses
  BY <1>1, <1>3, KnownIds, TaskNames
<1>5. /\ resp'.id # s /\ pc'[Lane(s)] \notin {"none", "closing"}
      /\ ~(EndedWire(s)') /\ (OpenWire(s) => OpenWire(s)')
  BY <1>1, <1>3, <1>4
<1>6. OpenWire(snap[t].id)' <=> OpenWire(s)'
  BY <1>2 DEF OpenWire
<1>7. EndedWire(snap[t].id)' <=> EndedWire(s)'
  BY <1>2 DEF EndedWire
<1>8. \A u \in Cancellers : pc'[u] \in Ending => pc[u] \in Ending /\ snap'[u] = snap[u]
  BY DEF Ending
<1> QED BY <1>2, <1>3, <1>5, <1>6, <1>7, <1>8

(* A turn keeps its id, if nobody else takes it.                           *)
LEMMA TurnIdsKept ==
    ASSUME SessionTypes, TurnIds, nextResp' \in Nat, nextResp <= nextResp',
           \A t \in Committers : pc'[t] \in Turning =>
              pc[t] \in Turning /\ (pc'[t] = "await" => pc[t] = "await") /\ turn'[t] = turn[t],
           \A s \in Responses : s <= nextResp /\ pc[Lane(s)] = "none" /\ resp.id # s =>
              pc'[Lane(s)] = "none" /\ resp'.id # s
    PROVE  TurnIds'
<1> SUFFICES ASSUME NEW t \in Committers, pc'[t] \in Turning
             PROVE  /\ turn'[t].id <= nextResp'
                    /\ turn'[t].id = 0 => pc'[t] # "await" /\ turn'[t].text = FALSE
                    /\ turn'[t].id # 0 =>
                          /\ pc'[Lane(turn'[t].id)] = "none" /\ resp'.id # turn'[t].id
                          /\ \A u \in Committers :
                                u # t /\ pc'[u] \in Turning => turn'[u].id # turn'[t].id
  BY DEF TurnIds
<1>1. /\ pc[t] \in Turning /\ (pc'[t] = "await" => pc[t] = "await") /\ turn'[t] = turn[t]
  OBVIOUS
<1>2. /\ turn[t].id <= nextResp
      /\ turn[t].id = 0 => pc[t] # "await" /\ turn[t].text = FALSE
      /\ turn[t].id # 0 =>
            /\ pc[Lane(turn[t].id)] = "none" /\ resp.id # turn[t].id
            /\ \A u \in Committers :
                  u # t /\ pc[u] \in Turning => turn[u].id # turn[t].id
  BY <1>1 DEF TurnIds
<1>3. turn[t].id \in Nat /\ (turn[t].id # 0 => turn[t].id \in Responses) /\ nextResp \in Nat
  BY KnownIds, TaskNames
<1>4. turn[t].id <= nextResp'
  BY <1>2, <1>3
<1>5. turn[t].id # 0 => pc'[Lane(turn[t].id)] = "none" /\ resp'.id # turn[t].id
  BY <1>2, <1>3
<1>6. \A u \in Committers : pc'[u] \in Turning => pc[u] \in Turning /\ turn'[u] = turn[u]
  OBVIOUS
<1> QED BY <1>1, <1>2, <1>4, <1>5, <1>6

(* A prediction takes the empty slot.                                      *)
LEMMA PredictionStarts ==
    ASSUME LaneInv, RuntimeMatchesPhase', NEW i \in Items, StartPredicted(i)
    PROVE  LaneInv'
<1>1. /\ SessionTypes /\ RuntimeMatchesPhase /\ FreshLanes /\ SlotLane /\ TurnIds
      /\ LockOwner /\ WireShape /\ Cancels /\ Placed
  BY DEF LaneInv, SessionTypes
<1>2. PICK r : r = nextResp + 1
  OBVIOUS
<1>3. /\ nextResp' = r /\ nextResp < MaxResp /\ resp = RespNone /\ resp' = Predicted(r)
      /\ Goto(EouTask(i), "delay")
      /\ UNCHANGED <<snap, turn, aborted, wireOpened, wire, outLock>>
  BY <1>2 DEF StartPredicted, RespStartPredicted, turnLocals, laneLocals, wires
<1>4. r \in Responses /\ nextResp' \in 0..MaxResp /\ nextResp <= nextResp' /\ r > nextResp
      /\ nextResp' \in Nat /\ r # 0
  BY <1>1, <1>2, <1>3, SessionBounds DEF SessionTypes, Responses
<1>5. resp'.id = r /\ resp'.phase = "Predicted" /\ resp' \in RespPhases
      /\ resp'.phase \notin ActivePhases
  BY <1>3, <1>4 DEF Predicted, RespPhases, ActivePhases
<1>6. /\ Placed' /\ \A t \in Tasks : pc'[t] = IF t = EouTask(i) THEN "delay" ELSE pc[t]
  BY <1>1, <1>3, OneMoves DEF Goto
<1>7. /\ \A s \in Responses : pc'[Lane(s)] = pc[Lane(s)]
      /\ \A t \in Cancellers : pc'[t] = pc[t]
      /\ \A t \in Committers : pc'[t] = pc[t] \/ pc'[t] = "delay"
  BY <1>6, TaskNames
<1>8. \A s \in Responses : (OpenWire(s)' <=> OpenWire(s)) /\ (EndedWire(s)' <=> EndedWire(s))
  BY <1>3, WireSame
<1>9. pc[Lane(r)] = "none"
  BY <1>1, <1>4 DEF FreshLanes
<1>10. SessionTypes'
  BY <1>1, <1>3, <1>4, <1>5, <1>6 DEF SessionTypes
<1>11. FreshLanes'
  <2>1. \A s \in Responses : s > nextResp' => s > nextResp
    BY <1>1, <1>4, KnownIds, SessionBounds DEF Responses
  <2> QED BY <1>1, <1>3, <1>7, <2>1 DEF FreshLanes
<1>12. SlotLane'
  BY <1>3, <1>4, <1>5, <1>7, <1>9 DEF SlotLane
<1>13. TurnIds'
  <2>1. \A s \in Responses : s <= nextResp => s # r
    BY <1>1, <1>4, KnownIds, SessionBounds DEF Responses
  <2> QED BY <1>1, <1>3, <1>4, <1>5, <1>7, <2>1, TurnIdsKept DEF Turning
<1>14. LockOwner'
  BY <1>1, <1>3, <1>7 DEF LockOwner
<1>15. WireShape'
  BY <1>1, <1>3, <1>5, <1>7, <1>8, <1>9 DEF WireShape
<1>16. Cancels'
  BY <1>1, <1>3, <1>5, <1>7, <1>8, <1>9, CancelsKept
<1> QED BY <1>10, <1>11, <1>12, <1>13, <1>14, <1>15, <1>16 DEF LaneInv

(* A committed turn takes the prediction out of the slot.                  *)
LEMMA TurnTakesPrediction ==
    ASSUME LaneInv, RuntimeMatchesPhase', NEW t \in Committers, CommitItem(t)
    PROVE  LaneInv'
<1>1. /\ SessionTypes /\ RuntimeMatchesPhase /\ FreshLanes /\ SlotLane /\ TurnIds
      /\ LockOwner /\ WireShape /\ Cancels /\ Placed
  BY DEF LaneInv, SessionTypes
<1>2. PICK r, l : /\ r = IF resp.phase = "Predicted" THEN resp.id ELSE 0
                  /\ l = IF resp.phase = "Predicted" THEN "await" ELSE "committed"
  OBVIOUS
<1>3. /\ pc[t] = "commit" /\ Goto(t, l) /\ turn' = [turn EXCEPT ![t] = [id |-> r, text |-> FALSE]]
      /\ resp' = IF resp.phase = "Predicted" THEN RespNone ELSE resp
      /\ UNCHANGED <<nextResp, snap, aborted, wireOpened, wire, outLock>>
  BY <1>2 DEF CommitItem, At, RespRetirePredicted, laneLocals, wires
<1>4. /\ t \in Tasks /\ r \in 0..MaxResp /\ r <= nextResp /\ (l = "await" => r # 0)
      /\ r # 0 => r \in Responses /\ resp.id = r /\ pc[Lane(r)] = "none" /\ resp' = RespNone
      /\ l \in Turning
  BY <1>1, <1>2, <1>3, KnownIds, TaskNames, SessionBounds DEF SlotLane, Responses, Turning
<1>5. /\ Placed' /\ \A u \in Tasks : pc'[u] = IF u = t THEN l ELSE pc[u]
  BY <1>1, <1>3, OneMoves DEF Goto
<1>6. /\ \A s \in Responses : pc'[Lane(s)] = pc[Lane(s)]
      /\ \A u \in Cancellers : pc'[u] = pc[u] \/ pc'[u] \notin Ending
      /\ \A u \in Committers : u # t => pc'[u] = pc[u]
      /\ pc'[t] = l
  BY <1>2, <1>4, <1>5, TaskNames DEF Ending
<1>7. \A s \in Responses : (OpenWire(s)' <=> OpenWire(s)) /\ (EndedWire(s)' <=> EndedWire(s))
  BY <1>3, WireSame
<1>8. resp' = resp \/ (resp' = RespNone /\ RespNone.id = 0 /\ RespNone.phase = "None"
                       /\ RespNone \in RespPhases)
  BY <1>3 DEF RespNone, RespPhases
<1>9. /\ turn'[t] = [id |-> r, text |-> FALSE] /\ \A u \in Tasks : u # t => turn'[u] = turn[u]
      /\ turn' \in [Tasks -> [id : 0..MaxResp, text : BOOLEAN]]
  BY <1>1, <1>3, <1>4 DEF SessionTypes
<1>10. SessionTypes'
  BY <1>1, <1>3, <1>5, <1>8, <1>9 DEF SessionTypes
<1>11. FreshLanes'
  BY <1>1, <1>3, <1>6 DEF FreshLanes
<1>12. SlotLane'
  <2>1. CASE resp' = RespNone
    BY <1>1, <1>3, <1>8, <2>1, KnownIds DEF SlotLane, RespNone, ActivePhases
  <2>2. CASE resp' = resp
    <3>1. resp.phase # "Predicted"
      BY <1>3, <2>2 DEF RespNone
    <3>2. EndedWire(resp.id)' <=> EndedWire(resp.id)
      BY <1>3, <2>2 DEF EndedWire
    <3>3. resp.phase \in ActivePhases => resp.id \in Responses
      BY <1>1, KnownIds
    <3> QED BY <1>1, <1>3, <1>6, <2>2, <3>1, <3>2, <3>3 DEF SlotLane
  <2> QED BY <1>8, <2>1, <2>2
<1>13. TurnIds'
  <2> SUFFICES ASSUME NEW u \in Committers, pc'[u] \in Turning
               PROVE  /\ turn'[u].id <= nextResp'
                      /\ turn'[u].id = 0 => pc'[u] # "await" /\ turn'[u].text = FALSE
                      /\ turn'[u].id # 0 =>
                            /\ pc'[Lane(turn'[u].id)] = "none" /\ resp'.id # turn'[u].id
                            /\ \A v \in Committers :
                                  v # u /\ pc'[v] \in Turning => turn'[v].id # turn'[u].id
    BY DEF TurnIds
  <2>1. u \in Tasks /\ Committers \subseteq Tasks /\ 0 \notin Responses
    BY <1>1, TaskNames, KnownIds
  <2>2. \A v \in Committers : v # t /\ pc'[v] \in Turning =>
           /\ pc[v] \in Turning /\ turn'[v] = turn[v]
           /\ turn[v].id # 0 => turn[v].id # r /\ turn[v].id # resp.id
    BY <1>1, <1>4, <1>6, <1>9, <2>1 DEF TurnIds
  <2>3. CASE u = t
    <3>1. turn'[u].id = r /\ turn'[u].text = FALSE /\ pc'[u] = l
      BY <1>6, <1>9, <2>3
    <3>2. r # 0 => pc'[Lane(r)] = "none" /\ resp'.id # r
      BY <1>4, <1>6, <2>1 DEF RespNone
    <3>3. r # 0 => \A v \in Committers : v # t /\ pc'[v] \in Turning => turn'[v].id # r
      BY <2>2
    <3> QED BY <1>3, <1>4, <2>3, <3>1, <3>2, <3>3
  <2>4. CASE u # t
    <3>1. pc[u] \in Turning /\ turn'[u] = turn[u] /\ pc'[u] = pc[u]
      BY <1>6, <2>2, <2>4
    <3>2. turn[u].id # 0 => turn[u].id \in Responses /\ turn[u].id # r /\ resp'.id # turn[u].id
      BY <1>1, <1>8, <2>1, <2>2, <2>4, KnownIds
    <3>3. /\ turn[u].id <= nextResp
          /\ turn[u].id = 0 => pc[u] # "await" /\ turn[u].text = FALSE
          /\ turn[u].id # 0 =>
                /\ pc[Lane(turn[u].id)] = "none"
                /\ \A v \in Committers :
                      v # u /\ pc[v] \in Turning => turn[v].id # turn[u].id
      BY <1>1, <3>1 DEF TurnIds
    <3>4. turn[u].id # 0 => \A v \in Committers :
             v # u /\ pc'[v] \in Turning => turn'[v].id # turn[u].id
      BY <1>9, <2>2, <3>2, <3>3
    <3> QED BY <1>3, <1>6, <3>1, <3>2, <3>3, <3>4
  <2> QED BY <2>3, <2>4
<1>14. LockOwner'
  BY <1>1, <1>3, <1>6 DEF LockOwner
<1>15. WireShape'
  <2>1. 0 \notin Responses
    BY <1>1, KnownIds
  <2> QED BY <1>1, <1>3, <1>6, <1>7, <1>8, <2>1 DEF WireShape
<1>16. Cancels'
  <2>1. 0 \notin Responses
    BY <1>1, KnownIds
  <2> QED BY <1>1, <1>3, <1>6, <1>7, <1>8, <2>1, CancelsKept
<1> QED BY <1>10, <1>11, <1>12, <1>13, <1>14, <1>15, <1>16 DEF LaneInv

(* A response is taken out of the slot by somebody who will end it.        *)
LEMMA ResponseRetired ==
    ASSUME LaneInv, RuntimeMatchesPhase', NEW t \in Cancellers, RetireResponse(t)
    PROVE  LaneInv'
<1>1. /\ SessionTypes /\ RuntimeMatchesPhase /\ FreshLanes /\ SlotLane /\ TurnIds
      /\ LockOwner /\ WireShape /\ Cancels /\ Placed
  BY DEF LaneInv, SessionTypes
<1>2. PICK r, l : /\ r = resp.id
                  /\ l = IF current # 0 THEN "opened" ELSE AfterCancel(t)
  OBVIOUS
<1>3. /\ pc[t] = "retire" /\ Goto(t, l) /\ resp' = RespNone
      /\ snap' = [snap EXCEPT ![t] = [id |-> r, lane |-> current]]
      /\ UNCHANGED <<nextResp, turn, aborted, wireOpened, wire, outLock>>
  BY <1>2 DEF RetireResponse, At, RespRetireToNone, turnLocals, laneLocals, wires
<1>4. /\ t \in Tasks /\ l \in {"opened", "idle", "speak"} /\ 0 \notin Responses
      /\ current = (IF resp.phase \in ActivePhases THEN r ELSE 0)
      /\ l = "opened" => resp.phase \in ActivePhases /\ current = r /\ r \in Responses /\ r # 0
      /\ resp'.id = 0 /\ resp'.phase = "None" /\ resp' \in RespPhases
      /\ resp'.phase # "Predicted" /\ resp'.phase \notin ActivePhases
  <2>1. l \in {"opened", "idle", "speak"}
    BY <1>2 DEF AfterCancel
  <2>2. current = (IF resp.phase \in ActivePhases THEN r ELSE 0)
    BY <1>1, <1>2 DEF RuntimeMatchesPhase
  <2>3. 0 \notin Responses /\ (resp.phase \in ActivePhases => r \in Responses)
    BY <1>1, <1>2, KnownIds
  <2>4. l = "opened" => current # 0
    BY <1>2 DEF AfterCancel
  <2>5. /\ resp'.id = 0 /\ resp'.phase = "None" /\ resp' \in RespPhases
        /\ resp'.phase # "Predicted" /\ resp'.phase \notin ActivePhases
    BY <1>3 DEF RespNone, RespPhases, ActivePhases
  <2> QED BY <2>1, <2>2, <2>3, <2>4, <2>5, TaskNames
<1>5. /\ Placed' /\ \A u \in Tasks : pc'[u] = IF u = t THEN l ELSE pc[u]
  BY <1>1, <1>3, OneMoves DEF Goto
<1>6. /\ \A s \in Responses : pc'[Lane(s)] = pc[Lane(s)]
      /\ \A u \in Cancellers : u # t => pc'[u] = pc[u]
      /\ \A u \in Committers : pc'[u] = pc[u] \/ pc'[u] \notin Turning
      /\ pc'[t] = l
  BY <1>4, <1>5, TaskNames DEF Turning
<1>7. \A s \in Responses : (OpenWire(s)' <=> OpenWire(s)) /\ (EndedWire(s)' <=> EndedWire(s))
  BY <1>3, WireSame
<1>8. /\ snap'[t].id = r /\ snap'[t].lane = current /\ \A u \in Tasks : u # t => snap'[u] = snap[u]
      /\ snap' \in [Tasks -> [id : 0..MaxResp, lane : 0..MaxResp]]
  <2>1. r \in 0..MaxResp /\ current \in 0..MaxResp
    BY <1>1, <1>2, <1>4, KnownIds, SessionBounds DEF SessionTypes, RespPhases, RespNone, Predicted,
       Created, Streaming, Responses
  <2> QED BY <1>1, <1>3, <1>4, <2>1 DEF SessionTypes
<1>9. SessionTypes'
  BY <1>1, <1>3, <1>4, <1>5, <1>8 DEF SessionTypes
<1>10. FreshLanes'
  BY <1>1, <1>3, <1>6 DEF FreshLanes
<1>11. SlotLane'
  BY <1>1, <1>3, <1>4, KnownIds DEF SlotLane
<1>12. TurnIds'
  BY <1>1, <1>3, <1>4, <1>6, KnownIds, TurnIdsKept
<1>13. LockOwner'
  BY <1>1, <1>3, <1>6 DEF LockOwner
<1>14. WireShape'
  BY <1>1, <1>3, <1>4, <1>6, <1>7 DEF WireShape
<1>15. Cancels'
  <2> SUFFICES ASSUME NEW u \in Cancellers, pc'[u] \in Ending
               PROVE  /\ snap'[u].id # 0 /\ snap'[u].lane = snap'[u].id
                      /\ resp'.id # snap'[u].id
                      /\ pc'[Lane(snap'[u].id)] \notin {"none", "closing"}
                      /\ ~(EndedWire(snap[u].id)')
                      /\ pc'[u] # "opened" => OpenWire(snap[u].id)'
                      /\ \A v \in Cancellers :
                            v # u /\ pc'[v] \in Ending => snap'[v].id # snap'[u].id
    BY DEF Cancels
  <2>1. PICK s : s = snap'[u].id
    OBVIOUS
  <2>2. OpenWire(snap[u].id)' <=> OpenWire(s)'
    BY <2>1 DEF OpenWire
  <2>3. EndedWire(snap[u].id)' <=> EndedWire(s)'
    BY <2>1 DEF EndedWire
  <2>4. \A v \in Cancellers : v # t /\ pc'[v] \in Ending =>
           /\ v \in Tasks /\ pc[v] \in Ending /\ snap'[v] = snap[v]
           /\ snap[v].id # 0 /\ snap[v].id # r
    BY <1>1, <1>2, <1>6, <1>8, TaskNames DEF Cancels
  <2>5. CASE u = t
    <3>1. l = "opened" /\ r \in Responses /\ s = r /\ snap'[u].lane = r
      BY <1>4, <1>6, <1>8, <2>1, <2>5 DEF Ending
    <3>2. pc[Lane(r)] \notin {"none", "closing"} /\ ~EndedWire(r)
      BY <1>1, <1>2, <1>4, <3>1 DEF SlotLane
    <3>3. pc'[Lane(r)] \notin {"none", "closing"} /\ ~(EndedWire(r)')
      BY <1>6, <1>7, <3>1, <3>2
    <3> QED BY <1>4, <1>6, <2>1, <2>2, <2>3, <2>4, <2>5, <3>1, <3>3
  <2>6. CASE u # t
    <3>1. pc[u] \in Ending /\ snap[u].id = s /\ s # r /\ snap'[u] = snap[u] /\ pc'[u] = pc[u]
      BY <1>6, <2>1, <2>4, <2>6
    <3>2. /\ s # 0 /\ snap[u].lane = s
          /\ pc[Lane(s)] \notin {"none", "closing"} /\ ~EndedWire(s)
          /\ pc[u] # "opened" => OpenWire(s)
          /\ \A v \in Cancellers : v # u /\ pc[v] \in Ending => snap[v].id # s
      BY <1>1, <3>1 DEF Cancels
    <3>3. s \in Responses
      BY <1>1, <2>4, <2>6, <3>1, <3>2, KnownIds
    <3>4. \A v \in Cancellers : v # u /\ pc'[v] \in Ending => snap'[v].id # s
      BY <1>6, <1>8, <2>4, <3>1, <3>2
    <3> QED BY <1>4, <1>6, <1>7, <2>1, <2>2, <2>3, <3>1, <3>2, <3>3, <3>4
  <2> QED BY <2>5, <2>6
<1> QED BY <1>9, <1>10, <1>11, <1>12, <1>13, <1>14, <1>15 DEF LaneInv

(* A canceller finds out whether the response was opened and aborts its    *)
(* lane, which has neither the slot nor the lock.                          *)
LEMMA LaneAborted ==
    ASSUME LaneInv, RuntimeMatchesPhase', NEW t \in Cancellers, ReadWireOpened(t)
    PROVE  LaneInv'
<1>1. /\ SessionTypes /\ RuntimeMatchesPhase /\ FreshLanes /\ SlotLane /\ TurnIds
      /\ LockOwner /\ WireShape /\ Cancels /\ Placed
  BY DEF LaneInv, SessionTypes
<1>2. PICK r, l : r = snap[t].lane /\ l = IF r \in wireOpened THEN "gate" ELSE "truncate"
  OBVIOUS
<1>3. /\ pc[t] = "opened" /\ outLock = 0 /\ Goto(t, l) /\ aborted' = aborted \cup {Lane(r)}
      /\ UNCHANGED <<resp, nextResp, snap, turn, wireOpened, wire, outLock>>
  BY <1>2 DEF ReadWireOpened, At, turnLocals, laneLocals, wires, stateVars
<1>4. /\ t \in Tasks /\ r \in Responses /\ snap[t].id = r /\ resp.id # r
      /\ pc[Lane(r)] \notin {"none", "closing"} /\ ~EndedWire(r) /\ 0 \notin Responses
      /\ \A u \in Cancellers : u # t /\ pc[u] \in Ending => snap[u].id # r
  BY <1>1, <1>2, <1>3, TaskNames, KnownIds DEF Cancels, Ending
<1>5. /\ Placed' /\ \A u \in Tasks : pc'[u] = IF u = t THEN l ELSE pc[u]
  BY <1>1, <1>3, OneMoves DEF Goto
<1>6. /\ \A s \in Responses : pc'[Lane(s)] = pc[Lane(s)]
      /\ \A u \in Cancellers : u # t => pc'[u] = pc[u]
      /\ \A u \in Committers : pc'[u] = pc[u] \/ pc'[u] \notin Turning
      /\ pc'[t] = l /\ l # "opened"
  BY <1>2, <1>4, <1>5, TaskNames DEF Turning
<1>7. \A s \in Responses : (OpenWire(s)' <=> OpenWire(s)) /\ (EndedWire(s)' <=> EndedWire(s))
  BY <1>3, WireSame
<1>8. \A s \in Responses : Lane(s) \in aborted' <=> Lane(s) \in aborted \/ s = r
  BY <1>3, NamesDiffer
<1>9. SessionTypes'
  BY <1>1, <1>3, <1>5 DEF SessionTypes
<1>10. FreshLanes'
  BY <1>1, <1>3, <1>4, <1>6, <1>8 DEF FreshLanes
<1>11. SlotLane'
  <2>1. EndedWire(resp.id)' <=> EndedWire(resp.id)
    BY <1>3 DEF EndedWire
  <2>2. resp.phase = "Predicted" \/ resp.phase \in ActivePhases => resp.id \in Responses
    BY <1>1, KnownIds
  <2> QED BY <1>1, <1>3, <1>4, <1>6, <1>8, <2>1, <2>2 DEF SlotLane
<1>12. TurnIds'
  BY <1>1, <1>3, <1>6, KnownIds, TurnIdsKept
<1>13. LockOwner'
  BY <1>1, <1>3, <1>4, <1>6, <1>8 DEF LockOwner
<1>14. WireShape'
  BY <1>1, <1>3, <1>6, <1>7 DEF WireShape
<1>15. Cancels'
  <2> SUFFICES ASSUME NEW u \in Cancellers, pc'[u] \in Ending
               PROVE  /\ snap[u].id # 0 /\ snap[u].lane = snap[u].id
                      /\ resp.id # snap[u].id
                      /\ pc'[Lane(snap[u].id)] \notin {"none", "closing"}
                      /\ ~(EndedWire(snap[u].id)')
                      /\ pc'[u] # "opened" => OpenWire(snap[u].id)'
                      /\ \A v \in Cancellers :
                            v # u /\ pc'[v] \in Ending => snap[v].id # snap[u].id
    BY <1>3 DEF Cancels
  <2>1. PICK s : s = snap[u].id
    OBVIOUS
  <2>2. OpenWire(snap[u].id)' <=> OpenWire(s)'
    BY <1>3, <2>1 DEF OpenWire
  <2>3. EndedWire(snap[u].id)' <=> EndedWire(s)'
    BY <1>3, <2>1 DEF EndedWire
  <2>4. \A v \in Cancellers : pc'[v] \in Ending => pc[v] \in Ending
    BY <1>3, <1>6 DEF Ending
  <2>5. /\ s # 0 /\ snap[u].lane = s /\ resp.id # s
        /\ pc[Lane(s)] \notin {"none", "closing"} /\ ~EndedWire(s)
        /\ pc[u] # "opened" => OpenWire(s)
        /\ \A v \in Cancellers : v # u /\ pc[v] \in Ending => snap[v].id # s
    BY <1>1, <2>1, <2>4 DEF Cancels
  <2>6. s \in Responses
    BY <1>1, <2>1, <2>5, KnownIds, TaskNames
  <2>7. u = t => OpenWire(s)
    <3>1. u = t => s = r /\ r \in wireOpened
      BY <1>2, <1>4, <1>6, <2>1 DEF Ending
    <3> QED BY <1>1, <1>4, <3>1 DEF WireShape
  <2>8. u # t => pc'[u] = pc[u]
    BY <1>6
  <2> QED BY <1>6, <1>7, <2>1, <2>2, <2>3, <2>4, <2>5, <2>6, <2>7, <2>8
<1> QED BY <1>9, <1>10, <1>11, <1>12, <1>13, <1>14, <1>15 DEF LaneInv

(* A step of one lane that is not about its birth: what has to be shown of *)
(* its response, the lock and the slot.                                    *)
LEMMA LaneKept ==
    ASSUME LaneInv, RuntimeMatchesPhase', NEW r \in Responses, NEW l, Goto(Lane(r), l),
           pc[Lane(r)] # "none", l # "none",
           UNCHANGED <<nextResp, snap, turn, aborted>>,
           SlotShrinks,
           wire' \in [Responses -> Seq({"created", "delta", "done"})],
           \A s \in Responses : s # r =>
              /\ wire'[s] = wire[s] /\ (s \in wireOpened' <=> s \in wireOpened)
              /\ (OpenWire(s)' <=> OpenWire(s)) /\ (EndedWire(s)' <=> EndedWire(s)),
           OpenWire(r) => OpenWire(r)' \/ EndedWire(r)',
           \* the slot
           resp'.id = r => l # "closing" /\ ~(EndedWire(r)'),
           \* the lock
           outLock = 0 \/ outLock = r, outLock' = 0 \/ outLock' = r,
           outLock' = r <=> l \in {"created", "closing"},
           outLock' = r => Lane(r) \notin aborted,
           \* the wire
           wire'[r] = <<>> \/ OpenWire(r)' \/ EndedWire(r)',
           l \in Hearing \cup {"created"} => wire'[r] = <<>>,
           l \in Replying \cup {"closing"} => wire'[r] # <<>>,
           l = "closing" => OpenWire(r)' /\ resp'.id # r,
           r \in wireOpened' <=> wire'[r] # <<>>,
           \* who cancels it
           (\E t \in Cancellers : pc[t] \in Ending /\ snap[t].id = r) =>
              l # "closing" /\ ~(EndedWire(r)')
    PROVE  LaneInv'
<1>1. /\ SessionTypes /\ RuntimeMatchesPhase /\ FreshLanes /\ SlotLane /\ TurnIds
      /\ LockOwner /\ WireShape /\ Cancels /\ Placed
  BY DEF LaneInv, SessionTypes
<1>2. /\ resp' \in RespPhases /\ resp'.id \in {0, resp.id}
      /\ resp'.phase = "Predicted" => resp' = resp
      /\ resp'.phase \in ActivePhases => resp.phase \in ActivePhases /\ resp'.id = resp.id
  BY <1>1 DEF SessionTypes, SlotShrinks, RespPhases, RespNone, Predicted, Created,
     Streaming, ActivePhases
<1>3. /\ 0 \notin Responses /\ nextResp \in Nat
      /\ resp.phase = "Predicted" \/ resp.phase \in ActivePhases => resp.id \in Responses
  BY <1>1, KnownIds
<1>4. /\ Placed' /\ \A u \in Tasks : pc'[u] = IF u = Lane(r) THEN l ELSE pc[u]
  <2>1. pc' = [pc EXCEPT ![Lane(r)] = l]
    BY DEF Goto
  <2> QED BY <1>1, <2>1 DEF Placed
<1>5. /\ pc'[Lane(r)] = l
      /\ \A s \in Responses : s # r => pc'[Lane(s)] = pc[Lane(s)]
      /\ \A u \in Cancellers : pc'[u] = pc[u]
      /\ \A u \in Committers : pc'[u] = pc[u]
  BY <1>4, TaskNames, NamesDiffer
<1>6. SessionTypes'
  <2>1. outLock' \in 0..MaxResp
    BY SessionBounds DEF Responses
  <2> QED BY <1>1, <1>2, <1>4, <2>1 DEF SessionTypes
<1>7. FreshLanes'
  BY <1>1, <1>5 DEF FreshLanes
<1>8. SlotLane'
  <2>1. resp'.id <= nextResp'
    BY <1>1, <1>2, <1>3 DEF SlotLane
  <2>2. resp'.phase = "Predicted" => pc'[Lane(resp'.id)] = "none"
    BY <1>1, <1>2, <1>3, <1>5 DEF SlotLane
  <2>3. ASSUME resp'.phase \in ActivePhases
        PROVE  /\ pc'[Lane(resp'.id)] \notin {"none", "closing"}
               /\ Lane(resp'.id) \notin aborted'
               /\ ~(EndedWire(resp.id)')
    <3>1. PICK s : s = resp.id
      OBVIOUS
    <3>2. s \in Responses /\ resp'.id = s /\ resp.phase \in ActivePhases
      BY <1>2, <1>3, <2>3, <3>1
    <3>3. pc[Lane(s)] \notin {"none", "closing"} /\ Lane(s) \notin aborted /\ ~EndedWire(s)
      BY <1>1, <3>1, <3>2 DEF SlotLane
    <3>4. ~(EndedWire(s)')
      BY <3>2, <3>3
    <3>5. EndedWire(resp.id)' <=> EndedWire(s)'
      BY <3>2 DEF EndedWire
    <3> QED BY <1>5, <3>2, <3>3, <3>4, <3>5
  <2> QED BY <2>1, <2>2, <2>3 DEF SlotLane
<1>9. TurnIds'
  <2>1. \A s \in Responses : s <= nextResp /\ pc[Lane(s)] = "none" /\ resp.id # s =>
           pc'[Lane(s)] = "none" /\ resp'.id # s
    BY <1>2, <1>3, <1>5
  <2>2. \A t \in Committers : pc'[t] \in Turning =>
           pc[t] \in Turning /\ (pc'[t] = "await" => pc[t] = "await") /\ turn'[t] = turn[t]
    BY <1>5
  <2> QED BY <1>1, <1>3, <2>1, <2>2, TurnIdsKept
<1>10. LockOwner'
  <2>1. \A s \in Responses : s # r => outLock # s /\ outLock' # s
    BY <1>3
  <2> QED BY <1>1, <1>5, <2>1 DEF LockOwner
<1>11. WireShape'
  <2>1. \A s \in Responses : resp'.id = s => resp.id = s
    BY <1>2, <1>3
  <2> QED BY <1>1, <1>5, <2>1 DEF WireShape
<1>12. Cancels'
  <2> SUFFICES ASSUME NEW s \in Responses, NEW t \in Cancellers, pc'[t] \in Ending, snap[t].id = s
               PROVE  /\ resp.id # s /\ pc[Lane(s)] \notin {"none", "closing"} =>
                            resp'.id # s /\ pc'[Lane(s)] \notin {"none", "closing"}
                      /\ ~EndedWire(s) => ~(EndedWire(s)')
                      /\ OpenWire(s) => OpenWire(s)'
    BY <1>1, <1>5, CancelsKept
  <2>1. s = r => l # "closing" /\ ~(EndedWire(r)')
    BY <1>5
  <2> QED BY <1>2, <1>3, <1>5, <2>1
<1> QED BY <1>6, <1>7, <1>8, <1>9, <1>10, <1>11, <1>12 DEF LaneInv

(* What a lane at a place knows.                                           *)
LEMMA LaneKnows ==
    ASSUME LaneInv, NEW r \in Responses
    PROVE  /\ (\E t \in Cancellers : pc[t] \in Ending /\ snap[t].id = r) =>
                 resp.id # r /\ pc[Lane(r)] # "closing" /\ ~EndedWire(r)
           /\ pc[Lane(r)] # "none" /\ resp.id = r =>
                 /\ resp.phase \in ActivePhases /\ resp # RespNone
                 /\ Lane(r) \notin aborted /\ ~EndedWire(r)
           /\ r # 0
<1>1. SessionTypes /\ SlotLane /\ Cancels /\ WireShape
  BY DEF LaneInv
<1>2. ASSUME NEW t \in Cancellers, pc[t] \in Ending, snap[t].id = r
      PROVE  resp.id # r /\ pc[Lane(r)] # "closing" /\ ~EndedWire(r)
  <2>1. ~EndedWire(snap[t].id) /\ pc[Lane(snap[t].id)] # "closing" /\ resp.id # snap[t].id
    BY <1>1, <1>2 DEF Cancels
  <2> QED BY <1>2, <2>1
<1>3. ASSUME pc[Lane(r)] # "none", resp.id = r
      PROVE  /\ resp.phase \in ActivePhases /\ resp # RespNone
             /\ Lane(r) \notin aborted /\ ~EndedWire(r)
  <2>1. resp # RespNone /\ (resp.phase = "Predicted" \/ resp.phase \in ActivePhases)
    BY <1>1, <1>3, KnownIds
  <2>2. resp.phase # "Predicted"
    BY <1>1, <1>3 DEF SlotLane
  <2>3. Lane(resp.id) \notin aborted /\ ~EndedWire(resp.id)
    BY <1>1, <2>1, <2>2 DEF SlotLane
  <2> QED BY <1>3, <2>1, <2>2, <2>3
<1> QED BY <1>1, <1>2, <1>3, KnownIds

(* announce_response and the opening brackets.                             *)
LEMMA AnnounceKeeps ==
    ASSUME LaneInv, RuntimeMatchesPhase', NEW r \in Responses, Announce(r)
    PROVE  LaneInv'
<1>1. WireShape /\ SessionTypes
  BY DEF LaneInv
<1>2. PICK l : l = IF resp.id = r THEN "created" ELSE "fin"
  OBVIOUS
<1>3. /\ pc[Lane(r)] = "announce" /\ outLock = 0 /\ Goto(Lane(r), l)
      /\ outLock' = IF resp.id = r THEN r ELSE 0
      /\ UNCHANGED <<resp, nextResp, snap, turn, aborted, wireOpened, wire>>
  BY <1>2 DEF Announce, At, stateVars, taskVars, turnLocals, laneLocals
<1>4. \A s \in Responses : (OpenWire(s)' <=> OpenWire(s)) /\ (EndedWire(s)' <=> EndedWire(s))
  BY <1>3, WireSame
<1>5. /\ wire[r] = <<>> /\ r \notin wireOpened /\ ~OpenWire(r) /\ ~EndedWire(r)
      /\ wire \in [Responses -> Seq({"created", "delta", "done"})]
      /\ \A s \in Responses : s \in wireOpened <=> wire[s] # <<>>
  BY <1>1, <1>3, WireKinds DEF WireShape, Hearing, SessionTypes
<1>6. /\ resp.id = r => Lane(r) \notin aborted
      /\ r # 0 /\ l \in {"created", "fin"} /\ (l = "created" <=> resp.id = r)
  BY <1>2, <1>3, LaneKnows
<1>7. l \notin Replying /\ l \notin Hearing /\ l # "closing" /\ l # "none"
  BY <1>6 DEF Replying, Hearing
<1>8. SlotShrinks
  BY <1>3 DEF SlotShrinks
<1>9. /\ (outLock' = 0 \/ outLock' = r) /\ (outLock' = r <=> l \in {"created", "closing"})
      /\ outLock' = r => Lane(r) \notin aborted
      /\ outLock' = r <=> l \in {"created", "closing"}
  BY <1>3, <1>6
<1> QED BY <1>3, <1>4, <1>5, <1>6, <1>7, <1>8, <1>9, LaneKept

(* response.created is sent.                                               *)
LEMMA CreatedKeeps ==
    ASSUME LaneInv, RuntimeMatchesPhase', NEW r \in Responses, SendCreated(r)
    PROVE  LaneInv'
<1>1. WireShape /\ SessionTypes /\ LockOwner
  BY DEF LaneInv
<1>2. /\ pc[Lane(r)] = "created" /\ Goto(Lane(r), "llm") /\ outLock' = 0
      /\ SendResp(r, "created") /\ wireOpened' = wireOpened \cup {r}
      /\ UNCHANGED <<resp, nextResp, snap, turn, aborted>>
  BY DEF SendCreated, At, stateVars, turnLocals
<1>3. /\ wire[r] = <<>> /\ ~OpenWire(r) /\ outLock = r
      /\ wire \in [Responses -> Seq({"created", "delta", "done"})]
  BY <1>1, <1>2, WireKinds DEF WireShape, SessionTypes, LockOwner
<1>4. /\ wire' \in [Responses -> Seq({"created", "delta", "done"})]
      /\ wire'[r] # <<>> /\ OpenWire(r)'
      /\ \A s \in Responses : s # r =>
            /\ wire'[s] = wire[s]
            /\ OpenWire(s)' <=> OpenWire(s)
            /\ EndedWire(s)' <=> EndedWire(s)
  BY <1>2, <1>3, WireGrows
<1>5. ~(EndedWire(r)')
  BY <1>4 DEF OpenWire, EndedWire
<1>6. SlotShrinks /\ "llm" \notin Hearing /\ r # 0
  BY <1>2, LaneKnows DEF SlotShrinks, Hearing
<1> QED BY <1>2, <1>3, <1>4, <1>5, <1>6, LaneKept

(* A delta is sent, perhaps after the end.                                 *)
LEMMA DeltaKeeps ==
    ASSUME LaneInv, RuntimeMatchesPhase', NEW r \in Responses, SendDelta(r)
    PROVE  LaneInv'
<1>1. WireShape /\ SessionTypes /\ LockOwner
  BY DEF LaneInv
<1>2. /\ pc[Lane(r)] = "delta" /\ Goto(Lane(r), "llm") /\ outLock = 0
      /\ SendResp(r, "delta")
      /\ UNCHANGED <<resp, nextResp, snap, turn, aborted, outLock, wireOpened>>
  BY DEF SendDelta, At, stateVars, taskVars, turnLocals, laneLocals
<1>3. /\ wire[r] # <<>> /\ (OpenWire(r) \/ EndedWire(r)) /\ r \in wireOpened
      /\ wire \in [Responses -> Seq({"created", "delta", "done"})]
  BY <1>1, <1>2 DEF WireShape, SessionTypes, Replying
<1>4. /\ wire' \in [Responses -> Seq({"created", "delta", "done"})]
      /\ wire'[r] # <<>> /\ (OpenWire(r) => OpenWire(r)') /\ (EndedWire(r) => EndedWire(r)')
      /\ \A s \in Responses : s # r =>
            /\ wire'[s] = wire[s]
            /\ OpenWire(s)' <=> OpenWire(s)
            /\ EndedWire(s)' <=> EndedWire(s)
  BY <1>2, <1>3, WireGrows
<1>5. OpenWire(r) => ~(EndedWire(r)')
  BY <1>4 DEF OpenWire, EndedWire
<1>6. SlotShrinks /\ "llm" \notin Hearing /\ r # 0
  BY <1>2, LaneKnows DEF SlotShrinks, Hearing
<1>7. resp.id = r => ~EndedWire(r)
  BY <1>2, LaneKnows
<1>8. (\E t \in Cancellers : pc[t] \in Ending /\ snap[t].id = r) => ~EndedWire(r)
  BY LaneKnows
<1> QED BY <1>2, <1>3, <1>4, <1>5, <1>6, <1>7, <1>8, LaneKept

(* The lane that has the slot lets it go, and keeps the lock for the end.  *)
LEMMA CloseKeeps ==
    ASSUME LaneInv, RuntimeMatchesPhase', NEW r \in Responses, NEW ok \in BOOLEAN,
           CloseResponse(r, ok), resp.id = r
    PROVE  LaneInv'
<1>1. WireShape /\ SessionTypes
  BY DEF LaneInv
<1>2. /\ pc[Lane(r)] = "llm" /\ Goto(Lane(r), "closing") /\ outLock = 0 /\ outLock' = r
      /\ resp' = RespNone
      /\ UNCHANGED <<nextResp, snap, turn, aborted, wireOpened, wire>>
  BY DEF CloseResponse, At, RespRetireToNone, taskVars, turnLocals, laneLocals
<1>3. \A s \in Responses : (OpenWire(s)' <=> OpenWire(s)) /\ (EndedWire(s)' <=> EndedWire(s))
  BY <1>2, WireSame
<1>4. Lane(r) \notin aborted /\ ~EndedWire(r) /\ r # 0
  BY <1>2, LaneKnows
<1>5. /\ wire[r] # <<>> /\ OpenWire(r) /\ r \in wireOpened
      /\ wire \in [Responses -> Seq({"created", "delta", "done"})]
  BY <1>1, <1>2, <1>4 DEF WireShape, SessionTypes, Replying
<1>6. resp'.id = 0 /\ SlotShrinks
  BY <1>2 DEF SlotShrinks, RespNone
<1>7. ~(\E t \in Cancellers : pc[t] \in Ending /\ snap[t].id = r)
  BY LaneKnows
<1>8. "closing" \notin Hearing
  BY DEF Hearing
<1> QED BY <1>2, <1>3, <1>4, <1>5, <1>6, <1>7, <1>8, LaneKept

(* The lane sends the end.                                                 *)
LEMMA DoneKeeps ==
    ASSUME LaneInv, RuntimeMatchesPhase', NEW r \in Responses, SendDone(r)
    PROVE  LaneInv'
<1>1. WireShape /\ SessionTypes /\ LockOwner
  BY DEF LaneInv
<1>2. /\ pc[Lane(r)] = "closing" /\ Goto(Lane(r), "fin") /\ outLock' = 0
      /\ SendResp(r, "done")
      /\ UNCHANGED <<resp, nextResp, snap, turn, aborted, wireOpened>>
  BY DEF SendDone, At, stateVars, taskVars, turnLocals, laneLocals
<1>3. /\ OpenWire(r) /\ resp.id # r /\ outLock = r /\ r \in wireOpened
      /\ wire \in [Responses -> Seq({"created", "delta", "done"})]
  BY <1>1, <1>2, WireKinds DEF WireShape, SessionTypes, LockOwner
<1>4. /\ wire' \in [Responses -> Seq({"created", "delta", "done"})]
      /\ wire'[r] # <<>> /\ EndedWire(r)'
      /\ \A s \in Responses : s # r =>
            /\ wire'[s] = wire[s]
            /\ OpenWire(s)' <=> OpenWire(s)
            /\ EndedWire(s)' <=> EndedWire(s)
  BY <1>2, <1>3, WireGrows
<1>5. SlotShrinks /\ "fin" \notin Hearing /\ "fin" \notin Replying /\ r # 0
  BY <1>2, LaneKnows DEF SlotShrinks, Hearing, Replying
<1>6. ~(\E t \in Cancellers : pc[t] \in Ending /\ snap[t].id = r)
  BY <1>2, LaneKnows
<1> QED BY <1>2, <1>3, <1>4, <1>5, <1>6, LaneKept

(* A canceller sends the end.                                              *)
LEMMA CancelledKeeps ==
    ASSUME LaneInv, RuntimeMatchesPhase', NEW t \in Cancellers, SendCancelled(t)
    PROVE  LaneInv'
<1>1. /\ SessionTypes /\ RuntimeMatchesPhase /\ FreshLanes /\ SlotLane /\ TurnIds
      /\ LockOwner /\ WireShape /\ Cancels /\ Placed
  BY DEF LaneInv, SessionTypes
<1>2. PICK r : r = snap[t].id
  OBVIOUS
<1>3. /\ pc[t] = "cancelled" /\ Goto(t, "truncate") /\ SendResp(r, "done")
      /\ UNCHANGED <<resp, nextResp, snap, turn, aborted, wireOpened, outLock>>
  BY <1>2 DEF SendCancelled, At, stateVars, taskVars, turnLocals, laneLocals
<1>4. pc[t] \in Ending /\ pc[t] # "opened"
  BY <1>3 DEF Ending
<1>5. /\ t \in Tasks /\ r # 0 /\ resp.id # r /\ pc[Lane(r)] \notin {"none", "closing"}
      /\ OpenWire(r) /\ \A u \in Cancellers : u # t /\ pc[u] \in Ending => snap[u].id # r
  BY <1>1, <1>2, <1>4, TaskNames DEF Cancels
<1>6. r \in Responses /\ wire \in [Responses -> Seq({"created", "delta", "done"})]
  BY <1>1, <1>2, <1>5, KnownIds DEF SessionTypes
<1>7. /\ wire' \in [Responses -> Seq({"created", "delta", "done"})]
      /\ wire'[r] # <<>> /\ EndedWire(r)'
      /\ \A s \in Responses : s # r =>
            /\ wire'[s] = wire[s]
            /\ OpenWire(s)' <=> OpenWire(s)
            /\ EndedWire(s)' <=> EndedWire(s)
  BY <1>3, <1>5, <1>6, WireGrows
<1>8. Placed' /\ \A u \in Tasks : pc'[u] = IF u = t THEN "truncate" ELSE pc[u]
  BY <1>1, <1>3, OneMoves DEF Goto
<1>9. /\ \A s \in Responses : pc'[Lane(s)] = pc[Lane(s)]
      /\ \A u \in Cancellers : pc'[u] \in Ending => u # t /\ pc'[u] = pc[u]
      /\ \A u \in Committers : pc'[u] \in Turning => pc'[u] = pc[u]
  BY <1>8, TaskNames DEF Ending, Turning
<1>10. wire[r] # <<>>
  BY <1>5, <1>6, WireKinds
<1>11. SessionTypes'
  BY <1>1, <1>3, <1>7, <1>8 DEF SessionTypes
<1>12. FreshLanes'
  BY <1>1, <1>3, <1>5, <1>7, <1>9 DEF FreshLanes
<1>13. SlotLane'
  <2>1. ASSUME resp.phase \in ActivePhases
        PROVE  EndedWire(resp.id)' <=> EndedWire(resp.id)
    <3>1. PICK s : s = resp.id
      OBVIOUS
    <3>2. s \in Responses /\ s # r
      BY <1>1, <1>5, <2>1, <3>1, KnownIds
    <3>3. EndedWire(resp.id)' <=> EndedWire(s)'
      BY <1>3, <3>1 DEF EndedWire
    <3> QED BY <1>7, <3>1, <3>2, <3>3
  <2>2. resp.phase = "Predicted" \/ resp.phase \in ActivePhases => resp.id \in Responses
    BY <1>1, KnownIds
  <2> QED BY <1>1, <1>3, <1>9, <2>1, <2>2 DEF SlotLane
<1>14. TurnIds'
  BY <1>1, <1>3, <1>9, KnownIds, TurnIdsKept
<1>15. LockOwner'
  BY <1>1, <1>3, <1>9 DEF LockOwner
<1>16. WireShape'
  BY <1>1, <1>3, <1>5, <1>7, <1>9, <1>10 DEF WireShape
<1>17. Cancels'
  <2>1. \A u \in Cancellers : pc'[u] \in Ending => snap[u].id # r
    BY <1>5, <1>9
  <2> QED BY <1>1, <1>3, <1>7, <1>9, <2>1, CancelsKept
<1> QED BY <1>11, <1>12, <1>13, <1>14, <1>15, <1>16, <1>17 DEF LaneInv

(* A turn gets its response, under the id it took over or a new one.       *)
LEMMA TurnAdmitted ==
    ASSUME LaneInv, NEW t \in Committers, AdmitTurn(t)
    PROVE  Calm \/ \E r \in Responses : LaneStarts(r)
<1>1. SessionTypes /\ FreshLanes /\ TurnIds /\ Placed
  BY DEF LaneInv, SessionTypes
<1>2. /\ pc[t] = "admit" /\ t \in Tasks /\ pc[t] \in Turning /\ pc[t] # "none"
      /\ UNCHANGED <<snap, turn, aborted, wireOpened, wire, outLock, session, config>>
      /\ UNCHANGED vadLocals
  BY TaskNames DEF AdmitTurn, At, turnLocals, wires, Turning
<1>3. PICK i, r : i = ItemOf(t) /\ r = IF turn[t].text THEN turn[t].id ELSE nextResp + 1
  OBVIOUS
<1>4. PICK rest : rest = Rest(t) /\ rest \in {"idle", "end"}
  BY DEF Rest
<1>5. rest \notin Ending /\ rest \notin Turning /\ pc[t] \notin Ending
  BY <1>2, <1>4 DEF Ending, Turning
<1>6. CASE heard[i] = "full" /\ RespAdmit
  <2>1. /\ r <= MaxResp /\ nextResp' = (IF turn[t].text THEN nextResp ELSE r)
        /\ resp' = Created(r) /\ resp = RespNone /\ current = 0 /\ current' = r
        /\ pc' = [pc EXCEPT ![Lane(r)] = "store", ![t] = rest]
    BY <1>3, <1>4, <1>6 DEF AdmitTurn, RespCreateFromNone, RespAdmit
  <2>2. turn[t].text \in BOOLEAN /\ turn[t].id \in 0..MaxResp
    BY <1>1, <1>2 DEF SessionTypes
  <2>3. /\ r \in Responses /\ pc[Lane(r)] = "none" /\ r <= nextResp'
        /\ nextResp' \in 0..MaxResp /\ nextResp <= nextResp'
        /\ \A u \in Committers : u # t /\ pc[u] \in Turning => turn[u].id # r
    <3>1. nextResp \in Nat /\ MaxResp \in Nat /\ nextResp \in 0..MaxResp
      BY <1>1, KnownIds, SessionBounds DEF SessionTypes
    <3>2. CASE turn[t].text
      <4>1. turn[t].id # 0
        BY <1>1, <1>2, <3>2 DEF TurnIds
      <4>2. r = turn[t].id /\ r \in Responses /\ nextResp' = nextResp
        BY <1>1, <1>2, <1>3, <2>1, <3>2, <4>1, KnownIds
      <4>3. /\ r <= nextResp /\ pc[Lane(r)] = "none"
            /\ \A u \in Committers : u # t /\ pc[u] \in Turning => turn[u].id # r
        BY <1>1, <1>2, <4>1, <4>2 DEF TurnIds
      <4> QED BY <3>1, <4>2, <4>3
    <3>3. CASE ~turn[t].text
      <4>1. r = nextResp + 1 /\ nextResp' = r
        BY <1>3, <2>1, <3>3
      <4>2. r \in Responses /\ r > nextResp /\ nextResp' \in 0..MaxResp /\ nextResp <= nextResp'
            /\ r <= nextResp'
        BY <2>1, <3>1, <4>1 DEF Responses
      <4>3. pc[Lane(r)] = "none"
        BY <1>1, <4>2 DEF FreshLanes
      <4>4. ASSUME NEW u \in Committers, pc[u] \in Turning PROVE turn[u].id # r
        <5>1. turn[u].id <= nextResp /\ turn[u].id \in Nat
          BY <1>1, <4>4, TaskNames, KnownIds DEF TurnIds
        <5> QED BY <3>1, <4>1, <5>1
      <4> QED BY <4>2, <4>3, <4>4
    <3> QED BY <3>2, <3>3
  <2>4. Placed' /\ \A u \in Tasks : pc'[u] = IF u = t THEN rest
                                             ELSE IF u = Lane(r) THEN "store" ELSE pc[u]
    BY <1>1, <2>1 DEF Placed
  <2>5. /\ pc'[Lane(r)] = "store"
        /\ \A s \in Responses : s # r => pc'[Lane(s)] = pc[Lane(s)]
    BY <2>3, <2>4, TaskNames, NamesDiffer
  <2>6. ASSUME NEW u \in Cancellers
        PROVE  pc'[u] = pc[u] \/ (pc[u] \notin Ending /\ pc'[u] \notin Ending)
    <3>1. u \in Tasks /\ u # Lane(r)
      BY <2>3, TaskNames
    <3>2. CASE u = t
      BY <1>5, <2>4, <3>1, <3>2
    <3>3. CASE u # t
      BY <2>4, <3>1, <3>3
    <3> QED BY <3>2, <3>3
  <2>7. \A u \in Committers : pc'[u] \in Turning => pc'[u] = pc[u] /\ turn[u].id # r
    BY <1>5, <2>3, <2>4, TaskNames
  <2> QED BY <1>2, <2>1, <2>3, <2>4, <2>5, <2>6, <2>7 DEF LaneStarts
<1>7. CASE ~(heard[i] = "full" /\ RespAdmit)
  <2>1. /\ UNCHANGED <<nextResp, resp, current>>
        /\ pc' = [pc EXCEPT ![Utterance(i)] = "store", ![t] = rest]
    BY <1>3, <1>4, <1>7 DEF AdmitTurn
  <2>2. Placed' /\ \A u \in Tasks : pc'[u] = IF u = t THEN rest
                                             ELSE IF u = Utterance(i) THEN "store" ELSE pc[u]
    BY <1>1, <2>1 DEF Placed
  <2>3. \A s \in Responses : pc'[Lane(s)] = pc[Lane(s)]
    <3>1. \A s \in Responses : Lane(s) # Utterance(i) /\ Lane(s) # t /\ Lane(s) \in Tasks
      BY TaskNames, NamesDiffer
    <3> QED BY <2>2, <3>1
  <2>4. ASSUME NEW u \in Cancellers \cup Committers
        PROVE  pc'[u] = pc[u] \/ (u = t /\ pc'[u] = rest)
    <3>1. u \in {VadTask, ClientTask} \/ \E j \in Items : u \in {DelayTask(j), EouTask(j)}
      BY TaskNames
    <3>2. u # Utterance(i)
      BY <3>1, NamesDiffer
    <3>3. u \in Tasks
      BY TaskNames
    <3>4. CASE u = t
      BY <2>2, <3>3, <3>4
    <3>5. CASE u # t
      BY <2>2, <3>2, <3>3, <3>5
    <3> QED BY <3>4, <3>5
  <2>5. CalmPc
    BY <1>5, <2>2, <2>3, <2>4 DEF CalmPc
  <2>6. Calm
    BY <1>1, <1>2, <2>1, <2>5 DEF Calm, SessionTypes, slot
  <2> QED BY <2>6
<1> QED BY <1>6, <1>7

(* A client's response is created.                                         *)
LEMMA CreateStarts ==
    ASSUME LaneInv, ClientCreate
    PROVE  \E r \in Responses : LaneStarts(r)
<1>1. SessionTypes /\ FreshLanes /\ TurnIds /\ Placed
  BY DEF LaneInv, SessionTypes
<1>2. PICK r : r = nextResp + 1
  OBVIOUS
<1>3. /\ nextResp < MaxResp /\ nextResp' = r /\ resp = RespNone /\ resp' = Created(r)
      /\ current = 0 /\ current' = r
      /\ Goto(Lane(r), "announce")
      /\ UNCHANGED <<snap, turn, aborted, wireOpened, wire, outLock, session, config>>
  BY <1>2 DEF ClientCreate, RespAdmit, RespCreateFromNone, turnLocals, laneLocals, wires
<1>4. nextResp \in Nat /\ MaxResp \in Nat
  BY <1>1, KnownIds, SessionBounds
<1>5. r \in Responses /\ r > nextResp /\ nextResp' \in 0..MaxResp /\ nextResp <= nextResp'
      /\ r <= nextResp'
  BY <1>2, <1>3, <1>4 DEF Responses
<1>6. pc[Lane(r)] = "none"
  BY <1>1, <1>5 DEF FreshLanes
<1>7. Placed' /\ \A u \in Tasks : pc'[u] = IF u = Lane(r) THEN "announce" ELSE pc[u]
  BY <1>1, <1>3, OneMoves DEF Goto
<1>8. /\ pc'[Lane(r)] = "announce"
      /\ \A s \in Responses : s # r => pc'[Lane(s)] = pc[Lane(s)]
      /\ \A u \in Cancellers : pc'[u] = pc[u]
      /\ \A u \in Committers : pc'[u] = pc[u]
  BY <1>5, <1>7, TaskNames, NamesDiffer
<1>9. ASSUME NEW u \in Committers, pc[u] \in Turning PROVE turn[u].id # r
  <2>1. turn[u].id <= nextResp /\ turn[u].id \in Nat
    BY <1>1, <1>9, TaskNames, KnownIds DEF TurnIds
  <2> QED BY <1>2, <1>4, <2>1
<1>10. LaneStarts(r)
  BY <1>3, <1>5, <1>6, <1>7, <1>8, <1>9 DEF LaneStarts
<1> QED BY <1>5, <1>10

(* A prediction is rolled back; a reply streams; a lane is over.           *)
LEMMA LooseSteps ==
    ASSUME LaneInv, DelayInv,
           \/ \E t \in Cancellers : RollbackPredicted(t)
           \/ \E r \in Responses : LlmDelta(r) \/ ClearResponse(r)
           \/ \E r \in Responses, ok \in BOOLEAN : CloseResponse(r, ok) /\ resp.id # r
    PROVE  Loose /\ DelayInv' /\ UNCHANGED <<session, config>>
<1>1. SessionTypes /\ Placed
  BY DEF LaneInv, SessionTypes
<1>2. /\ UNCHANGED <<nextResp, snap, turn, aborted, wireOpened, wire, outLock, session, config>>
      /\ UNCHANGED vadLocals
  BY DEF RollbackPredicted, LlmDelta, ClearResponse, CloseResponse, taskVars, turnLocals, laneLocals, wires
<1>3. UNCHANGED <<vitem, openItem, nextItem>>
  BY <1>2 DEF vadLocals
<1>4. ASSUME LoosePc, SlotShrinks PROVE Loose
  BY <1>1, <1>2, <1>4 DEF Loose, SessionTypes
<1>5. ASSUME NEW t \in Cancellers, RollbackPredicted(t) PROVE Loose /\ DelayInv'
  <2>1. PICK l \in {"decide", "idle"} : Goto(t, l) /\ pc[t] = "rollback" /\ (l = "decide" <=> t = VadTask)
    BY <1>5 DEF RollbackPredicted, At
  <2>2. SlotShrinks
    BY <1>5 DEF RollbackPredicted, RespRetirePredicted, SlotShrinks
  <2>3. Placed' /\ \A u \in Tasks : pc'[u] = IF u = t THEN l ELSE pc[u]
    BY <1>1, <2>1, OneMoves DEF Goto
  <2>4. LoosePc
    BY <2>1, <2>3, TaskNames DEF LoosePc, Ending, Turning
  <2>5. DelayInv'
    BY <1>1, <1>3, <2>1, TaskNames, DelayGoto
  <2> QED BY <1>4, <2>2, <2>4, <2>5
<1>6. ASSUME NEW r \in Responses, NEW l \in {"gate", "fin", "end"}, Goto(Lane(r), l),
             pc[Lane(r)] \in {"llm", "fin"}, l = "gate" => pc[Lane(r)] = "llm"
      PROVE  LoosePc /\ DelayInv'
  <2>1. Placed' /\ \A u \in Tasks : pc'[u] = IF u = Lane(r) THEN l ELSE pc[u]
    BY <1>1, <1>6, OneMoves DEF Goto
  <2>2. /\ pc'[Lane(r)] = l
        /\ \A s \in Responses : s # r => pc'[Lane(s)] = pc[Lane(s)]
        /\ \A u \in Cancellers \cup Committers : pc'[u] = pc[u]
    BY <2>1, TaskNames, NamesDiffer
  <2>3. l = "gate" => pc[Lane(r)] \in Replying /\ l \in Replying
    BY <1>6 DEF Replying
  <2>4. LoosePc
    BY <1>6, <2>1, <2>2, <2>3 DEF LoosePc
  <2>5. DelayInv'
    BY <1>1, <1>3, <1>6, TaskNames, DelayGoto
  <2> QED BY <2>4, <2>5
<1>7. ASSUME NEW r \in Responses, LlmDelta(r) PROVE Loose /\ DelayInv'
  <2>1. Goto(Lane(r), "gate") /\ pc[Lane(r)] = "llm"
    BY <1>7 DEF LlmDelta, At
  <2>2. SlotShrinks
    BY <1>7 DEF LlmDelta, RespAdvanceToStreaming, SlotShrinks
  <2> QED BY <1>4, <1>6, <2>1, <2>2
<1>8. ASSUME NEW r \in Responses, ClearResponse(r) PROVE Loose /\ DelayInv'
  <2>1. Goto(Lane(r), "end") /\ pc[Lane(r)] = "fin"
    BY <1>8 DEF ClearResponse, At
  <2>2. SlotShrinks
    BY <1>8 DEF ClearResponse, RespRetireToNone, SlotShrinks
  <2> QED BY <1>4, <1>6, <2>1, <2>2
<1>9. ASSUME NEW r \in Responses, NEW ok \in BOOLEAN, CloseResponse(r, ok), resp.id # r
      PROVE  Loose /\ DelayInv'
  <2>1. Goto(Lane(r), "fin") /\ pc[Lane(r)] = "llm"
    BY <1>9 DEF CloseResponse, At
  <2>2. SlotShrinks
    BY <1>9 DEF CloseResponse, slot, SlotShrinks
  <2> QED BY <1>4, <1>6, <2>1, <2>2
<1> QED BY <1>2, <1>5, <1>7, <1>8, <1>9

(* The session ends: nobody has the lock, and every task is over.          *)
LEMMA TerminateIsLoose ==
    ASSUME LaneInv, DelayInv, Terminate
    PROVE  Loose /\ DelayInv'
<1>1. SessionTypes /\ LockOwner
  BY DEF LaneInv
<1>2. /\ pc' = [t \in Tasks |-> IF pc[t] = "none" THEN "none" ELSE "end"] /\ outLock = 0
      /\ UNCHANGED <<resp, nextResp, snap, turn, aborted, wireOpened, wire, outLock>>
      /\ UNCHANGED <<vitem, openItem, nextItem>>
  BY DEF Terminate, stateVars, wires, vadLocals, turnLocals, laneLocals
<1>3. Placed'
  BY <1>2 DEF Placed
<1>4. \A r \in Responses : pc[Lane(r)] \notin {"created", "closing"}
  BY <1>1, <1>2, KnownIds DEF LockOwner
<1>5. \A t \in Tasks : pc'[t] = IF pc[t] = "none" THEN "none" ELSE "end"
  BY <1>2
<1>6. LoosePc
  BY <1>3, <1>4, <1>5, TaskNames DEF LoosePc, Ending, Turning
<1>7. Loose
  BY <1>1, <1>2, <1>6 DEF Loose, SlotShrinks, SessionTypes
<1>8. DelayInv'
  BY <1>2, <1>5, TaskNames, DelayUntouched
<1> QED BY <1>7, <1>8

(* The other steps spawn no delay task either.                             *)
LEMMA DelayStep ==
    ASSUME LaneInv, DelayInv,
           \/ \E t \in Cancellers : RetireResponse(t) \/ ReadWireOpened(t) \/ SendCancelled(t)
           \/ \E i \in Items : StartPredicted(i)
           \/ \E t \in Committers : CommitItem(t) \/ AdmitTurn(t)
           \/ \E r \in Responses : Announce(r) \/ SendCreated(r) \/ SendDelta(r) \/ SendDone(r)
           \/ \E r \in Responses, ok \in BOOLEAN : CloseResponse(r, ok)
           \/ ClientCreate
    PROVE  DelayInv'
<1>1. SessionTypes /\ Placed
  BY DEF LaneInv, SessionTypes
<1>2. UNCHANGED vadLocals
  BY DEF RetireResponse, ReadWireOpened, SendCancelled, StartPredicted, CommitItem, AdmitTurn,
     Announce, SendCreated, SendDelta, SendDone, CloseResponse, ClientCreate, taskVars
<1>3. UNCHANGED <<vitem, openItem, nextItem>>
  BY <1>2 DEF vadLocals
<1>4. ASSUME NEW t \in Cancellers, RetireResponse(t) \/ ReadWireOpened(t) \/ SendCancelled(t)
      PROVE  DelayInv'
  <2>1. PICK l \in {"opened", "idle", "speak", "gate", "truncate"} :
           Goto(t, l) /\ pc[t] \in {"retire", "opened", "cancelled"}
    BY <1>4 DEF RetireResponse, ReadWireOpened, SendCancelled, At, AfterCancel
  <2> QED BY <1>1, <1>3, <2>1, TaskNames, DelayGoto
<1>5. ASSUME NEW t \in Tasks, t \notin Cancellers \/ t = VadTask, NEW l, Goto(t, l),
             l \notin {"timer", "rollback", "decide"}
      PROVE  DelayInv'
  BY <1>1, <1>3, <1>5, DelayGoto
<1>6. ASSUME NEW i \in Items, StartPredicted(i) PROVE DelayInv'
  BY <1>5, <1>6, TaskNames DEF StartPredicted
<1>7. ASSUME NEW t \in Committers, CommitItem(t) PROVE DelayInv'
  <2>1. PICK l \in {"await", "committed"} : Goto(t, l)
    BY <1>7 DEF CommitItem
  <2>2. t \in Tasks /\ (t \notin Cancellers \/ t = VadTask)
    BY TaskNames
  <2> QED BY <1>5, <2>1, <2>2
<1>8. ASSUME NEW t \in Committers, AdmitTurn(t) PROVE DelayInv'
  <2>1. PICK u, rest : /\ (\E x : u = Lane(x) \/ u = Utterance(x)) /\ rest \in {"idle", "end"}
                       /\ pc' = [pc EXCEPT ![u] = "store", ![t] = rest]
    BY <1>8 DEF AdmitTurn, Rest
  <2>2. Placed' /\ \A v \in Tasks : pc'[v] = IF v = t THEN rest
                                             ELSE IF v = u THEN "store" ELSE pc[v]
    BY <1>1, <2>1 DEF Placed
  <2>3. pc'[VadTask] \in {"timer", "rollback", "decide"} =>
           pc[VadTask] \in {"timer", "rollback", "decide"}
    BY <2>1, <2>2, TaskNames
  <2>4. ASSUME NEW i \in Items PROVE pc'[DelayTask(i)] = pc[DelayTask(i)]
    <3>1. DelayTask(i) # u
      BY <2>1, NamesDiffer
    <3>2. DelayTask(i) \in Tasks /\ DelayTask(i) # t
      BY TaskNames
    <3> QED BY <2>2, <3>1, <3>2
  <2> QED BY <1>3, <2>3, <2>4, DelayUntouched
<1>9. ASSUME NEW r, NEW l \in {"announce", "created", "fin", "llm", "closing"}, Goto(Lane(r), l)
      PROVE  DelayInv'
  <2>1. Placed' /\ \A v \in Tasks : pc'[v] = IF v = Lane(r) THEN l ELSE pc[v]
    BY <1>1, <1>9, OneMoves DEF Goto
  <2>2. pc'[VadTask] \in {"timer", "rollback", "decide"} =>
           pc[VadTask] \in {"timer", "rollback", "decide"}
    BY <1>9, <2>1, TaskNames
  <2>3. \A i \in Items : pc'[DelayTask(i)] = pc[DelayTask(i)]
    BY <2>1, TaskNames, NamesDiffer
  <2> QED BY <1>3, <2>2, <2>3, DelayUntouched
<1>10. ASSUME NEW r \in Responses, Announce(r) \/ SendCreated(r) \/ SendDelta(r) \/ SendDone(r)
       PROVE  DelayInv'
  <2>1. PICK l \in {"created", "fin", "llm", "closing"} : Goto(Lane(r), l)
    BY <1>10 DEF Announce, SendCreated, SendDelta, SendDone
  <2> QED BY <1>9, <2>1
<1>11. ASSUME NEW r \in Responses, NEW ok \in BOOLEAN, CloseResponse(r, ok) PROVE DelayInv'
  <2>1. PICK l \in {"fin", "closing"} : Goto(Lane(r), l)
    BY <1>11 DEF CloseResponse
  <2> QED BY <1>9, <2>1
<1>12. CASE ClientCreate
  <2>1. PICK r : r = nextResp'
    OBVIOUS
  <2>2. Goto(Lane(r), "announce")
    BY <1>12, <2>1 DEF ClientCreate
  <2> QED BY <1>9, <2>2
<1> QED BY <1>4, <1>6, <1>7, <1>8, <1>10, <1>11, <1>12

(* Every step of the session, sorted.                                      *)
LEMMA StepKinds ==
    ASSUME LaneInv, DelayInv, [Next]_vars
    PROVE  \/ Calm /\ DelayInv'
           \/ \E t \in Cancellers : RollbackPredicted(t)
           \/ \E r \in Responses : LlmDelta(r) \/ ClearResponse(r)
           \/ \E r \in Responses, ok \in BOOLEAN : CloseResponse(r, ok)
           \/ Terminate
           \/ \E t \in Cancellers : RetireResponse(t) \/ ReadWireOpened(t) \/ SendCancelled(t)
           \/ \E i \in Items : StartPredicted(i)
           \/ \E t \in Committers : CommitItem(t) \/ AdmitTurn(t)
           \/ \E r \in Responses : Announce(r) \/ SendCreated(r) \/ SendDelta(r) \/ SendDone(r)
           \/ ClientCreate
<1>1. SessionTypes
  BY DEF LaneInv
<1>2. CASE VadStep
  BY <1>1, <1>2, VadIsCalm
<1>3. ASSUME NEW t \in Cancellers, CancelStep(t)
      PROVE  \/ (Calm /\ DelayInv') \/ RollbackPredicted(t) \/ RetireResponse(t)
             \/ ReadWireOpened(t) \/ SendCancelled(t)
  BY <1>1, <1>3, CancelIsCalm DEF CancelStep
<1>4. ASSUME NEW i \in Items, DelayElapsed(i) \/ DispatchStep(i)
      PROVE  (Calm /\ DelayInv') \/ StartPredicted(i)
  BY <1>1, <1>4, DispatchIsCalm DEF DispatchStep
<1>5. ASSUME NEW t \in Committers, CommitStep(t)
      PROVE  (Calm /\ DelayInv') \/ CommitItem(t) \/ AdmitTurn(t)
  BY <1>5, TurnIsCalm DEF CommitStep
<1>6. ASSUME NEW t \in Workers, UtteranceStep(t) PROVE Calm /\ DelayInv'
  BY <1>1, <1>6, WorkIsCalm
<1>7. ASSUME NEW r \in Responses, LaneStep(r)
      PROVE  \/ (Calm /\ DelayInv') \/ LlmDelta(r) \/ ClearResponse(r) \/ Announce(r)
             \/ SendCreated(r) \/ SendDelta(r) \/ SendDone(r)
             \/ \E ok \in BOOLEAN : CloseResponse(r, ok)
  BY <1>1, <1>7, ClientIsCalm DEF LaneStep
<1>8. CASE ClientStep \/ UNCHANGED vars
  BY <1>1, <1>8, ClientIsCalm DEF ClientStep
<1> QED BY <1>2, <1>3, <1>4, <1>5, <1>6, <1>7, <1>8 DEF Next

(* Every step keeps the lanes in order.                                    *)
LEMMA LaneNext == LaneInv /\ DelayInv /\ [Next]_vars => LaneInv' /\ DelayInv'
<1> SUFFICES ASSUME LaneInv, DelayInv, [Next]_vars PROVE LaneInv' /\ DelayInv'
  OBVIOUS
<1>1. RuntimeMatchesPhase'
  BY SlotStep DEF LaneInv
<1>2. CASE Calm /\ DelayInv'
  BY <1>1, <1>2, CalmIsLoose, LooseKeepsLanes
<1>3. CASE Terminate
  BY <1>1, <1>3, TerminateIsLoose, LooseKeepsLanes
<1>4. ASSUME \/ \E t \in Cancellers : RollbackPredicted(t)
             \/ \E r \in Responses : LlmDelta(r) \/ ClearResponse(r)
             \/ \E r \in Responses, ok \in BOOLEAN : CloseResponse(r, ok) /\ resp.id # r
      PROVE  LaneInv' /\ DelayInv'
  BY <1>1, <1>4, LooseSteps, LooseKeepsLanes
<1>5. ASSUME NEW t \in Cancellers, RetireResponse(t) \/ ReadWireOpened(t) \/ SendCancelled(t)
      PROVE  LaneInv' /\ DelayInv'
  BY <1>1, <1>5, DelayStep, ResponseRetired, LaneAborted, CancelledKeeps
<1>6. ASSUME NEW i \in Items, StartPredicted(i) PROVE LaneInv' /\ DelayInv'
  BY <1>1, <1>6, DelayStep, PredictionStarts
<1>7. ASSUME NEW t \in Committers, CommitItem(t) \/ AdmitTurn(t) PROVE LaneInv' /\ DelayInv'
  BY <1>1, <1>7, DelayStep, TurnTakesPrediction, TurnAdmitted, CalmIsLoose, LooseKeepsLanes, LaneOpens
<1>8. ASSUME NEW r \in Responses, Announce(r) \/ SendCreated(r) \/ SendDelta(r) \/ SendDone(r)
      PROVE  LaneInv' /\ DelayInv'
  BY <1>1, <1>8, DelayStep, AnnounceKeeps, CreatedKeeps, DeltaKeeps, DoneKeeps
<1>9. ASSUME NEW r \in Responses, NEW ok \in BOOLEAN, CloseResponse(r, ok), resp.id = r
      PROVE  LaneInv' /\ DelayInv'
  BY <1>1, <1>9, DelayStep, CloseKeeps
<1>10. CASE ClientCreate
  BY <1>1, <1>10, DelayStep, CreateStarts, LaneOpens
<1> QED BY <1>2, <1>3, <1>4, <1>5, <1>6, <1>7, <1>8, <1>9, <1>10, StepKinds

(* They are in order at the start.                                         *)
LEMMA LaneInit == Init => LaneInv /\ DelayInv
<1> SUFFICES ASSUME Init PROVE LaneInv /\ DelayInv
  OBVIOUS
<1>1. /\ pc = [t \in Tasks |-> IF t \in {VadTask, ClientTask} THEN "idle" ELSE "none"]
      /\ resp = RespNone /\ current = 0 /\ nextResp = 0 /\ outLock = 0 /\ aborted = {}
      /\ snap = [t \in Tasks |-> NoSnap] /\ turn = [t \in Tasks |-> NoTurn]
      /\ wire = [r \in Responses |-> <<>>] /\ wireOpened = {}
      /\ vitem = 0 /\ openItem = 0 /\ nextItem = 0
  BY DEF Init, StateInit
<1>2. /\ \A r \in Responses : pc[Lane(r)] = "none" /\ wire[r] = <<>>
      /\ \A t \in Cancellers \cup Committers : pc[t] \notin Ending /\ pc[t] \notin Turning
      /\ \A i \in Items : pc[DelayTask(i)] = "none"
      /\ pc[VadTask] = "idle"
  BY <1>1, TaskNames DEF Ending, Turning
<1>3. resp.id = 0 /\ resp.phase = "None" /\ 0 \notin Responses /\ resp \in RespPhases
  BY <1>1, SessionBounds DEF RespNone, Responses, RespPhases
<1>4. SessionTypes
  <2>1. Placed
    BY <1>1 DEF Placed
  <2>2. NoSnap \in [id : 0..MaxResp, lane : 0..MaxResp] /\ NoTurn \in [id : 0..MaxResp, text : BOOLEAN]
        /\ 0 \in 0..MaxResp
    BY SessionBounds DEF NoSnap, NoTurn
  <2>3. <<>> \in Seq({"created", "delta", "done"})
    OBVIOUS
  <2> QED BY <1>1, <1>3, <2>1, <2>2, <2>3 DEF SessionTypes
<1>a. resp.phase # "Predicted" /\ resp.phase \notin ActivePhases
  BY <1>3 DEF ActivePhases
<1>b. RuntimeMatchesPhase /\ SlotLane
  BY <1>1, <1>3, <1>a DEF RuntimeMatchesPhase, SlotLane
<1>c. FreshLanes
  BY <1>1, <1>2 DEF FreshLanes
<1>5. TurnIds
  BY <1>2 DEF TurnIds
<1>6. LockOwner /\ WireShape /\ Cancels
  BY <1>1, <1>2, <1>3 DEF LockOwner, WireShape, Cancels, Hearing, Replying
<1>7. DelayInv
  BY <1>1, <1>2, SessionBounds DEF DelayInv
<1> QED BY <1>4, <1>b, <1>c, <1>5, <1>6, <1>7 DEF LaneInv

(* The invariant of the response lanes: an id is one lane's, the slot, the *)
(* lock and the closing brackets have one owner each, and what a client    *)
(* has seen fits where the lane is.                                        *)
THEOREM LaneInvariant == Spec => [](LaneInv /\ DelayInv)
BY LaneInit, LaneNext, PTL DEF Spec

(* outbound_send is never lost: the lane that holds it is at its brackets  *)
(* and was not aborted.                                                    *)
THEOREM LockCorrect == Spec => []OrderLockHasOwner
<1>1. LaneInv => OrderLockHasOwner
  <2> SUFFICES ASSUME LaneInv, outLock # 0
               PROVE  Lane(outLock) \notin aborted /\ pc[Lane(outLock)] \in {"created", "closing"}
    BY DEF OrderLockHasOwner
  <2>1. outLock \in Responses
    BY SessionBounds DEF LaneInv, SessionTypes, Responses
  <2> QED BY <2>1 DEF LaneInv, LockOwner
<1> QED BY <1>1, LaneInvariant, PTL

-----------------------------------------------------------------------------
(* The lifecycle of a response: what a step does to its stage.             *)

(* The stage follows from the wire and from the lane having started.       *)
LEMMA StageKept ==
    ASSUME NEW r \in Responses, wire'[r] = wire[r],
           pc'[Lane(r)] = "none" <=> pc[Lane(r)] = "none"
    PROVE  Stage(r)' = Stage(r)
<1>1. (OpenWire(r)' <=> OpenWire(r)) /\ (EndedWire(r)' <=> EndedWire(r))
  BY DEF OpenWire, EndedWire
<1> QED BY <1>1 DEF Stage

(* What each stage looks like.                                             *)
LEMMA Stages ==
    ASSUME NEW r \in Responses
    PROVE  /\ wire[r] = <<>> /\ pc[Lane(r)] = "none" => Stage(r) = "fresh"
           /\ wire[r] = <<>> /\ pc[Lane(r)] # "none" => Stage(r) = "admitted"
           /\ OpenWire(r) => Stage(r) = "open"
           /\ EndedWire(r) => Stage(r) = "ended"
<1>1. /\ OpenWire(r) => wire[r] # <<>> /\ ~EndedWire(r)
      /\ EndedWire(r) => wire[r] # <<>>
  BY WireKinds
<1> QED BY <1>1 DEF Stage

(* The stage of one response changes.                                      *)
LEMMA StageMoves ==
    ASSUME NEW r \in Responses, NEW a,
           \A s \in Responses : s # r => Stage(s)' = Stage(s),
           Stage(r)' = a
    PROVE  [s \in Responses |-> Stage(s)]' = [[s \in Responses |-> Stage(s)] EXCEPT ![r] = a]
OBVIOUS

(* A step that changes no stage and at most empties the slot.              *)
LEMMA StagesKept ==
    ASSUME \A r \in Responses : Stage(r)' = Stage(r), current' \in {0, current}
    PROVE  [Lifecycle!Next]_(Lifecycle!lifecycle)
<1>1. [s \in Responses |-> Stage(s)]' = [s \in Responses |-> Stage(s)]
  OBVIOUS
<1> QED BY <1>1 DEF Lifecycle!Next, Lifecycle!Release, Lifecycle!lifecycle

(* So is a step that changes neither the wire nor whether a lane started.  *)
LEMMA LooseKeepsStages ==
    ASSUME Loose, RuntimeMatchesPhase, RuntimeMatchesPhase', SessionTypes
    PROVE  [Lifecycle!Next]_(Lifecycle!lifecycle)
<1>1. \A r \in Responses : Stage(r)' = Stage(r)
  <2>1. ASSUME NEW r \in Responses PROVE Stage(r)' = Stage(r)
    <3>1. wire'[r] = wire[r] /\ (pc'[Lane(r)] = "none" <=> pc[Lane(r)] = "none")
      BY DEF Loose, LoosePc, Hearing, Replying
    <3> QED BY <3>1, StageKept
  <2> QED BY <2>1
<1>2. current' \in {0, current}
  BY DEF Loose, SlotShrinks, RuntimeMatchesPhase, RespNone, Created, Streaming, ActivePhases
<1> QED BY <1>1, <1>2, StagesKept

(* A response is admitted.                                                 *)
LEMMA StartAdmits ==
    ASSUME LaneInv, NEW r \in Responses, LaneStarts(r)
    PROVE  Lifecycle!Next
<1>1. /\ wire' = wire /\ pc[Lane(r)] = "none" /\ pc'[Lane(r)] # "none"
      /\ \A s \in Responses : s # r => pc'[Lane(s)] = pc[Lane(s)]
      /\ current = 0 /\ current' = r
  BY DEF LaneStarts
<1>2. wire[r] = <<>>
  BY <1>1 DEF LaneInv, FreshLanes
<1>3. Stage(r) = "fresh"
  BY <1>1, <1>2, Stages
<1>4. Stage(r)' = "admitted"
  BY <1>1, <1>2 DEF Stage
<1>5. ASSUME NEW s \in Responses, s # r PROVE Stage(s)' = Stage(s)
  BY <1>1, <1>5, StageKept
<1>6. [s \in Responses |-> Stage(s)]' = [[s \in Responses |-> Stage(s)] EXCEPT ![r] = "admitted"]
  BY <1>4, <1>5, StageMoves
<1> QED BY <1>1, <1>3, <1>6 DEF Lifecycle!Next, Lifecycle!Admit

(* An event of a response is sent.                                         *)
LEMMA SendMoves ==
    ASSUME LaneInv, NEW r \in Responses, NEW e \in {"created", "delta", "done"},
           SendResp(r, e), UNCHANGED current,
           \A s \in Responses : pc'[Lane(s)] = "none" <=> pc[Lane(s)] = "none",
           \/ e = "created" /\ wire[r] = <<>> /\ pc[Lane(r)] # "none"
           \/ e = "delta" /\ wire[r] # <<>>
           \/ e = "done" /\ OpenWire(r) /\ resp.id # r
    PROVE  [Lifecycle!Next]_(Lifecycle!lifecycle)
<1>1. /\ wire \in [Responses -> Seq({"created", "delta", "done"})]
      /\ wire[r] = <<>> \/ OpenWire(r) \/ EndedWire(r)
      /\ RuntimeMatchesPhase
  BY DEF LaneInv, SessionTypes, WireShape
<1>2. /\ wire[r] = <<>> /\ e = "created" => OpenWire(r)'
      /\ OpenWire(r) /\ e = "delta" => OpenWire(r)'
      /\ OpenWire(r) /\ e = "done" => EndedWire(r)'
      /\ EndedWire(r) /\ e = "delta" => EndedWire(r)'
      /\ \A s \in Responses : s # r => wire'[s] = wire[s]
  BY <1>1, WireGrows
<1>3. ASSUME NEW s \in Responses, s # r PROVE Stage(s)' = Stage(s)
  BY <1>2, <1>3, StageKept
<1>4. ASSUME NEW a, Stage(r)' = a
      PROVE  [s \in Responses |-> Stage(s)]' = [[s \in Responses |-> Stage(s)] EXCEPT ![r] = a]
  BY <1>3, <1>4, StageMoves
<1>5. (OpenWire(r)' => Stage(r)' = "open") /\ (EndedWire(r)' => Stage(r)' = "ended")
  <2>1. wire'[r] = <<>> => ~(OpenWire(r)') /\ ~(EndedWire(r)')
    BY DEF OpenWire, EndedWire
  <2>2. OpenWire(r)' => ~(EndedWire(r)')
    BY DEF OpenWire, EndedWire
  <2> QED BY <2>1, <2>2 DEF Stage
<1>6. CASE e = "created"
  <2>1. Stage(r) = "admitted" /\ Stage(r)' = "open"
    BY <1>2, <1>5, <1>6, Stages
  <2>2. [s \in Responses |-> Stage(s)]' = [[s \in Responses |-> Stage(s)] EXCEPT ![r] = "open"]
    BY <1>4, <2>1
  <2> QED BY <2>1, <2>2 DEF Lifecycle!Next, Lifecycle!Open
<1>7. CASE e = "delta"
  <2>1. Stage(r)' = Stage(r)
    BY <1>1, <1>2, <1>5, <1>7, Stages
  <2> QED BY <1>3, <2>1, StagesKept
<1>8. CASE e = "done"
  <2>1. Stage(r) = "open" /\ Stage(r)' = "ended"
    BY <1>2, <1>5, <1>8, Stages
  <2>2. [s \in Responses |-> Stage(s)]' = [[s \in Responses |-> Stage(s)] EXCEPT ![r] = "ended"]
    BY <1>4, <2>1
  <2>3. current # r
    BY <1>1, <1>8, LaneKnows DEF RuntimeMatchesPhase
  <2> QED BY <2>1, <2>2, <2>3 DEF Lifecycle!Next, Lifecycle!End
<1> QED BY <1>6, <1>7, <1>8

(* One task moves on, and no lane starts.                                  *)
LEMMA NoLaneStarts ==
    ASSUME LaneInv, NEW t \in Tasks, NEW l, Goto(t, l),
           t \in Lanes => pc[t] # "none" /\ l # "none"
    PROVE  \A r \in Responses : pc'[Lane(r)] = "none" <=> pc[Lane(r)] = "none"
<1>1. \A u \in Tasks : pc'[u] = IF u = t THEN l ELSE pc[u]
  BY OneMoves DEF LaneInv, SessionTypes, Goto
<1> QED BY <1>1, TaskNames

(* The steps that touch the slot, the lock or a lane, and send nothing.    *)
LEMMA SilentStep ==
    ASSUME LaneInv,
           \/ \E t \in Cancellers : RetireResponse(t) \/ ReadWireOpened(t)
           \/ \E i \in Items : StartPredicted(i)
           \/ \E t \in Committers : CommitItem(t)
           \/ \E r \in Responses : Announce(r)
           \/ \E r \in Responses, ok \in BOOLEAN : CloseResponse(r, ok)
    PROVE  [Lifecycle!Next]_(Lifecycle!lifecycle)
<1>1. wire' = wire
  BY DEF RetireResponse, ReadWireOpened, StartPredicted, CommitItem, Announce, CloseResponse, wires
<1>2. current' \in {0, current}
  BY DEF RetireResponse, ReadWireOpened, StartPredicted, CommitItem, Announce, CloseResponse,
     stateVars, slot, RespRetireToNone, RespStartPredicted
<1>3. \E l : \E t \in Tasks : Goto(t, l) /\ (t \in Lanes => pc[t] # "none" /\ l # "none")
  <2>1. ASSUME NEW t \in Cancellers, RetireResponse(t) \/ ReadWireOpened(t)
        PROVE  \E l : Goto(t, l) /\ t \in Tasks /\ t \notin Lanes
    BY <2>1, TaskNames DEF RetireResponse, ReadWireOpened
  <2>2. ASSUME NEW i \in Items, StartPredicted(i)
        PROVE  Goto(EouTask(i), "delay") /\ EouTask(i) \in Tasks /\ EouTask(i) \notin Lanes
    BY <2>2, TaskNames DEF StartPredicted
  <2>3. ASSUME NEW t \in Committers, CommitItem(t)
        PROVE  \E l : Goto(t, l) /\ t \in Tasks /\ t \notin Lanes
    BY <2>3, TaskNames DEF CommitItem
  <2>4. ASSUME NEW r \in Responses, Announce(r)
        PROVE  /\ \E l \in {"created", "fin"} : Goto(Lane(r), l)
               /\ pc[Lane(r)] # "none" /\ Lane(r) \in Tasks
    BY <2>4, TaskNames DEF Announce, At
  <2>5. ASSUME NEW r \in Responses, NEW ok \in BOOLEAN, CloseResponse(r, ok)
        PROVE  /\ \E l \in {"closing", "fin"} : Goto(Lane(r), l)
               /\ pc[Lane(r)] # "none" /\ Lane(r) \in Tasks
    BY <2>5, TaskNames DEF CloseResponse, At
  <2> QED BY <2>1, <2>2, <2>3, <2>4, <2>5
<1>4. \A r \in Responses : pc'[Lane(r)] = "none" <=> pc[Lane(r)] = "none"
  BY <1>3, NoLaneStarts
<1>5. \A r \in Responses : Stage(r)' = Stage(r)
  BY <1>1, <1>4, StageKept
<1> QED BY <1>2, <1>5, StagesKept

(* The steps that send an event of a response.                             *)
LEMMA SendingStep ==
    ASSUME LaneInv,
           \/ \E t \in Cancellers : SendCancelled(t)
           \/ \E r \in Responses : SendCreated(r) \/ SendDelta(r) \/ SendDone(r)
    PROVE  [Lifecycle!Next]_(Lifecycle!lifecycle)
<1>1. SessionTypes /\ WireShape /\ Cancels
  BY DEF LaneInv
<1>2. ASSUME NEW t \in Cancellers, SendCancelled(t)
      PROVE  [Lifecycle!Next]_(Lifecycle!lifecycle)
  <2>1. PICK r : r = snap[t].id
    OBVIOUS
  <2>2. /\ SendResp(r, "done") /\ UNCHANGED current /\ Goto(t, "truncate") /\ pc[t] = "cancelled"
    BY <1>2, <2>1 DEF SendCancelled, At, stateVars
  <2>3. pc[t] \in Ending /\ pc[t] # "opened" /\ t \in Tasks /\ t \notin Lanes
    BY <2>2, TaskNames DEF Ending
  <2>4. OpenWire(r) /\ resp.id # r /\ r \in Responses
    BY <1>1, <2>1, <2>3, KnownIds DEF Cancels
  <2>5. \A s \in Responses : pc'[Lane(s)] = "none" <=> pc[Lane(s)] = "none"
    BY <2>2, <2>3, NoLaneStarts
  <2> QED BY <2>2, <2>4, <2>5, SendMoves
<1>3. ASSUME NEW r \in Responses, SendCreated(r) \/ SendDelta(r) \/ SendDone(r)
      PROVE  [Lifecycle!Next]_(Lifecycle!lifecycle)
  <2>1. /\ UNCHANGED current
        /\ \/ SendResp(r, "created") /\ pc[Lane(r)] = "created"
           \/ SendResp(r, "delta") /\ pc[Lane(r)] = "delta"
           \/ SendResp(r, "done") /\ pc[Lane(r)] = "closing"
        /\ \E l \in {"llm", "fin"} : Goto(Lane(r), l)
    BY <1>3 DEF SendCreated, SendDelta, SendDone, At, stateVars
  <2>2. \A s \in Responses : pc'[Lane(s)] = "none" <=> pc[Lane(s)] = "none"
    BY <2>1, TaskNames, NoLaneStarts
  <2>3. /\ pc[Lane(r)] = "created" => wire[r] = <<>>
        /\ pc[Lane(r)] = "delta" => wire[r] # <<>>
        /\ pc[Lane(r)] = "closing" => OpenWire(r) /\ resp.id # r
    BY <1>1 DEF WireShape, Hearing, Replying
  <2> QED BY <2>1, <2>2, <2>3, SendMoves
<1> QED BY <1>2, <1>3

(* session.rs and pipeline.rs: whichever of the lane, a barge-in or a      *)
(* client's cancel gets there first, a response is admitted once, opened   *)
(* once, and ended once by whoever took it out of the slot.                *)
THEOREM LifecycleCorrect == Spec => ImplementsLifecycle
<1>1. Init => Lifecycle!Init
  <2> SUFFICES ASSUME Init PROVE Lifecycle!Init
    OBVIOUS
  <2>1. current = 0
    BY DEF Init, StateInit
  <2>2. ASSUME NEW r \in Responses PROVE Stage(r) = "fresh"
    <3>1. wire[r] = <<>> /\ pc[Lane(r)] = "none"
      <4>1. Lane(r) \in Tasks /\ Lane(r) \notin {VadTask, ClientTask}
        BY TaskNames
      <4> QED BY <4>1 DEF Init
    <3> QED BY <3>1, Stages
  <2> QED BY <2>1, <2>2 DEF Lifecycle!Init
<1>2. LaneInv /\ DelayInv /\ [Next]_vars => [Lifecycle!Next]_(Lifecycle!lifecycle)
  <2> SUFFICES ASSUME LaneInv, DelayInv, [Next]_vars
               PROVE  [Lifecycle!Next]_(Lifecycle!lifecycle)
    OBVIOUS
  <2>1. SessionTypes /\ RuntimeMatchesPhase /\ RuntimeMatchesPhase'
    BY SlotStep DEF LaneInv
  <2>2. ASSUME Loose PROVE [Lifecycle!Next]_(Lifecycle!lifecycle)
    BY <2>1, <2>2, LooseKeepsStages
  <2>3. CASE Calm
    BY <2>2, <2>3, CalmIsLoose
  <2>4. CASE Terminate
    BY <2>2, <2>4, TerminateIsLoose
  <2>5. CASE \/ \E t \in Cancellers : RollbackPredicted(t)
             \/ \E r \in Responses : LlmDelta(r) \/ ClearResponse(r)
    BY <2>2, <2>5, LooseSteps
  <2>6. CASE \/ \E t \in Cancellers : RetireResponse(t) \/ ReadWireOpened(t)
             \/ \E i \in Items : StartPredicted(i)
             \/ \E t \in Committers : CommitItem(t)
             \/ \E r \in Responses : Announce(r)
             \/ \E r \in Responses, ok \in BOOLEAN : CloseResponse(r, ok)
    BY <2>6, SilentStep
  <2>7. CASE \/ \E t \in Cancellers : SendCancelled(t)
             \/ \E r \in Responses : SendCreated(r) \/ SendDelta(r) \/ SendDone(r)
    BY <2>7, SendingStep
  <2>8. CASE ClientCreate \/ \E t \in Committers : AdmitTurn(t)
    BY <2>3, <2>8, TurnAdmitted, CreateStarts, StartAdmits
  <2> QED BY <2>3, <2>4, <2>5, <2>6, <2>7, <2>8, StepKinds
<1> QED BY <1>1, <1>2, LaneInvariant, PTL DEF Spec, ImplementsLifecycle, Lifecycle!Spec

-----------------------------------------------------------------------------
(* Who ends an open response.                                              *)

(* A closer stays, if it goes on with what makes it one.                   *)
LEMMA CloserStays ==
    ASSUME NEW r \in Responses, Closer(r),
           resp.phase \in ActivePhases /\ resp.id = r =>
              /\ resp'.phase \in ActivePhases /\ resp'.id = r
              /\ Lane(r) \in aborted' => Lane(r) \in aborted
              /\ pc'[Lane(r)] \notin {"none", "end"},
           pc[Lane(r)] = "closing" => pc'[Lane(r)] = "closing",
           \A t \in Cancellers : pc[t] \in Ending /\ snap[t].id = r =>
              pc'[t] \in Ending /\ snap'[t].id = r
    PROVE  Closer(r)'
BY DEF Closer, Ending

(* A step that leaves the responses alone.                                 *)
LEMMA CalmKeepsClosers ==
    ASSUME LaneInv, CloserInv, Calm
    PROVE  CloserInv'
<1>1. /\ resp' = resp /\ wire' = wire /\ snap' = snap /\ session' = session /\ config' = config
      /\ \A r \in Responses : Lane(r) \in aborted' <=> Lane(r) \in aborted
  BY DEF Calm, slot
<1>2. /\ \A r \in Responses :
            \/ pc'[Lane(r)] = pc[Lane(r)]
            \/ pc[Lane(r)] \in Hearing /\ pc'[Lane(r)] \in Hearing \cup {"fin"}
            \/ pc[Lane(r)] \in Replying /\ pc'[Lane(r)] \in Replying
      /\ \A t \in Cancellers : pc[t] \in Ending /\ resp.phase # "Predicted" => pc'[t] \in Ending
  BY DEF Calm, CalmPc
<1>3. WireShape
  BY DEF LaneInv
<1>4. ~config.eager => resp.phase # "Predicted"
  BY DEF CloserInv
<1>5. ASSUME session = "Active", NEW r \in Responses
      PROVE  /\ resp.phase \in ActivePhases /\ resp.id = r =>
                   /\ pc'[Lane(r)] # "end"
                   /\ pc'[Lane(r)] = "fin" => wire[r] = <<>>
             /\ ~config.eager /\ (OpenWire(r) \/ pc'[Lane(r)] = "created") => Closer(r)'
  <2>1. /\ resp.phase \in ActivePhases /\ resp.id = r =>
              pc[Lane(r)] # "end" /\ (pc[Lane(r)] = "fin" => wire[r] = <<>>)
        /\ ~config.eager /\ (OpenWire(r) \/ pc[Lane(r)] = "created") => Closer(r)
    BY <1>5 DEF CloserInv
  <2>2. pc[Lane(r)] \in Hearing => wire[r] = <<>>
    BY <1>3 DEF WireShape
  <2>3. resp.phase \in ActivePhases /\ resp.id = r =>
           pc'[Lane(r)] # "end" /\ (pc'[Lane(r)] = "fin" => wire[r] = <<>>)
    BY <1>2, <2>1, <2>2 DEF Hearing, Replying
  <2>4. /\ pc'[Lane(r)] = "created" => pc[Lane(r)] = "created"
        /\ pc[Lane(r)] = "closing" => pc'[Lane(r)] = "closing"
        /\ pc[Lane(r)] \notin {"none", "end"} => pc'[Lane(r)] \notin {"none", "end"}
    BY <1>2 DEF Hearing, Replying
  <2>5. ASSUME ~config.eager, Closer(r) PROVE Closer(r)'
    <3>1. resp.phase \in ActivePhases /\ resp.id = r => pc[Lane(r)] \notin {"none", "end"}
      BY <2>1 DEF LaneInv, SlotLane
    <3> QED BY <1>1, <1>2, <1>4, <2>4, <2>5, <3>1, CloserStays
  <2> QED BY <2>1, <2>3, <2>4, <2>5
<1>6. \A r \in Responses : OpenWire(r)' <=> OpenWire(r)
  BY <1>1, WireSame
<1> QED BY <1>1, <1>4, <1>5, <1>6 DEF CloserInv

(* A task that ends nothing moves on, and no response changes, but that a  *)
(* prediction may be dropped.                                              *)
LEMMA OthersKeepClosers ==
    ASSUME LaneInv, CloserInv, NEW t \in Tasks, NEW l, Goto(t, l), t \notin Lanes,
           pc[t] \notin Ending,
           resp' = resp \/ (resp.phase \notin ActivePhases /\ resp'.phase \notin ActivePhases),
           config.eager = FALSE => resp'.phase # "Predicted",
           UNCHANGED <<wire, snap, session, config, aborted>>
    PROVE  CloserInv'
<1>1. \A u \in Tasks : pc'[u] = IF u = t THEN l ELSE pc[u]
  BY OneMoves DEF LaneInv, SessionTypes, Goto
<1>2. \A r \in Responses : pc'[Lane(r)] = pc[Lane(r)]
  BY <1>1, TaskNames
<1>3. \A u \in Cancellers : pc[u] \in Ending => pc'[u] \in Ending
  BY <1>1, TaskNames
<1>4. \A r \in Responses : OpenWire(r)' <=> OpenWire(r)
  BY WireSame
<1>5. ASSUME NEW r \in Responses, Closer(r) PROVE Closer(r)'
  BY <1>2, <1>3, <1>5 DEF Closer, Ending
<1>6. ~config'.eager => resp'.phase # "Predicted"
  OBVIOUS
<1> QED BY <1>2, <1>4, <1>5, <1>6 DEF CloserInv

(* A response is taken out of the slot to be cancelled.                    *)
LEMMA RetireKeepsClosers ==
    ASSUME LaneInv, CloserInv, NEW t \in Cancellers, RetireResponse(t)
    PROVE  CloserInv'
<1>1. SessionTypes /\ RuntimeMatchesPhase /\ Placed
  BY DEF LaneInv, SessionTypes
<1>2. PICK r, l : r = resp.id /\ l = IF current # 0 THEN "opened" ELSE AfterCancel(t)
  OBVIOUS
<1>3. /\ pc[t] = "retire" /\ Goto(t, l) /\ resp' = RespNone
      /\ snap' = [snap EXCEPT ![t] = [id |-> r, lane |-> current]]
      /\ UNCHANGED <<aborted, wire, session, config>>
  BY <1>2 DEF RetireResponse, At, RespRetireToNone, wires
<1>4. t \in Tasks /\ t \notin Lanes /\ pc[t] \notin Ending
  BY <1>3, TaskNames DEF Ending
<1>5. \A u \in Tasks : pc'[u] = IF u = t THEN l ELSE pc[u]
  BY <1>1, <1>3, OneMoves DEF Goto
<1>6. \A s \in Responses : pc'[Lane(s)] = pc[Lane(s)]
  BY <1>4, <1>5, TaskNames
<1>7. \A s \in Responses : OpenWire(s)' <=> OpenWire(s)
  BY <1>3, WireSame
<1>8. resp'.phase \notin ActivePhases /\ resp'.phase # "Predicted"
  BY <1>3 DEF RespNone, ActivePhases
<1>9. ASSUME NEW s \in Responses, Closer(s) PROVE Closer(s)'
  <2>1. CASE resp.phase \in ActivePhases /\ resp.id = s
    <3>1. current = s /\ current # 0
      BY <1>1, <2>1, KnownIds DEF RuntimeMatchesPhase
    <3>2. pc'[t] = "opened"
      BY <1>2, <1>4, <1>5, <3>1
    <3>3. snap'[t].id = s
      BY <1>1, <1>2, <1>3, <1>4, <2>1 DEF SessionTypes
    <3> QED BY <3>2, <3>3 DEF Closer
  <2>2. CASE pc[Lane(s)] = "closing"
    BY <1>6, <2>2 DEF Closer
  <2>3. ASSUME NEW u \in Cancellers, snap[u].id = s, pc[u] \in Ending PROVE Closer(s)'
    <3>1. u # t /\ u \in Tasks
      BY <1>4, <2>3, TaskNames
    <3>2. pc'[u] \in Ending
      BY <1>5, <2>3, <3>1
    <3>3. snap'[u].id = s
      BY <1>1, <1>3, <2>3, <3>1 DEF SessionTypes
    <3> QED BY <3>2, <3>3 DEF Closer, Ending
  <2> QED BY <1>9, <2>1, <2>2, <2>3 DEF Closer, Ending
<1> QED BY <1>3, <1>6, <1>7, <1>8, <1>9 DEF CloserInv

(* The lane is aborted after wire_opened is read: a response the client    *)
(* has seen is on its way to its end, and one that is being opened has     *)
(* outbound_send, for which this step waits.                               *)
LEMMA AbortKeepsClosers ==
    ASSUME LaneInv, CloserInv, NEW t \in Cancellers, ReadWireOpened(t)
    PROVE  CloserInv'
<1>1. SessionTypes /\ Placed /\ Cancels /\ LockOwner /\ WireShape
  BY DEF LaneInv, SessionTypes
<1>2. PICK r, l : r = snap[t].lane /\ l = IF r \in wireOpened THEN "gate" ELSE "truncate"
  OBVIOUS
<1>3. /\ pc[t] = "opened" /\ outLock = 0 /\ Goto(t, l) /\ aborted' = aborted \cup {Lane(r)}
      /\ UNCHANGED <<resp, snap, wire, session, config>>
  BY <1>2 DEF ReadWireOpened, At, wires, stateVars
<1>4. /\ t \in Tasks /\ t \notin Lanes /\ r \in Responses /\ snap[t].id = r /\ resp.id # r
      /\ 0 \notin Responses
  BY <1>1, <1>2, <1>3, TaskNames, KnownIds DEF Cancels, Ending
<1>5. \A u \in Tasks : pc'[u] = IF u = t THEN l ELSE pc[u]
  BY <1>1, <1>3, OneMoves DEF Goto
<1>6. \A s \in Responses : pc'[Lane(s)] = pc[Lane(s)] /\ pc[Lane(s)] # "created"
  BY <1>1, <1>3, <1>4, <1>5, TaskNames DEF LockOwner
<1>7. \A s \in Responses : OpenWire(s)' <=> OpenWire(s)
  BY <1>3, WireSame
<1>8. ASSUME NEW s \in Responses, OpenWire(s), Closer(s) PROVE Closer(s)'
  <2>1. resp.phase \in ActivePhases /\ resp.id = s => (Lane(s) \in aborted' => Lane(s) \in aborted)
    BY <1>3, <1>4, NamesDiffer
  <2>2. resp.phase \in ActivePhases /\ resp.id = s => pc[Lane(s)] \notin {"none", "end"} \/ Closer(s)'
    <3>1. ASSUME pc[Lane(s)] \in {"none", "end"}, resp.id = s PROVE Closer(s)'
      <4>1. PICK u \in Cancellers : snap[u].id = s /\ pc[u] \in Ending
        BY <1>8, <3>1 DEF Closer, Ending
      <4>2. FALSE
        BY <1>1, <3>1, <4>1 DEF Cancels
      <4> QED BY <4>2
    <3> QED BY <3>1
  <2>3. ASSUME NEW u \in Cancellers, pc[u] \in Ending, snap[u].id = s
        PROVE  pc'[u] \in Ending
    <3>1. CASE u = t
      <4>1. s = r /\ wire[s] # <<>>
        BY <1>4, <1>8, <2>3, <3>1, WireKinds
      <4>2. l = "gate"
        BY <1>1, <1>2, <4>1 DEF WireShape
      <4> QED BY <1>4, <1>5, <3>1, <4>2 DEF Ending
    <3>2. CASE u # t
      BY <1>5, <2>3, <3>2, TaskNames
    <3> QED BY <3>1, <3>2
  <2>4. CASE Closer(s)'
    BY <2>4
  <2>5. CASE ~(Closer(s)')
    BY <1>3, <1>6, <1>8, <2>1, <2>2, <2>3, <2>5, CloserStays
  <2> QED BY <2>4, <2>5
<1> QED BY <1>3, <1>6, <1>7, <1>8 DEF CloserInv

(* The canceller sends the end.                                            *)
LEMMA EndKeepsClosers ==
    ASSUME LaneInv, CloserInv, NEW t \in Cancellers, SendCancelled(t)
    PROVE  CloserInv'
<1>1. SessionTypes /\ Placed /\ Cancels /\ LockOwner /\ WireShape
  BY DEF LaneInv, SessionTypes
<1>2. PICK r : r = snap[t].id
  OBVIOUS
<1>3. /\ pc[t] = "cancelled" /\ outLock = 0 /\ Goto(t, "truncate") /\ SendResp(r, "done")
      /\ UNCHANGED <<resp, snap, aborted, session, config>>
  BY <1>2 DEF SendCancelled, At, stateVars, taskVars
<1>4. pc[t] \in Ending /\ pc[t] # "opened" /\ t \in Tasks /\ t \notin Lanes
  BY <1>3, TaskNames DEF Ending
<1>5. r \in Responses /\ OpenWire(r) /\ resp.id # r /\ 0 \notin Responses
      /\ wire \in [Responses -> Seq({"created", "delta", "done"})]
  BY <1>1, <1>2, <1>4, KnownIds DEF Cancels, SessionTypes
<1>6. /\ EndedWire(r)'
      /\ \A s \in Responses : s # r => wire'[s] = wire[s] /\ (OpenWire(s)' <=> OpenWire(s))
  BY <1>3, <1>5, WireGrows
<1>7. ~(OpenWire(r)')
  BY <1>6 DEF OpenWire, EndedWire
<1>8. \A u \in Tasks : pc'[u] = IF u = t THEN "truncate" ELSE pc[u]
  BY <1>1, <1>3, OneMoves DEF Goto
<1>9. \A s \in Responses : pc'[Lane(s)] = pc[Lane(s)] /\ pc[Lane(s)] # "created"
  BY <1>1, <1>3, <1>4, <1>5, <1>8, TaskNames DEF LockOwner
<1>10. ASSUME NEW s \in Responses, s # r, Closer(s) PROVE Closer(s)'
  <2>1. \A u \in Cancellers : snap[u].id = s => pc'[u] = pc[u]
    BY <1>2, <1>8, <1>10, TaskNames
  <2> QED BY <1>3, <1>9, <1>10, <2>1 DEF Closer
<1>11. ASSUME session = "Active", NEW s \in Responses
       PROVE  /\ resp.phase \in ActivePhases /\ resp.id = s =>
                   /\ pc'[Lane(s)] # "end"
                   /\ pc'[Lane(s)] = "fin" => wire'[s] = <<>>
              /\ ~config.eager /\ (OpenWire(s)' \/ pc'[Lane(s)] = "created") => Closer(s)'
  <2>1. CASE s = r
    BY <1>5, <1>7, <1>9, <2>1
  <2>2. CASE s # r
    BY <1>6, <1>9, <1>10, <1>11, <2>2 DEF CloserInv
  <2> QED BY <2>1, <2>2
<1>12. ~config.eager => resp.phase # "Predicted"
  BY DEF CloserInv
<1> QED BY <1>3, <1>11, <1>12 DEF CloserInv

(* A lane moves on: the other responses keep their closers.                *)
LEMMA LaneKeepsClosers ==
    ASSUME LaneInv, CloserInv, NEW r \in Responses, NEW l, Goto(Lane(r), l),
           UNCHANGED <<snap, session, config, aborted>>,
           \A s \in Responses : s # r => wire'[s] = wire[s] /\ (OpenWire(s)' <=> OpenWire(s)),
           resp'.phase \in ActivePhases => resp.phase \in ActivePhases /\ resp'.id = resp.id,
           resp.phase \in ActivePhases /\ resp.id # r => resp' = resp,
           config.eager = FALSE => resp'.phase # "Predicted",
           session = "Active" /\ resp'.phase \in ActivePhases /\ resp'.id = r =>
              l # "end" /\ (l = "fin" => wire'[r] = <<>>),
           session = "Active" /\ ~config.eager /\ (OpenWire(r)' \/ l = "created") => Closer(r)'
    PROVE  CloserInv'
<1>1. \A u \in Tasks : pc'[u] = IF u = Lane(r) THEN l ELSE pc[u]
  <2>1. Placed
    BY DEF LaneInv, SessionTypes
  <2>2. pc' = [pc EXCEPT ![Lane(r)] = l]
    BY DEF Goto
  <2> QED BY <2>1, <2>2 DEF Placed
<1>2. /\ pc'[Lane(r)] = l
      /\ \A s \in Responses : s # r => pc'[Lane(s)] = pc[Lane(s)]
      /\ \A u \in Cancellers : pc'[u] = pc[u]
  BY <1>1, TaskNames, NamesDiffer
<1>3. ASSUME NEW s \in Responses, s # r, Closer(s) PROVE Closer(s)'
  BY <1>2, <1>3 DEF Closer
<1>4. ASSUME session = "Active", NEW s \in Responses
      PROVE  /\ resp'.phase \in ActivePhases /\ resp'.id = s =>
                  /\ pc'[Lane(s)] # "end"
                  /\ pc'[Lane(s)] = "fin" => wire'[s] = <<>>
             /\ ~config.eager /\ (OpenWire(s)' \/ pc'[Lane(s)] = "created") => Closer(s)'
  <2>1. CASE s = r
    BY <1>2, <1>4, <2>1
  <2>2. CASE s # r
    BY <1>2, <1>3, <1>4, <2>2 DEF CloserInv
  <2> QED BY <2>1, <2>2
<1>5. ~config'.eager => resp'.phase # "Predicted"
  OBVIOUS
<1> QED BY <1>4, <1>5 DEF CloserInv

(* The steps of a lane that send nothing.                                  *)
LEMMA QuietLaneKeepsClosers ==
    ASSUME LaneInv, CloserInv, NEW r \in Responses,
           LlmDelta(r) \/ ClearResponse(r) \/ Announce(r) \/ \E ok \in BOOLEAN : CloseResponse(r, ok)
    PROVE  CloserInv'
<1>1. SessionTypes /\ WireShape /\ SlotLane
  BY DEF LaneInv
<1>2. /\ UNCHANGED <<wire, snap, session, config, aborted>>
      /\ pc[Lane(r)] \in {"llm", "fin", "announce"}
  BY DEF LlmDelta, ClearResponse, Announce, CloseResponse, At, taskVars, wires
<1>3. PICK l \in {"gate", "end", "created", "fin", "closing"} :
         /\ Goto(Lane(r), l)
         /\ l = "gate" => pc[Lane(r)] = "llm"
         /\ l = "end" => pc[Lane(r)] = "fin" /\ (resp.id = r => resp' = RespNone)
         /\ l = "created" => resp.id = r /\ resp' = resp
         /\ l = "fin" => resp.id # r /\ resp' = resp
         /\ l = "closing" => resp.id = r /\ resp' = RespNone
         /\ l \in {"gate", "created"} => resp' = resp \/ (resp = Created(r) /\ resp' = Streaming(r))
         /\ resp' = resp \/ (resp.id = r /\ resp' = RespNone)
               \/ (resp = Created(r) /\ resp' = Streaming(r))
  BY DEF LlmDelta, ClearResponse, Announce, CloseResponse, At, RespRetireToNone,
     RespAdvanceToStreaming, stateVars, slot
<1>4. \A s \in Responses : OpenWire(s)' <=> OpenWire(s)
  BY <1>2, WireSame
<1>5. pc[Lane(r)] # "none" /\ pc[Lane(r)] # "closing"
  BY <1>2
<1>6. /\ resp'.phase \in ActivePhases => resp.phase \in ActivePhases /\ resp'.id = resp.id
      /\ resp.phase \in ActivePhases /\ resp.id # r => resp' = resp
      /\ resp'.phase = "Predicted" => resp.phase = "Predicted"
  BY <1>3 DEF RespNone, Created, Streaming, ActivePhases
<1>7. config.eager = FALSE => resp'.phase # "Predicted"
  BY <1>6 DEF CloserInv
<1>8. ASSUME resp'.phase \in ActivePhases, resp'.id = r
      PROVE  l # "end" /\ (l = "fin" => wire'[r] = <<>>)
  <2>1. resp.id = r
    BY <1>6, <1>8
  <2> QED BY <1>3, <1>8, <2>1 DEF RespNone, ActivePhases
<1>9. pc'[Lane(r)] = l /\ \A u \in Cancellers : pc'[u] = pc[u]
  <2>1. Placed
    BY <1>1 DEF SessionTypes
  <2>2. pc' = [pc EXCEPT ![Lane(r)] = l]
    BY <1>3 DEF Goto
  <2>3. \A u \in Tasks : pc'[u] = IF u = Lane(r) THEN l ELSE pc[u]
    BY <2>1, <2>2 DEF Placed
  <2> QED BY <2>3, TaskNames
<1>10. ASSUME session = "Active", ~config.eager, OpenWire(r)' \/ l = "created" PROVE Closer(r)'
  <2>1. CASE l = "created"
    <3>1. resp.phase \in ActivePhases /\ resp.id = r /\ Lane(r) \notin aborted /\ resp' = resp
      BY <1>3, <1>5, <2>1, LaneKnows
    <3> QED BY <1>2, <1>9, <2>1, <3>1 DEF Closer
  <2>2. CASE l = "closing"
    BY <1>9, <2>2 DEF Closer
  <2>3. CASE l \in {"gate", "end", "fin"}
    <3>1. OpenWire(r) /\ Closer(r) /\ wire[r] # <<>>
      BY <1>4, <1>10, <2>3, WireKinds DEF CloserInv
    <3>2. ASSUME resp.phase \in ActivePhases, resp.id = r
          PROVE  /\ resp'.phase \in ActivePhases /\ resp'.id = r
                 /\ pc'[Lane(r)] \notin {"none", "end"}
      <4>1. pc[Lane(r)] # "fin"
        BY <1>10, <3>1, <3>2 DEF CloserInv
      <4>2. l = "gate"
        BY <1>3, <2>3, <3>2, <4>1
      <4>3. resp' = resp \/ (resp = Created(r) /\ resp' = Streaming(r))
        BY <1>3, <4>2
      <4> QED BY <1>9, <3>2, <4>2, <4>3 DEF Streaming, ActivePhases
    <3> QED BY <1>2, <1>5, <1>9, <3>1, <3>2, CloserStays
  <2> QED BY <2>1, <2>2, <2>3
<1> QED BY <1>2, <1>3, <1>4, <1>6, <1>7, <1>8, <1>10, LaneKeepsClosers

(* The steps of a lane that send.                                          *)
LEMMA SendKeepsClosers ==
    ASSUME LaneInv, CloserInv, NEW r \in Responses,
           SendCreated(r) \/ SendDelta(r) \/ SendDone(r)
    PROVE  CloserInv'
<1>1. SessionTypes /\ WireShape /\ Placed
  BY DEF LaneInv, SessionTypes
<1>2. UNCHANGED <<resp, snap, session, config, aborted>>
  BY DEF SendCreated, SendDelta, SendDone, stateVars, taskVars
<1>3. PICK l \in {"llm", "fin"}, e \in {"created", "delta", "done"} :
         /\ Goto(Lane(r), l) /\ SendResp(r, e)
         /\ e = "created" => pc[Lane(r)] = "created" /\ l = "llm"
         /\ e = "delta" => pc[Lane(r)] = "delta" /\ l = "llm"
         /\ e = "done" => pc[Lane(r)] = "closing" /\ l = "fin"
  BY DEF SendCreated, SendDelta, SendDone, At
<1>4. /\ EndedWire(r) /\ e = "delta" => EndedWire(r)'
      /\ OpenWire(r) /\ e = "done" => EndedWire(r)'
      /\ \A s \in Responses : s # r => wire'[s] = wire[s] /\ (OpenWire(s)' <=> OpenWire(s))
  BY <1>1, <1>3, WireGrows DEF SessionTypes
<1>5. pc'[Lane(r)] = l /\ \A u \in Cancellers : pc'[u] = pc[u]
  <2>1. pc' = [pc EXCEPT ![Lane(r)] = l]
    BY <1>3 DEF Goto
  <2>2. \A u \in Tasks : pc'[u] = IF u = Lane(r) THEN l ELSE pc[u]
    BY <1>1, <2>1 DEF Placed
  <2> QED BY <2>2, TaskNames
<1>6. ~(OpenWire(r)' /\ EndedWire(r)')
  BY DEF OpenWire, EndedWire
<1>7. ASSUME e = "done" PROVE resp.id # r /\ ~(OpenWire(r)')
  BY <1>1, <1>3, <1>4, <1>6, <1>7 DEF WireShape
<1>8. ASSUME session = "Active", ~config.eager, OpenWire(r)' PROVE Closer(r)'
  <2>1. e # "done" /\ pc[Lane(r)] \in {"created", "delta"} /\ l = "llm"
    BY <1>3, <1>7, <1>8
  <2>2. CASE e = "created"
    BY <1>2, <1>3, <1>5, <1>8, <2>1, <2>2, CloserStays DEF CloserInv
  <2>3. CASE e = "delta"
    <3>1. OpenWire(r)
      BY <1>1, <1>3, <1>4, <1>6, <1>8, <2>3 DEF WireShape, Replying
    <3>2. Closer(r)
      BY <1>8, <3>1 DEF CloserInv
    <3> QED BY <1>2, <1>5, <2>1, <3>2, CloserStays
  <2> QED BY <1>3, <2>1, <2>2, <2>3
<1>9. config.eager = FALSE => resp.phase # "Predicted"
  BY DEF CloserInv
<1>10. resp.id = r => l # "fin"
  BY <1>3, <1>7
<1> QED BY <1>2, <1>3, <1>4, <1>8, <1>9, <1>10, LaneKeepsClosers

(* A response is admitted.                                                 *)
LEMMA StartKeepsClosers ==
    ASSUME LaneInv, CloserInv, NEW r \in Responses, LaneStarts(r)
    PROVE  CloserInv'
<1>1. /\ resp = RespNone /\ resp' = Created(r) /\ pc[Lane(r)] = "none"
      /\ pc'[Lane(r)] \in {"store", "announce"}
      /\ \A s \in Responses : s # r => pc'[Lane(s)] = pc[Lane(s)]
      /\ \A t \in Cancellers : pc[t] \in Ending => pc'[t] = pc[t]
      /\ UNCHANGED <<snap, aborted, wire, session, config>>
  BY DEF LaneStarts
<1>2. \A s \in Responses : OpenWire(s)' <=> OpenWire(s)
  BY <1>1, WireSame
<1>3. ~OpenWire(r)
  BY <1>1, WireKinds DEF LaneInv, FreshLanes
<1>4. resp.phase \notin ActivePhases /\ resp'.phase # "Predicted" /\ resp'.id = r
  BY <1>1 DEF RespNone, Created, ActivePhases
<1>5. ASSUME NEW s \in Responses, s # r, Closer(s) PROVE Closer(s)'
  BY <1>1, <1>4, <1>5 DEF Closer, Ending
<1>6. ASSUME session = "Active", NEW s \in Responses
      PROVE  /\ resp'.phase \in ActivePhases /\ resp'.id = s =>
                  /\ pc'[Lane(s)] # "end"
                  /\ pc'[Lane(s)] = "fin" => wire'[s] = <<>>
             /\ ~config.eager /\ (OpenWire(s)' \/ pc'[Lane(s)] = "created") => Closer(s)'
  <2>1. CASE s = r
    BY <1>1, <1>2, <1>3, <2>1
  <2>2. CASE s # r
    BY <1>1, <1>2, <1>4, <1>5, <1>6, <2>2 DEF CloserInv
  <2> QED BY <2>1, <2>2
<1> QED BY <1>1, <1>4, <1>6 DEF CloserInv

(* A dispatch comes to speculate by its score alone.                       *)
LEMMA EagerNext ==
    ASSUME Placed, EagerInv, [Next]_vars
    PROVE  EagerInv'
<1> SUFFICES ASSUME NEW i \in Items, pc'[EouTask(i)] = "eager"
             PROVE  config'.eager
  BY DEF EagerInv
<1>1. PICK d : d = EouTask(i)
  OBVIOUS
<1>2. d \in Tasks /\ d # VadTask /\ d # ClientTask
  BY <1>1, TaskNames
<1>3. ASSUME config' = config, pc[d] = "eager" PROVE config'.eager
  BY <1>1, <1>3 DEF EagerInv
<1> USE DEF Goto, Placed
<1>4. CASE VadStep
  <2>1. config' = config
    BY <1>4 DEF VadStep, SpeechStarted, SpeechCommitted, VadHears, CancelCommitTimer, DecideBargeIn,
       SetPendingBargein, SuppressBargein, VadStops, SendSpeechStopped, RejectShort,
       InstallCommitTimer, taskVars
  <2>2. CASE SpeechStarted \/ (\E length : SpeechCommitted(length)) \/ CancelCommitTimer
             \/ SetPendingBargein \/ SuppressBargein \/ VadStops \/ RejectShort \/ InstallCommitTimer
    <3>1. \E l : pc' = [pc EXCEPT ![VadTask] = l]
      BY <2>2 DEF SpeechStarted, SpeechCommitted, CancelCommitTimer, SetPendingBargein,
         SuppressBargein, VadStops, RejectShort, InstallCommitTimer
    <3> QED BY <1>1, <1>2, <1>3, <2>1, <3>1
  <2>3. CASE DecideBargeIn
    <3>1. \/ pc' = [pc EXCEPT ![DelayTask(vitem)] = "sleep", ![VadTask] = "set-pending"]
          \/ pc' = [pc EXCEPT ![VadTask] = "retire"]
      BY <2>3 DEF DecideBargeIn
    <3> QED BY <1>1, <1>2, <1>3, <2>1, <3>1
  <2>4. CASE SendSpeechStopped
    <3>1. \/ pc' = [pc EXCEPT ![VadTask] = "reject"]
          \/ pc' = [pc EXCEPT ![EouTask(vitem)] = "score", ![VadTask] = "install"]
          \/ pc' = [pc EXCEPT ![VadTask] = "commit"]
      BY <2>4 DEF SendSpeechStopped
    <3> QED BY <1>1, <1>2, <1>3, <2>1, <3>1
  <2> QED BY <1>4, <2>2, <2>3, <2>4 DEF VadStep
<1>5. ASSUME NEW t \in Cancellers, CancelStep(t) PROVE config'.eager
  <2>1. config' = config
    BY <1>5 DEF CancelStep, RollbackPredicted, RetireResponse, ReadWireOpened, GateCancelled,
       SendCancelled, TruncateAssistant, VadSpeaks, SendSpeechStarted, taskVars
  <2>2. \E l : pc' = [pc EXCEPT ![t] = l]
    BY <1>5 DEF CancelStep, RollbackPredicted, RetireResponse, ReadWireOpened, GateCancelled,
       SendCancelled, TruncateAssistant, VadSpeaks, SendSpeechStarted
  <2>3. d # t
    BY <1>1, TaskNames
  <2> QED BY <1>1, <1>2, <1>3, <2>1, <2>2, <2>3
<1>6. ASSUME NEW j \in Items, DelayElapsed(j) \/ DispatchStep(j) PROVE config'.eager
  <2>1. config' = config
    BY <1>6 DEF DispatchStep, DelayElapsed, EouScored, EagerScored, StartPredicted,
       PredictionRefused, ClearCommitTimer, taskVars
  <2>2. CASE EagerScored(j)
    BY <2>1, <2>2 DEF EagerScored
  <2>3. CASE ~EagerScored(j)
    <3>1. \E t : \E l \in {"retire", "end", "delay", "commit"} : pc' = [pc EXCEPT ![t] = l]
      BY <1>6, <2>3 DEF DispatchStep, DelayElapsed, EouScored, StartPredicted,
         PredictionRefused, ClearCommitTimer
    <3> QED BY <1>1, <1>2, <1>3, <2>1, <3>1
  <2> QED BY <2>2, <2>3
<1>7. ASSUME NEW t \in Committers, CommitStep(t) PROVE config'.eager
  <2>1. config' = config
    BY <1>7 DEF CommitStep, CommitItem, AwaitPrediction, SendCommitted, AdmitTurn, taskVars
  <2>2. CASE AdmitTurn(t)
    <3>1. \E u : \E rest \in {"idle", "end"} : pc' = [pc EXCEPT ![u] = "store", ![t] = rest]
      BY <2>2 DEF AdmitTurn, Rest
    <3> QED BY <1>1, <1>2, <1>3, <2>1, <3>1
  <2>3. CASE ~AdmitTurn(t)
    <3>1. \E l \in {"await", "committed", "admit"} : pc' = [pc EXCEPT ![t] = l]
      BY <1>7, <2>3 DEF CommitStep, CommitItem, AwaitPrediction, SendCommitted
    <3> QED BY <1>1, <1>2, <1>3, <2>1, <3>1
  <2> QED BY <2>2, <2>3
<1>8. ASSUME NEW t \in Workers, UtteranceStep(t) PROVE config'.eager
  <2>1. config' = config
    BY <1>8 DEF UtteranceStep, StoreSealed, Transcribed, TranscriptRejected, TranscriptionFailed,
       MarkIncomplete, SendTranscriptionCompleted, DropSealed, taskVars
  <2>2. \E l : pc' = [pc EXCEPT ![t] = l]
    BY <1>8 DEF UtteranceStep, StoreSealed, Transcribed, TranscriptRejected, TranscriptionFailed,
       MarkIncomplete, SendTranscriptionCompleted, DropSealed
  <2>3. d # t
    BY <1>1, TaskNames
  <2> QED BY <1>1, <1>2, <1>3, <2>1, <2>2, <2>3
<1>9. ASSUME NEW r \in Responses, LaneStep(r) PROVE config'.eager
  <2>1. config' = config
    BY <1>9 DEF LaneStep, Announce, SendCreated, LlmDelta, GateDelta, SendDelta, CloseResponse,
       SendDone, ClearResponse, taskVars
  <2>2. \E l : pc' = [pc EXCEPT ![Lane(r)] = l]
    BY <1>9 DEF LaneStep, Announce, SendCreated, LlmDelta, GateDelta, SendDelta, CloseResponse,
       SendDone, ClearResponse
  <2>3. d # Lane(r)
    BY <1>1, NamesDiffer
  <2> QED BY <1>1, <1>2, <1>3, <2>1, <2>2, <2>3
<1>10. CASE ClientStep
  <2>1. config' = config
    BY <1>10 DEF ClientStep, ClientCreate, ClientCancel, ClientClear, ClearInputBuffer, ClientItem
  <2>2. \/ pc' = pc
        \/ \E l : pc' = [pc EXCEPT ![ClientTask] = l]
        \/ \E r : pc' = [pc EXCEPT ![Lane(r)] = "announce"]
    BY <1>10 DEF ClientStep, ClientCreate, ClientCancel, ClientClear, ClearInputBuffer, ClientItem
  <2> QED BY <1>1, <1>2, <1>3, <2>1, <2>2
<1>11. CASE Terminate
  BY <1>1, <1>2, <1>11 DEF Terminate
<1>12. CASE UNCHANGED vars
  BY <1>1, <1>3, <1>12 DEF vars, taskVars
<1> QED BY <1>4, <1>5, <1>6, <1>7, <1>8, <1>9, <1>10, <1>11, <1>12 DEF Next

(* Every step keeps them.                                                  *)
LEMMA CloserNext == LaneInv /\ DelayInv /\ EagerInv /\ CloserInv /\ [Next]_vars => CloserInv'
<1> SUFFICES ASSUME LaneInv, DelayInv, EagerInv, CloserInv, [Next]_vars PROVE CloserInv'
  OBVIOUS
<1>1. CASE Calm
  BY <1>1, CalmKeepsClosers
<1>2. CASE Terminate
  <2>1. session' = "Terminated" /\ UNCHANGED <<resp, config>>
    BY <1>2 DEF Terminate, stateVars
  <2> QED BY <2>1 DEF CloserInv
<1>3. ASSUME NEW t \in Cancellers, RollbackPredicted(t) PROVE CloserInv'
  <2>1. PICK l : Goto(t, l)
    BY <1>3 DEF RollbackPredicted
  <2>2. /\ pc[t] = "rollback" /\ UNCHANGED <<wire, snap, session, config, aborted>>
        /\ resp' = IF resp.phase = "Predicted" THEN RespNone ELSE resp
    BY <1>3 DEF RollbackPredicted, At, RespRetirePredicted, taskVars, wires
  <2>3. t \in Tasks /\ t \notin Lanes /\ pc[t] \notin Ending
    BY <2>2, TaskNames DEF Ending
  <2>4. /\ resp' = resp \/ (resp.phase \notin ActivePhases /\ resp'.phase \notin ActivePhases)
        /\ resp'.phase # "Predicted"
    BY <2>2 DEF RespNone, ActivePhases
  <2> QED BY <2>1, <2>2, <2>3, <2>4, OthersKeepClosers
<1>4. ASSUME NEW i \in Items, StartPredicted(i) PROVE CloserInv'
  <2>1. PICK t : t = EouTask(i)
    OBVIOUS
  <2>2. /\ Goto(t, "delay") /\ pc[t] = "eager" /\ UNCHANGED <<wire, snap, session, config, aborted>>
        /\ resp = RespNone /\ resp' = Predicted(nextResp') /\ config.eager
    BY <1>4, <2>1 DEF EagerInv, StartPredicted, At, RespStartPredicted, wires
  <2>3. t \in Tasks /\ t \notin Lanes /\ pc[t] \notin Ending
    BY <2>1, <2>2, TaskNames DEF Ending
  <2>4. resp.phase \notin ActivePhases /\ resp'.phase \notin ActivePhases
    BY <2>2 DEF RespNone, Predicted, ActivePhases
  <2> QED BY <2>2, <2>3, <2>4, OthersKeepClosers
<1>5. ASSUME NEW t \in Committers, CommitItem(t) PROVE CloserInv'
  <2>1. PICK l : Goto(t, l)
    BY <1>5 DEF CommitItem
  <2>2. /\ pc[t] = "commit" /\ UNCHANGED <<wire, snap, session, config, aborted>>
        /\ resp' = IF resp.phase = "Predicted" THEN RespNone ELSE resp
    BY <1>5 DEF CommitItem, At, RespRetirePredicted, wires
  <2>3. t \in Tasks /\ t \notin Lanes /\ pc[t] \notin Ending
    BY <2>2, TaskNames DEF Ending
  <2>4. /\ resp' = resp \/ (resp.phase \notin ActivePhases /\ resp'.phase \notin ActivePhases)
        /\ resp'.phase # "Predicted"
    BY <2>2 DEF RespNone, ActivePhases
  <2> QED BY <2>1, <2>2, <2>3, <2>4, OthersKeepClosers
<1>6. ASSUME NEW t \in Cancellers, RetireResponse(t) \/ ReadWireOpened(t) \/ SendCancelled(t)
      PROVE  CloserInv'
  BY <1>6, RetireKeepsClosers, AbortKeepsClosers, EndKeepsClosers
<1>7. ASSUME NEW r \in Responses,
             \/ LlmDelta(r) \/ ClearResponse(r) \/ Announce(r)
             \/ \E ok \in BOOLEAN : CloseResponse(r, ok)
      PROVE  CloserInv'
  BY <1>7, QuietLaneKeepsClosers
<1>8. ASSUME NEW r \in Responses, SendCreated(r) \/ SendDelta(r) \/ SendDone(r) PROVE CloserInv'
  BY <1>8, SendKeepsClosers
<1>9. CASE ClientCreate \/ \E t \in Committers : AdmitTurn(t)
  BY <1>1, <1>9, TurnAdmitted, CreateStarts, StartKeepsClosers
<1> QED BY <1>1, <1>2, <1>3, <1>4, <1>5, <1>6, <1>7, <1>8, <1>9, StepKinds

(* RFC W1, session.rs cancel_current_response and pipeline.rs              *)
(* close_response: without eager dispatch a response the client sees as    *)
(* open always has somebody left to end it.                                *)
THEOREM CloserCorrect == Spec => []OpenHasCloser
<1>1. Init => CloserInv
  <2> SUFFICES ASSUME Init PROVE CloserInv
    OBVIOUS
  <2>1. LaneInv /\ resp.phase = "None"
    BY LaneInit DEF Init, StateInit, RespNone
  <2>2. ASSUME NEW r \in Responses PROVE ~OpenWire(r) /\ pc[Lane(r)] # "created"
    <3>1. Lane(r) \in Tasks /\ Lane(r) \notin {VadTask, ClientTask}
      BY TaskNames
    <3>2. wire[r] = <<>> /\ pc[Lane(r)] = "none"
      BY <3>1 DEF Init
    <3> QED BY <3>2, WireKinds
  <2> QED BY <2>1, <2>2 DEF CloserInv, ActivePhases
<1>2. LaneInv /\ CloserInv => OpenHasCloser
  <2> SUFFICES ASSUME LaneInv, CloserInv, ~config.eager, session = "Active",
                      NEW r \in Responses, Sent(r, "created"), ~Sent(r, "done")
               PROVE  Closer(r)
    BY DEF OpenHasCloser, DoneForEachCreated
  <2>1. wire[r] # <<>>
    BY DEF Sent
  <2>2. ~EndedWire(r)
    <3>1. wire[r] \in Seq({"created", "delta", "done"})
      BY DEF LaneInv, SessionTypes
    <3>2. \A d \in 2..Len(wire[r]) : d \in DOMAIN wire[r]
      BY <3>1
    <3> QED BY <3>2 DEF Sent, EndedWire
  <2>3. OpenWire(r)
    BY <2>1, <2>2 DEF LaneInv, WireShape
  <2> QED BY <2>3 DEF CloserInv
<1>3. Init => EagerInv
  BY TaskNames DEF Init, EagerInv
<1>4. LaneInv /\ EagerInv /\ [Next]_vars => EagerInv'
  BY EagerNext DEF LaneInv, SessionTypes
<1> QED BY <1>1, <1>2, <1>3, <1>4, CloserNext, LaneInvariant, PTL DEF Spec

-----------------------------------------------------------------------------
(* The utterances.  Three tasks, one after the other, send the events of   *)
(* an utterance: the voice detector's, a dispatch and a worker.            *)

\* The part a task has in sending the events of an utterance.
Starting == {"timer", "rollback", "decide", "retire", "opened", "gate", "cancelled",
             "truncate", "speak", "started"}
Sealing == {"suppress", "stop", "stopped"}
Rejecting == {"reject", "install"}
Committing == {"commit"} \cup Turning
Transcribing == {"store", "stt", "completed"}

\* The items of the conversation.
EntryIds == {UserItem(i) : i \in 0..MaxItem} \cup {AssistantItem(r) : r \in 0..MaxResp}
Entry == [id : EntryIds, status : Statuses]

\* The utterance is an item of the conversation.
Voiced(i) == \E k \in DOMAIN conversation : conversation[k].id = UserItem(i)

\* Nobody has been given the utterance to transcribe.
Unanswered(i) ==
    /\ pc[Utterance(i)] = "none"
    /\ \A r \in Responses : laneItem[r] # i
    /\ i \notin sealed

\* The utterance was not stopped yet.
Unstopped(i) ==
    /\ Unanswered(i)
    /\ pc[EouTask(i)] = "none"
    /\ ~Voiced(i)

ItemEvents == {"started", "stopped", "committed", "added", "completed", "failed"}

\* The events of an utterance so far are the first ones of the right order.
InOrder(w) ==
    /\ Len(w) <= 5
    /\ 1 <= Len(w) => w[1] = "started"
    /\ 2 <= Len(w) => w[2] = "stopped"
    /\ 3 <= Len(w) => w[3] = "committed"
    /\ 4 <= Len(w) => w[4] = "added"
    /\ 5 <= Len(w) => w[5] \in {"completed", "failed"}

ItemTypes ==
    /\ Placed
    /\ vad \in TimelyPhases
    /\ vitem \in 0..MaxItem /\ openItem \in 0..MaxItem /\ nextItem \in 0..MaxItem
    /\ laneItem \in [Responses -> 0..MaxItem]
    /\ itemWire \in [Items -> Seq(ItemEvents)]
    /\ conversation \in Seq(Entry)

\* Where the voice detector's task may be; the client's announces no speech.
VadPlace ==
    /\ pc[VadTask] \in {"idle", "end"} \cup Starting \cup Sealing \cup Rejecting \cup Committing
    /\ vitem <= nextItem /\ openItem <= nextItem
    /\ pc[VadTask] \notin {"idle", "end"} => vitem # 0
    /\ pc[VadTask] \in Starting => openItem = vitem
    /\ pc[VadTask] \in Sealing \cup Rejecting \cup Committing => openItem = 0
    /\ vad.phase = "Speaking" => pc[VadTask] \notin {"stopped"} \cup Rejecting \cup Committing
    /\ pc[ClientTask] \notin {"speak", "started"}
    /\ \A i \in Items : pc[DelayTask(i)] = "none" \/ pc[DelayTask(i)] = "end"

\* How far an utterance has come, by who works for it: it has one worker at
\* a time, and the phase of the detector is not past it.
ItemState(i) ==
    /\ InOrder(itemWire[i])
    /\ i > nextItem => Unstopped(i) /\ Len(itemWire[i]) = 0
    /\ i = vitem /\ pc[VadTask] \in Starting => Unstopped(i) /\ Len(itemWire[i]) = 0
    /\ i = openItem /\ pc[VadTask] \notin Starting \cup {"end"} =>
          Unstopped(i) /\ Len(itemWire[i]) = 1
    /\ i = vitem /\ pc[VadTask] \in Sealing => Unstopped(i) /\ Len(itemWire[i]) = 1
    /\ i = vitem /\ pc[VadTask] \in Committing =>
          /\ Unanswered(i) /\ pc[EouTask(i)] = "none"
          /\ Len(itemWire[i]) = IF pc[VadTask] = "admit" THEN 4 ELSE 2
    /\ pc[EouTask(i)] \in {"score", "eager", "delay"} \cup Committing =>
          /\ Unanswered(i)
          /\ Len(itemWire[i]) = IF pc[EouTask(i)] = "admit" THEN 4 ELSE 2
    /\ pc[Utterance(i)] \in Transcribing => Len(itemWire[i]) = 4
    /\ \A r \in Responses : laneItem[r] = i =>
          /\ pc[Utterance(i)] = "none"
          /\ pc[Lane(r)] \in Transcribing => Len(itemWire[i]) = 4
          /\ \A s \in Responses : laneItem[s] = i => s = r
    /\ vad = Speaking(i) => Unstopped(i)
    /\ vad = Stopped(i) =>
          /\ Unanswered(i)
          /\ pc[EouTask(i)] \notin Turning
          /\ i = vitem => pc[VadTask] \notin Turning

ItemCore ==
    /\ ItemTypes /\ VadPlace
    /\ \A i \in Items : ItemState(i)
    /\ \A r \in Responses : pc[Lane(r)] \in Transcribing => laneItem[r] # 0

\* The phase is of no utterance but the one the detector's task has open or
\* is about to stop.
Listening ==
    /\ openItem # 0 /\ pc[VadTask] \in {"idle", "started"} =>
          vad \in {Silent, Speaking(openItem)}
    /\ pc[VadTask] \in {"suppress", "stop"} => vad \in {Silent, Speaking(vitem)}

UtteranceInv ==
    /\ ItemCore /\ Listening
    /\ violations \subseteq {"SpeakingWithActiveResponse"}

\* Without a barge-in delay, an utterance is handed from task to task.
ItemInv == ~config.delay => UtteranceInv

(* Sequences over a set.                                                   *)
LEMMA SeqElems ==
    ASSUME NEW S, NEW c \in Seq(S)
    PROVE  DOMAIN c = 1..Len(c) /\ Len(c) \in Nat /\ \A k \in DOMAIN c : c[k] \in S
OBVIOUS

LEMMA SeqBuild ==
    ASSUME NEW S, NEW n \in Nat, NEW c \in [1..n -> S]
    PROVE  c \in Seq(S)
OBVIOUS

LEMMA OwnElems ==
    ASSUME NEW S, NEW c \in Seq(S), NEW C, \A k \in DOMAIN c : c[k] \in C
    PROVE  c \in Seq(C)
<1>1. PICK n \in Nat : n = Len(c) /\ DOMAIN c = 1..n /\ c = [k \in 1..n |-> c[k]]
  OBVIOUS
<1>2. c \in [1..n -> C]
  BY <1>1
<1> QED BY <1>2, SeqBuild

LEMMA WithoutOne ==
    ASSUME NEW S, NEW c \in Seq(S), NEW k \in 1..Len(c), NEW d,
           d = SubSeq(c, 1, k - 1) \o SubSeq(c, k + 1, Len(c))
    PROVE  d \in Seq(S)
<1>1. /\ \A m \in 1..(k - 1) : c[m] \in S
      /\ \A m \in (k + 1)..Len(c) : c[m] \in S
      /\ k - 1 \in Nat /\ k + 1 \in Nat /\ Len(c) \in Nat
  OBVIOUS
<1>2. SubSeq(c, 1, k - 1) \in Seq(S)
  BY <1>1, SubSeqProperties
<1>3. SubSeq(c, k + 1, Len(c)) \in Seq(S)
  BY <1>1, SubSeqProperties
<1>4. SubSeq(c, 1, k - 1) \o SubSeq(c, k + 1, Len(c)) \in Seq(S)
  BY <1>2, <1>3, ConcatProperties
<1> QED BY <1>4
(* The utterance a task works for.                                         *)
LEMMA ItemOfTask ==
    /\ ItemOf(VadTask) = vitem
    /\ \A i \in Items : ItemOf(DelayTask(i)) = i /\ ItemOf(EouTask(i)) = i
                        /\ ItemOf(Utterance(i)) = i
    /\ \A r \in Responses : ItemOf(Lane(r)) = laneItem[r]
<1>1. ItemOf(VadTask) = vitem
  BY TaskNames DEF ItemOf
<1>2. ASSUME NEW i \in Items
      PROVE  ItemOf(DelayTask(i)) = i /\ ItemOf(EouTask(i)) = i /\ ItemOf(Utterance(i)) = i
  <2>1. /\ DelayTask(i) \notin {VadTask, ClientTask} /\ DelayTask(i) \notin Lanes
        /\ EouTask(i) \notin {VadTask, ClientTask} /\ EouTask(i) \notin Lanes
        /\ Utterance(i) \notin {VadTask, ClientTask} /\ Utterance(i) \notin Lanes
    BY TaskNames
  <2>2. DelayTask(i)[2] = i /\ EouTask(i)[2] = i /\ Utterance(i)[2] = i
    BY DEF DelayTask, EouTask, Utterance
  <2> QED BY <2>1, <2>2 DEF ItemOf
<1>3. ASSUME NEW r \in Responses PROVE ItemOf(Lane(r)) = laneItem[r]
  <2>1. Lane(r) \notin {VadTask, ClientTask} /\ Lane(r) \in Lanes
    BY TaskNames
  <2>2. Lane(r)[2] = r
    BY DEF Lane
  <2> QED BY <2>1, <2>2 DEF ItemOf
<1> QED BY <1>1, <1>2, <1>3

(* What the steps do to the conversation.                                  *)
LEMMA NoNewVoice ==
    ASSUME conversation \in Seq(Entry), NEW e \in Entry,
           conversation' \in Seq({conversation[k] : k \in DOMAIN conversation} \cup {e})
    PROVE  /\ conversation' \in Seq(Entry)
           /\ \A i \in Items : Voiced(i)' => Voiced(i) \/ e.id = UserItem(i)
<1>1. \A k \in DOMAIN conversation : conversation[k] \in Entry
  BY SeqElems
<1>2. \A k \in DOMAIN conversation' :
         conversation'[k] \in {conversation[m] : m \in DOMAIN conversation} \cup {e}
  BY SeqElems
<1>3. \A k \in DOMAIN conversation' : conversation'[k] \in Entry
  BY <1>1, <1>2
<1>4. conversation' \in Seq(Entry)
  BY <1>3, OwnElems
<1> QED BY <1>2, <1>4 DEF Voiced

LEMMA ConversationGrows ==
    ASSUME conversation \in Seq(Entry), NEW e \in Entry,
           conversation' = Append(conversation, e)
    PROVE  /\ conversation' \in Seq(Entry)
           /\ \A i \in Items : Voiced(i)' => Voiced(i) \/ e.id = UserItem(i)
<1>1. PICK C : C = {conversation[k] : k \in DOMAIN conversation} \cup {e}
  OBVIOUS
<1>2. conversation \in Seq(C)
  <2>1. \A k \in DOMAIN conversation : conversation[k] \in C
    BY <1>1
  <2> QED BY <2>1, OwnElems
<1>3. e \in C
  BY <1>1
<1>4. conversation' \in Seq(C)
  BY <1>2, <1>3
<1> QED BY <1>1, <1>4, NoNewVoice

LEMMA EntryDeleted ==
    ASSUME conversation \in Seq(Entry), NEW k \in DOMAIN conversation,
           conversation' = SubSeq(conversation, 1, k - 1)
                             \o SubSeq(conversation, k + 1, Len(conversation))
    PROVE  /\ conversation' \in Seq(Entry)
           /\ \A i \in Items : Voiced(i)' => Voiced(i)
<1>1. PICK C : C = {conversation[m] : m \in DOMAIN conversation}
  OBVIOUS
<1>2. conversation \in Seq(C)
  <2>1. \A m \in DOMAIN conversation : conversation[m] \in C
    BY <1>1
  <2> QED BY <2>1, OwnElems
<1>3. k \in 1..Len(conversation)
  BY SeqElems
<1>4. conversation' \in Seq(C)
  BY <1>2, <1>3, WithoutOne
<1>5. \A m \in DOMAIN conversation' : conversation'[m] \in C
  BY <1>4, SeqElems
<1>6. \A m \in DOMAIN conversation : conversation[m] \in Entry
  BY SeqElems
<1>7. conversation' \in Seq(Entry)
  <2>1. \A m \in DOMAIN conversation' : conversation'[m] \in Entry
    BY <1>1, <1>5, <1>6
  <2> QED BY <1>4, <2>1, OwnElems
<1> QED BY <1>1, <1>5, <1>7 DEF Voiced

LEMMA StatusSet ==
    ASSUME conversation \in Seq(Entry), NEW x \in EntryIds, NEW st \in Statuses,
           conversation' = WithStatus(x, st)
    PROVE  /\ conversation' \in Seq(Entry)
           /\ \A i \in Items : Voiced(i)' => Voiced(i)
<1>1. /\ DOMAIN conversation' = DOMAIN conversation
      /\ \A k \in DOMAIN conversation :
            conversation'[k] = IF conversation[k].id = x THEN [id |-> x, status |-> st] ELSE conversation[k]
  BY DEF WithStatus
<1>2. /\ DOMAIN conversation = 1..Len(conversation) /\ Len(conversation) \in Nat
      /\ \A k \in DOMAIN conversation : conversation[k] \in Entry
  BY SeqElems
<1>3. conversation' \in Seq(Entry)
  <2>1. PICK n \in Nat : n = Len(conversation)
    BY <1>2
  <2>2. conversation' \in [1..n -> Entry]
    BY <1>1, <1>2, <2>1 DEF WithStatus, Entry
  <2> QED BY <2>1, <2>2, SeqBuild
<1>4. \A k \in DOMAIN conversation : conversation'[k].id = conversation[k].id
  BY <1>1
<1> QED BY <1>1, <1>3, <1>4 DEF Voiced

(* check_state has nothing to report but new speech with a response in the *)
(* slot.                                                                   *)
LEMMA OnlyRaces ==
    ASSUME SessionTypes, RuntimeMatchesPhase, vad \in TimelyPhases,
           \A i \in Items : vad = Speaking(i) => ~Voiced(i),
           \A i \in Items : vad = Stopped(i) => i \notin sealed
    PROVE  CheckState \subseteq {"SpeakingWithActiveResponse"}
<1>1. ~(resp.phase = "None" /\ current # 0)
  BY DEF RuntimeMatchesPhase, ActivePhases
<1>2. ~(resp.phase \in ActivePhases /\ current = 0)
  BY KnownIds DEF RuntimeMatchesPhase
<1>3. ~(vad.phase = "Stopped" /\ vad.item \in sealed)
  BY DEF TimelyPhases, Silent, Speaking, Stopped
<1>4. ASSUME vad.phase = "Speaking", NEW k \in DOMAIN conversation,
             conversation[k] = [id |-> UserItem(vad.item), status |-> "InProgress"]
      PROVE  FALSE
  <2>1. PICK i \in Items : vad = Speaking(i)
    BY <1>4 DEF TimelyPhases, Silent, Speaking, Stopped
  <2>2. vad.item = i
    BY <2>1 DEF Speaking
  <2>3. conversation[k].id = UserItem(i)
    BY <1>4, <2>2
  <2> QED BY <2>1, <2>3 DEF Voiced
<1>5. ~(vad.phase = "Stopped" /\ vad.late)
  BY DEF TimelyPhases, Silent, Speaking, Stopped
<1>6. ~(resp.phase \in ActivePhases /\ resp.id = 0)
  BY KnownIds
<1> QED BY <1>1, <1>2, <1>3, <1>4, <1>5, <1>6 DEF CheckState, Violations

(* One more event of an utterance, the next in order.                      *)
NextEvents(n) == CASE n = 0 -> {"started"}
                   [] n = 1 -> {"stopped"}
                   [] n = 4 -> {"completed", "failed"}
                   [] OTHER -> {}

LEMMA OrderGrows ==
    ASSUME NEW w \in Seq(ItemEvents), InOrder(w), NEW e \in NextEvents(Len(w)),
           NEW v, v = Append(w, e)
    PROVE  v \in Seq(ItemEvents) /\ InOrder(v) /\ Len(v) = Len(w) + 1
<1>1. e \in ItemEvents /\ Len(w) \in {0, 1, 4}
  BY DEF NextEvents, ItemEvents
<1>2. /\ v \in Seq(ItemEvents) /\ Len(v) = Len(w) + 1 /\ Len(w) \in Nat /\ v[Len(w) + 1] = e
      /\ \A k \in 1..Len(w) : v[k] = w[k]
  BY <1>1, AppendProperties
<1>3. CASE Len(w) = 0
  BY <1>2, <1>3 DEF InOrder, NextEvents
<1>4. CASE Len(w) = 1
  BY <1>2, <1>4 DEF InOrder, NextEvents
<1>5. CASE Len(w) = 4
  BY <1>2, <1>5 DEF InOrder, NextEvents
<1> QED BY <1>1, <1>2, <1>3, <1>4, <1>5

LEMMA OrderCommits ==
    ASSUME NEW w \in Seq(ItemEvents), InOrder(w), Len(w) = 2,
           NEW v, v = w \o <<"committed", "added">>
    PROVE  v \in Seq(ItemEvents) /\ InOrder(v) /\ Len(v) = 4
<1>0. PICK u : u = <<"committed", "added">>
  OBVIOUS
<1>1. u \in Seq(ItemEvents) /\ Len(u) = 2 /\ u[1] = "committed" /\ u[2] = "added"
  <2>1. "committed" \in ItemEvents /\ "added" \in ItemEvents
    BY DEF ItemEvents
  <2> QED BY <1>0, <2>1
<1>2. v = w \o u /\ v \in Seq(ItemEvents) /\ Len(v) = Len(w) + Len(u)
      /\ \A k \in 1..(Len(w) + Len(u)) : v[k] = IF k <= Len(w) THEN w[k] ELSE u[k - Len(w)]
  <2>1. v = w \o u
    BY <1>0
  <2> QED BY <1>1, <2>1, ConcatProperties
<1>3. /\ Len(v) = 4 /\ v \in Seq(ItemEvents)
      /\ v[1] = w[1] /\ v[2] = w[2] /\ v[3] = "committed" /\ v[4] = "added"
  BY <1>1, <1>2
<1> QED BY <1>3 DEF InOrder

LEMMA ItemSent ==
    ASSUME itemWire \in [Items -> Seq(ItemEvents)], NEW j \in Items, InOrder(itemWire[j]),
           NEW e \in NextEvents(Len(itemWire[j])), SendItem(j, e)
    PROVE  /\ itemWire' \in [Items -> Seq(ItemEvents)]
           /\ \A i \in Items : i # j => itemWire'[i] = itemWire[i]
           /\ InOrder(itemWire'[j]) /\ Len(itemWire'[j]) = Len(itemWire[j]) + 1
<1>1. PICK w \in Seq(ItemEvents) : w = itemWire[j]
  OBVIOUS
<1>2. PICK v : v = Append(w, e)
  OBVIOUS
<1>3. v \in Seq(ItemEvents) /\ InOrder(v) /\ Len(v) = Len(w) + 1
  BY <1>1, <1>2, OrderGrows
<1>4. itemWire' = [itemWire EXCEPT ![j] = v]
  BY <1>1, <1>2 DEF SendItem
<1>5. itemWire'[j] = v
  BY <1>4
<1> QED BY <1>1, <1>3, <1>4, <1>5

-----------------------------------------------------------------------------
(* A step that does not touch an utterance: its worker stays or is over,   *)
(* and no other takes it.                                                  *)
Aside(i) ==
    /\ UNCHANGED <<vitem, openItem, nextItem>>
    /\ \/ pc'[EouTask(i)] = pc[EouTask(i)]
       \/ pc[EouTask(i)] # "none" /\ pc'[EouTask(i)] = "end"
    /\ pc'[VadTask] \in {pc[VadTask], "end"} \/ i \notin {vitem, openItem}
    /\ vad' \in {vad, Silent}
    /\ Unanswered(i) => Unanswered(i)' /\ itemWire'[i] = itemWire[i]
    /\ Voiced(i)' => Voiced(i)
    /\ pc'[Utterance(i)] \in Transcribing =>
          pc[Utterance(i)] \in Transcribing /\ itemWire'[i] = itemWire[i]
    /\ \A r \in Responses : laneItem'[r] = i =>
          /\ laneItem[r] = i
          /\ pc[Utterance(i)] = "none" => pc'[Utterance(i)] = "none"
          /\ pc'[Lane(r)] \in Transcribing =>
                pc[Lane(r)] \in Transcribing /\ itemWire'[i] = itemWire[i]
    /\ InOrder(itemWire'[i])

LEMMA AsideKeeps ==
    ASSUME NEW i \in Items, ItemState(i), Aside(i)
    PROVE  ItemState(i)'
<1>1. Unstopped(i) => Unstopped(i)' /\ itemWire'[i] = itemWire[i]
  BY DEF Unstopped, Aside
<1>2. vad' = Speaking(i) => vad = Speaking(i)
  BY DEF Aside, Silent, Speaking
<1>3. vad' = Stopped(i) => vad = Stopped(i)
  BY DEF Aside, Silent, Stopped
<1>4. "end" \notin Starting \cup Sealing \cup Committing \cup {"score", "eager", "delay"}
  BY DEF Starting, Sealing, Committing, Turning
<1>5. /\ i > nextItem' => Unstopped(i)' /\ Len(itemWire'[i]) = 0
      /\ i = vitem' /\ pc'[VadTask] \in Starting => Unstopped(i)' /\ Len(itemWire'[i]) = 0
      /\ i = openItem' /\ pc'[VadTask] \notin Starting \cup {"end"} =>
            Unstopped(i)' /\ Len(itemWire'[i]) = 1
      /\ i = vitem' /\ pc'[VadTask] \in Sealing => Unstopped(i)' /\ Len(itemWire'[i]) = 1
  BY <1>1, <1>4 DEF ItemState, Aside
<1>6. /\ i = vitem' /\ pc'[VadTask] \in Committing =>
            /\ Unanswered(i)' /\ pc'[EouTask(i)] = "none"
            /\ Len(itemWire'[i]) = IF pc'[VadTask] = "admit" THEN 4 ELSE 2
      /\ pc'[EouTask(i)] \in {"score", "eager", "delay"} \cup Committing =>
            /\ Unanswered(i)'
            /\ Len(itemWire'[i]) = IF pc'[EouTask(i)] = "admit" THEN 4 ELSE 2
  BY <1>4 DEF ItemState, Aside
<1>7. /\ pc'[Utterance(i)] \in Transcribing => Len(itemWire'[i]) = 4
      /\ \A r \in Responses : laneItem'[r] = i =>
          /\ pc'[Utterance(i)] = "none"
          /\ pc'[Lane(r)] \in Transcribing => Len(itemWire'[i]) = 4
          /\ \A s \in Responses : laneItem'[s] = i => s = r
  BY DEF ItemState, Aside
<1>8. vad' = Speaking(i) => Unstopped(i)'
  BY <1>1, <1>2 DEF ItemState
<1>9. vad' = Stopped(i) =>
          /\ Unanswered(i)'
          /\ pc'[EouTask(i)] \notin Turning
          /\ i = vitem' => pc'[VadTask] \notin Turning
  BY <1>3, <1>4 DEF ItemState, Aside, Committing
<1>10. InOrder(itemWire[i])'
  BY DEF Aside
<1> QED BY <1>5, <1>6, <1>7, <1>8, <1>9, <1>10 DEF ItemState

(* Steps that touch no utterance at all, but may end its workers.          *)
Distant ==
    /\ Placed'
    /\ UNCHANGED <<vitem, openItem, nextItem, laneItem, itemWire, sealed>>
    /\ vad' \in {vad, Silent}
    /\ conversation' \in Seq(Entry) /\ \A i \in Items : Voiced(i)' => Voiced(i)
    /\ pc'[VadTask] \in {pc[VadTask], "end"}
    /\ \A i \in Items :
          /\ pc'[EouTask(i)] = pc[EouTask(i)] \/ (pc[EouTask(i)] # "none" /\ pc'[EouTask(i)] = "end")
          /\ pc'[Utterance(i)] = pc[Utterance(i)]
                \/ (pc[Utterance(i)] # "none" /\ pc'[Utterance(i)] = "end")
          /\ pc'[DelayTask(i)] = pc[DelayTask(i)] \/ pc'[DelayTask(i)] = "end"
    /\ \A r \in Responses : pc'[Lane(r)] \in Transcribing => pc[Lane(r)] \in Transcribing
    /\ pc'[ClientTask] \notin {"speak", "started"}

LEMMA DistantKeeps ==
    ASSUME ItemCore, Distant
    PROVE  ItemCore'
<1>1. ItemTypes'
  <2>1. Silent \in TimelyPhases
    BY DEF TimelyPhases
  <2> QED BY <2>1 DEF ItemCore, ItemTypes, Distant
<1>2. VadPlace'
  <2>1. vad'.phase = "Speaking" => vad.phase = "Speaking"
    BY DEF Distant, Silent
  <2>2. "end" \notin Starting \cup Sealing \cup Rejecting \cup Committing \cup {"stopped"}
    BY DEF Starting, Sealing, Rejecting, Committing, Turning
  <2> QED BY <2>1, <2>2 DEF ItemCore, VadPlace, Distant
<1>3. ASSUME NEW i \in Items PROVE Aside(i)
  <2>1. "end" \notin Transcribing
    BY DEF Transcribing
  <2>2. Unanswered(i) => Unanswered(i)'
    BY DEF Unanswered, Distant
  <2>3. itemWire'[i] = itemWire[i] /\ InOrder(itemWire[i])
    BY DEF ItemCore, ItemState, Distant
  <2> QED BY <2>1, <2>2, <2>3 DEF Aside, Distant
<1>4. \A i \in Items : ItemState(i)'
  BY <1>3, AsideKeeps DEF ItemCore
<1> QED BY <1>1, <1>2, <1>4 DEF ItemCore, Distant

(* The utterance's worker.                                                 *)
Worked(t, l) ==
    /\ Placed' /\ \A u \in Tasks : pc'[u] = IF u = t THEN l ELSE pc[u]
    /\ pc[t] # "none"
    /\ UNCHANGED <<vad, vitem, openItem, nextItem, laneItem>>
    /\ \A i \in Items : i # ItemOf(t) => (i \in sealed' <=> i \in sealed)
    /\ conversation' \in Seq(Entry) /\ \A i \in Items : Voiced(i)' => Voiced(i)
    /\ itemWire' \in [Items -> Seq(ItemEvents)]
    /\ \A i \in Items : i # ItemOf(t) => itemWire'[i] = itemWire[i]
    /\ \/ itemWire' = itemWire /\ (l \in Transcribing => pc[t] \in Transcribing)
       \/ /\ pc[t] \in Transcribing /\ l \notin Transcribing
          /\ \A i \in Items : InOrder(itemWire'[i])

LEMMA WorkedKeeps ==
    ASSUME ItemCore, NEW t \in Workers, NEW l, Worked(t, l)
    PROVE  ItemCore'
<1>1. ItemTypes'
  BY DEF ItemCore, ItemTypes, Worked
<1>2. VadPlace'
  <2>1. pc'[VadTask] = pc[VadTask] /\ pc'[ClientTask] = pc[ClientTask]
        /\ \A i \in Items : pc'[DelayTask(i)] = pc[DelayTask(i)]
    BY TaskNames DEF Worked
  <2> QED BY <2>1 DEF ItemCore, VadPlace, Worked
<1>3. ASSUME NEW i \in Items PROVE Aside(i)
  <2>1. pc'[VadTask] = pc[VadTask] /\ pc'[EouTask(i)] = pc[EouTask(i)]
    <3>1. VadTask \in Tasks /\ EouTask(i) \in Tasks /\ t # VadTask /\ t # EouTask(i)
      BY TaskNames
    <3> QED BY <3>1 DEF Worked
  <2>2. \A r \in Responses : Lane(r) \in Tasks
    BY TaskNames
  <2>3. Utterance(i) \in Tasks
    BY TaskNames
  <2>4. InOrder(itemWire[i])
    BY DEF ItemCore, ItemState
  <2>5. CASE t = Utterance(i)
    <3>1. ~Unanswered(i)
      BY <2>5 DEF Unanswered, Worked
    <3>2. \A r \in Responses : laneItem[r] # i
      BY <2>5 DEF ItemCore, ItemState, Worked
    <3>3. pc'[Utterance(i)] = l
      BY <2>3, <2>5 DEF Worked
    <3> QED BY <2>1, <2>4, <2>5, <3>1, <3>2, <3>3 DEF Aside, Worked
  <2>6. CASE t # Utterance(i)
    <3>1. pc'[Utterance(i)] = pc[Utterance(i)]
      BY <2>3, <2>6 DEF Worked
    <3>2. CASE ItemOf(t) # i
      <4>1. \A r \in Responses : laneItem[r] = i => t # Lane(r)
        BY <3>2, ItemOfTask
      <4>2. \A r \in Responses : laneItem[r] = i => pc'[Lane(r)] = pc[Lane(r)]
        BY <2>2, <4>1 DEF Worked
      <4>3. itemWire'[i] = itemWire[i] /\ (i \in sealed' <=> i \in sealed)
        BY <3>2 DEF Worked
      <4>4. Unanswered(i) => Unanswered(i)'
        BY <3>1, <4>3 DEF Unanswered, Worked
      <4> QED BY <2>1, <2>4, <3>1, <4>2, <4>3, <4>4 DEF Aside, Worked
    <3>3. CASE ItemOf(t) = i
      <4>1. PICK r \in Responses : t = Lane(r)
        <5>1. t \in Lanes \/ t \in Utterances
          BY TaskNames
        <5>2. t \notin Utterances
          BY <2>6, <3>3, ItemOfTask DEF Utterances
        <5> QED BY <5>1, <5>2 DEF Lanes
      <4>2. laneItem[r] = i
        BY <3>3, <4>1, ItemOfTask
      <4>3. ~Unanswered(i) /\ pc[Utterance(i)] = "none"
        BY <4>2 DEF Unanswered, ItemCore, ItemState
      <4>4. \A s \in Responses : laneItem[s] = i => s = r
        BY <4>2 DEF ItemCore, ItemState
      <4>5. pc'[Lane(r)] = l
        BY <2>2, <4>1 DEF Worked
      <4>6. "none" \notin Transcribing
        BY DEF Transcribing
      <4> QED BY <2>1, <2>4, <3>1, <4>1, <4>3, <4>4, <4>5, <4>6 DEF Aside, Worked
    <3> QED BY <3>2, <3>3
  <2> QED BY <2>5, <2>6
<1>4. \A i \in Items : ItemState(i)'
  BY <1>3, AsideKeeps DEF ItemCore
<1>5. ASSUME NEW r \in Responses, pc'[Lane(r)] \in Transcribing PROVE laneItem'[r] # 0
  <2>1. Lane(r) \in Tasks
    BY TaskNames
  <2>2. pc[Lane(r)] \in Transcribing
    BY <1>5, <2>1 DEF Worked
  <2> QED BY <2>2 DEF ItemCore, Worked
<1> QED BY <1>1, <1>2, <1>4, <1>5 DEF ItemCore

(* The voice detector's task moves, and nobody else.                       *)
VadMoves(l) ==
    /\ Placed' /\ \A u \in Tasks : u # VadTask => pc'[u] = pc[u]
    /\ pc'[VadTask] = l
    /\ UNCHANGED <<laneItem, sealed>>
    /\ conversation' \in Seq(Entry) /\ \A i \in Items : Voiced(i)' => Voiced(i)
    /\ itemWire' \in [Items -> Seq(ItemEvents)]
    /\ vad' \in TimelyPhases
    /\ vitem' \in 0..MaxItem /\ openItem' \in 0..MaxItem /\ nextItem' \in 0..MaxItem

\* What it leaves of an utterance.
VadLeaves(i, l) ==
    /\ InOrder(itemWire'[i])
    /\ itemWire'[i] = itemWire[i] \/ Unstopped(i)
    /\ i > nextItem' => Unstopped(i) /\ Len(itemWire'[i]) = 0
    /\ i = vitem' /\ l \in Starting => Unstopped(i) /\ Len(itemWire'[i]) = 0
    /\ i = openItem' /\ l \notin Starting \cup {"end"} => Unstopped(i) /\ Len(itemWire'[i]) = 1
    /\ i = vitem' /\ l \in Sealing => Unstopped(i) /\ Len(itemWire'[i]) = 1
    /\ i = vitem' /\ l \in Committing =>
          /\ Unanswered(i) /\ pc[EouTask(i)] = "none"
          /\ Len(itemWire'[i]) = IF l = "admit" THEN 4 ELSE 2
    /\ vad' = Speaking(i) => Unstopped(i)
    /\ vad' = Stopped(i) =>
          /\ Unanswered(i) /\ pc[EouTask(i)] \notin Turning
          /\ i = vitem' => l \notin Turning

LEMMA VadMovesKeep ==
    ASSUME ItemCore, NEW l, VadMoves(l), VadPlace', \A i \in Items : VadLeaves(i, l)
    PROVE  ItemCore'
<1>1. ItemTypes'
  BY DEF ItemCore, ItemTypes, VadMoves
<1>2. ASSUME NEW i \in Items PROVE ItemState(i)'
  <2>1. /\ pc'[EouTask(i)] = pc[EouTask(i)] /\ pc'[Utterance(i)] = pc[Utterance(i)]
        /\ \A r \in Responses : pc'[Lane(r)] = pc[Lane(r)]
    <3>1. /\ EouTask(i) \in Tasks /\ EouTask(i) # VadTask
          /\ Utterance(i) \in Tasks /\ Utterance(i) # VadTask
          /\ \A r \in Responses : Lane(r) \in Tasks /\ Lane(r) # VadTask
      BY TaskNames
    <3> QED BY <3>1 DEF VadMoves
  <2>2. Unanswered(i)' <=> Unanswered(i)
    BY <2>1 DEF Unanswered, VadMoves
  <2>4. Unstopped(i) => Unstopped(i)'
    BY <2>1, <2>2 DEF Unstopped, VadMoves
  <2>5. /\ i > nextItem' => Unstopped(i)' /\ Len(itemWire'[i]) = 0
        /\ i = vitem' /\ pc'[VadTask] \in Starting => Unstopped(i)' /\ Len(itemWire'[i]) = 0
        /\ i = openItem' /\ pc'[VadTask] \notin Starting \cup {"end"} =>
              Unstopped(i)' /\ Len(itemWire'[i]) = 1
        /\ i = vitem' /\ pc'[VadTask] \in Sealing => Unstopped(i)' /\ Len(itemWire'[i]) = 1
        /\ i = vitem' /\ pc'[VadTask] \in Committing =>
            /\ Unanswered(i)' /\ pc'[EouTask(i)] = "none"
            /\ Len(itemWire'[i]) = IF pc'[VadTask] = "admit" THEN 4 ELSE 2
    BY <2>1, <2>2, <2>4 DEF VadLeaves, VadMoves
  <2>6. /\ vad' = Speaking(i) => Unstopped(i)'
        /\ vad' = Stopped(i) =>
            /\ Unanswered(i)'
            /\ pc'[EouTask(i)] \notin Turning
            /\ i = vitem' => pc'[VadTask] \notin Turning
    BY <2>1, <2>2, <2>4 DEF VadLeaves, VadMoves
  <2>7. Unstopped(i) => /\ pc[EouTask(i)] \notin {"score", "eager", "delay"} \cup Committing
                        /\ pc[Utterance(i)] \notin Transcribing
                        /\ \A r \in Responses : laneItem[r] # i
    BY DEF Unstopped, Unanswered, Committing, Turning, Transcribing
  <2>8. /\ pc'[EouTask(i)] \in {"score", "eager", "delay"} \cup Committing =>
            /\ Unanswered(i)'
            /\ Len(itemWire'[i]) = IF pc'[EouTask(i)] = "admit" THEN 4 ELSE 2
        /\ pc'[Utterance(i)] \in Transcribing => Len(itemWire'[i]) = 4
        /\ \A r \in Responses : laneItem'[r] = i =>
            /\ pc'[Utterance(i)] = "none"
            /\ pc'[Lane(r)] \in Transcribing => Len(itemWire'[i]) = 4
            /\ \A s \in Responses : laneItem'[s] = i => s = r
    <3>1. ItemState(i) /\ UNCHANGED laneItem /\ (itemWire'[i] = itemWire[i] \/ Unstopped(i))
      BY DEF ItemCore, VadLeaves, VadMoves
    <3> QED BY <2>1, <2>2, <2>7, <3>1 DEF ItemState
  <2>9. InOrder(itemWire[i])'
    BY DEF VadLeaves
  <2> QED BY <2>5, <2>6, <2>8, <2>9 DEF ItemState
<1>3. ASSUME NEW r \in Responses, pc'[Lane(r)] \in Transcribing PROVE laneItem'[r] # 0
  <2>1. Lane(r) \in Tasks /\ Lane(r) # VadTask
    BY TaskNames
  <2> QED BY <1>3, <2>1 DEF ItemCore, VadMoves
<1> QED BY <1>1, <1>2, <1>3 DEF ItemCore

(* A task that has a stopped utterance to commit.                          *)
Owning == {"score", "eager", "delay"} \cup Committing

LEMMA Owned ==
    ASSUME ItemCore, NEW t \in Committers, NEW j, j = ItemOf(t), pc[t] \in Owning
    PROVE  /\ j \in Items /\ Unanswered(j) /\ ~(j > nextItem)
           /\ Len(itemWire[j]) = IF pc[t] = "admit" THEN 4 ELSE 2
           /\ j = vitem => pc[VadTask] \notin Starting \cup Sealing
           /\ j = openItem => pc[VadTask] = "end"
           /\ vad # Speaking(j)
           /\ t = VadTask => pc[EouTask(j)] = "none" /\ j = vitem
           /\ t # VadTask => /\ t = EouTask(j)
                             /\ ~(j = vitem /\ pc[VadTask] \in Committing)
           /\ pc[t] \in Turning => vad # Stopped(j)
<1>1. CASE t = VadTask
  <2>1. j = vitem /\ j \in Items
    BY <1>1, ItemOfTask, SessionBounds DEF ItemCore, ItemTypes, VadPlace, Items, Owning, Committing, Turning
  <2>2. pc[VadTask] \in Committing
    BY <1>1 DEF ItemCore, VadPlace, Owning, Starting, Sealing, Rejecting
  <2>3. pc[VadTask] \notin Starting \cup Sealing
    BY <2>2 DEF Committing, Turning, Starting, Sealing
  <2>4. openItem = 0 /\ vad.phase # "Speaking" /\ vitem <= nextItem
    BY <2>2 DEF ItemCore, VadPlace
  <2>5. j # openItem /\ ~(j > nextItem)
    BY <2>1, <2>4, SessionBounds DEF Items, ItemCore, ItemTypes
  <2>6. vad # Speaking(j)
    BY <2>4 DEF Speaking
  <2>7. /\ Unanswered(j) /\ pc[EouTask(j)] = "none"
        /\ Len(itemWire[j]) = IF pc[VadTask] = "admit" THEN 4 ELSE 2
        /\ vad = Stopped(j) => pc[VadTask] \notin Turning
    BY <2>1, <2>2 DEF ItemCore, ItemState
  <2> QED BY <1>1, <2>1, <2>3, <2>5, <2>6, <2>7
<1>2. CASE t # VadTask
  <2>1. PICK i \in Items : t = EouTask(i)
    BY <1>2, TaskNames
  <2>2. i = j
    BY <2>1, ItemOfTask
  <2>3. pc[EouTask(j)] # "none" /\ pc[EouTask(j)] \in {"score", "eager", "delay"} \cup Committing
    BY <2>1, <2>2 DEF Owning, Committing, Turning
  <2>4. ItemState(j)
    BY <2>1, <2>2 DEF ItemCore
  <2>5. ~Unstopped(j)
    BY <2>3 DEF Unstopped
  <2>6. /\ Unanswered(j) /\ ~(j > nextItem) /\ vad # Speaking(j)
        /\ Len(itemWire[j]) = IF pc[EouTask(j)] = "admit" THEN 4 ELSE 2
        /\ j = vitem => pc[VadTask] \notin Starting \cup Sealing
        /\ j = openItem => pc[VadTask] \in Starting \cup {"end"}
        /\ ~(j = vitem /\ pc[VadTask] \in Committing)
        /\ pc[EouTask(j)] \in Turning => vad # Stopped(j)
    BY <2>3, <2>4, <2>5 DEF ItemState
  <2>7. j = openItem => pc[VadTask] = "end"
    BY <2>6 DEF ItemCore, VadPlace
  <2> QED BY <1>2, <2>1, <2>2, <2>6, <2>7
<1> QED BY <1>1, <1>2

(* A step of its commit, up to the admission.                              *)
Commits(t, l) ==
    /\ Placed' /\ \A u \in Tasks : pc'[u] = IF u = t THEN l ELSE pc[u]
    /\ pc[t] \in Owning /\ l \in Owning
    /\ t = VadTask => l \in Committing
    /\ UNCHANGED <<vitem, openItem, nextItem, laneItem, sealed>>
    /\ vad' \in {vad, Silent}
    /\ l \in Turning => pc[t] \in Turning \/ vad'.phase # "Stopped"
    /\ conversation' \in Seq(Entry)
    /\ \A i \in Items : i # ItemOf(t) => (Voiced(i)' => Voiced(i))
    /\ itemWire' \in [Items -> Seq(ItemEvents)]
    /\ \A i \in Items : i # ItemOf(t) => itemWire'[i] = itemWire[i]
    /\ InOrder(itemWire'[ItemOf(t)])
    /\ Len(itemWire'[ItemOf(t)]) = IF l = "admit" THEN 4 ELSE 2

LEMMA CommitsKeep ==
    ASSUME ItemCore, NEW t \in Committers, NEW l, Commits(t, l)
    PROVE  ItemCore'
<1> PICK j : j = ItemOf(t)
  OBVIOUS
<1>1. /\ j \in Items /\ Unanswered(j) /\ ~(j > nextItem)
      /\ j = vitem => pc[VadTask] \notin Starting \cup Sealing
      /\ j = openItem => pc[VadTask] = "end"
      /\ vad # Speaking(j)
      /\ t = VadTask => pc[EouTask(j)] = "none" /\ j = vitem
      /\ t # VadTask => /\ t = EouTask(j)
                        /\ ~(j = vitem /\ pc[VadTask] \in Committing)
      /\ pc[t] \in Turning => vad # Stopped(j)
  BY Owned DEF Commits
<1>2. VadTask \in Tasks /\ EouTask(j) \in Tasks /\ Utterance(j) \in Tasks /\ VadTask # EouTask(j)
  BY <1>1, TaskNames
<1>3. ItemTypes'
  <2>1. Silent \in TimelyPhases
    BY DEF TimelyPhases
  <2> QED BY <2>1 DEF ItemCore, ItemTypes, Commits
<1>4. VadPlace'
  <2>1. vad'.phase = "Speaking" => vad.phase = "Speaking"
    BY DEF Commits, Silent
  <2>2. pc'[ClientTask] = pc[ClientTask] /\ \A i \in Items : pc'[DelayTask(i)] = pc[DelayTask(i)]
    <3>1. ClientTask \in Tasks /\ ClientTask # t
      BY TaskNames
    <3>2. \A i \in Items : DelayTask(i) \in Tasks /\ DelayTask(i) # t
      BY TaskNames
    <3> QED BY <3>1, <3>2 DEF Commits
  <2>3. \/ pc'[VadTask] = pc[VadTask]
        \/ pc[VadTask] \in Committing /\ pc'[VadTask] \in Committing
    <3>1. CASE t = VadTask
      <4>1. pc[VadTask] \in Committing
        BY <3>1 DEF ItemCore, VadPlace, Commits, Owning, Starting, Sealing, Rejecting
      <4> QED BY <1>2, <3>1, <4>1 DEF Commits
    <3>2. CASE t # VadTask
      BY <1>2, <3>2 DEF Commits
    <3> QED BY <3>1, <3>2
  <2>4. Committing \cap (Starting \cup {"idle", "end"}) = {}
    BY DEF Committing, Turning, Starting
  <2> QED BY <2>1, <2>2, <2>3, <2>4 DEF ItemCore, VadPlace, Commits
<1>5. ASSUME NEW i \in Items, i # j PROVE ItemState(i)'
  <2>1. pc'[EouTask(i)] = pc[EouTask(i)] /\ pc'[Utterance(i)] = pc[Utterance(i)]
        /\ \A r \in Responses : pc'[Lane(r)] = pc[Lane(r)]
    <3>1. /\ EouTask(i) \in Tasks /\ EouTask(i) # t
          /\ Utterance(i) \in Tasks /\ Utterance(i) # t
      BY <1>1, <1>5, TaskNames, NamesDiffer
    <3>2. \A r \in Responses : Lane(r) \in Tasks /\ Lane(r) # t
      BY TaskNames
    <3> QED BY <3>1, <3>2 DEF Commits
  <2>2. pc'[VadTask] = pc[VadTask] \/ i \notin {vitem, openItem}
    <3>1. CASE t = VadTask
      <4>1. pc[VadTask] \in Committing
        BY <3>1 DEF ItemCore, VadPlace, Commits, Owning, Starting, Sealing, Rejecting
      <4>2. openItem = 0
        BY <4>1 DEF ItemCore, VadPlace
      <4> QED BY <1>1, <1>5, <3>1, <4>2 DEF Items
    <3>2. CASE t # VadTask
      BY <1>2, <3>2 DEF Commits
    <3> QED BY <3>1, <3>2
  <2>3. Unanswered(i) => Unanswered(i)'
    BY <2>1 DEF Unanswered, Commits
  <2>4. itemWire'[i] = itemWire[i] /\ InOrder(itemWire[i]) /\ (Voiced(i)' => Voiced(i))
    BY <1>5 DEF Commits, ItemCore, ItemState
  <2>5. Aside(i)
    BY <2>1, <2>2, <2>3, <2>4 DEF Aside, Commits
  <2> QED BY <2>5, AsideKeeps DEF ItemCore
<1>6. ItemState(j)'
  <2>1. pc'[Utterance(j)] = pc[Utterance(j)]
    <3>1. Utterance(j) # t
      BY <1>1, TaskNames
    <3> QED BY <1>2, <3>1 DEF Commits
  <2>2. Unanswered(j)'
    BY <1>1, <2>1 DEF Unanswered, Commits
  <2>3. vad' # Speaking(j) /\ (vad' = Stopped(j) => vad = Stopped(j) /\ vad'.phase = "Stopped")
    BY <1>1 DEF Commits, Silent, Speaking, Stopped
  <2>4. InOrder(itemWire'[j]) /\ Len(itemWire'[j]) = IF l = "admit" THEN 4 ELSE 2
    BY DEF Commits
  <2>5. /\ pc[Utterance(j)] \notin Transcribing
        /\ \A r \in Responses : laneItem'[r] # j
    BY <1>1 DEF Unanswered, Commits, Transcribing
  <2>6. UNCHANGED <<vitem, openItem, nextItem>>
    BY DEF Commits
  <2>7. ItemState(j)
    BY <1>1 DEF ItemCore
  <2>8. CASE t = VadTask
    <3>1. pc'[VadTask] = l /\ l \in Committing /\ pc'[EouTask(j)] = "none"
      BY <1>1, <1>2, <2>8 DEF Commits
    <3>2. l \notin Starting \cup Sealing \cup {"end"}
      BY <3>1 DEF Starting, Sealing, Committing, Turning
    <3>3. j # openItem
      <4>1. pc[VadTask] # "end"
        BY <2>8 DEF Commits, Owning, Committing, Turning
      <4> QED BY <1>1, <4>1
    <3>4. "none" \notin {"score", "eager", "delay"} \cup Committing \cup Turning
      BY DEF Committing, Turning
    <3>5. vad' = Stopped(j) => l \notin Turning
      BY <1>1, <2>3 DEF Commits
    <3> QED BY <1>1, <2>1, <2>2, <2>3, <2>4, <2>5, <2>6, <3>1, <3>2, <3>3, <3>4, <3>5 DEF ItemState
  <2>9. CASE t # VadTask
    <3>1. pc'[VadTask] = pc[VadTask] /\ pc'[EouTask(j)] = l
      BY <1>1, <1>2, <2>9 DEF Commits
    <3>2. vad' = Stopped(j) => l \notin Turning
      BY <1>1, <2>3 DEF Commits
    <3>3. vad' = Stopped(j) /\ j = vitem' => pc'[VadTask] \notin Turning
      BY <2>3, <2>6, <2>7, <3>1 DEF ItemState
    <3> QED BY <1>1, <2>1, <2>2, <2>3, <2>4, <2>5, <2>6, <2>9, <3>1, <3>2, <3>3 DEF ItemState
  <2> QED BY <2>8, <2>9
<1>7. ASSUME NEW r \in Responses, pc'[Lane(r)] \in Transcribing PROVE laneItem'[r] # 0
  <2>1. Lane(r) \in Tasks /\ Lane(r) # t
    BY TaskNames
  <2> QED BY <1>7, <2>1 DEF ItemCore, Commits
<1> QED BY <1>3, <1>4, <1>5, <1>6, <1>7 DEF ItemCore

(* The admission: a lane or an utterance of its own takes the turn over.   *)
LEMMA AdmitKeepsItems ==
    ASSUME ItemCore, NEW t \in Committers, AdmitTurn(t)
    PROVE  ItemCore'
<1>1. PICK j : j = ItemOf(t)
  OBVIOUS
<1>2. pc[t] = "admit" /\ pc[t] \in Owning /\ pc[t] \in Turning /\ t \in Tasks /\ Placed
  BY TaskNames DEF AdmitTurn, At, Owning, Committing, Turning, ItemCore, ItemTypes
<1>3. /\ j \in Items /\ Unanswered(j) /\ ~(j > nextItem)
      /\ Len(itemWire[j]) = 4
      /\ j = vitem => pc[VadTask] \notin Starting \cup Sealing
      /\ j = openItem => pc[VadTask] = "end"
      /\ vad # Speaking(j)
      /\ t = VadTask => pc[EouTask(j)] = "none" /\ j = vitem
      /\ t # VadTask => /\ t = EouTask(j)
                        /\ ~(j = vitem /\ pc[VadTask] \in Committing)
      /\ vad # Stopped(j)
  BY <1>1, <1>2, Owned
<1>4. PICK r : r = IF turn[t].text THEN turn[t].id ELSE nextResp + 1
  OBVIOUS
<1>5. PICK rest : /\ rest = Rest(t) /\ rest \in {"idle", "end"}
                  /\ t # VadTask => rest = "end"
  BY TaskNames DEF Rest
<1>6. UNCHANGED <<vad, vitem, openItem, nextItem, itemWire, sealed, conversation>>
  BY DEF AdmitTurn, wires, vadLocals, history
<1>7. PICK w, own :
         /\ \/ w = Lane(r) /\ own = r /\ laneItem' = [laneItem EXCEPT ![r] = j]
            \/ w = Utterance(j) /\ own = 0 /\ laneItem' = laneItem
         /\ pc' = [pc EXCEPT ![w] = "store", ![t] = rest]
  <2>1. CASE heard[j] = "full" /\ RespAdmit
    BY <1>1, <1>4, <1>5, <2>1 DEF AdmitTurn
  <2>2. CASE ~(heard[j] = "full" /\ RespAdmit)
    BY <1>1, <1>5, <2>2 DEF AdmitTurn
  <2> QED BY <2>1, <2>2
<1>8. Placed' /\ \A u \in Tasks : pc'[u] = IF u = t THEN rest ELSE IF u = w THEN "store" ELSE pc[u]
  BY <1>2, <1>7 DEF Placed
<1>9. /\ VadTask \in Tasks /\ w # VadTask /\ ClientTask \in Tasks /\ w # ClientTask
      /\ t # ClientTask
      /\ \A i \in Items : /\ EouTask(i) \in Tasks /\ EouTask(i) # w
                          /\ DelayTask(i) \in Tasks /\ DelayTask(i) # w /\ DelayTask(i) # t
                          /\ Utterance(i) \in Tasks /\ Utterance(i) # t
      /\ \A s \in Responses : Lane(s) \in Tasks /\ Lane(s) # t
  <2>1. /\ w # VadTask /\ w # ClientTask
        /\ \A i \in Items : EouTask(i) # w /\ DelayTask(i) # w
    <3>1. w = Lane(r) \/ w = Utterance(j)
      BY <1>7
    <3>2. \A s : Lane(s) # VadTask /\ Lane(s) # ClientTask
      BY DEF Lane, VadTask, ClientTask
    <3> QED BY <3>1, <3>2, NamesDiffer
  <2> QED BY <2>1, TaskNames
<1>10. /\ pc'[VadTask] = IF t = VadTask THEN rest ELSE pc[VadTask]
       /\ pc'[ClientTask] = pc[ClientTask]
       /\ \A i \in Items : /\ pc'[DelayTask(i)] = pc[DelayTask(i)]
                           /\ pc'[EouTask(i)] = IF t = EouTask(i) THEN rest ELSE pc[EouTask(i)]
  BY <1>8, <1>9
<1>11. laneItem \in [Responses -> 0..MaxItem] /\ j \in 0..MaxItem
  BY <1>3, SessionBounds DEF ItemCore, ItemTypes, Items
<1>12. /\ laneItem' \in [Responses -> 0..MaxItem]
       /\ \/ /\ w = Lane(r)
             /\ \A s \in Responses :
                   /\ laneItem'[s] = IF s = r THEN j ELSE laneItem[s]
                   /\ pc'[Lane(s)] = IF s = r THEN "store" ELSE pc[Lane(s)]
             /\ \A i \in Items : pc'[Utterance(i)] = pc[Utterance(i)]
          \/ /\ w = Utterance(j) /\ laneItem' = laneItem
             /\ \A s \in Responses : pc'[Lane(s)] = pc[Lane(s)]
             /\ \A i \in Items : pc'[Utterance(i)] = IF i = j THEN "store" ELSE pc[Utterance(i)]
  <2>1. CASE w = Lane(r) /\ laneItem' = [laneItem EXCEPT ![r] = j]
    <3>1. /\ laneItem' \in [Responses -> 0..MaxItem]
          /\ \A s \in Responses : laneItem'[s] = IF s = r THEN j ELSE laneItem[s]
      BY <1>11, <2>1
    <3>2. \A s \in Responses : pc'[Lane(s)] = IF s = r THEN "store" ELSE pc[Lane(s)]
      BY <1>8, <1>9, <2>1, NamesDiffer
    <3>3. \A i \in Items : pc'[Utterance(i)] = pc[Utterance(i)]
      BY <1>8, <1>9, <2>1, NamesDiffer
    <3> QED BY <2>1, <3>1, <3>2, <3>3
  <2>2. CASE w = Utterance(j) /\ laneItem' = laneItem
    <3>2. \A s \in Responses : pc'[Lane(s)] = pc[Lane(s)]
      BY <1>8, <1>9, <2>2, NamesDiffer
    <3>3. \A i \in Items : pc'[Utterance(i)] = IF i = j THEN "store" ELSE pc[Utterance(i)]
      BY <1>8, <1>9, <2>2, NamesDiffer
    <3> QED BY <1>11, <2>2, <3>2, <3>3
  <2> QED BY <1>7, <2>1, <2>2
<1>13. ItemTypes'
  BY <1>6, <1>8, <1>12 DEF ItemCore, ItemTypes
<1>14. VadPlace'
  <2>1. rest \notin Starting \cup Sealing \cup Rejecting \cup Committing \cup {"stopped"} \/ t # VadTask
    BY <1>5 DEF Starting, Sealing, Rejecting, Committing, Turning
  <2> QED BY <1>5, <1>6, <1>10, <2>1 DEF ItemCore, VadPlace
<1>15. ASSUME NEW i \in Items, i # j PROVE ItemState(i)'
  <2>1. pc'[EouTask(i)] = pc[EouTask(i)]
    BY <1>3, <1>10, <1>15, NamesDiffer
  <2>2. pc'[VadTask] = pc[VadTask] \/ i \notin {vitem, openItem}
    <3>1. CASE t = VadTask
      <4>1. openItem = 0
        BY <1>2, <3>1 DEF ItemCore, VadPlace, Committing, Turning
      <4> QED BY <1>3, <1>15, <3>1, <4>1 DEF Items
    <3>2. CASE t # VadTask
      BY <1>10, <3>2
    <3> QED BY <3>1, <3>2
  <2>3. pc'[Utterance(i)] = pc[Utterance(i)]
    BY <1>12, <1>15
  <2>4. \A s \in Responses : laneItem'[s] = i => laneItem[s] = i /\ pc'[Lane(s)] = pc[Lane(s)]
    BY <1>12, <1>15
  <2>5. Unanswered(i) => Unanswered(i)'
    BY <1>6, <2>3, <2>4 DEF Unanswered
  <2>6. itemWire'[i] = itemWire[i] /\ InOrder(itemWire[i]) /\ (Voiced(i)' => Voiced(i))
    BY <1>6 DEF Voiced, ItemCore, ItemState
  <2>7. Aside(i)
    BY <1>6, <2>1, <2>2, <2>3, <2>4, <2>5, <2>6 DEF Aside
  <2> QED BY <2>7, AsideKeeps DEF ItemCore
<1>16. ItemState(j)'
  <2>1. /\ InOrder(itemWire'[j]) /\ Len(itemWire'[j]) = 4
        /\ vad' # Speaking(j) /\ vad' # Stopped(j) /\ ~(j > nextItem')
    BY <1>3, <1>6 DEF ItemCore, ItemState
  <2>2. pc'[EouTask(j)] \notin {"score", "eager", "delay"} \cup Committing
    <3>1. CASE t = VadTask
      BY <1>3, <1>9, <1>10, <3>1, NamesDiffer DEF Committing, Turning
    <3>2. CASE t # VadTask
      BY <1>3, <1>5, <1>10, <3>2 DEF Committing, Turning
    <3> QED BY <3>1, <3>2
  <2>3. /\ j = vitem' => pc'[VadTask] \notin Starting \cup Sealing \cup Committing
        /\ j = openItem' => pc'[VadTask] = "end"
    <3>1. CASE t = VadTask
      <4>1. rest \notin Starting \cup Sealing \cup Committing
        BY <1>5 DEF Starting, Sealing, Committing, Turning
      <4> QED BY <1>2, <1>3, <1>6, <1>10, <3>1, <4>1
    <3>2. CASE t # VadTask
      BY <1>3, <1>6, <1>10, <3>2
    <3> QED BY <3>1, <3>2
  <2>4. \A s \in Responses : laneItem'[s] = j =>
            /\ pc'[Utterance(j)] = "none"
            /\ \A q \in Responses : laneItem'[q] = j => q = s
    BY <1>3, <1>12 DEF Unanswered
  <2> QED BY <2>1, <2>2, <2>3, <2>4 DEF ItemState
<1>17. ASSUME NEW s \in Responses, pc'[Lane(s)] \in Transcribing PROVE laneItem'[s] # 0
  BY <1>3, <1>12, <1>17, SessionBounds DEF ItemCore, Items
<1> QED BY <1>13, <1>14, <1>15, <1>16, <1>17 DEF ItemCore

(* Its plain moves: while it starts an utterance, from one sealing step to *)
(* the next, and back to listening.                                        *)
LEMMA VadGoes ==
    ASSUME ItemCore, NEW l, VadMoves(l), UNCHANGED <<vitem, openItem, nextItem, itemWire>>,
           vad' \in {vad, Silent},
           \/ pc[VadTask] \in Starting /\ l \in Starting
           \/ pc[VadTask] \in Sealing /\ l = "stop"
           \/ pc[VadTask] \in Sealing \cup Rejecting /\ l = "idle"
    PROVE  ItemCore'
<1>1. vad'.phase = "Speaking" => vad.phase = "Speaking"
  BY DEF Silent
<1>2. pc'[ClientTask] = pc[ClientTask] /\ \A i \in Items : pc'[DelayTask(i)] = pc[DelayTask(i)]
  <2>1. ClientTask \in Tasks /\ ClientTask # VadTask
    BY TaskNames
  <2>2. \A i \in Items : DelayTask(i) \in Tasks /\ DelayTask(i) # VadTask
    BY TaskNames
  <2> QED BY <2>1, <2>2 DEF VadMoves
<1>3. l \notin Committing /\ l # "end" /\ l \notin Turning
      /\ l \notin {"stopped"} \cup Rejecting
  BY DEF Starting, Committing, Turning, Rejecting
<1>4. pc[VadTask] \notin {"idle", "end"}
  BY DEF Starting, Sealing, Rejecting
<1>5. \/ pc[VadTask] \in Starting /\ l \in Starting /\ l \notin Sealing
      \/ pc[VadTask] \notin Starting /\ l \notin Starting /\ openItem = 0
         /\ (l \in Sealing => pc[VadTask] \in Sealing)
  BY DEF Starting, Sealing, Rejecting, ItemCore, VadPlace
<1>6. VadPlace'
  <2>1. l \in {"idle", "end"} \cup Starting \cup Sealing
    BY DEF Sealing
  <2>2. pc'[VadTask] = l
    BY DEF VadMoves
  <2> QED BY <1>1, <1>2, <1>3, <1>4, <1>5, <2>1, <2>2 DEF ItemCore, VadPlace
<1>7. ASSUME NEW i \in Items PROVE VadLeaves(i, l)
  <2>1. ItemState(i)
    BY DEF ItemCore
  <2>2. vad' = Speaking(i) => vad = Speaking(i)
    BY DEF Silent, Speaking
  <2>3. vad' = Stopped(i) => vad = Stopped(i)
    BY DEF Silent, Stopped
  <2>4. i # 0
    BY DEF Items
  <2> QED BY <1>3, <1>5, <2>1, <2>2, <2>3, <2>4 DEF VadLeaves, ItemState
<1> QED BY <1>6, <1>7, VadMovesKeep

\* A step of that task which touches nothing else.
LEMMA VadGoto ==
    ASSUME ItemCore, NEW l, Goto(VadTask, l), UNCHANGED <<laneItem, sealed, itemWire>>,
           conversation' \in Seq(Entry), \A i \in Items : Voiced(i)' => Voiced(i),
           UNCHANGED <<vitem, openItem, nextItem>>, vad' \in {vad, Silent},
           \/ pc[VadTask] \in Starting /\ l \in Starting
           \/ pc[VadTask] \in Sealing /\ l = "stop"
           \/ pc[VadTask] \in Sealing \cup Rejecting /\ l = "idle"
    PROVE  ItemCore'
<1>1. Placed /\ VadTask \in Tasks
  BY TaskNames DEF ItemCore, ItemTypes
<1>2. Placed' /\ \A u \in Tasks : pc'[u] = IF u = VadTask THEN l ELSE pc[u]
  BY <1>1, OneMoves DEF Goto
<1>3. VadMoves(l)
  <2>1. vad' \in TimelyPhases
    BY DEF ItemCore, ItemTypes, TimelyPhases
  <2> QED BY <1>1, <1>2, <2>1 DEF VadMoves, ItemCore, ItemTypes
<1> QED BY <1>3, VadGoes

LEMMA ConversationSame ==
    ASSUME ItemCore, UNCHANGED conversation
    PROVE  conversation' \in Seq(Entry) /\ \A i \in Items : Voiced(i)' => Voiced(i)
BY DEF ItemCore, ItemTypes, Voiced

-----------------------------------------------------------------------------
(* The steps of the voice detector's task.                                 *)
LEMMA StartKeepsItems ==
    ASSUME ItemCore, SpeechStarted
    PROVE  ItemCore'
<1>1. /\ pc[VadTask] = "idle" /\ UNCHANGED <<vad, conversation, sealed, laneItem, itemWire>>
      /\ nextItem < MaxItem /\ nextItem' = nextItem + 1 /\ openItem' = nextItem' /\ vitem' = nextItem'
      /\ Goto(VadTask, "timer")
  BY DEF SpeechStarted, VadHears, stateVars, laneLocals, wires
<1>2. Placed /\ VadTask \in Tasks
  BY TaskNames DEF ItemCore, ItemTypes
<1>3. Placed' /\ \A u \in Tasks : pc'[u] = IF u = VadTask THEN "timer" ELSE pc[u]
  BY <1>1, <1>2, OneMoves DEF Goto
<1>4. /\ nextItem \in 0..MaxItem /\ MaxItem \in Nat /\ nextItem' \in 1..MaxItem
      /\ nextItem' <= nextItem' /\ nextItem' # 0
  BY <1>1, SessionBounds DEF ItemCore, ItemTypes
<1>5. VadMoves("timer")
  BY <1>1, <1>2, <1>3, <1>4, ConversationSame DEF VadMoves, ItemCore, ItemTypes
<1>6. VadPlace'
  <2>1. pc'[ClientTask] = pc[ClientTask] /\ \A i \in Items : pc'[DelayTask(i)] = pc[DelayTask(i)]
    BY <1>3, TaskNames
  <2>2. "timer" \in Starting /\ "timer" \notin {"stopped", "idle", "end"} \cup Sealing \cup Rejecting \cup Committing
    BY DEF Starting, Sealing, Rejecting, Committing, Turning
  <2> QED BY <1>1, <1>2, <1>3, <1>4, <2>1, <2>2 DEF ItemCore, VadPlace
<1>7. ASSUME NEW i \in Items PROVE VadLeaves(i, "timer")
  <2>1. ItemState(i)
    BY DEF ItemCore
  <2>2. "timer" \in Starting /\ "timer" \notin Sealing \cup Committing \cup Turning
    BY DEF Starting, Sealing, Committing, Turning
  <2>3. i >= nextItem' => i > nextItem
    BY <1>1, <1>4 DEF Items
  <2>4. i > nextItem' => i > nextItem
    BY <1>1, <1>4 DEF Items
  <2>5. i = vitem' => i > nextItem
    BY <1>1, <1>4 DEF Items
  <2> QED BY <1>1, <2>1, <2>2, <2>4, <2>5 DEF VadLeaves, ItemState
<1> QED BY <1>5, <1>6, <1>7, VadMovesKeep

LEMMA SealKeepsItems ==
    ASSUME ItemCore, NEW length, SpeechCommitted(length)
    PROVE  ItemCore'
<1>1. /\ pc[VadTask] = "idle" /\ UNCHANGED <<vad, conversation, sealed, laneItem, itemWire, nextItem>>
      /\ openItem # 0 /\ vitem' = openItem /\ openItem' = 0 /\ Goto(VadTask, "suppress")
  BY DEF SpeechCommitted, VadHears, Open, stateVars, laneLocals, wires
<1>2. Placed /\ VadTask \in Tasks
  BY TaskNames DEF ItemCore, ItemTypes
<1>3. Placed' /\ \A u \in Tasks : pc'[u] = IF u = VadTask THEN "suppress" ELSE pc[u]
  BY <1>1, <1>2, OneMoves DEF Goto
<1>4. 0 \in 0..MaxItem /\ 0 <= nextItem
  BY SessionBounds DEF ItemCore, ItemTypes
<1>5. VadMoves("suppress")
  BY <1>1, <1>2, <1>3, <1>4, ConversationSame DEF VadMoves, ItemCore, ItemTypes
<1>6. VadPlace'
  <2>1. pc'[ClientTask] = pc[ClientTask] /\ \A i \in Items : pc'[DelayTask(i)] = pc[DelayTask(i)]
    BY <1>3, TaskNames
  <2>2. "suppress" \in Sealing /\ "suppress" \notin {"stopped", "idle", "end"} \cup Starting \cup Rejecting \cup Committing
    BY DEF Starting, Sealing, Rejecting, Committing, Turning
  <2> QED BY <1>1, <1>2, <1>3, <1>4, <2>1, <2>2 DEF ItemCore, VadPlace
<1>7. ASSUME NEW i \in Items PROVE VadLeaves(i, "suppress")
  <2>1. ItemState(i)
    BY DEF ItemCore
  <2>2. "suppress" \notin Starting \cup Committing \cup Turning /\ "idle" \notin Starting \cup {"end"}
    BY DEF Starting, Sealing, Committing, Turning
  <2>3. i # 0
    BY DEF Items
  <2> QED BY <1>1, <2>1, <2>2, <2>3 DEF VadLeaves, ItemState
<1> QED BY <1>5, <1>6, <1>7, VadMovesKeep

LEMMA StopKeepsItems ==
    ASSUME ItemCore, Listening, VadStops
    PROVE  ItemCore'
<1>0. pc[VadTask] = "stop" /\ vad \in {Silent, Speaking(vitem)}
  BY DEF VadStops, At, Listening
<1>1. /\ pc[VadTask] = "stop" /\ vad' = Stopped(vitem) /\ Goto(VadTask, "stopped")
      /\ UNCHANGED <<conversation, sealed, laneItem, itemWire, vitem, openItem, nextItem>>
  BY <1>0 DEF Silent, Speaking, VadStops, At, taskVars, vadLocals, laneLocals, wires, history
<1>2. Placed /\ VadTask \in Tasks
  BY TaskNames DEF ItemCore, ItemTypes
<1>3. Placed' /\ \A u \in Tasks : pc'[u] = IF u = VadTask THEN "stopped" ELSE pc[u]
  BY <1>1, <1>2, OneMoves DEF Goto
<1>4. vitem \in Items /\ openItem = 0 /\ pc[VadTask] \in Sealing
  BY <1>1, SessionBounds DEF ItemCore, ItemTypes, VadPlace, Items, Sealing
<1>5. VadMoves("stopped")
  <2>1. vad' \in TimelyPhases
    BY <1>1, <1>4 DEF TimelyPhases
  <2> QED BY <1>1, <1>2, <1>3, <2>1, ConversationSame DEF VadMoves, ItemCore, ItemTypes
<1>6. VadPlace'
  <2>1. pc'[ClientTask] = pc[ClientTask] /\ \A i \in Items : pc'[DelayTask(i)] = pc[DelayTask(i)]
    BY <1>3, TaskNames
  <2>2. "stopped" \in Sealing /\ "stopped" \notin {"idle", "end"} \cup Starting
    BY DEF Starting, Sealing
  <2>3. vad'.phase # "Speaking" /\ vitem # 0
    BY <1>1, <1>4 DEF Stopped, Items
  <2> QED BY <1>1, <1>2, <1>3, <1>4, <2>1, <2>2, <2>3 DEF ItemCore, VadPlace
<1>7. ASSUME NEW i \in Items PROVE VadLeaves(i, "stopped")
  <2>1. ItemState(i)
    BY DEF ItemCore
  <2>2. "stopped" \notin Starting \cup Committing \cup Turning
    BY DEF Starting, Committing, Turning
  <2>3. i # 0 /\ vad' # Speaking(i) /\ (vad' = Stopped(i) => i = vitem)
    BY <1>1 DEF Items, Speaking, Stopped
  <2>4. Unstopped(i) => Unanswered(i) /\ pc[EouTask(i)] \notin Turning
    BY DEF Unstopped, Turning
  <2> QED BY <1>1, <1>4, <2>1, <2>2, <2>3, <2>4 DEF VadLeaves, ItemState
<1> QED BY <1>5, <1>6, <1>7, VadMovesKeep

LEMMA SpeakKeepsItems ==
    ASSUME ItemCore, VadSpeaks(VadTask)
    PROVE  ItemCore'
<1>1. /\ pc[VadTask] = "speak" /\ vad' = Speaking(vitem) /\ Goto(VadTask, "started")
      /\ UNCHANGED <<conversation, sealed, laneItem, itemWire, vitem, openItem, nextItem>>
  BY ItemOfTask DEF VadSpeaks, At, taskVars, vadLocals, laneLocals, wires, history
<1>2. Placed /\ VadTask \in Tasks
  BY TaskNames DEF ItemCore, ItemTypes
<1>3. Placed' /\ \A u \in Tasks : pc'[u] = IF u = VadTask THEN "started" ELSE pc[u]
  BY <1>1, <1>2, OneMoves DEF Goto
<1>4. vitem \in Items /\ openItem = vitem /\ pc[VadTask] \in Starting
  BY <1>1, SessionBounds DEF ItemCore, ItemTypes, VadPlace, Items, Starting
<1>5. VadMoves("started")
  <2>1. vad' \in TimelyPhases
    BY <1>1, <1>4 DEF TimelyPhases
  <2> QED BY <1>1, <1>2, <1>3, <2>1, ConversationSame DEF VadMoves, ItemCore, ItemTypes
<1>6. VadPlace'
  <2>1. pc'[ClientTask] = pc[ClientTask] /\ \A i \in Items : pc'[DelayTask(i)] = pc[DelayTask(i)]
    BY <1>3, TaskNames
  <2>2. "started" \in Starting
        /\ "started" \notin {"idle", "end", "stopped"} \cup Sealing \cup Rejecting \cup Committing
    BY DEF Starting, Sealing, Rejecting, Committing, Turning
  <2>3. vitem # 0
    BY <1>4 DEF Items
  <2> QED BY <1>1, <1>2, <1>3, <1>4, <2>1, <2>2, <2>3 DEF ItemCore, VadPlace
<1>7. ASSUME NEW i \in Items PROVE VadLeaves(i, "started")
  <2>1. ItemState(i)
    BY DEF ItemCore
  <2>2. "started" \in Starting /\ "started" \notin Sealing \cup Committing \cup Turning
    BY DEF Starting, Sealing, Committing, Turning
  <2>3. vad' # Stopped(i) /\ (vad' = Speaking(i) => i = vitem)
    BY <1>1 DEF Speaking, Stopped
  <2> QED BY <1>1, <1>4, <2>1, <2>2, <2>3 DEF VadLeaves, ItemState
<1> QED BY <1>5, <1>6, <1>7, VadMovesKeep

LEMMA StartedKeepsItems ==
    ASSUME ItemCore, SendSpeechStarted(VadTask)
    PROVE  ItemCore'
<1>1. /\ pc[VadTask] = "started" /\ SendItem(vitem, "started") /\ Goto(VadTask, "idle")
      /\ UNCHANGED <<vad, conversation, sealed, laneItem, vitem, openItem, nextItem>>
  BY ItemOfTask DEF SendSpeechStarted, At, taskVars, vadLocals, laneLocals, stateVars, Rest
<1>2. Placed /\ VadTask \in Tasks
  BY TaskNames DEF ItemCore, ItemTypes
<1>3. Placed' /\ \A u \in Tasks : pc'[u] = IF u = VadTask THEN "idle" ELSE pc[u]
  BY <1>1, <1>2, OneMoves DEF Goto
<1>4. vitem \in Items /\ openItem = vitem /\ pc[VadTask] \in Starting
  BY <1>1, SessionBounds DEF ItemCore, ItemTypes, VadPlace, Items, Starting
<1>5. ItemState(vitem) /\ Unstopped(vitem) /\ Len(itemWire[vitem]) = 0
  BY <1>4 DEF ItemCore, ItemState
<1>6. /\ itemWire' \in [Items -> Seq(ItemEvents)]
      /\ \A i \in Items : i # vitem => itemWire'[i] = itemWire[i]
      /\ InOrder(itemWire'[vitem]) /\ Len(itemWire'[vitem]) = Len(itemWire[vitem]) + 1
  <2>1. "started" \in NextEvents(Len(itemWire[vitem]))
    BY <1>5 DEF NextEvents
  <2>2. itemWire \in [Items -> Seq(ItemEvents)] /\ InOrder(itemWire[vitem])
    BY <1>5 DEF ItemCore, ItemTypes, ItemState
  <2> QED BY <1>1, <1>4, <2>1, <2>2, ItemSent
<1>7. VadMoves("idle")
  BY <1>1, <1>2, <1>3, <1>6, ConversationSame DEF VadMoves, ItemCore, ItemTypes
<1>8. VadPlace'
  <2>1. pc'[ClientTask] = pc[ClientTask] /\ \A i \in Items : pc'[DelayTask(i)] = pc[DelayTask(i)]
    BY <1>3, TaskNames
  <2>2. "idle" \notin {"stopped"} \cup Starting \cup Sealing \cup Rejecting \cup Committing
    BY DEF Starting, Sealing, Rejecting, Committing, Turning
  <2> QED BY <1>1, <1>2, <1>3, <2>1, <2>2 DEF ItemCore, VadPlace
<1>9. ASSUME NEW i \in Items PROVE VadLeaves(i, "idle")
  <2>1. ItemState(i) /\ vitem <= nextItem /\ vitem \in Nat /\ nextItem \in Nat /\ i \in Nat
    BY SessionBounds DEF ItemCore, ItemTypes, VadPlace, Items
  <2>2. "idle" \notin Starting \cup Sealing \cup Committing \cup Turning
    BY DEF Starting, Sealing, Committing, Turning
  <2>3. CASE i = vitem
    <3>1. ~(i > nextItem) /\ Len(itemWire'[i]) = 1
      BY <1>5, <1>6, <2>1, <2>3
    <3> QED BY <1>1, <1>5, <1>6, <2>1, <2>2, <2>3, <3>1 DEF VadLeaves, ItemState
  <2>4. CASE i # vitem
    BY <1>1, <1>4, <1>6, <2>1, <2>2, <2>4 DEF VadLeaves, ItemState
  <2> QED BY <2>3, <2>4
<1> QED BY <1>7, <1>8, <1>9, VadMovesKeep

LEMMA StoppedKeepsItems ==
    ASSUME ItemCore, SendSpeechStopped
    PROVE  ItemCore'
<1>1. /\ pc[VadTask] = "stopped" /\ SendItem(vitem, "stopped")
      /\ UNCHANGED <<vad, conversation, sealed, laneItem, vitem, openItem, nextItem>>
  BY DEF SendSpeechStopped, At, taskVars, vadLocals, laneLocals, stateVars
<1>2. Placed /\ VadTask \in Tasks
  BY TaskNames DEF ItemCore, ItemTypes
<1>3. vitem \in Items /\ openItem = 0 /\ vad.phase # "Speaking" /\ pc[VadTask] \in Sealing
      /\ vitem # 0
  BY <1>1, SessionBounds DEF ItemCore, ItemTypes, VadPlace, Items, Sealing
<1>4. ItemState(vitem) /\ Unstopped(vitem) /\ Len(itemWire[vitem]) = 1
  BY <1>3 DEF ItemCore, ItemState
<1>5. /\ itemWire' \in [Items -> Seq(ItemEvents)]
      /\ \A i \in Items : i # vitem => itemWire'[i] = itemWire[i]
      /\ InOrder(itemWire'[vitem]) /\ Len(itemWire'[vitem]) = 2
  <2>1. "stopped" \in NextEvents(Len(itemWire[vitem]))
    BY <1>4 DEF NextEvents
  <2>2. itemWire \in [Items -> Seq(ItemEvents)] /\ InOrder(itemWire[vitem])
    BY <1>4 DEF ItemCore, ItemTypes, ItemState
  <2>3. /\ itemWire' \in [Items -> Seq(ItemEvents)]
        /\ \A i \in Items : i # vitem => itemWire'[i] = itemWire[i]
        /\ InOrder(itemWire'[vitem]) /\ Len(itemWire'[vitem]) = Len(itemWire[vitem]) + 1
    BY <1>1, <1>3, <2>1, <2>2, ItemSent
  <2> QED BY <1>4, <2>3
<1>6. /\ vitem <= nextItem /\ nextItem \in Nat /\ ~(vitem > nextItem)
      /\ Unanswered(vitem) /\ pc[EouTask(vitem)] = "none"
  BY <1>3, <1>4 DEF ItemCore, ItemTypes, VadPlace, Unstopped, Items
<1>7. ASSUME NEW l \in {"reject", "commit"}, Goto(VadTask, l)
      PROVE  ItemCore'
  <2>1. Placed' /\ \A u \in Tasks : pc'[u] = IF u = VadTask THEN l ELSE pc[u]
    BY <1>2, <1>7, OneMoves DEF Goto
  <2>2. VadMoves(l)
    BY <1>1, <1>2, <1>5, <2>1, ConversationSame DEF VadMoves, ItemCore, ItemTypes
  <2>3. VadPlace'
    <3>1. pc'[ClientTask] = pc[ClientTask] /\ \A i \in Items : pc'[DelayTask(i)] = pc[DelayTask(i)]
      BY <2>1, TaskNames
    <3>2. l \in Rejecting \cup Committing /\ l \notin {"idle", "end"} \cup Starting
      BY DEF Rejecting, Committing, Starting
    <3> QED BY <1>1, <1>2, <1>3, <2>1, <3>1, <3>2 DEF ItemCore, VadPlace
  <2>4. ASSUME NEW i \in Items PROVE VadLeaves(i, l)
    <3>1. ItemState(i) /\ i # 0
      BY DEF ItemCore, Items
    <3>2. l \notin Starting \cup Sealing \cup Turning /\ l # "admit"
      BY DEF Starting, Sealing, Turning
    <3>3. vad' # Speaking(i)
      BY <1>1, <1>3 DEF Speaking
    <3>4. CASE i = vitem
      <4>1. pc[EouTask(i)] \notin Turning
        BY <1>6, <3>4 DEF Turning
      <4> QED BY <1>1, <1>3, <1>4, <1>5, <1>6, <3>1, <3>2, <3>3, <3>4, <4>1 DEF VadLeaves
    <3>5. CASE i # vitem
      BY <1>1, <1>3, <1>5, <3>1, <3>2, <3>3, <3>5 DEF VadLeaves, ItemState
    <3> QED BY <3>4, <3>5
  <2> QED BY <2>2, <2>3, <2>4, VadMovesKeep
<1>8. ASSUME pc' = [pc EXCEPT ![EouTask(vitem)] = "score", ![VadTask] = "install"]
      PROVE  ItemCore'
  <2>1. PICK d : d = EouTask(vitem)
    OBVIOUS
  <2>2. Placed' /\ \A u \in Tasks : pc'[u] = IF u = VadTask THEN "install"
                                             ELSE IF u = d THEN "score" ELSE pc[u]
    <3>1. pc' = [pc EXCEPT ![d] = "score", ![VadTask] = "install"]
      BY <1>8, <2>1
    <3> QED BY <1>2, <3>1 DEF Placed
  <2>3. /\ pc'[VadTask] = "install" /\ pc'[ClientTask] = pc[ClientTask]
        /\ \A i \in Items : /\ pc'[DelayTask(i)] = pc[DelayTask(i)]
                            /\ pc'[Utterance(i)] = pc[Utterance(i)]
        /\ \A r \in Responses : pc'[Lane(r)] = pc[Lane(r)]
    <3>1. d # ClientTask /\ \A i : DelayTask(i) # d /\ Utterance(i) # d /\ Lane(i) # d
      BY <2>1, NamesDiffer
    <3>2. /\ ClientTask \in Tasks /\ ClientTask # VadTask
          /\ \A i \in Items : /\ DelayTask(i) \in Tasks /\ DelayTask(i) # VadTask
                              /\ Utterance(i) \in Tasks /\ Utterance(i) # VadTask
          /\ \A r \in Responses : Lane(r) \in Tasks /\ Lane(r) # VadTask
      BY TaskNames
    <3> QED BY <1>2, <2>2, <3>1, <3>2
  <2>4. \A i \in Items : pc'[EouTask(i)] = IF i = vitem THEN "score" ELSE pc[EouTask(i)]
    <3>1. \A i \in Items : EouTask(i) \in Tasks /\ EouTask(i) # VadTask
      BY TaskNames
    <3>2. \A i \in Items : EouTask(i) = d <=> i = vitem
      BY <2>1, NamesDiffer
    <3> QED BY <2>2, <3>1, <3>2
  <2>5. ItemTypes'
    BY <1>1, <1>5, <2>2 DEF ItemCore, ItemTypes
  <2>6. VadPlace'
    <3>1. "install" \in Rejecting /\ "install" \notin {"idle", "end"} \cup Starting
      BY DEF Rejecting, Starting
    <3> QED BY <1>1, <1>3, <2>3, <3>1 DEF ItemCore, VadPlace
  <2>7. ASSUME NEW i \in Items, i # vitem PROVE ItemState(i)'
    <3>1. i \notin {vitem, openItem} /\ pc'[EouTask(i)] = pc[EouTask(i)]
      BY <1>3, <2>4, <2>7 DEF Items
    <3>2. Unanswered(i) => Unanswered(i)'
      BY <1>1, <2>3 DEF Unanswered
    <3>3. itemWire'[i] = itemWire[i] /\ InOrder(itemWire[i]) /\ (Voiced(i)' => Voiced(i))
      BY <1>1, <1>5, <2>7 DEF Voiced, ItemCore, ItemState
    <3>4. Aside(i)
      BY <1>1, <2>3, <3>1, <3>2, <3>3 DEF Aside
    <3> QED BY <3>4, AsideKeeps DEF ItemCore
  <2>8. ASSUME NEW i \in Items, i = vitem PROVE ItemState(i)'
    <3>1. Unanswered(i)' /\ pc'[EouTask(i)] = "score"
      BY <1>1, <1>6, <2>3, <2>4, <2>8 DEF Unanswered
    <3>2. /\ pc'[Utterance(i)] \notin Transcribing
          /\ \A r \in Responses : laneItem'[r] # i
      BY <3>1 DEF Unanswered, Transcribing
    <3>3. vad' # Speaking(i) /\ i # openItem' /\ i = vitem'
      BY <1>1, <1>3, <2>8 DEF Speaking
    <3>4. "install" \notin Starting \cup Sealing \cup Committing \cup Turning
          /\ "score" \notin Turning
      BY DEF Starting, Sealing, Committing, Turning
    <3>5. InOrder(itemWire'[i]) /\ Len(itemWire'[i]) = 2 /\ ~(i > nextItem')
      BY <1>1, <1>5, <1>6, <2>8
    <3> QED BY <2>3, <3>1, <3>2, <3>3, <3>4, <3>5 DEF ItemState
  <2>9. \A r \in Responses : pc'[Lane(r)] \in Transcribing => laneItem'[r] # 0
    BY <1>1, <2>3 DEF ItemCore
  <2> QED BY <2>5, <2>6, <2>7, <2>8, <2>9 DEF ItemCore
<1>9. \/ Goto(VadTask, "reject") \/ Goto(VadTask, "commit")
      \/ pc' = [pc EXCEPT ![EouTask(vitem)] = "score", ![VadTask] = "install"]
  BY DEF SendSpeechStopped, Goto
<1> QED BY <1>7, <1>8, <1>9

LEMMA VadKeepsItems ==
    ASSUME ItemCore, Listening, ~config.delay, VadStep
    PROVE  ItemCore'
<1>1. CASE SpeechStarted
  BY <1>1, StartKeepsItems
<1>2. CASE \E length \in {"short", "quick", "full"} : SpeechCommitted(length)
  BY <1>2, SealKeepsItems
<1>3. CASE CancelCommitTimer
  <2>1. /\ pc[VadTask] \in Starting /\ Goto(VadTask, "rollback") /\ "rollback" \in Starting
        /\ UNCHANGED <<vad, conversation, laneItem, sealed, itemWire, vitem, openItem, nextItem>>
    BY <1>3 DEF CancelCommitTimer, At, Starting, vadLocals, laneLocals, wires, history
  <2> QED BY <2>1, VadGoto, ConversationSame
<1>4. CASE DecideBargeIn
  <2>1. /\ pc[VadTask] \in Starting /\ Goto(VadTask, "retire") /\ "retire" \in Starting
        /\ UNCHANGED <<vad, conversation, laneItem, sealed, itemWire, vitem, openItem, nextItem>>
    BY <1>4 DEF DecideBargeIn, Goto, At, Starting, stateVars, taskVars, vadLocals, laneLocals, wires
  <2> QED BY <2>1, VadGoto, ConversationSame
<1>5. CASE SetPendingBargein
  BY <1>5 DEF SetPendingBargein, At, ItemCore, VadPlace, Starting, Sealing, Rejecting, Committing, Turning
<1>6. CASE SuppressBargein
  <2>1. /\ pc[VadTask] \in Sealing /\ (Goto(VadTask, "idle") \/ Goto(VadTask, "stop"))
        /\ UNCHANGED <<vad, conversation, laneItem, sealed, itemWire, vitem, openItem, nextItem>>
    BY <1>6 DEF SuppressBargein, At, Sealing, vadLocals, laneLocals, wires, history
  <2> QED BY <2>1, VadGoto, ConversationSame
<1>7. CASE VadStops
  BY <1>7, StopKeepsItems
<1>8. CASE SendSpeechStopped
  BY <1>8, StoppedKeepsItems
<1>9. CASE RejectShort
  <2>1. /\ pc[VadTask] \in Rejecting /\ Goto(VadTask, "idle") /\ vad' \in {vad, Silent}
        /\ UNCHANGED <<conversation, laneItem, sealed, itemWire, vitem, openItem, nextItem>>
    BY <1>9 DEF RejectShort, At, Rejecting, taskVars, vadLocals, laneLocals, wires, history
  <2> QED BY <2>1, VadGoto, ConversationSame
<1>10. CASE InstallCommitTimer
  <2>1. /\ pc[VadTask] \in Rejecting /\ Goto(VadTask, "idle")
        /\ UNCHANGED <<vad, conversation, laneItem, sealed, itemWire, vitem, openItem, nextItem>>
    BY <1>10 DEF InstallCommitTimer, At, Rejecting, vadLocals, laneLocals, wires, history
  <2> QED BY <2>1, VadGoto, ConversationSame
<1> QED BY <1>1, <1>2, <1>3, <1>4, <1>5, <1>6, <1>7, <1>8, <1>9, <1>10 DEF VadStep

(* The cancelling steps: the delay tasks take none.                        *)
LEMMA TruncatedVoices ==
    ASSUME ItemCore, NEW r \in 0..MaxResp, conversation' = Truncated(r)
    PROVE  conversation' \in Seq(Entry) /\ \A i \in Items : Voiced(i)' => Voiced(i)
<1>1. conversation \in Seq(Entry)
  BY DEF ItemCore, ItemTypes
<1>2. AssistantItem(r) \in EntryIds /\ "Incomplete" \in Statuses
  BY DEF EntryIds, Statuses
<1>3. CASE InConversation(AssistantItem(r))
  <2>1. conversation' = WithStatus(AssistantItem(r), "Incomplete")
    BY <1>3 DEF Truncated
  <2> QED BY <1>1, <1>2, <2>1, StatusSet
<1>4. CASE ~InConversation(AssistantItem(r))
  <2>1. PICK e : e = [id |-> AssistantItem(r), status |-> "Incomplete"]
    OBVIOUS
  <2>2. e \in Entry
    BY <1>2, <2>1 DEF Entry
  <2>3. \A i \in Items : e.id # UserItem(i)
    BY <2>1 DEF UserItem, AssistantItem
  <2>4. conversation' = Append(conversation, e)
    BY <1>4, <2>1 DEF Truncated
  <2> QED BY <1>1, <2>2, <2>3, <2>4, ConversationGrows
<1> QED BY <1>3, <1>4

LEMMA CancelKeepsItems ==
    ASSUME LaneInv, ItemCore, NEW t \in Cancellers, CancelStep(t)
    PROVE  ItemCore'
<1>1. t \in {VadTask, ClientTask}
  <2>1. pc[t] \notin {"none", "end"}
    BY DEF CancelStep, RollbackPredicted, RetireResponse, ReadWireOpened, GateCancelled, SendCancelled,
           TruncateAssistant, VadSpeaks, SendSpeechStarted, At
  <2>2. \A i \in Items : t # DelayTask(i)
    BY <2>1 DEF ItemCore, VadPlace
  <2> QED BY <2>2 DEF Cancellers, Delays
<1>2. CASE VadSpeaks(t)
  <2>1. t = VadTask
    BY <1>1, <1>2 DEF VadSpeaks, At, ItemCore, VadPlace
  <2> QED BY <1>2, <2>1, SpeakKeepsItems
<1>3. CASE SendSpeechStarted(t)
  <2>1. t = VadTask
    BY <1>1, <1>3 DEF SendSpeechStarted, At, ItemCore, VadPlace
  <2> QED BY <1>3, <2>1, StartedKeepsItems
<1>4. CASE ~VadSpeaks(t) /\ ~SendSpeechStarted(t)
  <2>1. PICK l : /\ Goto(t, l) /\ pc[t] \in Starting
                 /\ l \in Starting \ {"started"} \/ (t = ClientTask /\ l = "idle")
                 /\ t = ClientTask => l # "speak"
    <3>1. CASE RollbackPredicted(t)
      BY <1>1, <3>1, TaskNames DEF RollbackPredicted, At, Starting
    <3>2. CASE RetireResponse(t)
      BY <1>1, <3>2, TaskNames DEF RetireResponse, AfterCancel, At, Starting
    <3>3. CASE ReadWireOpened(t)
      BY <1>1, <3>3, TaskNames DEF ReadWireOpened, At, Starting
    <3>4. CASE GateCancelled(t)
      BY <1>1, <3>4, TaskNames DEF GateCancelled, At, Starting
    <3>5. CASE SendCancelled(t)
      BY <1>1, <3>5, TaskNames DEF SendCancelled, At, Starting
    <3>6. CASE TruncateAssistant(t)
      BY <1>1, <3>6, TaskNames DEF TruncateAssistant, AfterCancel, At, Starting
    <3> QED BY <1>4, <3>1, <3>2, <3>3, <3>4, <3>5, <3>6 DEF CancelStep
  <2>2. /\ UNCHANGED <<vad, laneItem, sealed, itemWire, vitem, openItem, nextItem>>
        /\ UNCHANGED conversation \/ \E r \in 0..MaxResp : conversation' = Truncated(r)
    <3>1. CASE RollbackPredicted(t)
      BY <3>1 DEF RollbackPredicted, taskVars, vadLocals, laneLocals, wires, history
    <3>2. CASE RetireResponse(t)
      BY <3>2 DEF RetireResponse, vadLocals, laneLocals, wires, history
    <3>3. CASE ReadWireOpened(t)
      BY <3>3 DEF ReadWireOpened, stateVars, vadLocals, laneLocals, wires
    <3>4. CASE GateCancelled(t)
      BY <3>4 DEF GateCancelled, stateVars, taskVars, vadLocals, laneLocals, wires
    <3>5. CASE SendCancelled(t)
      BY <3>5 DEF SendCancelled, SendResp, stateVars, taskVars, vadLocals, laneLocals
    <3>6. CASE TruncateAssistant(t)
      <4>1. snap[t].id \in 0..MaxResp
        BY TaskNames DEF LaneInv, SessionTypes
      <4>2. conversation' = Truncated(snap[t].id)
        BY <3>6 DEF TruncateAssistant
      <4>3. UNCHANGED <<vad, laneItem, sealed, itemWire, vitem, openItem, nextItem>>
        BY <3>6 DEF TruncateAssistant, taskVars, vadLocals, laneLocals, wires
      <4> QED BY <4>1, <4>2, <4>3
    <3> QED BY <1>4, <3>1, <3>2, <3>3, <3>4, <3>5, <3>6 DEF CancelStep
  <2>3. conversation' \in Seq(Entry) /\ \A i \in Items : Voiced(i)' => Voiced(i)
    BY <2>2, TruncatedVoices, ConversationSame
  <2>4. CASE t = VadTask
    BY <2>1, <2>2, <2>3, <2>4, VadGoto, TaskNames
  <2>5. CASE t = ClientTask
    <3>1. l \notin {"speak", "started"} /\ l \notin Transcribing
      BY <2>1, <2>5 DEF Starting, Transcribing
    <3>2. Placed
      BY DEF ItemCore, ItemTypes
    <3>3. Placed' /\ \A u \in Tasks : pc'[u] = IF u = ClientTask THEN l ELSE pc[u]
      BY <2>1, <2>5, <3>2, OneMoves DEF Goto
    <3>4. /\ pc'[VadTask] = pc[VadTask] /\ pc'[ClientTask] = l
          /\ \A i \in Items : /\ pc'[EouTask(i)] = pc[EouTask(i)]
                              /\ pc'[Utterance(i)] = pc[Utterance(i)]
                              /\ pc'[DelayTask(i)] = pc[DelayTask(i)]
          /\ \A r \in Responses : pc'[Lane(r)] = pc[Lane(r)]
      <4>1. VadTask \in Tasks /\ ClientTask \in Tasks /\ VadTask # ClientTask
        BY TaskNames
      <4>2. \A i \in Items : /\ EouTask(i) \in Tasks /\ EouTask(i) # ClientTask
                             /\ Utterance(i) \in Tasks /\ Utterance(i) # ClientTask
                             /\ DelayTask(i) \in Tasks /\ DelayTask(i) # ClientTask
        BY TaskNames, NamesDiffer
      <4>3. \A r \in Responses : Lane(r) \in Tasks /\ Lane(r) # ClientTask
        BY TaskNames
      <4> QED BY <3>3, <4>1, <4>2, <4>3
    <3>5. Distant
      BY <2>2, <2>3, <3>1, <3>3, <3>4 DEF Distant
    <3> QED BY <3>5, DistantKeeps
  <2> QED BY <1>1, <2>4, <2>5
<1> QED BY <1>2, <1>3, <1>4

(* The steps of an utterance's worker.                                     *)
LEMMA WorkerItem ==
    ASSUME ItemCore, NEW t \in Workers
    PROVE  /\ ItemOf(t) \in 0..MaxItem
           /\ pc[t] \in Transcribing => /\ ItemOf(t) \in Items
                                        /\ Len(itemWire[ItemOf(t)]) = 4
<1>1. CASE t \in Utterances
  <2>1. PICK i \in Items : t = Utterance(i)
    BY <1>1 DEF Utterances
  <2>2. ItemOf(t) = i /\ ItemState(i) /\ i \in 0..MaxItem
    BY <2>1, ItemOfTask, SessionBounds DEF ItemCore, Items
  <2> QED BY <2>1, <2>2 DEF ItemState
<1>2. CASE t \in Lanes
  <2>1. PICK r \in Responses : t = Lane(r)
    BY <1>2 DEF Lanes
  <2>2. ItemOf(t) = laneItem[r] /\ laneItem[r] \in 0..MaxItem
    BY <2>1, ItemOfTask DEF ItemCore, ItemTypes
  <2>3. pc[t] \in Transcribing => laneItem[r] \in Items
    BY <2>1, <2>2, SessionBounds DEF ItemCore, Items
  <2>4. pc[t] \in Transcribing => Len(itemWire[laneItem[r]]) = 4
    BY <2>1, <2>3 DEF ItemCore, ItemState
  <2> QED BY <2>2, <2>3, <2>4
<1> QED BY <1>1, <1>2, TaskNames

LEMMA WorkKeepsItems ==
    ASSUME ItemCore, NEW t \in Workers, UtteranceStep(t)
    PROVE  ItemCore'
<1>1. t \in Tasks /\ Placed /\ ItemOf(t) \in 0..MaxItem
  BY TaskNames, WorkerItem DEF ItemCore, ItemTypes
<1>2. PICK x : x = ItemOf(t)
  OBVIOUS
<1>3. PICK y : y = UserItem(x) /\ y \in EntryIds
  BY <1>1, <1>2 DEF EntryIds
<1>4. Finish(t) \in {"fin", "end"}
  BY DEF Finish
<1>5. ASSUME NEW l, Goto(t, l)
      PROVE  Placed' /\ \A u \in Tasks : pc'[u] = IF u = t THEN l ELSE pc[u]
  BY <1>1, <1>5, OneMoves DEF Goto
<1>6. conversation \in Seq(Entry) /\ itemWire \in [Items -> Seq(ItemEvents)]
  BY DEF ItemCore, ItemTypes
<1>7. ASSUME NEW l, Goto(t, l), pc[t] # "none", l \in Transcribing => pc[t] \in Transcribing,
             UNCHANGED <<vad, vitem, openItem, nextItem, laneItem, itemWire>>,
             sealed' \in {sealed, sealed \cup {x}, sealed \ {x}},
             \/ UNCHANGED conversation
             \/ \E st \in Statuses : conversation' = WithStatus(y, st)
      PROVE  ItemCore'
  <2>1. conversation' \in Seq(Entry) /\ \A i \in Items : Voiced(i)' => Voiced(i)
    BY <1>3, <1>6, <1>7, StatusSet, ConversationSame
  <2>2. Placed' /\ \A u \in Tasks : pc'[u] = IF u = t THEN l ELSE pc[u]
    BY <1>5, <1>7
  <2>3. \A i \in Items : i # ItemOf(t) => (i \in sealed' <=> i \in sealed)
    BY <1>2, <1>7
  <2>4. Worked(t, l)
    BY <1>6, <1>7, <2>1, <2>2, <2>3 DEF Worked
  <2> QED BY <2>4, WorkedKeeps
<1>8. ASSUME NEW l, NEW e \in {"completed", "failed"}, Goto(t, l), SendItem(x, e),
             pc[t] \in Transcribing, l \notin Transcribing,
             UNCHANGED <<vad, vitem, openItem, nextItem, laneItem, sealed, conversation>>
      PROVE  ItemCore'
  <2>1. x \in Items /\ Len(itemWire[x]) = 4
    BY <1>2, <1>8, WorkerItem
  <2>2. \A i \in Items : InOrder(itemWire[i])
    BY DEF ItemCore, ItemState
  <2>3. e \in NextEvents(Len(itemWire[x]))
    BY <1>8, <2>1 DEF NextEvents
  <2>4. /\ itemWire' \in [Items -> Seq(ItemEvents)]
        /\ \A i \in Items : i # x => itemWire'[i] = itemWire[i]
        /\ InOrder(itemWire'[x])
    BY <1>6, <1>8, <2>1, <2>2, <2>3, ItemSent
  <2>5. \A i \in Items : InOrder(itemWire'[i])
    BY <2>2, <2>4
  <2>6. Placed' /\ \A u \in Tasks : pc'[u] = IF u = t THEN l ELSE pc[u]
    BY <1>5, <1>8
  <2>7. conversation' \in Seq(Entry) /\ (\A i \in Items : Voiced(i)' => Voiced(i))
        /\ pc[t] # "none"
    BY <1>8, ConversationSame DEF Transcribing
  <2>8. Worked(t, l)
    BY <1>2, <1>8, <2>4, <2>5, <2>6, <2>7 DEF Worked
  <2> QED BY <2>8, WorkedKeeps
<1>9. CASE StoreSealed(t)
  <2>1. /\ Goto(t, "stt") /\ pc[t] = "store" /\ sealed' = sealed \cup {x} /\ UNCHANGED conversation
        /\ UNCHANGED <<vad, vitem, openItem, nextItem, laneItem, itemWire>>
    BY <1>2, <1>9 DEF StoreSealed, At, taskVars, vadLocals, laneLocals, wires
  <2> QED BY <1>7, <2>1 DEF Transcribing
<1>10. CASE Transcribed(t)
  <2>1. /\ Goto(t, "completed") /\ pc[t] = "stt" /\ sealed' = sealed
        /\ conversation' = WithStatus(y, "Completed") /\ "Completed" \in Statuses
        /\ UNCHANGED <<vad, vitem, openItem, nextItem, laneItem, itemWire>>
    BY <1>2, <1>3, <1>10 DEF Transcribed, At, taskVars, vadLocals, laneLocals, wires, Statuses
  <2> QED BY <1>7, <2>1 DEF Transcribing
<1>11. CASE TranscriptRejected(t)
  <2>1. /\ Goto(t, Finish(t)) /\ pc[t] = "stt" /\ sealed' = sealed \ {x} /\ UNCHANGED conversation
        /\ UNCHANGED <<vad, vitem, openItem, nextItem, laneItem, itemWire>>
    BY <1>2, <1>11 DEF TranscriptRejected, At, taskVars, vadLocals, laneLocals, wires
  <2> QED BY <1>7, <2>1 DEF Transcribing
<1>12. CASE TranscriptionFailed(t)
  <2>1. /\ Goto(t, "incomplete") /\ pc[t] = "stt" /\ SendItem(x, "failed")
        /\ UNCHANGED <<vad, vitem, openItem, nextItem, laneItem, sealed, conversation>>
    BY <1>2, <1>12 DEF TranscriptionFailed, At, stateVars, taskVars, vadLocals, laneLocals
  <2> QED BY <1>8, <2>1 DEF Transcribing
<1>13. CASE MarkIncomplete(t)
  <2>1. /\ Goto(t, Finish(t)) /\ pc[t] = "incomplete" /\ sealed' = sealed \ {x}
        /\ conversation' = WithStatus(y, "Incomplete") /\ "Incomplete" \in Statuses
        /\ UNCHANGED <<vad, vitem, openItem, nextItem, laneItem, itemWire>>
    BY <1>2, <1>3, <1>13 DEF MarkIncomplete, At, taskVars, vadLocals, laneLocals, wires, Statuses
  <2>2. Finish(t) \notin Transcribing
    BY <1>4 DEF Transcribing
  <2> QED BY <1>7, <2>1, <2>2
<1>14. CASE SendTranscriptionCompleted(t)
  <2>1. /\ Goto(t, "release") /\ pc[t] = "completed" /\ SendItem(x, "completed")
        /\ UNCHANGED <<vad, vitem, openItem, nextItem, laneItem, sealed, conversation>>
    BY <1>2, <1>14 DEF SendTranscriptionCompleted, At, stateVars, taskVars, vadLocals, laneLocals
  <2> QED BY <1>8, <2>1 DEF Transcribing
<1>15. CASE DropSealed(t)
  <2>1. PICK l \in {"announce", "end"} : Goto(t, l)
    BY <1>15 DEF DropSealed
  <2>2. /\ pc[t] = "release" /\ sealed' = sealed \ {x} /\ UNCHANGED conversation
        /\ UNCHANGED <<vad, vitem, openItem, nextItem, laneItem, itemWire>>
    BY <1>2, <1>15 DEF DropSealed, At, taskVars, vadLocals, laneLocals, wires
  <2> QED BY <1>7, <2>1, <2>2 DEF Transcribing
<1> QED BY <1>9, <1>10, <1>11, <1>12, <1>13, <1>14, <1>15 DEF UtteranceStep

(* The steps that touch no utterance.                                      *)
LEMMA DistantGoto ==
    ASSUME ItemCore, NEW t, t = ClientTask \/ (\E r \in Nat : t = Lane(r)),
           NEW l \in {"idle", "clear", "rollback", "retire", "announce", "created", "llm",
                      "gate", "delta", "closing", "fin", "end"}, Goto(t, l),
           UNCHANGED <<vitem, openItem, nextItem, laneItem, itemWire, sealed>>,
           vad' \in {vad, Silent},
           conversation' \in Seq(Entry), \A i \in Items : Voiced(i)' => Voiced(i)
    PROVE  ItemCore'
<1>1. Placed
  BY DEF ItemCore, ItemTypes
<1>2. Placed' /\ \A u \in Tasks : pc'[u] = IF u = t THEN l ELSE pc[u]
  BY <1>1, OneMoves DEF Goto
<1>3. l \notin Transcribing /\ l \notin {"speak", "started"}
  BY DEF Transcribing
<1>4. VadTask \in Tasks /\ ClientTask \in Tasks /\ t # VadTask
  BY TaskNames DEF Lane, VadTask
<1>5. \A i \in Items : /\ EouTask(i) \in Tasks /\ EouTask(i) # t
                       /\ Utterance(i) \in Tasks /\ Utterance(i) # t
                       /\ DelayTask(i) \in Tasks /\ DelayTask(i) # t
  BY TaskNames, NamesDiffer
<1>6. \A r \in Responses : Lane(r) \in Tasks
  BY TaskNames
<1>7. /\ pc'[VadTask] = pc[VadTask] /\ pc'[ClientTask] \in {pc[ClientTask], l}
      /\ \A i \in Items : /\ pc'[EouTask(i)] = pc[EouTask(i)]
                          /\ pc'[Utterance(i)] = pc[Utterance(i)]
                          /\ pc'[DelayTask(i)] = pc[DelayTask(i)]
      /\ \A r \in Responses : pc'[Lane(r)] \in {pc[Lane(r)], l}
  BY <1>2, <1>4, <1>5, <1>6
<1>8. Distant
  BY <1>2, <1>3, <1>7 DEF Distant, ItemCore, VadPlace
<1> QED BY <1>8, DistantKeeps

LEMMA LanesKeepItems ==
    ASSUME ItemCore, NEW r \in Responses, LaneStep(r)
    PROVE  ItemCore'
<1>1. r \in Nat
  BY SessionBounds DEF Responses
<1>2. CASE Announce(r)
  <2>1. /\ Goto(Lane(r), "created") \/ Goto(Lane(r), "fin")
        /\ UNCHANGED <<vad, conversation, vitem, openItem, nextItem, laneItem, itemWire, sealed>>
    BY <1>2 DEF Announce, stateVars, taskVars, vadLocals, laneLocals
  <2> QED BY <1>1, <2>1, DistantGoto, ConversationSame
<1>3. CASE SendCreated(r)
  <2>1. /\ Goto(Lane(r), "llm")
        /\ UNCHANGED <<vad, conversation, vitem, openItem, nextItem, laneItem, itemWire, sealed>>
    BY <1>3 DEF SendCreated, SendResp, stateVars, vadLocals
  <2> QED BY <1>1, <2>1, DistantGoto, ConversationSame
<1>4. CASE LlmDelta(r)
  <2>1. /\ Goto(Lane(r), "gate")
        /\ UNCHANGED <<vad, conversation, vitem, openItem, nextItem, laneItem, itemWire, sealed>>
    BY <1>4 DEF LlmDelta, wires, history, vadLocals
  <2> QED BY <1>1, <2>1, DistantGoto, ConversationSame
<1>5. CASE GateDelta(r)
  <2>1. /\ Goto(Lane(r), "llm") \/ Goto(Lane(r), "delta")
        /\ UNCHANGED <<vad, conversation, vitem, openItem, nextItem, laneItem, itemWire, sealed>>
    BY <1>5 DEF GateDelta, stateVars, taskVars, vadLocals, laneLocals, wires
  <2> QED BY <1>1, <2>1, DistantGoto, ConversationSame
<1>6. CASE SendDelta(r)
  <2>1. /\ Goto(Lane(r), "llm")
        /\ UNCHANGED <<vad, conversation, vitem, openItem, nextItem, laneItem, itemWire, sealed>>
    BY <1>6 DEF SendDelta, SendResp, stateVars, taskVars, vadLocals, laneLocals
  <2> QED BY <1>1, <2>1, DistantGoto, ConversationSame
<1>7. CASE \E ok \in BOOLEAN : CloseResponse(r, ok)
  <2>1. PICK ok \in BOOLEAN : CloseResponse(r, ok)
    BY <1>7
  <2>2. PICK e : e = [id |-> AssistantItem(r), status |-> "Completed"]
    OBVIOUS
  <2>3. /\ Goto(Lane(r), "closing") \/ Goto(Lane(r), "fin")
        /\ UNCHANGED <<vad, vitem, openItem, nextItem, laneItem, itemWire, sealed>>
        /\ UNCHANGED conversation \/ conversation' = Append(conversation, e)
    BY <2>1, <2>2 DEF CloseResponse, taskVars, vadLocals, laneLocals
  <2>4. e \in Entry /\ \A i \in Items : e.id # UserItem(i)
    <3>1. AssistantItem(r) \in EntryIds /\ "Completed" \in Statuses
      BY SessionBounds DEF EntryIds, Statuses, Responses
    <3>2. \A i \in Items : AssistantItem(r) # UserItem(i)
      BY DEF AssistantItem, UserItem
    <3> QED BY <2>2, <3>1, <3>2 DEF Entry
  <2>5. conversation' \in Seq(Entry) /\ \A i \in Items : Voiced(i)' => Voiced(i)
    <3>1. conversation \in Seq(Entry)
      BY DEF ItemCore, ItemTypes
    <3> QED BY <2>3, <2>4, <3>1, ConversationGrows, ConversationSame
  <2> QED BY <1>1, <2>3, <2>5, DistantGoto
<1>8. CASE SendDone(r)
  <2>1. /\ Goto(Lane(r), "fin")
        /\ UNCHANGED <<vad, conversation, vitem, openItem, nextItem, laneItem, itemWire, sealed>>
    BY <1>8 DEF SendDone, SendResp, stateVars, taskVars, vadLocals, laneLocals
  <2> QED BY <1>1, <2>1, DistantGoto, ConversationSame
<1>9. CASE ClearResponse(r)
  <2>1. /\ Goto(Lane(r), "end")
        /\ UNCHANGED <<vad, conversation, vitem, openItem, nextItem, laneItem, itemWire, sealed>>
    BY <1>9 DEF ClearResponse, taskVars, vadLocals, laneLocals, wires, history
  <2> QED BY <1>1, <2>1, DistantGoto, ConversationSame
<1> QED BY <1>2, <1>3, <1>4, <1>5, <1>6, <1>7, <1>8, <1>9 DEF LaneStep

LEMMA ClientKeepsItems ==
    ASSUME LaneInv, ItemCore, ClientStep
    PROVE  ItemCore'
<1>1. CASE ClientCreate
  <2>1. PICK d : d = nextResp + 1
    OBVIOUS
  <2>2. d \in Nat
    BY <2>1, KnownIds DEF LaneInv
  <2>3. /\ Goto(Lane(d), "announce")
        /\ UNCHANGED <<vad, conversation, vitem, openItem, nextItem, laneItem, itemWire, sealed>>
    BY <1>1, <2>1 DEF ClientCreate, Goto, wires, history, vadLocals, laneLocals
  <2> QED BY <2>2, <2>3, DistantGoto, ConversationSame
<1>2. CASE ClientCancel
  <2>1. /\ Goto(ClientTask, "rollback") \/ Goto(ClientTask, "retire")
        /\ UNCHANGED <<vad, conversation, vitem, openItem, nextItem, laneItem, itemWire, sealed>>
    BY <1>2 DEF ClientCancel, stateVars, vadLocals, laneLocals, wires
  <2> QED BY <2>1, DistantGoto, ConversationSame
<1>3. CASE ClientClear
  <2>1. /\ Goto(ClientTask, "clear")
        /\ UNCHANGED <<vad, conversation, vitem, openItem, nextItem, laneItem, itemWire, sealed>>
    BY <1>3 DEF ClientClear, stateVars, vadLocals, laneLocals, wires
  <2> QED BY <2>1, DistantGoto, ConversationSame
<1>4. CASE ClearInputBuffer
  <2>1. /\ Goto(ClientTask, "idle") /\ vad' = Silent
        /\ UNCHANGED <<conversation, vitem, openItem, nextItem, laneItem, itemWire, sealed>>
    BY <1>4 DEF ClearInputBuffer, vadLocals, laneLocals, wires, history
  <2> QED BY <2>1, DistantGoto, ConversationSame
<1>5. CASE ClientItem
  <2>1. PICK e : e = [id |-> TextItem, status |-> "Completed"]
    OBVIOUS
  <2>2. /\ UNCHANGED <<pc, vad, vitem, openItem, nextItem, laneItem, itemWire, sealed>>
        /\ \/ conversation' = Append(conversation, e)
           \/ \E k \in DOMAIN conversation :
                 conversation' = SubSeq(conversation, 1, k - 1)
                                   \o SubSeq(conversation, k + 1, Len(conversation))
    BY <1>5, <2>1 DEF ClientItem, vadLocals, laneLocals, wires
  <2>3. e \in Entry /\ \A i \in Items : e.id # UserItem(i)
    <3>1. TextItem = UserItem(0) /\ 0 \in 0..MaxItem /\ "Completed" \in Statuses
      BY SessionBounds DEF TextItem, UserItem, Statuses
    <3>2. TextItem \in EntryIds
      BY <3>1 DEF EntryIds
    <3>3. \A i \in Items : TextItem # UserItem(i)
      BY SessionBounds DEF TextItem, UserItem, Items
    <3> QED BY <2>1, <3>1, <3>2, <3>3 DEF Entry
  <2>4. conversation' \in Seq(Entry) /\ \A i \in Items : Voiced(i)' => Voiced(i)
    <3>1. conversation \in Seq(Entry)
      BY DEF ItemCore, ItemTypes
    <3> QED BY <2>2, <2>3, <3>1, ConversationGrows, EntryDeleted
  <2>5. Distant
    <3>1. Placed' /\ pc[ClientTask] \notin {"speak", "started"}
      BY <2>2 DEF ItemCore, ItemTypes, VadPlace, Placed
    <3> QED BY <2>2, <2>4, <3>1 DEF Distant
  <2> QED BY <2>5, DistantKeeps
<1> QED BY <1>1, <1>2, <1>3, <1>4, <1>5 DEF ClientStep

LEMMA TerminateKeepsItems ==
    ASSUME ItemCore, Terminate
    PROVE  ItemCore'
<1>1. /\ pc' = [t \in Tasks |-> IF pc[t] = "none" THEN "none" ELSE "end"]
      /\ UNCHANGED <<vad, conversation, vitem, openItem, nextItem, laneItem, itemWire, sealed>>
  BY DEF Terminate, stateVars, vadLocals, laneLocals, wires
<1>2. Placed' /\ \A t \in Tasks : pc'[t] = IF pc[t] = "none" THEN "none" ELSE "end"
  BY <1>1 DEF Placed
<1>3. /\ VadTask \in Tasks /\ ClientTask \in Tasks
      /\ \A i \in Items : EouTask(i) \in Tasks /\ Utterance(i) \in Tasks /\ DelayTask(i) \in Tasks
      /\ \A r \in Responses : Lane(r) \in Tasks
  BY TaskNames
<1>4. pc[VadTask] # "none"
  BY DEF ItemCore, VadPlace, Starting, Sealing, Rejecting, Committing, Turning
<1>5. "none" \notin Transcribing /\ "end" \notin Transcribing
  BY DEF Transcribing
<1>6. Distant
  BY <1>1, <1>2, <1>3, <1>4, <1>5, ConversationSame DEF Distant, ItemCore, VadPlace
<1> QED BY <1>6, DistantKeeps

(* The steps of a commit.                                                  *)
LEMMA CommitsGoto ==
    ASSUME ItemCore, NEW t \in Committers, NEW l, Goto(t, l),
           pc[t] \in Owning \ {"admit"}, l \in Owning \ {"admit"}, t = VadTask => l \in Committing,
           UNCHANGED <<vitem, openItem, nextItem, laneItem, itemWire, sealed>>,
           vad' \in {vad, Silent}, l \in Turning => pc[t] \in Turning \/ vad'.phase # "Stopped",
           conversation' \in Seq(Entry),
           \A i \in Items : i # ItemOf(t) => (Voiced(i)' => Voiced(i))
    PROVE  ItemCore'
<1>1. Placed /\ itemWire \in [Items -> Seq(ItemEvents)]
  BY DEF ItemCore, ItemTypes
<1>2. Placed' /\ \A u \in Tasks : pc'[u] = IF u = t THEN l ELSE pc[u]
  BY <1>1, OneMoves DEF Goto
<1>3. PICK j : j = ItemOf(t)
  OBVIOUS
<1>4. j \in Items /\ Len(itemWire[j]) = 2
  BY <1>3, Owned
<1>5. InOrder(itemWire[j])
  BY <1>4 DEF ItemCore, ItemState
<1>6. Commits(t, l)
  BY <1>1, <1>2, <1>3, <1>4, <1>5 DEF Commits
<1> QED BY <1>6, CommitsKeep

LEMMA DispatchKeepsItems ==
    ASSUME ItemCore, NEW i \in Items, DispatchStep(i)
    PROVE  ItemCore'
<1>1. EouTask(i) \in Committers /\ EouTask(i) # VadTask
  BY TaskNames
<1>2. PICK l \in {"eager", "delay", "commit"} :
         /\ Goto(EouTask(i), l) /\ pc[EouTask(i)] \in {"score", "eager", "delay"}
         /\ UNCHANGED <<vad, conversation, vitem, openItem, nextItem, laneItem, itemWire, sealed>>
  <2>1. CASE EouScored(i) \/ EagerScored(i) \/ PredictionRefused(i)
    BY <2>1 DEF EouScored, EagerScored, PredictionRefused, At, stateVars, taskVars, vadLocals,
       laneLocals, wires
  <2>2. CASE StartPredicted(i)
    BY <2>2 DEF StartPredicted, At, vadLocals, laneLocals, wires, history
  <2>3. CASE ClearCommitTimer(i)
    BY <2>3 DEF ClearCommitTimer, At, taskVars, vadLocals, laneLocals, wires, history
  <2> QED BY <2>1, <2>2, <2>3 DEF DispatchStep
<1>3. /\ l \in Owning \ {"admit"} /\ l \notin Turning
      /\ pc[EouTask(i)] \in Owning \ {"admit"}
  BY <1>2 DEF Owning, Committing, Turning
<1> QED BY <1>1, <1>2, <1>3, CommitsGoto, ConversationSame

LEMMA CommitKeepsItems ==
    ASSUME ItemCore, NEW t \in Committers, CommitStep(t)
    PROVE  ItemCore'
<1>1. CASE CommitItem(t)
  <2>1. PICK l \in {"await", "committed"} : Goto(t, l)
    BY <1>1 DEF CommitItem
  <2>2. PICK j, e : j = ItemOf(t) /\ e = [id |-> UserItem(ItemOf(t)), status |-> "InProgress"]
    OBVIOUS
  <2>3. /\ pc[t] = "commit" /\ vad' = (IF vad.phase = "Stopped" THEN Silent ELSE vad)
        /\ UNCHANGED <<vitem, openItem, nextItem, laneItem, itemWire, sealed>>
        /\ UNCHANGED conversation \/ conversation' = Append(conversation, e)
    BY <1>1, <2>2 DEF CommitItem, At, vadLocals, laneLocals, wires
  <2>4. pc[t] \in Owning \ {"admit"} /\ l \in Owning \ {"admit"} /\ l \in Committing
    BY <2>3 DEF Owning, Committing, Turning
  <2>5. j \in Items
    BY <2>2, <2>4, Owned
  <2>6. e \in Entry /\ \A i \in Items : e.id = UserItem(i) => i = j
    <3>1. UserItem(j) \in EntryIds /\ "InProgress" \in Statuses
      BY <2>5, SessionBounds DEF EntryIds, Statuses, Items
    <3>2. \A i \in Items : UserItem(j) = UserItem(i) => i = j
      BY DEF UserItem
    <3> QED BY <2>2, <3>1, <3>2 DEF Entry
  <2>7. conversation' \in Seq(Entry) /\ \A i \in Items : i # ItemOf(t) => (Voiced(i)' => Voiced(i))
    <3>1. conversation \in Seq(Entry)
      BY DEF ItemCore, ItemTypes
    <3>2. CASE UNCHANGED conversation
      BY <3>2, ConversationSame
    <3>3. CASE conversation' = Append(conversation, e)
      <4>1. /\ conversation' \in Seq(Entry)
            /\ \A i \in Items : Voiced(i)' => Voiced(i) \/ e.id = UserItem(i)
        BY <2>6, <3>1, <3>3, ConversationGrows
      <4> QED BY <2>2, <2>6, <4>1
    <3> QED BY <2>3, <3>2, <3>3
  <2>8. vad' \in {vad, Silent} /\ vad'.phase # "Stopped"
    BY <2>3 DEF Silent
  <2> QED BY <2>1, <2>3, <2>4, <2>7, <2>8, CommitsGoto
<1>2. CASE \E transcript, text \in BOOLEAN : AwaitPrediction(t, transcript, text)
  <2>1. /\ Goto(t, "committed") /\ pc[t] = "await"
        /\ UNCHANGED <<vad, conversation, vitem, openItem, nextItem, laneItem, itemWire, sealed>>
    BY <1>2 DEF AwaitPrediction, At, stateVars, vadLocals, laneLocals, wires
  <2>2. /\ "await" \in Owning \ {"admit"} /\ "committed" \in Owning \ {"admit"}
        /\ "await" \in Turning /\ "committed" \in Committing
    BY DEF Owning, Committing, Turning
  <2> QED BY <2>1, <2>2, CommitsGoto, ConversationSame
<1>3. CASE SendCommitted(t)
  <2>1. PICK j : j = ItemOf(t)
    OBVIOUS
  <2>2. /\ Goto(t, "admit") /\ pc[t] = "committed"
        /\ itemWire' = [itemWire EXCEPT ![j] = @ \o <<"committed", "added">>]
        /\ UNCHANGED <<vad, conversation, vitem, openItem, nextItem, laneItem, sealed>>
    BY <1>3, <2>1 DEF SendCommitted, At, stateVars, taskVars, vadLocals, laneLocals
  <2>3. /\ pc[t] \in Owning /\ pc[t] \in Turning /\ pc[t] # "admit"
        /\ "admit" \in Owning /\ "admit" \in Committing
    BY <2>2 DEF Owning, Committing, Turning
  <2>4. j \in Items /\ Len(itemWire[j]) = 2
    BY <2>1, <2>3, Owned
  <2>5. Placed /\ itemWire \in [Items -> Seq(ItemEvents)] /\ InOrder(itemWire[j])
    BY <2>4 DEF ItemCore, ItemTypes, ItemState
  <2>6. Placed' /\ \A u \in Tasks : pc'[u] = IF u = t THEN "admit" ELSE pc[u]
    BY <2>2, <2>5, OneMoves DEF Goto
  <2>7. PICK v : v = itemWire[j] \o <<"committed", "added">>
    OBVIOUS
  <2>8. v \in Seq(ItemEvents) /\ InOrder(v) /\ Len(v) = 4
    <3>1. PICK w \in Seq(ItemEvents) : w = itemWire[j]
      BY <2>4, <2>5
    <3> QED BY <2>4, <2>5, <2>7, <3>1, OrderCommits
  <2>9. itemWire' = [itemWire EXCEPT ![j] = v]
    BY <2>2, <2>7
  <2>10. itemWire' \in [Items -> Seq(ItemEvents)] /\ itemWire'[j] = v
         /\ \A i \in Items : i # j => itemWire'[i] = itemWire[i]
    BY <2>4, <2>5, <2>8, <2>9
  <2>11. Commits(t, "admit")
    BY <2>1, <2>2, <2>3, <2>6, <2>8, <2>10, ConversationSame DEF Commits
  <2> QED BY <2>11, CommitsKeep
<1>4. CASE AdmitTurn(t)
  BY <1>4, AdmitKeepsItems
<1> QED BY <1>1, <1>2, <1>3, <1>4 DEF CommitStep

-----------------------------------------------------------------------------
(* The detector's phase is that of the utterance its task has open.        *)

\* A step that keeps the phase of the open utterance, or leaves it.
LEMMA ListenKept ==
    ASSUME Listening, vad' \in {vad, Silent}, UNCHANGED <<vitem, openItem>>,
           \/ pc'[VadTask] = pc[VadTask]
           \/ pc'[VadTask] \notin {"idle", "started", "suppress", "stop"}
           \/ pc'[VadTask] = "idle" /\ (openItem = 0 \/ pc[VadTask] = "started")
           \/ pc'[VadTask] = "stop" /\ pc[VadTask] = "suppress"
    PROVE  Listening'
BY DEF Listening

(* The steps of the voice detector's task.                                 *)
LEMMA VadListens ==
    ASSUME ItemCore, Listening, VadStep
    PROVE  Listening'
<1>1. /\ Placed /\ VadTask \in Tasks /\ \A i \in Items : EouTask(i) # VadTask
      /\ \A i : DelayTask(i) # VadTask /\ EouTask(i) # VadTask
  BY TaskNames, NamesDiffer DEF ItemCore, ItemTypes
<1>2. pc[VadTask] \in Sealing \cup Rejecting => openItem = 0
  BY DEF ItemCore, VadPlace
<1> USE DEF Goto, At, Placed
<1>3. CASE SpeechStarted
  <2>1. pc'[VadTask] = "timer"
    BY <1>1, <1>3 DEF SpeechStarted
  <2> QED BY <2>1 DEF Listening
<1>4. CASE \E length \in {"short", "quick", "full"} : SpeechCommitted(length)
  <2>1. /\ pc[VadTask] = "idle" /\ pc'[VadTask] = "suppress" /\ vad' = vad
        /\ openItem # 0 /\ vitem' = openItem
    BY <1>1, <1>4 DEF SpeechCommitted, VadHears, Open, stateVars
  <2> QED BY <2>1 DEF Listening
<1>5. CASE CancelCommitTimer \/ DecideBargeIn \/ SendSpeechStopped
  <2>1. UNCHANGED <<vad, vitem, openItem>>
    BY <1>5 DEF CancelCommitTimer, DecideBargeIn, SendSpeechStopped, stateVars, taskVars, vadLocals
  <2>2. CASE CancelCommitTimer
    BY <1>1, <2>1, <2>2, ListenKept DEF CancelCommitTimer
  <2>3. CASE DecideBargeIn
    <3>1. \/ pc' = [pc EXCEPT ![DelayTask(vitem)] = "sleep", ![VadTask] = "set-pending"]
          \/ pc' = [pc EXCEPT ![VadTask] = "retire"]
      BY <2>3 DEF DecideBargeIn
    <3> QED BY <1>1, <2>1, <3>1, ListenKept
  <2>4. CASE SendSpeechStopped
    <3>1. \/ pc' = [pc EXCEPT ![VadTask] = "reject"]
          \/ pc' = [pc EXCEPT ![EouTask(vitem)] = "score", ![VadTask] = "install"]
          \/ pc' = [pc EXCEPT ![VadTask] = "commit"]
      BY <2>4 DEF SendSpeechStopped
    <3> QED BY <1>1, <2>1, <3>1, ListenKept
  <2> QED BY <1>5, <2>2, <2>3, <2>4
<1>6. CASE SetPendingBargein
  BY <1>6 DEF SetPendingBargein, ItemCore, VadPlace, Starting, Sealing, Rejecting, Committing, Turning
<1>7. CASE SuppressBargein
  <2>1. /\ UNCHANGED <<vad, vitem, openItem>> /\ pc[VadTask] = "suppress"
        /\ pc'[VadTask] \in {"idle", "stop"}
    BY <1>1, <1>7 DEF SuppressBargein, vadLocals
  <2> QED BY <1>2, <2>1, ListenKept DEF Sealing
<1>8. CASE VadStops
  <2>1. pc'[VadTask] = "stopped"
    BY <1>1, <1>8 DEF VadStops
  <2> QED BY <2>1 DEF Listening
<1>9. CASE RejectShort \/ InstallCommitTimer
  <2>1. /\ UNCHANGED <<vitem, openItem>> /\ vad' \in {vad, Silent}
        /\ pc[VadTask] \in {"reject", "install"} /\ pc'[VadTask] = "idle"
    BY <1>1, <1>9 DEF RejectShort, InstallCommitTimer, taskVars, vadLocals
  <2> QED BY <1>2, <2>1, ListenKept DEF Rejecting
<1> QED BY <1>3, <1>4, <1>5, <1>6, <1>7, <1>8, <1>9 DEF VadStep

(* The steps of a cancellation: only the detector's task announces speech. *)
LEMMA CancelListens ==
    ASSUME ItemCore, Listening, NEW t \in Cancellers, CancelStep(t)
    PROVE  Listening'
<1>1. Placed /\ VadTask \in Tasks
  BY TaskNames DEF ItemCore, ItemTypes
<1> USE DEF Goto, At, Placed
<1>2. t \in {VadTask, ClientTask}
  <2>1. pc[t] \notin {"none", "end"}
    BY DEF CancelStep, RollbackPredicted, RetireResponse, ReadWireOpened, GateCancelled, SendCancelled,
           TruncateAssistant, VadSpeaks, SendSpeechStarted
  <2>2. \A i \in Items : t # DelayTask(i)
    BY <2>1 DEF ItemCore, VadPlace
  <2> QED BY <2>2 DEF Cancellers, Delays
<1>3. CASE VadSpeaks(t)
  <2>1. t = VadTask
    BY <1>2, <1>3 DEF VadSpeaks, ItemCore, VadPlace
  <2>2. /\ pc[VadTask] = "speak" /\ pc'[VadTask] = "started" /\ vad' = Speaking(vitem)
        /\ UNCHANGED <<vitem, openItem>>
    BY <1>1, <1>3, <2>1, ItemOfTask DEF VadSpeaks, taskVars, vadLocals
  <2>3. openItem = vitem
    BY <2>2 DEF ItemCore, VadPlace, Starting
  <2> QED BY <2>2, <2>3 DEF Listening
<1>4. CASE SendSpeechStarted(t)
  <2>1. t = VadTask
    BY <1>2, <1>4 DEF SendSpeechStarted, ItemCore, VadPlace
  <2>2. /\ pc[VadTask] = "started" /\ pc'[VadTask] = "idle" /\ UNCHANGED <<vad, vitem, openItem>>
    BY <1>1, <1>4, <2>1 DEF SendSpeechStarted, Rest, stateVars, taskVars, vadLocals
  <2> QED BY <2>2, ListenKept
<1>5. CASE ~VadSpeaks(t) /\ ~SendSpeechStarted(t)
  <2>1. UNCHANGED <<vad, vitem, openItem>>
    BY <1>5 DEF CancelStep, RollbackPredicted, RetireResponse, ReadWireOpened, GateCancelled,
       SendCancelled, TruncateAssistant, stateVars, taskVars, vadLocals
  <2>2. \E l : /\ pc' = [pc EXCEPT ![t] = l]
               /\ t = VadTask => l \notin {"idle", "started", "suppress", "stop"}
    <3>1. VadTask # ClientTask
      BY TaskNames
    <3> QED BY <1>5, <3>1 DEF CancelStep, RollbackPredicted, RetireResponse, ReadWireOpened,
               GateCancelled, SendCancelled, TruncateAssistant, AfterCancel
  <2>3. \/ pc'[VadTask] = pc[VadTask]
        \/ pc'[VadTask] \notin {"idle", "started", "suppress", "stop"}
    BY <1>1, <2>2
  <2> QED BY <2>1, <2>3, ListenKept
<1> QED BY <1>3, <1>4, <1>5

(* Every step keeps it.                                                    *)
LEMMA ListenNext ==
    ASSUME ItemCore, Listening, [Next]_vars
    PROVE  Listening'
<1>1. Placed /\ VadTask \in Tasks
  BY TaskNames DEF ItemCore, ItemTypes
<1>2. \A l, t : t # VadTask /\ pc' = [pc EXCEPT ![t] = l] => pc'[VadTask] = pc[VadTask]
  BY <1>1 DEF Placed
<1>3. CASE VadStep
  BY <1>3, VadListens
<1>4. ASSUME NEW t \in Cancellers, CancelStep(t) PROVE Listening'
  BY <1>4, CancelListens
<1>5. ASSUME NEW i \in Items, DelayElapsed(i) \/ DispatchStep(i) PROVE Listening'
  <2>1. UNCHANGED <<vad, vitem, openItem>>
    BY <1>5 DEF DispatchStep, DelayElapsed, EouScored, EagerScored, StartPredicted,
       PredictionRefused, ClearCommitTimer, stateVars, taskVars, vadLocals
  <2>2. \E l, t : t \in {DelayTask(i), EouTask(i)} /\ pc' = [pc EXCEPT ![t] = l]
    BY <1>5 DEF DispatchStep, DelayElapsed, EouScored, EagerScored, StartPredicted,
       PredictionRefused, ClearCommitTimer, Goto
  <2> QED BY <1>2, <2>1, <2>2, NamesDiffer, ListenKept
<1>6. ASSUME NEW t \in Committers, CommitStep(t) PROVE Listening'
  <2>1. UNCHANGED <<vitem, openItem>> /\ vad' \in {vad, Silent}
    BY <1>6 DEF CommitStep, CommitItem, AwaitPrediction, SendCommitted, AdmitTurn, stateVars,
       taskVars, vadLocals
  <2>2. CASE AdmitTurn(t)
    <3>1. PICK u : /\ pc' = [pc EXCEPT ![u] = "store", ![t] = Rest(t)]
                   /\ \E x : u = Lane(x) \/ u = Utterance(x)
      BY <2>2 DEF AdmitTurn
    <3>2. u # VadTask
      BY <3>1, TaskNames, NamesDiffer DEF Lane, VadTask
    <3>3. CASE t = VadTask
      <4>1. pc[VadTask] \in Committing /\ pc'[VadTask] = "idle"
        BY <1>1, <2>2, <3>1, <3>2, <3>3 DEF AdmitTurn, At, Committing, Turning, Rest, Placed
      <4>2. openItem = 0
        BY <4>1 DEF ItemCore, VadPlace
      <4> QED BY <2>1, <4>1, <4>2, ListenKept
    <3>4. CASE t # VadTask
      BY <1>1, <2>1, <3>1, <3>2, <3>4, ListenKept DEF Placed
    <3> QED BY <3>3, <3>4
  <2>3. CASE ~AdmitTurn(t)
    <3>1. \E l \in {"await", "committed", "admit"} : pc' = [pc EXCEPT ![t] = l]
      BY <1>6, <2>3 DEF CommitStep, CommitItem, AwaitPrediction, SendCommitted, Goto
    <3>2. pc'[VadTask] = pc[VadTask] \/ pc'[VadTask] \in {"await", "committed", "admit"}
      BY <1>1, <3>1 DEF Placed
    <3> QED BY <2>1, <3>2, ListenKept
  <2> QED BY <2>2, <2>3
<1>7. ASSUME NEW t \in Workers, UtteranceStep(t) PROVE Listening'
  <2>1. UNCHANGED <<vad, vitem, openItem>>
    BY <1>7 DEF UtteranceStep, StoreSealed, Transcribed, TranscriptRejected, TranscriptionFailed,
       MarkIncomplete, SendTranscriptionCompleted, DropSealed, stateVars, taskVars, vadLocals
  <2>2. \E l : pc' = [pc EXCEPT ![t] = l]
    BY <1>7 DEF UtteranceStep, StoreSealed, Transcribed, TranscriptRejected, TranscriptionFailed,
       MarkIncomplete, SendTranscriptionCompleted, DropSealed, Goto
  <2>3. t # VadTask
    BY TaskNames
  <2> QED BY <1>2, <2>1, <2>2, <2>3, ListenKept
<1>8. ASSUME NEW r \in Responses, LaneStep(r) PROVE Listening'
  <2>1. UNCHANGED <<vad, vitem, openItem>>
    BY <1>8 DEF LaneStep, Announce, SendCreated, LlmDelta, GateDelta, SendDelta, CloseResponse,
       SendDone, ClearResponse, stateVars, taskVars, vadLocals
  <2>2. \E l : pc' = [pc EXCEPT ![Lane(r)] = l]
    BY <1>8 DEF LaneStep, Announce, SendCreated, LlmDelta, GateDelta, SendDelta, CloseResponse,
       SendDone, ClearResponse, Goto
  <2> QED BY <1>2, <2>1, <2>2, ListenKept DEF Lane, VadTask
<1>9. CASE ClientStep
  <2>1. UNCHANGED <<vitem, openItem>> /\ vad' \in {vad, Silent}
    BY <1>9 DEF ClientStep, ClientCreate, ClientCancel, ClientClear, ClearInputBuffer, ClientItem,
       stateVars, vadLocals
  <2>2. \/ pc' = pc
        \/ \E l : pc' = [pc EXCEPT ![ClientTask] = l]
        \/ \E r : pc' = [pc EXCEPT ![Lane(r)] = "announce"]
    BY <1>9 DEF ClientStep, ClientCreate, ClientCancel, ClientClear, ClearInputBuffer, ClientItem, Goto
  <2> QED BY <1>2, <2>1, <2>2, ListenKept DEF Lane, VadTask, ClientTask
<1>10. CASE Terminate
  <2>1. UNCHANGED <<vad, vitem, openItem>> /\ pc'[VadTask] \in {"none", "end"}
    BY <1>1, <1>10 DEF Terminate, stateVars, vadLocals
  <2> QED BY <2>1, ListenKept
<1>11. CASE UNCHANGED vars
  BY <1>11, ListenKept DEF vars, stateVars, taskVars, vadLocals
<1> QED BY <1>3, <1>4, <1>5, <1>6, <1>7, <1>8, <1>9, <1>10, <1>11 DEF Next

-----------------------------------------------------------------------------
(* A step leaves the configuration alone, and reports nothing that         *)
(* check_state does not find after it.                                     *)
Reports == UNCHANGED config /\ (UNCHANGED violations \/ CheckOrReact)

LEMMA StepReports == [Next]_vars => Reports
<1> SUFFICES ASSUME [Next]_vars PROVE Reports
  OBVIOUS
<1>1. CASE VadStep
  BY <1>1 DEF Reports, VadStep, SpeechStarted, SpeechCommitted, VadHears, CancelCommitTimer, DecideBargeIn,
     SetPendingBargein, SuppressBargein, VadStops, SendSpeechStopped, RejectShort,
     InstallCommitTimer, stateVars, taskVars
<1>2. ASSUME NEW t, CancelStep(t) PROVE Reports
  BY <1>2 DEF Reports, CancelStep, RollbackPredicted, RetireResponse, ReadWireOpened, GateCancelled,
     SendCancelled, TruncateAssistant, VadSpeaks, SendSpeechStarted, stateVars, taskVars
<1>3. ASSUME NEW i, DelayElapsed(i) \/ DispatchStep(i) PROVE Reports
  BY <1>3 DEF Reports, DelayElapsed, DispatchStep, EouScored, EagerScored, StartPredicted,
     PredictionRefused, ClearCommitTimer, stateVars, taskVars
<1>4. ASSUME NEW t, CommitStep(t) PROVE Reports
  BY <1>4 DEF Reports, CommitStep, CommitItem, AwaitPrediction, SendCommitted, AdmitTurn,
     stateVars, taskVars
<1>5. ASSUME NEW t, UtteranceStep(t) PROVE Reports
  BY <1>5 DEF Reports, UtteranceStep, StoreSealed, Transcribed, TranscriptRejected, TranscriptionFailed,
     MarkIncomplete, SendTranscriptionCompleted, DropSealed, stateVars, taskVars
<1>6. ASSUME NEW r, LaneStep(r) PROVE Reports
  BY <1>6 DEF Reports, LaneStep, Announce, SendCreated, LlmDelta, GateDelta, SendDelta, CloseResponse,
     SendDone, ClearResponse, stateVars, taskVars
<1>7. CASE ClientStep \/ Terminate \/ UNCHANGED vars
  BY <1>7 DEF Reports, ClientStep, ClientCreate, ClientCancel, ClientClear, ClearInputBuffer, ClientItem,
     Terminate, vars, stateVars, taskVars
<1> QED BY <1>1, <1>2, <1>3, <1>4, <1>5, <1>6, <1>7 DEF Next

LEMMA CoreNext ==
    ASSUME LaneInv, ItemCore, Listening, ~config.delay, [Next]_vars
    PROVE  ItemCore'
<1>1. CASE VadStep
  BY <1>1, VadKeepsItems
<1>2. ASSUME NEW t \in Cancellers, CancelStep(t) PROVE ItemCore'
  BY <1>2, CancelKeepsItems
<1>3. ASSUME NEW i \in Items, DelayElapsed(i) \/ DispatchStep(i) PROVE ItemCore'
  <2>1. ~DelayElapsed(i)
    BY DEF DelayElapsed, At, ItemCore, VadPlace
  <2> QED BY <1>3, <2>1, DispatchKeepsItems
<1>4. ASSUME NEW t \in Committers, CommitStep(t) PROVE ItemCore'
  BY <1>4, CommitKeepsItems
<1>5. ASSUME NEW t \in Workers, UtteranceStep(t) PROVE ItemCore'
  BY <1>5, WorkKeepsItems
<1>6. ASSUME NEW r \in Responses, LaneStep(r) PROVE ItemCore'
  BY <1>6, LanesKeepItems
<1>7. CASE ClientStep
  BY <1>7, ClientKeepsItems
<1>8. CASE Terminate
  BY <1>8, TerminateKeepsItems
<1>9. CASE UNCHANGED vars
  <2>1. /\ Placed' /\ pc' = pc
        /\ UNCHANGED <<vad, conversation, vitem, openItem, nextItem, laneItem, itemWire, sealed>>
    BY <1>9 DEF vars, stateVars, taskVars, vadLocals, laneLocals, wires, Placed, ItemCore, ItemTypes
  <2>2. Distant
    BY <2>1, ConversationSame DEF Distant, ItemCore, VadPlace
  <2> QED BY <2>2, DistantKeeps
<1> QED BY <1>1, <1>2, <1>3, <1>4, <1>5, <1>6, <1>7, <1>8, <1>9 DEF Next

LEMMA CoreRaces == LaneInv /\ ItemCore => CheckState \subseteq {"SpeakingWithActiveResponse"}
<1> SUFFICES ASSUME LaneInv, ItemCore PROVE CheckState \subseteq {"SpeakingWithActiveResponse"}
  OBVIOUS
<1>1. /\ SessionTypes /\ RuntimeMatchesPhase /\ vad \in TimelyPhases
      /\ \A i \in Items : vad = Speaking(i) => ~Voiced(i)
      /\ \A i \in Items : vad = Stopped(i) => i \notin sealed
  BY DEF LaneInv, ItemCore, ItemTypes, ItemState, Unstopped, Unanswered
<1> QED BY <1>1, OnlyRaces

(* Every step keeps the utterances in order.                               *)
LEMMA ItemNext == LaneInv /\ LaneInv' /\ ItemInv /\ [Next]_vars => ItemInv'
<1> SUFFICES ASSUME LaneInv, LaneInv', ItemInv, [Next]_vars, ~config'.delay
             PROVE  UtteranceInv'
  BY DEF ItemInv
<1>1. Reports
  BY StepReports
<1>2. ~config.delay /\ UtteranceInv
  BY <1>1 DEF Reports, ItemInv
<1>3. ItemCore' /\ Listening'
  BY <1>2, CoreNext, ListenNext DEF UtteranceInv
<1>4. (LaneInv /\ ItemCore => CheckState \subseteq {"SpeakingWithActiveResponse"})'
  BY CoreRaces, PTL
<1>5. violations' \subseteq {"SpeakingWithActiveResponse"}
  <2>1. CheckState' \subseteq {"SpeakingWithActiveResponse"}
    BY <1>3, <1>4
  <2> QED BY <1>1, <1>2, <2>1 DEF Reports, CheckOrReact, UtteranceInv
<1> QED BY <1>3, <1>5 DEF UtteranceInv

LEMMA ItemInit == Init => ItemInv
<1> SUFFICES ASSUME Init PROVE UtteranceInv
  BY DEF ItemInv
<1>1. /\ vad = Silent /\ conversation = <<>> /\ sealed = {} /\ violations = {}
      /\ pc = [t \in Tasks |-> IF t \in {VadTask, ClientTask} THEN "idle" ELSE "none"]
      /\ vitem = 0 /\ openItem = 0 /\ nextItem = 0
      /\ laneItem = [r \in Responses |-> 0] /\ itemWire = [i \in Items |-> <<>>]
  BY DEF Init, StateInit
<1>2. /\ pc[VadTask] = "idle" /\ pc[ClientTask] = "idle" /\ Placed
      /\ \A i \in Items : /\ pc[EouTask(i)] = "none" /\ pc[Utterance(i)] = "none"
                          /\ pc[DelayTask(i)] = "none"
      /\ \A r \in Responses : pc[Lane(r)] = "none"
  BY <1>1, TaskNames, NamesDiffer DEF Placed
<1>3. ItemTypes
  <2>1. 0 \in 0..MaxItem
    BY SessionBounds
  <2>2. Silent \in TimelyPhases
    BY DEF TimelyPhases
  <2>3. itemWire \in [Items -> Seq(ItemEvents)] /\ conversation \in Seq(Entry)
    BY <1>1
  <2> QED BY <1>1, <1>2, <2>1, <2>2, <2>3 DEF ItemTypes
<1>4. VadPlace
  <2>1. "idle" \notin {"stopped"} \cup Starting \cup Sealing \cup Rejecting \cup Committing
    BY DEF Starting, Sealing, Rejecting, Committing, Turning
  <2> QED BY <1>1, <1>2, <2>1 DEF VadPlace
<1>5. ASSUME NEW i \in Items PROVE ItemState(i)
  <2>1. "none" \notin Transcribing \cup Committing \cup Turning \cup {"score", "eager", "delay"}
        /\ "idle" \notin Starting \cup Sealing \cup Committing
    BY DEF Starting, Sealing, Committing, Turning, Transcribing
  <2>2. i # 0 /\ Len(itemWire[i]) = 0
    BY <1>1 DEF Items
  <2>3. ~Voiced(i)
    BY <1>1 DEF Voiced
  <2>4. Unanswered(i)
    BY <1>1, <1>2, <2>2 DEF Unanswered
  <2>5. Unstopped(i)
    BY <1>2, <2>3, <2>4 DEF Unstopped
  <2>6. InOrder(itemWire[i])
    BY <2>2 DEF InOrder
  <2>7. vad # Speaking(i) /\ vad # Stopped(i)
    BY <1>1 DEF Silent, Speaking, Stopped
  <2> QED BY <1>1, <1>2, <2>1, <2>2, <2>4, <2>5, <2>6, <2>7 DEF ItemState
<1>6. \A r \in Responses : pc[Lane(r)] \notin Transcribing
  BY <1>2 DEF Transcribing
<1>7. Listening
  BY <1>1, <1>2 DEF Listening
<1> QED BY <1>1, <1>3, <1>4, <1>5, <1>6, <1>7 DEF UtteranceInv, ItemCore

(* In every reachable state of a session without a barge-in delay each     *)
(* utterance has one worker, and its events and the detector's phase agree *)
(* with how far that worker is.                                            *)
THEOREM ItemInvariant == Spec => []ItemInv
BY ItemInit, ItemNext, LaneInvariant, PTL DEF Spec

(* handle_vad_event, run_eou_dispatch, commit_after_eou and                *)
(* process_utterance: without a barge-in delay the events of an utterance  *)
(* reach the client in order, whoever of the four sends them.              *)
THEOREM ItemsCorrect == Spec => []ItemOrder
<1>1. ItemInv => ItemOrder
  <2> SUFFICES ASSUME UtteranceInv, NEW i \in Items, NEW k \in DOMAIN itemWire[i]
               PROVE  itemWire[i][k] \in <<{"started"}, {"stopped"}, {"committed"}, {"added"},
                                           {"completed", "failed"}>>[k]
    BY DEF ItemInv, ItemOrder
  <2>1. PICK w \in Seq(ItemEvents) : w = itemWire[i] /\ InOrder(w)
    BY DEF UtteranceInv, ItemCore, ItemTypes, ItemState
  <2>2. k \in 1..Len(w) /\ Len(w) <= 5 /\ Len(w) \in Nat
    BY <2>1 DEF InOrder
  <2>3. k \in {1, 2, 3, 4, 5}
    BY <2>2
  <2>4. CASE k = 1
    BY <2>1, <2>2, <2>4 DEF InOrder
  <2>5. CASE k = 2
    BY <2>1, <2>2, <2>5 DEF InOrder
  <2>6. CASE k = 3
    BY <2>1, <2>2, <2>6 DEF InOrder
  <2>7. CASE k = 4
    BY <2>1, <2>2, <2>7 DEF InOrder
  <2>8. CASE k = 5
    BY <2>1, <2>2, <2>8 DEF InOrder
  <2> QED BY <2>3, <2>4, <2>5, <2>6, <2>7, <2>8
<1> QED BY <1>1, ItemInvariant, PTL

(* state.rs check_state: without a barge-in delay the only violation a     *)
(* session can meet is new speech while a response has the slot.           *)
THEOREM RacesCorrect == Spec => []OnlyBargeInRaces
<1>1. ItemInv => OnlyBargeInRaces
  BY DEF ItemInv, UtteranceInv, OnlyBargeInRaces
<1> QED BY <1>1, ItemInvariant, PTL
=============================================================================
