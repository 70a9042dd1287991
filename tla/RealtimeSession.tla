--------------------------- MODULE RealtimeSession ---------------------------
(***************************************************************************)
(* The tasks of one realtime voice session (rust/src/realtime/session.rs,  *)
(* pipeline.rs, eou_eager.rs): the voice-detector task, the task that      *)
(* reads client events, the delayed barge-in, the end-of-utterance         *)
(* dispatch, and the utterances and response lanes they spawn.             *)
(*                                                                         *)
(* A step of a task runs from one await to the next: a critical section of *)
(* the `state` mutex, or a send, which takes the `outbound_send` mutex.    *)
(* Tasks are aborted through their handle.  An abort takes effect at the   *)
(* task's next await that has to wait: a task asleep on a timer or on a    *)
(* model never runs again, one that is running may run on until then.      *)
(***************************************************************************)
EXTENDS SessionState, FiniteSets

CONSTANTS
    Configs,        \* how sessions are set up, see `config'
    MaxOps,         \* bound: client events handled
    MaxDeltas       \* bound: transcript deltas of one response

ASSUME SessionOptions ==
    /\ Configs \subseteq [delay : BOOLEAN, eou : BOOLEAN, eager : BOOLEAN]
    /\ MaxOps \in Nat /\ MaxDeltas \in Nat \ {0}

VARIABLES
    session,        \* SessionPhase: "Active" or "Terminated"
    config,         \* a barge-in delay, an end-of-utterance classifier, eager dispatch
    pc,             \* where each task is
    aborted,        \* the tasks whose handle was aborted
    vitem,          \* the item of the event the voice detector's task handles
    openItem,       \* the item of the utterance its processor has open, or 0
    nextItem,       \* the last user item id drawn
    nextResp,       \* the last response id drawn
    clearEpoch,     \* input_clear_epoch
    seenEpoch,      \* the epoch the voice detector's task last saw
    snap,           \* task -> the response it is cancelling: [id, lane]
    turn,           \* task -> the prediction commit_after_eou took: [id, text]
    heard,          \* item -> its length: "short", "quick" (a backchannel) or "full"
    laneItem,       \* response -> the utterance its lane transcribes, or 0
    cached,         \* the items whose transcript the prediction supplied
    heardBy,        \* history: response -> the utterance it was predicted from, or 0
    wireOpened,     \* the responses whose lane set wire_opened
    deltas,         \* response -> deltas produced
    outLock,        \* outbound_send across several sends: the lane's id, or 0
    wire,           \* response -> its events on the wire
    itemWire,       \* item -> its events on the wire
    ops             \* client events handled

(* Groups of variables that change together.                               *)
slot == <<resp, current>>
handles == <<commitTimer, pending, bargeinTask>>
history == <<conversation, sealed>>
vadLocals == <<vitem, openItem, nextItem, seenEpoch, heard>>
turnLocals == <<turn, cached, heardBy>>
laneLocals == <<laneItem, deltas, wireOpened>>
clientLocals == <<clearEpoch, ops>>
taskVars == <<session, config, aborted, nextResp, snap, vadLocals, turnLocals, laneLocals, clientLocals>>
wires == <<outLock, wire, itemWire>>
vars == <<stateVars, taskVars, pc, wires>>

VadTask == <<"vad", 0>>
ClientTask == <<"client", 0>>
DelayTask(i) == <<"delay", i>>
EouTask(i) == <<"eou", i>>
Utterance(i) == <<"utterance", i>>
Lane(r) == <<"lane", r>>

Delays == {DelayTask(i) : i \in Items}
Dispatches == {EouTask(i) : i \in Items}
Lanes == {Lane(r) : r \in Responses}
Utterances == {Utterance(i) : i \in Items}
Tasks == {VadTask, ClientTask} \cup Delays \cup Dispatches \cup Lanes \cup Utterances

NoSnap == [id |-> 0, lane |-> 0]
NoTurn == [id |-> 0, text |-> FALSE]

(* The utterance a task works for.                                         *)
ItemOf(t) == CASE t = VadTask -> vitem
               [] t = ClientTask -> 0
               [] t \in Lanes -> laneItem[t[2]]
               [] OTHER -> t[2]

(* Where a task waits for a timer, a model or another task: the places at  *)
(* which an abort stops it for good.                                       *)
Waits(t) == \/ pc[t] \in {"sleep", "score", "delay", "await", "llm"}
            \/ pc[t] = "stt" /\ ItemOf(t) \notin cached

At(t, label) == pc[t] = label /\ ~(t \in aborted /\ Waits(t))

Goto(t, label) == pc' = [pc EXCEPT ![t] = label]

(* Aborting the task a handle of the session names.                        *)
AbortCommitTimer ==
    aborted' = aborted \cup {EouTask(i) : i \in {commitTimer} \ {0}}
AbortBargeinTask ==
    aborted' = aborted \cup {DelayTask(i) : i \in {bargeinTask} \ {0}}

(* Where a task goes when its event or its job is done.                    *)
Rest(t) == IF t \in {VadTask, ClientTask} THEN "idle" ELSE "end"

(* A send takes and gives back outbound_send within the step.              *)
SendItem(i, event) ==
    /\ outLock = 0
    /\ itemWire' = [itemWire EXCEPT ![i] = Append(@, event)]
    /\ UNCHANGED <<outLock, wire>>

SendResp(r, event) == wire' = [wire EXCEPT ![r] = Append(@, event)] /\ UNCHANGED itemWire

-----------------------------------------------------------------------------
Init ==
    /\ StateInit
    /\ session = "Active"
    /\ config \in Configs
    /\ pc = [t \in Tasks |-> IF t \in {VadTask, ClientTask} THEN "idle" ELSE "none"]
    /\ aborted = {}
    /\ vitem = 0 /\ openItem = 0 /\ nextItem = 0 /\ nextResp = 0
    /\ clearEpoch = 0 /\ seenEpoch = 0
    /\ snap = [t \in Tasks |-> NoSnap]
    /\ turn = [t \in Tasks |-> NoTurn]
    /\ heard = [i \in Items |-> "full"]
    /\ laneItem = [r \in Responses |-> 0]
    /\ cached = {}
    /\ heardBy = [r \in Responses |-> 0]
    /\ wireOpened = {}
    /\ deltas = [r \in Responses |-> 0]
    /\ outLock = 0
    /\ wire = [r \in Responses |-> <<>>]
    /\ itemWire = [i \in Items |-> <<>>]
    /\ ops = 0

-----------------------------------------------------------------------------
(* The voice-detector task: spawn_vad_task and handle_vad_event.           *)

(* A message arrives.  A clear seen for the first time makes a new         *)
(* processor, which has nothing open.                                      *)
Open == IF clearEpoch # seenEpoch THEN 0 ELSE openItem

VadHears ==
    /\ pc[VadTask] = "idle"
    /\ seenEpoch' = clearEpoch
    /\ UNCHANGED <<session, config, aborted, nextResp, snap, stateVars, wires,
                   turnLocals, laneLocals, clientLocals>>

SpeechStarted ==
    /\ VadHears
    /\ Open = 0 /\ nextItem < MaxItem
    /\ nextItem' = nextItem + 1
    /\ openItem' = nextItem'
    /\ vitem' = nextItem'
    /\ Goto(VadTask, "timer")
    /\ UNCHANGED heard

(* The utterance is sealed by silence, by its length or by the client's    *)
(* commit; it may be too short to count, or too short to be answered.      *)
SpeechCommitted(length) ==
    /\ VadHears
    /\ Open # 0
    /\ vitem' = Open
    /\ openItem' = 0
    /\ heard' = [heard EXCEPT ![Open] = length]
    /\ Goto(VadTask, "suppress")
    /\ UNCHANGED nextItem


(* cancel_commit_timer                                                     *)
CancelCommitTimer ==
    /\ At(VadTask, "timer")
    /\ commitTimer' = 0
    /\ AbortCommitTimer
    /\ Goto(VadTask, "rollback")
    /\ UNCHANGED <<vad, pending, bargeinTask, violations, session, config, nextResp,
                   snap, wires, slot, history, vadLocals, turnLocals,
                   laneLocals, clientLocals>>

(* rollback_predicted_if_any, for new speech and for response.cancel       *)
RollbackPredicted(t) ==
    /\ t \in {VadTask, ClientTask} /\ At(t, "rollback")
    /\ RespRetirePredicted
    /\ Goto(t, IF t = VadTask THEN "decide" ELSE "idle")
    /\ UNCHANGED <<vad, current, violations, taskVars, wires, handles, history>>

(* With a response active and a delay configured the delay task is spawned *)
(* first and recorded in the next step.                                    *)
DecideBargeIn ==
    /\ At(VadTask, "decide")
    /\ pc' = IF current # 0 /\ config.delay
             THEN [pc EXCEPT ![DelayTask(vitem)] = "sleep", ![VadTask] = "set-pending"]
             ELSE [pc EXCEPT ![VadTask] = "retire"]
    /\ UNCHANGED <<stateVars, taskVars, wires>>

SetPendingBargein ==
    /\ At(VadTask, "set-pending")
    /\ pending' = vitem
    /\ bargeinTask' = vitem
    /\ AbortBargeinTask
    /\ Goto(VadTask, "idle")
    /\ UNCHANGED <<vad, commitTimer, violations, session, config, nextResp, snap, wires,
                   slot, history, vadLocals, turnLocals, laneLocals,
                   clientLocals>>

(* The delay has passed: take_pending_bargein_if.                          *)
DelayElapsed(i) ==
    /\ At(DelayTask(i), "sleep")
    /\ IF pending = i
       THEN /\ pending' = 0 /\ bargeinTask' = 0
            /\ Goto(DelayTask(i), "retire")
       ELSE /\ UNCHANGED <<pending, bargeinTask>>
            /\ Goto(DelayTask(i), "end")
    /\ UNCHANGED <<vad, commitTimer, violations, taskVars, wires, slot,
                   history>>

(* clear_pending_bargein_for_suppression: an utterance that ends within    *)
(* the delay is dropped whole.                                             *)
SuppressBargein ==
    /\ At(VadTask, "suppress")
    /\ IF pending = vitem
       THEN /\ pending' = 0 /\ bargeinTask' = 0
            /\ AbortBargeinTask
            /\ Goto(VadTask, "idle")
       ELSE /\ UNCHANGED <<pending, bargeinTask, aborted>>
            /\ Goto(VadTask, "stop")
    /\ UNCHANGED <<vad, commitTimer, violations, session, config, nextResp, snap, wires,
                   slot, history, vadLocals, turnLocals, laneLocals,
                   clientLocals>>

(* The start is taken over from the phase that is replaced. If that is of  *)
(* another utterance it may be anything, for the detector counts its time  *)
(* anew from utterance to utterance.                                       *)
VadStops ==
    /\ At(VadTask, "stop")
    /\ vad' \in IF vad.phase # "Silent" /\ vad.item # vitem
               THEN {Stopped(vitem), StoppedLate(vitem)} ELSE {Stopped(vitem)}
    /\ Goto(VadTask, "stopped")
    /\ UNCHANGED <<taskVars, wires, slot, handles, history>>
    /\ CheckOrReact

(* speech_stopped is sent; then the utterance is rejected as too short,    *)
(* handed to a dispatch task, or committed here.                           *)
SendSpeechStopped ==
    /\ At(VadTask, "stopped")
    /\ SendItem(vitem, "stopped")
    /\ pc' = CASE heard[vitem] = "short" -> [pc EXCEPT ![VadTask] = "reject"]
               [] heard[vitem] # "short" /\ config.eou ->
                    [pc EXCEPT ![EouTask(vitem)] = "score", ![VadTask] = "install"]
               [] OTHER -> [pc EXCEPT ![VadTask] = "commit"]
    /\ UNCHANGED <<stateVars, taskVars>>

RejectShort ==
    /\ At(VadTask, "reject")
    /\ vad' = IF vad.phase = "Stopped" THEN Silent ELSE vad
    /\ Goto(VadTask, "idle")
    /\ UNCHANGED <<taskVars, wires, slot, handles, history>>
    /\ CheckOrReact

InstallCommitTimer ==
    /\ At(VadTask, "install")
    /\ commitTimer' = vitem
    /\ AbortCommitTimer
    /\ Goto(VadTask, "idle")
    /\ UNCHANGED <<vad, pending, bargeinTask, violations, session, config, nextResp,
                   snap, wires, slot, history, vadLocals, turnLocals,
                   laneLocals, clientLocals>>

-----------------------------------------------------------------------------
(* cancel_current_response and what its callers do with the snapshot:      *)
(* commit_bargein (the voice-detector task, the delay task) and            *)
(* handle_response_cancel (the client task).                               *)

Cancellers == {VadTask, ClientTask} \cup Delays

AfterCancel(t) == IF t = ClientTask THEN "idle" ELSE "speak"

RetireResponse(t) ==
    /\ t \in Cancellers /\ At(t, "retire")
    /\ snap' = [snap EXCEPT ![t] = [id |-> resp.id, lane |-> current]]
    /\ RespRetireToNone
    /\ Goto(t, IF current # 0 THEN "opened" ELSE AfterCancel(t))
    /\ UNCHANGED <<vad, session, config, aborted, nextResp, wires, handles, history,
                   vadLocals, turnLocals, laneLocals, clientLocals>>
    /\ CheckOrReact

\* Mutant: wire_opened is read without waiting for outbound_send.
ReadWireOpenedUnlocked(t) ==
    /\ At(t, "opened")
    /\ aborted' = aborted \cup {Lane(snap[t].lane)}
    /\ Goto(t, IF snap[t].lane \in wireOpened THEN "gate" ELSE "truncate")
    /\ UNCHANGED <<session, config, nextResp, snap, stateVars, wires, vadLocals,
                   turnLocals, laneLocals, clientLocals>>

(* wire_opened is read under outbound_send, then the lane is aborted.      *)
ReadWireOpened(t) ==
    /\ At(t, "opened") /\ outLock = 0
    /\ aborted' = aborted \cup {Lane(snap[t].lane)}
    /\ Goto(t, IF snap[t].lane \in wireOpened THEN "gate" ELSE "truncate")
    /\ UNCHANGED <<session, config, nextResp, snap, stateVars, wires, vadLocals,
                   turnLocals, laneLocals, clientLocals>>

(* emit refuses a response event while the slot is Predicted; else the     *)
(* closing brackets and response.done(cancelled) follow.                   *)
GateCancelled(t) ==
    /\ At(t, "gate")
    /\ Goto(t, IF resp.phase = "Predicted" THEN "truncate" ELSE "cancelled")
    /\ UNCHANGED <<stateVars, taskVars, wires>>

SendCancelled(t) ==
    /\ At(t, "cancelled") /\ outLock = 0
    /\ SendResp(snap[t].id, "done")
    /\ Goto(t, "truncate")
    /\ UNCHANGED <<outLock, stateVars, taskVars>>

TruncateAssistant(t) ==
    /\ At(t, "truncate")
    /\ conversation' = Truncated(snap[t].id)
    /\ Goto(t, AfterCancel(t))
    /\ UNCHANGED <<vad, sealed, taskVars, wires, slot, handles>>
    /\ CheckOrReact

VadSpeaks(t) ==
    /\ At(t, "speak")
    /\ vad' = Speaking(ItemOf(t))
    /\ Goto(t, "started")
    /\ UNCHANGED <<taskVars, wires, slot, handles, history>>
    /\ CheckOrReact

SendSpeechStarted(t) ==
    /\ At(t, "started")
    /\ SendItem(ItemOf(t), "started")
    /\ Goto(t, Rest(t))
    /\ UNCHANGED <<stateVars, taskVars>>

-----------------------------------------------------------------------------
(* run_eou_dispatch and try_eager_dispatch.                                *)

(* The classifier answered, failed or ran into its timeout or the hard     *)
(* cap.  A score over the eager threshold speculates first, unless another *)
(* did a moment ago.                                                       *)
EouScored(i) ==
    /\ At(EouTask(i), "score")
    /\ Goto(EouTask(i), "delay")
    /\ UNCHANGED <<stateVars, taskVars, wires>>

EagerScored(i) ==
    /\ At(EouTask(i), "score") /\ config.eager /\ heard[i] = "full"
    /\ Goto(EouTask(i), "eager")
    /\ UNCHANGED <<stateVars, taskVars, wires>>

(* The runners are started and their prompt is read, and then a prediction *)
(* takes the slot if it is empty and nobody is speaking.  Nothing on the   *)
(* way has to wait, so a dispatch aborted meanwhile may still do this.     *)
StartPredicted(i) ==
    /\ At(EouTask(i), "eager")
    /\ resp = RespNone /\ vad.phase # "Speaking" /\ nextResp < MaxResp
    /\ nextResp' = nextResp + 1
    /\ RespStartPredicted(nextResp')
    /\ heardBy' = [heardBy EXCEPT ![nextResp'] = i]
    /\ Goto(EouTask(i), "delay")
    /\ UNCHANGED <<vad, violations, session, config, aborted, snap, turn, cached, wires,
                   handles, history, vadLocals, laneLocals, clientLocals>>

(* Refused, or no ids are left within the bound.                           *)
PredictionRefused(i) ==
    /\ At(EouTask(i), "eager")
    /\ resp # RespNone \/ vad.phase = "Speaking" \/ nextResp = MaxResp
    /\ Goto(EouTask(i), "delay")
    /\ UNCHANGED <<stateVars, taskVars, wires>>

\* Mutant: the handle is aborted as it is dropped, and it is the task's own.
ClearCommitTimerAborts(i) ==
    /\ At(EouTask(i), "delay")
    /\ commitTimer' = 0
    /\ AbortCommitTimer
    /\ Goto(EouTask(i), "commit")
    /\ UNCHANGED <<vad, pending, bargeinTask, violations, session, config, nextResp,
                   snap, wires, slot, history, vadLocals, turnLocals,
                   laneLocals, clientLocals>>

(* The delay the score earned, or the hard cap, has passed:                *)
(* clear_commit_timer drops whichever handle is there.                     *)
ClearCommitTimer(i) ==
    /\ At(EouTask(i), "delay")
    /\ commitTimer' = 0
    /\ Goto(EouTask(i), "commit")
    /\ UNCHANGED <<vad, pending, bargeinTask, violations, taskVars, wires, slot,
                   history>>

-----------------------------------------------------------------------------
(* commit_after_eou, run by the voice-detector task or by a dispatch.      *)

Committers == {VadTask} \cup Dispatches

\* Mutant: the stopped utterance stays stopped when it is committed.
CommitItemStaysStopped(t) ==
    /\ t \in Committers /\ At(t, "commit")
    /\ conversation' =
          IF InConversation(UserItem(ItemOf(t))) THEN conversation
          ELSE Append(conversation, [id |-> UserItem(ItemOf(t)), status |-> "InProgress"])
    /\ RespRetirePredicted
    /\ turn' = [turn EXCEPT ![t] =
                   [id |-> IF resp.phase = "Predicted" THEN resp.id ELSE 0, text |-> FALSE]]
    /\ Goto(t, IF resp.phase = "Predicted" THEN "await" ELSE "committed")
    /\ UNCHANGED <<vad, current, sealed, session, config, aborted, nextResp, snap, cached,
                   heardBy, wires, handles, vadLocals, laneLocals, clientLocals>>
    /\ CheckOrReact

CommitItem(t) ==
    /\ t \in Committers /\ At(t, "commit")
    /\ conversation' =
          IF InConversation(UserItem(ItemOf(t))) THEN conversation
          ELSE Append(conversation, [id |-> UserItem(ItemOf(t)), status |-> "InProgress"])
    /\ vad' = IF vad.phase = "Stopped" THEN Silent ELSE vad
    /\ RespRetirePredicted
    /\ turn' = [turn EXCEPT ![t] =
                   [id |-> IF resp.phase = "Predicted" THEN resp.id ELSE 0, text |-> FALSE]]
    /\ Goto(t, IF resp.phase = "Predicted" THEN "await" ELSE "committed")
    /\ UNCHANGED <<current, sealed, session, config, aborted, nextResp, snap, cached,
                   heardBy, wires, handles, vadLocals, laneLocals, clientLocals>>
    /\ CheckOrReact

(* The speculative transcript and reply are awaited; either may be missing *)
(* (a failure, an overflow, a timeout, an empty reply).                    *)
AwaitPrediction(t, transcript, text) ==
    /\ At(t, "await")
    /\ cached' = IF transcript THEN cached \cup {ItemOf(t)} ELSE cached
    /\ turn' = [turn EXCEPT ![t].text = text]
    /\ Goto(t, "committed")
    /\ UNCHANGED <<session, config, aborted, nextResp, snap, heardBy, stateVars, wires,
                   vadLocals, laneLocals, clientLocals>>

\* Mutant: the item is announced before the commit.
SendCommittedSwapped(t) ==
    /\ At(t, "committed") /\ outLock = 0
    /\ itemWire' = [itemWire EXCEPT ![ItemOf(t)] = @ \o <<"added", "committed">>]
    /\ Goto(t, "admit")
    /\ UNCHANGED <<stateVars, taskVars, outLock, wire>>

(* input_audio_buffer.committed, then conversation.item.added              *)
SendCommitted(t) ==
    /\ At(t, "committed") /\ outLock = 0
    /\ itemWire' = [itemWire EXCEPT ![ItemOf(t)] = @ \o <<"committed", "added">>]
    /\ Goto(t, "admit")
    /\ UNCHANGED <<stateVars, taskVars, outLock, wire>>

(* Admission and registration under one lock: the turn gets a response     *)
(* lane, under the predicted id when its reply is reused, or is only       *)
(* transcribed.                                                            *)
AdmitTurn(t) ==
    /\ At(t, "admit")
    /\ LET i == ItemOf(t)
           r == IF turn[t].text THEN turn[t].id ELSE nextResp + 1
       IN IF heard[i] = "full" /\ RespAdmit
          THEN /\ r <= MaxResp
               /\ nextResp' = IF turn[t].text THEN nextResp ELSE r
               /\ RespCreateFromNone(r)
               /\ laneItem' = [laneItem EXCEPT ![r] = i]
               /\ pc' = [pc EXCEPT ![Lane(r)] = "store", ![t] = Rest(t)]
          ELSE /\ UNCHANGED <<nextResp, resp, current, laneItem>>
               /\ pc' = [pc EXCEPT ![Utterance(i)] = "store", ![t] = Rest(t)]
    /\ UNCHANGED <<vad, session, config, aborted, snap, deltas, wireOpened, wires,
                   handles, history, vadLocals, turnLocals, clientLocals>>
    /\ CheckOrReact

-----------------------------------------------------------------------------
(* process_utterance, on a lane of its own or ahead of a response.         *)

Workers == Lanes \cup Utterances

(* The end of a task's work: a lane still has to let go of the slot.       *)
Finish(t) == IF t \in Lanes THEN "fin" ELSE "end"

StoreSealed(t) ==
    /\ t \in Workers /\ At(t, "store")
    /\ sealed' = sealed \cup {ItemOf(t)}
    /\ Goto(t, "stt")
    /\ UNCHANGED <<vad, conversation, violations, taskVars, wires, slot,
                   handles>>

(* The transcript arrives, or was cached, and the item is completed.       *)
Transcribed(t) ==
    /\ At(t, "stt")
    /\ conversation' = WithStatus(UserItem(ItemOf(t)), "Completed")
    /\ Goto(t, "completed")
    /\ UNCHANGED <<vad, sealed, violations, taskVars, wires, slot, handles>>

(* Noise, or silence: the utterance is dropped and its item left as it is. *)
TranscriptRejected(t) ==
    /\ At(t, "stt")
    /\ sealed' = sealed \ {ItemOf(t)}
    /\ Goto(t, Finish(t))
    /\ UNCHANGED <<vad, conversation, violations, taskVars, wires, slot, handles>>

TranscriptionFailed(t) ==
    /\ At(t, "stt") /\ ItemOf(t) \notin cached
    /\ SendItem(ItemOf(t), "failed")
    /\ Goto(t, "incomplete")
    /\ UNCHANGED <<stateVars, taskVars>>

MarkIncomplete(t) ==
    /\ At(t, "incomplete")
    /\ conversation' = WithStatus(UserItem(ItemOf(t)), "Incomplete")
    /\ sealed' = sealed \ {ItemOf(t)}
    /\ Goto(t, Finish(t))
    /\ UNCHANGED <<vad, violations, taskVars, wires, slot, handles>>

SendTranscriptionCompleted(t) ==
    /\ At(t, "completed")
    /\ SendItem(ItemOf(t), "completed")
    /\ Goto(t, "release")
    /\ UNCHANGED <<stateVars, taskVars>>

(* The sealed buffer is dropped, and a lane goes on to answer the turn.    *)
DropSealed(t) ==
    /\ At(t, "release")
    /\ sealed' = sealed \ {ItemOf(t)}
    /\ Goto(t, IF t \in Lanes THEN "announce" ELSE "end")
    /\ UNCHANGED <<vad, conversation, violations, taskVars, wires, slot, handles>>

-----------------------------------------------------------------------------
(* run_response.                                                           *)

(* announce_response takes outbound_send, checks that the slot still holds *)
(* this response, and keeps the lock while the opening brackets go out.    *)
Announce(r) ==
    /\ At(Lane(r), "announce") /\ outLock = 0
    /\ IF resp.id = r
       THEN outLock' = r /\ Goto(Lane(r), "created")
       ELSE UNCHANGED outLock /\ Goto(Lane(r), "fin")
    /\ UNCHANGED <<wire, itemWire, stateVars, taskVars>>

SendCreated(r) ==
    /\ At(Lane(r), "created")
    /\ SendResp(r, "created")
    /\ wireOpened' = wireOpened \cup {r}
    /\ outLock' = 0
    /\ Goto(Lane(r), "llm")
    /\ UNCHANGED <<session, config, aborted, nextResp, snap, laneItem, deltas,
                   stateVars, vadLocals, turnLocals, clientLocals>>

(* A delta of the reply; the first one marks the response as streaming.    *)
LlmDelta(r) ==
    /\ At(Lane(r), "llm") /\ deltas[r] < MaxDeltas
    /\ deltas' = [deltas EXCEPT ![r] = @ + 1]
    /\ IF deltas[r] = 0 THEN RespAdvanceToStreaming(r) ELSE UNCHANGED resp
    /\ Goto(Lane(r), "gate")
    /\ UNCHANGED <<vad, current, session, config, aborted, nextResp, snap, laneItem,
                   wireOpened, wires, handles, history, vadLocals, turnLocals,
                   clientLocals>>
    /\ CheckOrReact

(* A delta goes through emit, which looks at the phase but not at the id.  *)
GateDelta(r) ==
    /\ At(Lane(r), "gate")
    /\ Goto(Lane(r), IF resp.phase = "Predicted" THEN "llm" ELSE "delta")
    /\ UNCHANGED <<stateVars, taskVars, wires>>

SendDelta(r) ==
    /\ At(Lane(r), "delta") /\ outLock = 0
    /\ SendResp(r, "delta")
    /\ Goto(Lane(r), "llm")
    /\ UNCHANGED <<outLock, stateVars, taskVars>>

\* Mutant: the lane closes its response whether or not it still has the slot.
CloseResponseAnyway(r, ok) ==
    /\ At(Lane(r), "llm") /\ outLock = 0
    /\ ok => deltas[r] > 0
    /\ RespRetireToNone
    /\ outLock' = r
    /\ Goto(Lane(r), "closing")
    /\ UNCHANGED <<vad, history, handles, taskVars, wire, itemWire>>
    /\ CheckOrReact

(* The reply has ended and its audio has drained, or an upstream error,    *)
(* the drain cap or a slow client cut it.  close_response: under           *)
(* outbound_send, only the holder of the slot retires it and sends the     *)
(* end.  A reply with text leaves an assistant item when it was not cut.   *)
CloseResponse(r, ok) ==
    /\ At(Lane(r), "llm") /\ outLock = 0
    /\ ok => deltas[r] > 0
    /\ IF resp.id = r
       THEN /\ RespRetireToNone
            /\ conversation' = IF ok THEN Append(conversation, [id |-> AssistantItem(r),
                                                                status |-> "Completed"])
                                     ELSE conversation
            /\ outLock' = r
            /\ Goto(Lane(r), "closing")
            /\ UNCHANGED <<vad, sealed>>
            /\ CheckOrReact
       ELSE /\ UNCHANGED <<slot, conversation, outLock, vad, sealed, violations>>
            /\ Goto(Lane(r), "fin")
    /\ UNCHANGED <<handles, taskVars, wire, itemWire>>

SendDone(r) ==
    /\ At(Lane(r), "closing")
    /\ SendResp(r, "done")
    /\ outLock' = 0
    /\ Goto(Lane(r), "fin")
    /\ UNCHANGED <<stateVars, taskVars>>

(* clear_response_if_matches                                               *)
ClearResponse(r) ==
    /\ At(Lane(r), "fin")
    /\ IF resp.id = r THEN RespRetireToNone
       ELSE /\ current' = IF resp = RespNone THEN 0 ELSE current
            /\ UNCHANGED resp
    /\ Goto(Lane(r), "end")
    /\ UNCHANGED <<vad, taskVars, wires, handles, history>>
    /\ CheckOrReact

-----------------------------------------------------------------------------
(* Client events.  One is handled at a time; a refused one only sends an   *)
(* error and is left out.                                                  *)

ClientEvent ==
    /\ pc[ClientTask] = "idle" /\ ops < MaxOps
    /\ ops' = ops + 1

(* response.create: admission, prompt and registration under one lock.     *)
ClientCreate ==
    /\ ClientEvent
    /\ RespAdmit /\ HasPrompt /\ nextResp < MaxResp
    /\ nextResp' = nextResp + 1
    /\ RespCreateFromNone(nextResp')
    /\ Goto(Lane(nextResp'), "announce")
    /\ UNCHANGED <<vad, session, config, aborted, snap, clearEpoch, wires, handles,
                   history, vadLocals, turnLocals, laneLocals>>
    /\ CheckOrReact

(* response.cancel: the phase is read first, then the one or the other     *)
(* path is taken.                                                          *)
ClientCancel ==
    /\ ClientEvent
    /\ resp # RespNone
    /\ Goto(ClientTask, IF resp.phase = "Predicted" THEN "rollback" ELSE "retire")
    /\ UNCHANGED <<session, config, aborted, nextResp, snap, clearEpoch, stateVars,
                   wires, vadLocals, turnLocals, laneLocals>>

(* input_audio_buffer.clear: the epoch first, the phase after.             *)
ClientClear ==
    /\ ClientEvent
    /\ clearEpoch' = clearEpoch + 1
    /\ Goto(ClientTask, "clear")
    /\ UNCHANGED <<session, config, aborted, nextResp, snap, stateVars, wires,
                   vadLocals, turnLocals, laneLocals>>

ClearInputBuffer ==
    /\ At(ClientTask, "clear")
    /\ vad' = Silent
    /\ commitTimer' = 0
    /\ AbortCommitTimer
    /\ Goto(ClientTask, "idle")
    /\ UNCHANGED <<pending, bargeinTask, session, config, nextResp, snap, wires, slot,
                   history, vadLocals, turnLocals, laneLocals, clientLocals>>
    /\ CheckOrReact

(* conversation.item.create (a text message of the user) and               *)
(* conversation.item.delete, which removes the first item with the id.     *)
ClientItem ==
    /\ ClientEvent
    /\ \/ /\ ~InConversation(TextItem)
          /\ conversation' = Append(conversation, [id |-> TextItem, status |-> "Completed"])
       \/ \E k \in DOMAIN conversation :
             /\ \A m \in 1..(k - 1) : conversation[m].id # conversation[k].id
             /\ conversation' = SubSeq(conversation, 1, k - 1)
                                  \o SubSeq(conversation, k + 1, Len(conversation))
    /\ UNCHANGED <<vad, sealed, violations, session, config, aborted, nextResp, snap,
                   clearEpoch, pc, wires, slot, handles, vadLocals, turnLocals,
                   laneLocals>>

(* A violation ends the session: terminate_with_error sends an error,      *)
(* cancels every lane and makes the phase terminal.  What a cancelled task *)
(* may still do before it notices is not followed.                         *)
Terminate ==
    /\ violations # {} /\ session = "Active" /\ outLock = 0
    /\ session' = "Terminated"
    /\ pc' = [t \in Tasks |-> IF pc[t] = "none" THEN "none" ELSE "end"]
    /\ UNCHANGED <<config, aborted, nextResp, snap, stateVars, wires, vadLocals,
                   turnLocals, laneLocals, clientLocals>>

-----------------------------------------------------------------------------
VadStep ==
    \/ SpeechStarted
    \/ \E length \in {"short", "quick", "full"} : SpeechCommitted(length)
    \/ CancelCommitTimer \/ DecideBargeIn \/ SetPendingBargein
    \/ SuppressBargein \/ VadStops \/ SendSpeechStopped \/ RejectShort \/ InstallCommitTimer

CancelStep(t) ==
    \/ RollbackPredicted(t) \/ RetireResponse(t) \/ ReadWireOpened(t) \/ GateCancelled(t)
    \/ SendCancelled(t) \/ TruncateAssistant(t) \/ VadSpeaks(t) \/ SendSpeechStarted(t)

DispatchStep(i) ==
    \/ EouScored(i) \/ EagerScored(i) \/ StartPredicted(i) \/ PredictionRefused(i)
    \/ ClearCommitTimer(i)

CommitStep(t) ==
    \/ CommitItem(t)
    \/ \E transcript, text \in BOOLEAN : AwaitPrediction(t, transcript, text)
    \/ SendCommitted(t) \/ AdmitTurn(t)

UtteranceStep(t) ==
    \/ StoreSealed(t) \/ Transcribed(t) \/ TranscriptRejected(t) \/ TranscriptionFailed(t)
    \/ MarkIncomplete(t) \/ SendTranscriptionCompleted(t) \/ DropSealed(t)

LaneStep(r) ==
    \/ Announce(r) \/ SendCreated(r) \/ LlmDelta(r) \/ GateDelta(r) \/ SendDelta(r)
    \/ \E ok \in BOOLEAN : CloseResponse(r, ok)
    \/ SendDone(r) \/ ClearResponse(r)

ClientStep ==
    \/ ClientCreate \/ ClientCancel \/ ClientClear \/ ClearInputBuffer \/ ClientItem

Next ==
    \/ VadStep
    \/ \E t \in Cancellers : CancelStep(t)
    \/ \E i \in Items : DelayElapsed(i) \/ DispatchStep(i)
    \/ \E t \in Committers : CommitStep(t)
    \/ \E t \in Workers : UtteranceStep(t)
    \/ \E r \in Responses : LaneStep(r)
    \/ ClientStep
    \/ Terminate

Spec == Init /\ [][Next]_vars

(* A task that runs keeps running, and the models and timers it waits for  *)
(* answer (a delta count is bounded, so a reply ends).  Nothing obliges    *)
(* the user to speak, the client to send, or an aborted task to go on.     *)
Live(t) == t \notin aborted

Fairness ==
    /\ WF_vars(pc[VadTask] # "idle" /\ (VadStep \/ CancelStep(VadTask) \/ CommitStep(VadTask)))
    /\ WF_vars(pc[ClientTask] # "idle" /\ (ClientStep \/ CancelStep(ClientTask)))
    /\ \A i \in Items :
          /\ WF_vars(Live(DelayTask(i)) /\ (DelayElapsed(i) \/ CancelStep(DelayTask(i))))
          /\ WF_vars(Live(EouTask(i)) /\ (DispatchStep(i) \/ CommitStep(EouTask(i))))
    /\ \A r \in Responses :
          WF_vars(Live(Lane(r)) /\ (LaneStep(r) \/ UtteranceStep(Lane(r))))
    /\ WF_vars(Terminate)

FairSpec == Spec /\ Fairness

-----------------------------------------------------------------------------
(* Properties.                                                             *)

Sent(r, event) == \E k \in DOMAIN wire[r] : wire[r][k] = event
SentItem(i, event) == \E k \in DOMAIN itemWire[i] : itemWire[i][k] = event

(* The runtime the session holds is the one of the response in the slot,   *)
(* and it holds one exactly when the slot is Created or Streaming: the     *)
(* five places that fill or empty the slot never leave one behind, and the *)
(* second branch of clear_response_if_matches has nothing to clear.        *)
RuntimeMatchesPhase ==
    current = IF resp.phase \in ActivePhases THEN resp.id ELSE 0

(* The stage a response has reached, as the client and the slot show it:   *)
(* its events are created, deltas and one done, or it is in no stage.      *)
OpenWire(r) ==
    /\ Len(wire[r]) > 0 /\ wire[r][1] = "created"
    /\ \A k \in 2..Len(wire[r]) : wire[r][k] = "delta"

EndedWire(r) ==
    /\ Len(wire[r]) > 0 /\ wire[r][1] = "created"
    /\ \E d \in 2..Len(wire[r]) :
          /\ wire[r][d] = "done"
          /\ \A k \in 2..Len(wire[r]) : k # d => wire[r][k] = "delta"

Stage(r) == CASE wire[r] = <<>> /\ pc[Lane(r)] = "none" -> "fresh"
              [] wire[r] = <<>> /\ pc[Lane(r)] # "none" -> "admitted"
              [] wire[r] # <<>> /\ OpenWire(r) -> "open"
              [] wire[r] # <<>> /\ EndedWire(r) -> "ended"
              [] OTHER -> "broken"

Lifecycle == INSTANCE ResponseLifecycle
                WITH Ids <- Responses, owner <- current,
                     stage <- [r \in Responses |-> Stage(r)]

(* The session implements ResponseLifecycle: whichever of the lane, a      *)
(* barge-in or a client's cancel gets there first, a response is opened    *)
(* once, ended once and only by whoever took it out of the slot, and a     *)
(* predicted id is admitted by one turn only.                              *)
ImplementsLifecycle == Lifecycle!Spec

(* Who is left to end a response the client sees as open: the lane that    *)
(* holds the slot, the lane sending its end, or the task that cancelled it *)
(* and still has to send the closing brackets.                             *)
Closer(r) ==
    \/ /\ resp.phase \in ActivePhases /\ resp.id = r
       /\ Lane(r) \notin aborted /\ pc[Lane(r)] \notin {"none", "end"}
    \/ pc[Lane(r)] = "closing"
    \/ \E t \in Cancellers :
          snap[t].id = r /\ pc[t] \in {"opened", "gate", "cancelled"}

(* RFC W1: a response.done is sent for each response.created, so while one *)
(* is missing somebody is left to send it.                                 *)
DoneForEachCreated ==
    session = "Active" =>
        \A r \in Responses : Sent(r, "created") /\ ~Sent(r, "done") => Closer(r)

(* Without eager dispatch nothing comes between a cancelled response and   *)
(* its closing brackets: whichever of the lane, a barge-in, a cancel or an *)
(* abort comes first, an open response has somebody to end it.             *)
OpenHasCloser == ~config.eager => DoneForEachCreated

(* outbound_send is never lost: the lane that holds it across its brackets *)
(* cannot be aborted while it does, because a canceller needs the lock     *)
(* before it aborts and the lane needs the slot before it locks.           *)
OrderLockHasOwner ==
    session = "Active" /\ outLock # 0 =>
        /\ Lane(outLock) \notin aborted
        /\ pc[Lane(outLock)] \in {"created", "closing"}

(* The events of one utterance: speech_started, speech_stopped, committed, *)
(* item.added and then the transcription's outcome, in this order, though  *)
(* three tasks send them.  (With a barge-in delay the task that waited may *)
(* announce the start of an utterance after its end.)                      *)
ItemOrder ==
    ~config.delay =>
        \A i \in Items : \A k \in DOMAIN itemWire[i] :
            itemWire[i][k] \in <<{"started"}, {"stopped"}, {"committed"}, {"added"},
                                 {"completed", "failed"}>>[k]

(* Of the violations check_state can report, without a barge-in delay only *)
(* the clash of new speech with a response can happen: the runtime never   *)
(* disagrees with the phase, no buffer is sealed while its utterance is    *)
(* still stopped, no open utterance is already in the conversation, and an *)
(* utterance stops with its own start.  (A delay that runs out as its      *)
(* utterance is sealed opens it again.)                                    *)
OnlyBargeInRaces == ~config.delay => violations \subseteq {"SpeakingWithActiveResponse"}


(* What a client was told is never taken back, so what it is owed stays    *)
(* owed until it is told: each of the following says that again and again  *)
(* nothing is owed, unless the session ends first.                         *)
Over == session = "Terminated"

(* Without eager dispatch every response the client saw created gets its   *)
(* response.done: through the lane, a barge-in with or without a delay, or *)
(* a cancel.  (With it an end may be dropped for a prediction, see         *)
(* DoneForEachCreated.)                                                    *)
ResponseEnds ==
    []<>(Over \/ config.eager \/
            \A r \in Responses : Sent(r, "created") => Sent(r, "done"))

(* A client is told of both ends of an utterance or of none: what was      *)
(* announced and has ended is announced as stopped (or cleared), and what  *)
(* was announced as stopped is announced.  Of the delay task and the       *)
(* suppression of a short barge-in exactly one takes a pending barge-in.   *)
BothEndsTold(i) ==
    /\ SentItem(i, "started") /\ openItem # i => SentItem(i, "stopped") \/ clearEpoch > 0
    /\ SentItem(i, "stopped") => SentItem(i, "started")

(* What was announced as stopped and is long enough to count is committed, *)
(* whichever task owns its audio by then, unless new speech or a clear     *)
(* took that task's handle.                                                *)
TurnKept(i) ==
    SentItem(i, "stopped") /\ heard[i] # "short" =>
        SentItem(i, "committed") \/ nextItem > i \/ clearEpoch > 0

(* Whichever of its tasks gets there first, the client is not left in the  *)
(* middle of an utterance: both its ends are told, and its turn is         *)
(* committed.                                                              *)
TurnSettled == []<>(Over \/ \A i \in Items : BothEndsTold(i) /\ TurnKept(i))
=============================================================================
