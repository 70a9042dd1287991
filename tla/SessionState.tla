---------------------------- MODULE SessionState ----------------------------
(***************************************************************************)
(* The state one realtime voice session keeps behind its `state` mutex     *)
(* (rust/src/realtime/state.rs) and the transitions the response slot may  *)
(* take.  A transition here is one critical section or a part of one; the  *)
(* tasks that run them are in RealtimeSession.                             *)
(*                                                                         *)
(* An id is a number and 0 is "none": user items (one per utterance) and   *)
(* responses are numbered from 1 in the order their ids are drawn.         *)
(***************************************************************************)
EXTENDS Naturals, Sequences

CONSTANTS
    MaxItem,    \* bound: utterances the voice detector opens
    MaxResp     \* bound: response ids drawn

ASSUME SessionBounds == MaxItem \in Nat \ {0} /\ MaxResp \in Nat \ {0}

VARIABLES
    vad,            \* VadPhase: [phase, item, late]
    resp,           \* RespPhase: [phase, id]
    current,        \* current_response: the id of the runtime held, or 0
    commitTimer,    \* the item whose dispatch task the timer handle names, or 0
    pending,        \* pending_bargein: the item waiting out the delay, or 0
    bargeinTask,    \* the item whose delay task the handle names, or 0
    conversation,   \* the items of the conversation, in order: [id, status]
    sealed,         \* the items whose sealed buffer is retained
    violations      \* what check_state reported to check_or_react so far

stateVars == <<vad, resp, current, commitTimer, pending, bargeinTask,
               conversation, sealed, violations>>

Items == 1..MaxItem
Responses == 1..MaxResp

(* A stopped utterance whose recorded start is later than its end is late: *)
(* it took over the start of another utterance.                            *)
Silent == [phase |-> "Silent", item |-> 0, late |-> FALSE]
Speaking(i) == [phase |-> "Speaking", item |-> i, late |-> FALSE]
Stopped(i) == [phase |-> "Stopped", item |-> i, late |-> FALSE]
StoppedLate(i) == [phase |-> "Stopped", item |-> i, late |-> TRUE]

RespNone == [phase |-> "None", id |-> 0]
Predicted(r) == [phase |-> "Predicted", id |-> r]
Created(r) == [phase |-> "Created", id |-> r]
Streaming(r) == [phase |-> "Streaming", id |-> r]

TimelyPhases == {Silent} \cup {Speaking(i) : i \in Items} \cup {Stopped(i) : i \in Items}
VadPhases == TimelyPhases \cup {StoppedLate(i) : i \in Items}

(* Drain is left out: only tests call resp_drain, so no session enters it. *)
RespPhases == {RespNone} \cup {Predicted(r) : r \in Responses}
                \cup {Created(r) : r \in Responses} \cup {Streaming(r) : r \in Responses}

(* The phases in which the slot holds a response a client may see.         *)
ActivePhases == {"Created", "Streaming"}

-----------------------------------------------------------------------------
(* Conversation items.  An item's id carries its role: user items by the   *)
(* utterance, the one text item a client may add, assistant items by the   *)
(* response that spoke them.                                               *)

UserItem(i) == <<"user", i>>
TextItem == <<"user", 0>>
AssistantItem(r) == <<"assistant", r>>

ItemIds == {UserItem(i) : i \in Items} \cup {TextItem}
             \cup {AssistantItem(r) : r \in Responses}

Statuses == {"InProgress", "Completed", "Incomplete"}

InConversation(id) == \E k \in DOMAIN conversation : conversation[k].id = id

(* Set the status of the item `id`, wherever it stands; nothing when the   *)
(* client has deleted it.                                                  *)
WithStatus(id, status) ==
    [k \in DOMAIN conversation |->
        IF conversation[k].id = id
        THEN [id |-> id, status |-> status] ELSE conversation[k]]

(* apply_truncate_to_conversation: mark the assistant item, or append it   *)
(* when the response had not pushed it yet.                                *)
Truncated(r) ==
    IF InConversation(AssistantItem(r))
    THEN WithStatus(AssistantItem(r), "Incomplete")
    ELSE Append(conversation, [id |-> AssistantItem(r), status |-> "Incomplete"])

(* select_response_source for a plain response.create: the last user item  *)
(* has a transcript, which it gets when it is completed.                   *)
HasPrompt ==
    \E k \in DOMAIN conversation :
        /\ conversation[k].id[1] = "user"
        /\ conversation[k].status = "Completed"
        /\ \A m \in DOMAIN conversation : m > k => conversation[m].id[1] # "user"

-----------------------------------------------------------------------------
(* check_state: the violations a critical section's final state shows (the *)
(* code reports the first of them).                                        *)

Violations == {"SpeakingWithActiveResponse", "StoppedWithoutEnd", "ResponseRuntimeMismatch",
               "EmptyResponseId", "RotationBeforeCommit", "ConvHasVoiced"}

CheckState ==
    {v \in Violations :
        CASE v = "SpeakingWithActiveResponse" ->
               vad.phase = "Speaking" /\ resp.phase \in ActivePhases
          [] v = "StoppedWithoutEnd" ->
               vad.phase = "Stopped" /\ vad.late
          [] v = "ResponseRuntimeMismatch" ->
               \/ resp.phase = "None" /\ current # 0
               \/ resp.phase \in ActivePhases /\ current = 0
          [] v = "EmptyResponseId" ->
               resp.phase \in ActivePhases /\ resp.id = 0
          [] v = "RotationBeforeCommit" ->
               vad.phase = "Stopped" /\ vad.item \in sealed
          [] v = "ConvHasVoiced" ->
               /\ vad.phase = "Speaking"
               /\ \E k \in DOMAIN conversation :
                     conversation[k] = [id |-> UserItem(vad.item), status |-> "InProgress"]}

(* check_or_react after a critical section: a violation is recorded, and   *)
(* the task it spawns will end the session.                                *)
CheckOrReact == violations' = violations \cup CheckState'

-----------------------------------------------------------------------------
(* The response slot.                                                      *)

RespAdmit == resp = RespNone /\ current = 0 /\ vad.phase # "Speaking"

RespCreateFromNone(r) == resp' = Created(r) /\ current' = r

RespStartPredicted(r) == resp' = Predicted(r) /\ UNCHANGED current

\* Mutant: the phase is not looked at.
RespAdvanceAnyway(r) == resp' = Streaming(r)

RespAdvanceToStreaming(r) ==
    resp' = IF resp = Created(r) THEN Streaming(r) ELSE resp

RespRetireToNone == resp' = RespNone /\ current' = 0

RespRetirePredicted ==
    resp' = IF resp.phase = "Predicted" THEN RespNone ELSE resp

StateInit ==
    /\ vad = Silent
    /\ resp = RespNone
    /\ current = 0
    /\ commitTimer = 0
    /\ pending = 0
    /\ bargeinTask = 0
    /\ conversation = <<>>
    /\ sealed = {}
    /\ violations = {}

StateTypeOK ==
    /\ vad \in VadPhases
    /\ resp \in RespPhases
    /\ current \in Responses \cup {0}
    /\ commitTimer \in Items \cup {0}
    /\ pending \in Items \cup {0}
    /\ bargeinTask \in Items \cup {0}
    /\ conversation \in Seq([id : ItemIds, status : Statuses])
    /\ sealed \subseteq Items
    /\ violations \subseteq Violations
=============================================================================
