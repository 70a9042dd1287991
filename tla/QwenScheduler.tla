---------------------------- MODULE QwenScheduler ----------------------------
(***************************************************************************)
(* The batch scheduler of the Qwen models                                  *)
(* (rust/src/oapi/chat_engine/qwen38_sched.rs): requests queue for one     *)
(* dispatcher, which runs a lone one by itself and several as a group, one *)
(* lane each; a group takes nobody in once it steps.  A watchdog per       *)
(* request answers Busy if its queue time runs out before it is claimed.   *)
(*                                                                         *)
(* The dispatcher is one thread.  A step of it ends where it sends to a    *)
(* client, waits or looks at shared state again; several sends in a row to *)
(* one client are one step that may stop short.  What the models compute   *)
(* is any outcome: a token, an end, a failure.                             *)
(***************************************************************************)
EXTENDS Naturals, Sequences, FiniteSets, FiniteSetsExt, SequencesExt, Queues

CONSTANTS
    Jobs,       \* requests
    Lanes,      \* lanes of the pool
    QueueCap,   \* capacity of the job channel
    Configs     \* how the scheduler is set up, see `config'

None == 0       \* no job

ASSUME SchedulerOptions ==
    /\ IsFiniteSet(Jobs) /\ None \notin Jobs
    /\ {Lanes, QueueCap} \subseteq Nat \ {0}
    /\ Configs \subseteq
         [zero : BOOLEAN, solo : BOOLEAN, packed : BOOLEAN, overlap : BOOLEAN,
          maxNew : Nat \ {0}]

VARIABLES
    config,         \* no queue wait; a lone job runs by itself; packed prefill; overlap;
                    \* max_new of every request
    handle,         \* QwenBatchScheduler::jobs is there
    queue,          \* the job channel
    outstanding,    \* the counter behind SchedReservation
    client,         \* job -> "none", "open", "closed", or "stalled": it was given up
    stream,         \* job -> the events its client was sent
    ticket,         \* job -> the `admitted' channel
    expired,        \* the jobs whose deadline has passed
    watchdog,       \* job -> "none", "armed" or "ended"
    pc,             \* where the dispatcher is
    loop,           \* the loop of run_group that is admitting
    forming,        \* `jobs' of dispatch_loop, then `pending' of run_group
    admitted,       \* jobs this group has taken
    cur,            \* the job being admitted or run alone
    deferred,       \* the jobs admitted and waiting for a packed prefill
    members,        \* GroupMembers
    alive,          \* those still decoding
    abandoned,      \* those given up
    lane,           \* job -> its lane
    seat,           \* GroupRoster::seats
    cache,          \* lane -> the job whose prefill it holds
    gen,            \* job -> tokens generated
    emitted,        \* job -> tokens sent, when emission lags behind
    finishing,      \* the members with a pending_finish
    todo,           \* the members the current loop has still to visit
    mode            \* "plain" or "overlap": how the group steps

queueVars == <<handle, queue, outstanding>>
clientVars == <<client, stream>>
ticketVars == <<ticket, expired, watchdog>>
formVars == <<loop, forming, admitted, cur, deferred>>
laneVars == <<lane, seat, cache>>
memberVars == <<members, alive, abandoned, gen, emitted, finishing, todo, mode>>
vars == <<config, queueVars, clientVars, ticketVars, pc, formVars, laneVars, memberVars>>

LaneIds == 1..Lanes
Vacancies == {l \in LaneIds : seat[l] \in {"Vacant", "VacantPadClobbered"}}

Init ==
    /\ config \in Configs
    /\ handle = TRUE /\ queue = <<>> /\ outstanding = 0
    /\ client = [j \in Jobs |-> "none"]
    /\ stream = [j \in Jobs |-> <<>>]
    /\ ticket = [j \in Jobs |-> "none"]
    /\ expired = {}
    /\ watchdog = [j \in Jobs |-> "none"]
    /\ pc = "recv" /\ loop = "take" /\ forming = <<>> /\ admitted = 0
    /\ cur = None /\ deferred = {}
    /\ lane = [j \in Jobs |-> 0]
    /\ seat = [l \in LaneIds |-> "Vacant"]
    /\ cache = [l \in LaneIds |-> None]
    /\ members = {} /\ alive = {} /\ abandoned = {}
    /\ gen = [j \in Jobs |-> 0] /\ emitted = [j \in Jobs |-> 0]
    /\ finishing = {} /\ todo = {} /\ mode = "plain"

-----------------------------------------------------------------------------
(* Clients and watchdogs.                                                  *)

IsWaiting(j) == client[j] = "open" /\ ticket[j] = "waiting" /\ j \notin expired

(* submit_with_queue_ms: refused when the scheduler is going away, when it *)
(* is not idle and no wait is allowed, or when the queue is full.          *)
Submit(j) ==
    /\ client[j] = "none"
    /\ client' = [client EXCEPT ![j] = "open"]
    /\ IF handle /\ (config.zero => outstanding = 0) /\ Len(queue) < QueueCap
       THEN /\ queue' = Append(queue, j)
            /\ outstanding' = outstanding + 1
            /\ ticket' = [ticket EXCEPT ![j] = "waiting"]
            /\ watchdog' = [watchdog EXCEPT ![j] = "armed"]
            /\ UNCHANGED stream
       ELSE /\ stream' = [stream EXCEPT ![j] = <<"refused">>]
            /\ UNCHANGED <<queue, outstanding, ticket, watchdog>>
    /\ UNCHANGED <<config, handle, expired, pc, formVars, laneVars, memberVars>>

Answered(j) ==
    stream[j] # <<>> /\ Last(stream[j]) \in {"refused", "busy", "done", "error"}

(* The client leaves; once it has its answer nobody notices.               *)
Close(j) ==
    /\ client[j] = "open" /\ ~Answered(j)
    /\ client' = [client EXCEPT ![j] = "closed"]
    /\ UNCHANGED <<config, queueVars, stream, ticketVars, pc, formVars, laneVars,
                   memberVars>>

(* The scheduler is dropped; after the last request it would only stop an  *)
(* idle dispatcher.                                                        *)
DropHandle ==
    /\ handle /\ \E j \in Jobs : client[j] = "none"
    /\ handle' = FALSE
    /\ UNCHANGED <<config, queue, outstanding, clientVars, ticketVars, pc, formVars,
                   laneVars, memberVars>>

(* The deadline passes; without a queue wait there is none.                *)
Expire(j) ==
    /\ ~config.zero /\ ticket[j] = "waiting" /\ j \notin expired
    /\ expired' = expired \cup {j}
    /\ UNCHANGED <<config, queueVars, clientVars, ticket, watchdog, pc, formVars,
                   laneVars, memberVars>>

(* reject_unclaimed_job_at_deadline: the client left, or the job was       *)
(* claimed.  The receiving end of the ticket goes with the watchdog, and   *)
(* the deadline matters no more.                                           *)
WatchdogEnds(j) ==
    /\ watchdog[j] = "armed"
    /\ client[j] # "open" \/ ticket[j] = "sent"
    /\ watchdog' = [watchdog EXCEPT ![j] = "ended"]
    /\ ticket' = [ticket EXCEPT ![j] = IF @ = "waiting" THEN "closed" ELSE @]
    /\ expired' = expired \ {j}
    /\ UNCHANGED <<config, queueVars, clientVars, pc, formVars, laneVars, memberVars>>

(* The job was dropped unclaimed, or its deadline passed and the ticket,   *)
(* closed now, was not sent.                                               *)
WatchdogRejects(j) ==
    /\ watchdog[j] = "armed" /\ client[j] = "open"
    /\ ticket[j] = "dropped" \/ (ticket[j] = "waiting" /\ j \in expired)
    /\ watchdog' = [watchdog EXCEPT ![j] = "ended"]
    /\ ticket' = [ticket EXCEPT ![j] = IF @ = "waiting" THEN "closed" ELSE @]
    /\ stream' = [stream EXCEPT ![j] = Append(@, "busy")]
    /\ expired' = expired \ {j}
    /\ UNCHANGED <<config, queueVars, client, pc, formVars, laneVars, memberVars>>

-----------------------------------------------------------------------------
(* What the dispatcher does to jobs, clients and lanes.                    *)

(* Unclaimed jobs are dropped, their ticket and reservation with them.     *)
DropUnclaimed(dropped) ==
    /\ ticket' = [j \in Jobs |-> IF j \in dropped /\ ticket[j] = "waiting"
                                 THEN "dropped" ELSE ticket[j]]
    /\ outstanding' = outstanding - Cardinality(dropped)

(* Send `events' to the client in turn.  A send fails when the client has  *)
(* gone or does not read for too long; it is given up and nothing is sent  *)
(* to it any more.                                                         *)
Send(j, events, sent) ==
    /\ sent \in 0..Len(events)
    /\ sent > 0 => client[j] = "open"
    /\ stream' = [stream EXCEPT ![j] = @ \o SubSeq(events, 1, sent)]
    /\ client' = IF sent < Len(events) /\ client[j] = "open"
                 THEN [client EXCEPT ![j] = "stalled"] ELSE client

(* Tell several clients of a failure.                                      *)
SendErrors(to, reached) ==
    /\ reached \subseteq {j \in to : client[j] = "open"}
    /\ stream' = [j \in Jobs |-> IF j \in reached THEN Append(stream[j], "error")
                                 ELSE stream[j]]
    /\ client' = [j \in Jobs |-> IF j \in to \ reached /\ client[j] = "open"
                                 THEN "stalled" ELSE client[j]]

Left(lanes) == [l \in LaneIds |-> IF l \in lanes THEN "Vacant" ELSE seat[l]]

LanesOf(jobs) == {lane[j] : j \in jobs}

-----------------------------------------------------------------------------
(* dispatch_loop.                                                          *)

(* A job leaves the channel; it is kept if somebody still waits for it.    *)
ReceiveInto(next) ==
    LET j == Head(queue)
    IN  /\ queue' = Tail(queue)
        /\ IF IsWaiting(j)
           THEN /\ forming' = Append(forming, j)
                /\ pc' = next
                /\ UNCHANGED <<ticket, outstanding>>
           ELSE /\ DropUnclaimed({j})
                /\ UNCHANGED <<forming, pc>>
        /\ UNCHANGED <<config, handle, clientVars, expired, watchdog, loop, admitted,
                       cur, deferred, laneVars, memberVars>>

RecvFirst == pc = "recv" /\ queue # <<>> /\ ReceiveInto("form")

Stop ==
    /\ pc = "recv" /\ queue = <<>> /\ ~handle
    /\ pc' = "stopped"
    /\ UNCHANGED <<config, queueVars, clientVars, ticketVars, formVars, laneVars, memberVars>>

(* What is queued joins at once, and a lone job waits a while for another. *)
FormTake ==
    /\ pc = "form" /\ queue # <<>> /\ Len(forming) < Lanes
    /\ ReceiveInto("form")

FormClose ==
    /\ pc = "form" /\ (queue = <<>> \/ Len(forming) = Lanes)
    /\ LET kept == Filtered(forming, {j \in Jobs : IsWaiting(j)})
       IN  /\ DropUnclaimed(ToSet(forming) \ ToSet(kept))
           /\ IF Len(kept) = 1 /\ config.solo
              THEN cur' = kept[1] /\ forming' = <<>> /\ pc' = "solo"
              ELSE /\ cur' = None /\ forming' = kept
                   /\ pc' = IF kept = <<>> THEN "recv" ELSE "take"
    /\ loop' = "take" /\ admitted' = 0
    /\ UNCHANGED <<config, handle, queue, clientVars, expired, watchdog, deferred,
                   laneVars, memberVars>>

(* run_solo: claim, then the whole generation on a cache of its own.       *)
SoloClaim ==
    /\ pc = "solo"
    /\ IF IsWaiting(cur)
       THEN /\ ticket' = [ticket EXCEPT ![cur] = "sent"]
            /\ pc' = "run"
            /\ UNCHANGED <<outstanding, cur>>
       ELSE /\ DropUnclaimed({cur})
            /\ cur' = None /\ pc' = "recv"
    /\ UNCHANGED <<config, handle, queue, clientVars, expired, watchdog, loop, forming,
                   admitted, deferred, laneVars, memberVars>>

SoloStreams == {<<"error">>, <<"started", "error">>, <<"started", "delta", "done">>}

SoloRun(events, sent) ==
    /\ pc = "run"
    /\ events \in SoloStreams
    /\ Send(cur, events, sent)
    /\ outstanding' = outstanding - 1
    /\ cur' = None /\ pc' = "recv"
    /\ UNCHANGED <<config, handle, queue, ticketVars, loop, forming, admitted, deferred,
                   laneVars, memberVars>>

-----------------------------------------------------------------------------
(* run_group: admission.                                                   *)

(* A job that nobody waits for is passed over, any other takes a place.    *)
Take(j) ==
    /\ IF IsWaiting(j)
       THEN /\ admitted' = admitted + 1
            /\ cur' = j /\ pc' = "claim"
            /\ UNCHANGED <<ticket, outstanding>>
       ELSE /\ DropUnclaimed({j})
            /\ UNCHANGED <<admitted, cur, pc>>
    /\ UNCHANGED <<config, handle, clientVars, expired, watchdog, deferred, laneVars,
                   memberVars>>

GroupTake ==
    /\ pc = "take" /\ admitted < Lanes /\ forming # <<>>
    /\ forming' = Tail(forming)
    /\ Take(Head(forming))
    /\ UNCHANGED <<queue, loop>>

GroupReceive ==
    /\ pc = "take" /\ admitted < Lanes /\ forming = <<>> /\ queue # <<>>
    /\ forming' = <<Head(queue)>>
    /\ queue' = Tail(queue)
    /\ UNCHANGED <<config, handle, outstanding, clientVars, ticketVars, pc, loop,
                   admitted, cur, deferred, laneVars, memberVars>>

\* Mutant: the ticket may have been closed, and the job is run all the same.
ClaimAnyway ==
    /\ pc = "claim"
    /\ ticket' = [ticket EXCEPT ![cur] = "sent"]
    /\ lane' = [lane EXCEPT ![cur] = Min(Vacancies)]
    /\ seat' = [seat EXCEPT ![Min(Vacancies)] = "ActiveAwaitingPrefill"]
    /\ pc' = "admit"
    /\ UNCHANGED <<config, queueVars, clientVars, expired, watchdog, formVars, cache,
                   memberVars>>

(* claim, then a lane of the roster.                                       *)
Claim ==
    /\ pc = "claim"
    /\ IF IsWaiting(cur)
       THEN LET l == IF Vacancies = {} THEN 0 ELSE Min(Vacancies)
            IN  /\ ticket' = [ticket EXCEPT ![cur] = "sent"]
                /\ lane' = [lane EXCEPT ![cur] = l]
                /\ seat' = [k \in LaneIds |-> IF k = l THEN "ActiveAwaitingPrefill" ELSE seat[k]]
                /\ pc' = "admit"
                /\ UNCHANGED <<outstanding, cur>>
       ELSE /\ DropUnclaimed({cur})
            /\ cur' = None /\ pc' = loop
            /\ UNCHANGED <<lane, seat>>
    /\ UNCHANGED <<config, handle, queue, clientVars, expired, watchdog, loop, forming,
                   admitted, deferred, cache, memberVars>>

\* Mutant: a refused job's reservation is not released.
DismissLeaks(events, sent) ==
    /\ Send(cur, events, sent)
    /\ seat' = Left({lane[cur]})
    /\ cur' = None /\ pc' = loop
    /\ UNCHANGED <<config, queueVars, ticketVars, loop, forming, admitted, deferred,
                   lane, cache, memberVars>>

(* The job at hand goes no further: its lane is left, its reservation      *)
(* released.                                                               *)
Dismiss(events, sent) ==
    /\ Send(cur, events, sent)
    /\ seat' = Left({lane[cur]})
    /\ outstanding' = outstanding - 1
    /\ cur' = None /\ pc' = loop
    /\ UNCHANGED <<config, handle, queue, ticketVars, loop, forming, admitted, deferred,
                   lane, cache, memberVars>>

(* There is no lane, the prompt does not tokenize or fit, the sampler      *)
(* cannot be built, or nothing is asked for.                               *)
AdmitRefused(events, sent) ==
    /\ pc = "admit"
    /\ events \in IF lane[cur] = 0 THEN {<<"error">>} ELSE {<<"error">>, <<"started", "done">>}
    /\ Dismiss(events, sent)

AdmitOk ==
    /\ pc = "admit" /\ lane[cur] # 0
    /\ IF config.packed /\ loop = "take"
       THEN deferred' = deferred \cup {cur} /\ cur' = None /\ pc' = loop
       ELSE pc' = "prefill" /\ UNCHANGED <<deferred, cur>>
    /\ UNCHANGED <<config, queueVars, clientVars, ticketVars, loop, forming, admitted,
                   laneVars, memberVars>>

(* The lane's prefill; it fails, yields no legal token, or is skipped      *)
(* because the client has gone.                                            *)
PrefillFails(sent) == pc = "prefill" /\ Dismiss(<<"error">>, sent)

Prefill ==
    /\ pc = "prefill" /\ client[cur] = "open"
    /\ cache' = [cache EXCEPT ![lane[cur]] = cur]
    /\ pc' = "attach"
    /\ UNCHANGED <<config, queueVars, clientVars, ticketVars, formVars, lane, seat,
                   memberVars>>

(* Admission closes: nothing is left to take for now, or the lanes are     *)
(* used up.  Deferred clients that left meanwhile are let go.              *)
GroupClose(next) ==
    /\ pc = "take"
    /\ admitted = Lanes \/ (forming = <<>> /\ queue = <<>>)
    /\ LET gone == {j \in deferred : client[j] = "closed"}
           kept == deferred \ gone
       IN  /\ deferred' = kept
           /\ seat' = Left(LanesOf(gone))
           /\ outstanding' = outstanding - Cardinality(gone)
           /\ next \in CASE kept = {} -> {"begin"}
                         [] Cardinality(kept) = 1 -> {"serial"}
                         [] OTHER -> {"serial", "pack"}
    /\ pc' = next
    /\ UNCHANGED <<config, handle, queue, clientVars, ticketVars, loop, forming, admitted,
                   cur, lane, cache, memberVars>>

(* One wide prefill of every deferred lane.                                *)
PackedPrefill ==
    /\ pc = "pack"
    /\ cache' = [l \in LaneIds |-> IF l \in LanesOf(deferred)
                                   THEN CHOOSE j \in deferred : lane[j] = l ELSE cache[l]]
    /\ pc' = "packed"
    /\ UNCHANGED <<config, queueVars, clientVars, ticketVars, formVars, lane, seat,
                   memberVars>>

PackedPrefillFails(reached) ==
    /\ pc = "pack"
    /\ SendErrors(deferred, reached)
    /\ seat' = Left(LanesOf(deferred))
    /\ outstanding' = outstanding - Cardinality(deferred)
    /\ deferred' = {}
    /\ pc' = "late"
    /\ UNCHANGED <<config, handle, queue, ticketVars, loop, forming, admitted, cur, lane,
                   cache, memberVars>>

(* The deferred lanes one by one: to be prefilled, or prefilled already.   *)
DeferredNext(j) ==
    /\ pc \in {"serial", "packed"} /\ j \in deferred
    /\ deferred' = deferred \ {j}
    /\ cur' = j
    /\ loop' = pc
    /\ pc' = IF pc = "serial" THEN "prefill" ELSE "attach"
    /\ UNCHANGED <<config, queueVars, clientVars, ticketVars, forming, admitted, laneVars,
                   memberVars>>

DeferredDone ==
    /\ pc \in {"serial", "packed"} /\ deferred = {}
    /\ pc' = "late"
    /\ UNCHANGED <<config, queueVars, clientVars, ticketVars, formVars, laneVars, memberVars>>

(* Whoever came during a deferred prefill still joins.                     *)
LateTake ==
    /\ pc = "late" /\ admitted < Lanes /\ queue # <<>>
    /\ queue' = Tail(queue)
    /\ Take(Head(queue))
    /\ loop' = "late"
    /\ UNCHANGED forming

LateClose ==
    /\ pc = "late" /\ (admitted = Lanes \/ queue = <<>>)
    /\ pc' = "begin"
    /\ UNCHANGED <<config, queueVars, clientVars, ticketVars, formVars, laneVars, memberVars>>

-----------------------------------------------------------------------------
(* Members.                                                                *)

(* What a token does to a member that streams at once: the end of the      *)
(* text, a token that does not decode, one with or without text to show,   *)
(* one that completes a stop string or is the last allowed.                *)
Outcomes(g) ==
    {[events |-> <<"done">>, gen |-> g, over |-> TRUE],
     [events |-> <<"error">>, gen |-> g, over |-> TRUE],
     [events |-> <<"delta", "done">>, gen |-> g + 1, over |-> TRUE]}
    \cup (IF g + 1 < config.maxNew
          THEN {[events |-> <<>>, gen |-> g + 1, over |-> FALSE],
                [events |-> <<"delta">>, gen |-> g + 1, over |-> FALSE]} ELSE {})

(* consume_sampled_token_and_stream_it, and the lane of a member it ends.  *)
Consume(j, out, sent) ==
    /\ out \in Outcomes(gen[j])
    /\ Send(j, out.events, sent)
    /\ gen' = [gen EXCEPT ![j] = out.gen]
    /\ LET failed == sent < Len(out.events)
       IN  /\ abandoned' = IF failed \/ out.events = <<"error">>
                           THEN abandoned \cup {j} ELSE abandoned
           /\ IF failed \/ out.over
              THEN alive' = alive \ {j} /\ seat' = Left({lane[j]})
              ELSE UNCHANGED <<alive, seat>>
    /\ UNCHANGED <<config, queueVars, ticketVars, lane, cache, members, emitted,
                   finishing, mode>>

(* attach_member: Started, then the first token.  It fails when the client *)
(* cannot be told, or when the roster lost track of the lane.              *)
AttachFails(sent) ==
    /\ pc = "attach"
    /\ IF seat[lane[cur]] = "ActiveAwaitingPrefill"
       THEN sent = 0 /\ Dismiss(<<"started">>, sent)
       ELSE Dismiss(<<"error">>, sent)

Attach ==
    /\ pc = "attach" /\ seat[lane[cur]] = "ActiveAwaitingPrefill"
    /\ Send(cur, <<"started">>, 1)
    /\ seat' = [seat EXCEPT ![lane[cur]] = "ActivePrefilled"]
    /\ members' = members \cup {cur}
    /\ alive' = alive \cup {cur}
    /\ pc' = "first"
    /\ UNCHANGED <<config, queueVars, ticketVars, formVars, lane, cache, abandoned, gen,
                   emitted, finishing, todo, mode>>

FirstToken(out, sent) ==
    /\ pc = "first"
    /\ Consume(cur, out, sent)
    /\ cur' = None /\ pc' = loop
    /\ UNCHANGED <<loop, forming, admitted, deferred, todo>>

-----------------------------------------------------------------------------
(* run_group: stepping.                                                    *)

(* Overlap is for groups whose members are all greedy and have no stops.   *)
GroupBegins(how) ==
    /\ pc = "begin"
    /\ how \in IF config.overlap THEN {"plain", "overlap"} ELSE {"plain"}
    /\ mode' = how
    /\ emitted' = gen
    /\ pc' = "top"
    /\ UNCHANGED <<config, queueVars, clientVars, ticketVars, formVars, laneVars, members,
                   alive, abandoned, gen, finishing, todo>>

(* evict_closed_members, and the members whose token is fed.               *)
Evicted == {j \in alive : client[j] = "closed"}
Fed == alive \ Evicted

(* step_plan accepts the feed.                                             *)
PlanOk == \A l \in LaneIds :
    IF l \in LanesOf(Fed) THEN Left(LanesOf(Evicted))[l] = "ActivePrefilled"
    ELSE Left(LanesOf(Evicted))[l] \in {"Vacant", "VacantPadClobbered"}

(* Lanes up to the last one fed are stepped, the vacant ones with a pad    *)
(* that overwrites what they held.                                         *)
Padded == {l \in 1..Max(LanesOf(Fed)) : l \notin LanesOf(Fed)}

After == IF mode = "overlap" /\ members # {} THEN "flush" ELSE "end"

StepDone ==
    /\ pc = "top" /\ Fed = {}
    /\ alive' = {} /\ abandoned' = abandoned \cup Evicted
    /\ seat' = Left(LanesOf(Evicted))
    /\ todo' = members
    /\ pc' = After
    /\ UNCHANGED <<config, queueVars, clientVars, ticketVars, formVars, lane, cache,
                   members, gen, emitted, finishing, mode>>

StepOk ==
    /\ pc = "top" /\ Fed # {} /\ PlanOk
    /\ alive' = Fed /\ abandoned' = abandoned \cup Evicted
    /\ seat' = [l \in LaneIds |-> IF l \in Padded THEN "VacantPadClobbered"
                                  ELSE Left(LanesOf(Evicted))[l]]
    /\ cache' = [l \in LaneIds |-> IF l \in Padded THEN None ELSE cache[l]]
    /\ IF mode = "overlap"
       THEN todo' = members /\ pc' = "emit"
       ELSE todo' = Fed /\ pc' = "consume"
    /\ UNCHANGED <<config, queueVars, clientVars, ticketVars, formVars, lane, members,
                   gen, emitted, finishing, mode>>

\* Mutant: a failing step gives its members up without a word.
StepFailsSilently(reached) ==
    /\ pc = "top" /\ Fed # {}
    /\ reached = {} /\ UNCHANGED clientVars
    /\ alive' = {} /\ abandoned' = abandoned \cup alive
    /\ seat' = Left(LanesOf(Evicted))
    /\ todo' = members
    /\ pc' = After
    /\ UNCHANGED <<config, queueVars, ticketVars, formVars, lane, cache, members, gen,
                   emitted, finishing, mode>>

(* The plan is refused, or the step cannot be run or launched.             *)
StepFails(reached) ==
    /\ pc = "top" /\ Fed # {}
    /\ SendErrors(Fed, reached)
    /\ alive' = {} /\ abandoned' = abandoned \cup alive
    /\ seat' = Left(LanesOf(Evicted))
    /\ todo' = members
    /\ pc' = After
    /\ UNCHANGED <<config, queueVars, ticketVars, formVars, lane, cache, members, gen,
                   emitted, finishing, mode>>

Visit(j, next) ==
    /\ j \in todo
    /\ todo' = todo \ {j}
    /\ pc' = IF todo = {j} THEN next ELSE pc
    /\ UNCHANGED formVars

ConsumeStep(j, out, sent) ==
    /\ pc = "consume"
    /\ Visit(j, "top")
    /\ Consume(j, out, sent)

(* emit_pending_deltas_then_any_deferred_finish                            *)
Owed(j) ==
    IF j \in abandoned THEN {<<>>}
    ELSE {[k \in 1..(gen[j] - emitted[j]) |-> "delta"]
            \o (IF j \in finishing THEN <<"done">> ELSE <<>>)}
         \cup (IF gen[j] > emitted[j] THEN {<<"error">>} ELSE {})

EmitPending(j, events, sent) ==
    /\ events \in Owed(j)
    /\ Send(j, events, sent)
    /\ emitted' = [emitted EXCEPT ![j] = gen[j]]
    /\ finishing' = finishing \ {j}
    /\ IF sent < Len(events) \/ events = <<"error">>
       THEN abandoned' = abandoned \cup {j} /\ alive' = alive \ {j}
       ELSE UNCHANGED <<abandoned, alive>>
    /\ UNCHANGED <<config, queueVars, ticketVars, lane, cache, members, gen, mode>>

\* Mutant: a member evicted while the next step runs keeps its lane.
EmitKeepsLane(j, events, sent) ==
    /\ pc = "emit"
    /\ Visit(j, "collect")
    /\ EmitPending(j, events, sent)
    /\ UNCHANGED seat

(* While the step runs, what the step before it produced is sent.          *)
Emit(j, events, sent) ==
    /\ pc = "emit"
    /\ Visit(j, "collect")
    /\ EmitPending(j, events, sent)
    /\ seat' = IF j \in alive \ alive' THEN Left({lane[j]}) ELSE seat

Collect ==
    /\ pc = "collect"
    /\ todo' = alive
    /\ pc' = IF alive = {} THEN "top" ELSE "advance"
    /\ UNCHANGED <<config, queueVars, clientVars, ticketVars, formVars, laneVars, members,
                   alive, abandoned, gen, emitted, finishing, mode>>

CollectFails(reached) ==
    /\ pc = "collect"
    /\ SendErrors(alive, reached)
    /\ alive' = {} /\ abandoned' = abandoned \cup alive
    /\ todo' = members
    /\ pc' = "flush"
    /\ UNCHANGED <<config, queueVars, ticketVars, formVars, laneVars, members, gen,
                   emitted, finishing, mode>>

(* advance_on_device_argmax_token: the token is kept for the next emission *)
(* and the lane of a member that it ends is left now.                      *)
Advance(j, eos) ==
    /\ pc = "advance"
    /\ Visit(j, "top")
    /\ gen' = [gen EXCEPT ![j] = IF eos THEN @ ELSE @ + 1]
    /\ IF eos \/ gen'[j] >= config.maxNew
       THEN /\ finishing' = finishing \cup {j}
            /\ alive' = alive \ {j}
            /\ seat' = Left({lane[j]})
       ELSE UNCHANGED <<finishing, alive, seat>>
    /\ UNCHANGED <<config, queueVars, clientVars, ticketVars, lane, cache, members,
                   abandoned, emitted, mode>>

(* The step has no token for a lane it was fed.                            *)
AdvanceFails(j, sent) ==
    /\ pc = "advance"
    /\ Visit(j, "top")
    /\ Send(j, <<"error">>, sent)
    /\ abandoned' = abandoned \cup {j}
    /\ alive' = alive \ {j}
    /\ seat' = Left({lane[j]})
    /\ UNCHANGED <<config, queueVars, ticketVars, lane, cache, members, gen, emitted,
                   finishing, mode>>

Flush(j, events, sent) ==
    /\ pc = "flush"
    /\ Visit(j, "end")
    /\ EmitPending(j, events, sent)
    /\ UNCHANGED seat

(* run_group returns: members and whatever is pending are dropped, and     *)
(* what the lanes hold is of no use to the next group.                     *)
GroupEnds ==
    /\ pc = "end"
    /\ ticket' = [j \in Jobs |-> IF j \in ToSet(forming) /\ ticket[j] = "waiting"
                                 THEN "dropped" ELSE ticket[j]]
    /\ outstanding' = outstanding - Cardinality(members) - Len(forming)
    /\ forming' = <<>> /\ admitted' = 0 /\ loop' = "take"
    /\ members' = {} /\ abandoned' = {} /\ finishing' = {} /\ todo' = {}
    /\ gen' = [j \in Jobs |-> 0] /\ emitted' = [j \in Jobs |-> 0]
    /\ lane' = [j \in Jobs |-> 0]
    /\ seat' = [l \in LaneIds |-> "Vacant"]
    /\ cache' = [l \in LaneIds |-> None]
    /\ mode' = "plain"
    /\ pc' = "recv"
    /\ UNCHANGED <<config, handle, queue, clientVars, expired, watchdog, cur, deferred,
                   alive>>

-----------------------------------------------------------------------------
Lengths == 0..(config.maxNew + 1)

Admission ==
    \/ RecvFirst \/ Stop \/ FormTake \/ FormClose \/ SoloClaim
    \/ \E events \in SoloStreams, sent \in 0..3 : SoloRun(events, sent)
    \/ GroupTake \/ GroupReceive \/ Claim \/ AdmitOk \/ Prefill
    \/ \E events \in {<<"error">>, <<"started", "done">>}, sent \in 0..2 :
          AdmitRefused(events, sent)
    \/ \E sent \in 0..1 : PrefillFails(sent)
    \/ \E next \in {"begin", "serial", "pack"} : GroupClose(next)
    \/ PackedPrefill
    \/ \E reached \in SUBSET deferred : PackedPrefillFails(reached)
    \/ \E j \in deferred : DeferredNext(j)
    \/ DeferredDone \/ LateTake \/ LateClose
    \/ Attach \/ \E sent \in 0..1 : AttachFails(sent)

Stepping ==
    \/ \E j \in {cur} \ {None}, sent \in Lengths :
          \E out \in Outcomes(gen[j]) : FirstToken(out, sent)
    \/ \E how \in {"plain", "overlap"} : GroupBegins(how)
    \/ StepDone \/ StepOk
    \/ \E reached \in SUBSET alive : StepFails(reached) \/ CollectFails(reached)
    \/ \E j \in todo, sent \in Lengths :
          \/ \E out \in Outcomes(gen[j]) : ConsumeStep(j, out, sent)
          \/ \E events \in Owed(j) : Emit(j, events, sent) \/ Flush(j, events, sent)
    \/ Collect
    \/ \E j \in todo, eos \in BOOLEAN : Advance(j, eos)
    \/ \E j \in todo, sent \in 0..1 : AdvanceFails(j, sent)
    \/ GroupEnds

Dispatcher == Admission \/ Stepping

Next ==
    \/ \E j \in Jobs : Submit(j) \/ Close(j) \/ Expire(j)
    \/ DropHandle
    \/ \E j \in Jobs : WatchdogEnds(j) \/ WatchdogRejects(j)
    \/ Dispatcher

Spec == Init /\ [][Next]_vars

(* The dispatcher's thread runs, models answer, a send ends at the latest  *)
(* with its timeout, and the watchdogs are scheduled.                      *)
FairSpec ==
    /\ Spec
    /\ WF_vars(Dispatcher)
    /\ \A j \in Jobs : WF_vars(WatchdogEnds(j) \/ WatchdogRejects(j))

-----------------------------------------------------------------------------
(* Properties.                                                             *)

(* The reservations that are held: those of the jobs still queued, taken   *)
(* and not dropped, or in a group, dead members included.                  *)
Reserved == ToSet(queue) \cup ToSet(forming) \cup ({cur} \ {None}) \cup deferred \cup members

(* The counter behind the zero-wait admission is exact on every path out   *)
(* of the scheduler, and with no queue wait at most one job is inside.     *)
OutstandingExact ==
    /\ outstanding = Cardinality(Reserved)
    /\ config.zero => outstanding <= 1

(* A client sees one story: a refusal, Busy, an error, or Started and then *)
(* text up to one Done or Error; never Busy for a job that was claimed.    *)
StreamWellFormed ==
    \A j \in Jobs : \A k \in DOMAIN stream[j] :
        /\ k = 1 => stream[j][k] \in {"refused", "busy", "error", "started"}
        /\ k > 1 => stream[j][k] \in {"delta", "done", "error"} /\ stream[j][1] = "started"
        /\ k < Len(stream[j]) => stream[j][k] \in {"started", "delta"}

(* The pad-clobber invariant: when a step is planned, the roster's active  *)
(* seats are exactly the lanes of the live members, each prefilled by its  *)
(* own member and not overwritten since, so step_plan refuses no feed.     *)
LaneIsOwn ==
    pc = "top" =>
        /\ {l \in LaneIds : seat[l] \notin {"Vacant", "VacantPadClobbered"}} = LanesOf(alive)
        /\ \A j \in alive : seat[lane[j]] = "ActivePrefilled" /\ cache[lane[j]] = j

(* Every request gets an answer to the end, unless its client leaves or    *)
(* stops reading.                                                          *)
EveryJobAnswered ==
    \A j \in Jobs : client[j] = "open" ~> Answered(j) \/ client[j] # "open"
=============================================================================
