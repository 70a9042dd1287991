------------------------ MODULE QwenSchedulerProofs ------------------------
(***************************************************************************)
(* The batch scheduler of the Qwen models, for any number of requests and  *)
(* lanes: first where a job can be (queued, being formed into a group, in  *)
(* hand, deferred, a member), and on top of that the count of              *)
(* reservations, the lanes, and what the clients are told.                 *)
(***************************************************************************)
EXTENDS QwenScheduler, QueueProofs

Story == {"refused", "busy", "error", "started", "delta", "done"}

Idle == {"recv", "form", "solo", "run", "stopped"}
Admitting == {"take", "pack", "serial", "packed", "late"}
OneInHand == {"solo", "run", "claim", "admit", "prefill", "attach", "first"}
GroupSteps == {"begin", "top", "consume", "emit", "collect", "advance", "flush", "end"}

QueueTypes ==
    /\ config \in Configs
    /\ handle \in BOOLEAN
    /\ queue \in Seq(Jobs) /\ forming \in Seq(Jobs)
    /\ pc \in Idle \cup Admitting \cup OneInHand \cup GroupSteps
    /\ loop \in {"take", "serial", "packed", "late"}
    /\ admitted \in Nat
    /\ cur \in Jobs \cup {None}
    /\ deferred \subseteq Jobs

ClientTypes ==
    /\ client \in [Jobs -> {"none", "open", "closed", "stalled"}]
    /\ stream \in [Jobs -> Seq(Story)]

TicketTypes ==
    /\ ticket \in [Jobs -> {"none", "waiting", "sent", "closed", "dropped"}]
    /\ expired \subseteq Jobs
    /\ watchdog \in [Jobs -> {"none", "armed", "ended"}]

LaneTypes ==
    /\ lane \in [Jobs -> 0 .. Lanes]
    /\ seat \in [LaneIds -> {"Vacant", "VacantPadClobbered", "ActiveAwaitingPrefill",
                             "ActivePrefilled"}]
    /\ cache \in [LaneIds -> Jobs \cup {None}]

MemberTypes ==
    /\ members \subseteq Jobs
    /\ alive \subseteq members /\ abandoned \subseteq members
    /\ finishing \subseteq members /\ todo \subseteq members
    /\ mode \in {"plain", "overlap"}

GenTypes == gen \in [Jobs -> Nat] /\ emitted \in [Jobs -> Nat]

QwenTypes ==
    QueueTypes /\ ClientTypes /\ TicketTypes /\ LaneTypes /\ MemberTypes /\ GenTypes

Queued == Range(queue)
Formed == Range(forming)

\* The job in hand; with its first token it is a member already.
InHand == IF pc = "first" THEN {} ELSE {cur} \ {None}

\* Nobody is in two places, or twice in one.
Apart ==
    /\ IsInjective(queue) /\ IsInjective(forming)
    /\ Queued \cap (Formed \cup InHand \cup deferred \cup members) = {}
    /\ Formed \cap (InHand \cup deferred \cup members) = {}
    /\ InHand \cap (deferred \cup members) = {}
    /\ deferred \cap members = {}

\* Who may be where at each point of the dispatcher.
Stages ==
    /\ cur \in Jobs <=> pc \in OneInHand
    /\ pc = "first" => cur \in alive
    /\ pc = "take" => loop = "take"
    /\ pc \in {"claim", "admit", "prefill"} => loop # "packed"
    /\ members # {} => pc \notin Idle
    /\ alive # {} => pc \notin {"flush", "end"}
    /\ deferred # {} =>
          \/ pc \in {"take", "pack", "serial", "packed"}
          \/ /\ pc \in {"claim", "admit", "prefill", "attach", "first"}
             /\ loop \in {"take", "serial", "packed"}
    /\ pc \in {"consume", "advance"} => todo \subseteq alive
    /\ pc \in {"emit", "collect", "advance", "flush"} => mode = "overlap"
    /\ pc = "consume" => mode = "plain"
    /\ alive \cap abandoned = {} /\ alive \cap finishing = {}

\* A request that was not made is nowhere.
Unborn == \A j \in Reserved : client[j] # "none"

PlaceInv == QwenTypes /\ Apart /\ Stages /\ Unborn

-----------------------------------------------------------------------------
CountInv ==
    /\ outstanding = Cardinality(Reserved)
    /\ config.zero => outstanding <= 1

-----------------------------------------------------------------------------
(* The lanes.                                                              *)

\* The jobs that have a lane.
Holders == alive \cup deferred \cup (IF pc \in {"admit", "prefill", "attach"} THEN {cur} ELSE {})

Occupied == {l \in LaneIds : seat[l] \notin {"Vacant", "VacantPadClobbered"}}

LanesDiffer ==
    /\ \A i, j \in Holders : lane[i] = lane[j] => i = j
    /\ \A j \in Holders : lane[j] = 0 => pc = "admit" /\ j = cur

\* Until the group is over, the roster knows who has which lane.
SeatsExact ==
    /\ \A l \in Occupied : \E j \in Holders : lane[j] = l
    /\ \A j \in alive : seat[lane[j]] = "ActivePrefilled" /\ cache[lane[j]] = j
    /\ \A j \in Holders \ alive : lane[j] # 0 => seat[lane[j]] = "ActiveAwaitingPrefill"

Prefilled ==
    /\ pc = "attach" => cache[lane[cur]] = cur
    /\ pc = "packed" \/ (loop = "packed" /\ pc \in {"attach", "first"}) =>
          \A j \in deferred : cache[lane[j]] = j

LaneInv ==
    /\ LanesDiffer
    /\ pc \notin {"flush", "end"} => SeatsExact
    /\ Prefilled

-----------------------------------------------------------------------------
(* What the clients are told.                                              *)

\* A story as the property has it, and one that goes on.
IsStory(s) ==
    \A k \in 1 .. Len(s) :
        /\ k = 1 => s[k] \in {"refused", "busy", "error", "started"}
        /\ k > 1 => s[k] \in {"delta", "done", "error"} /\ s[1] = "started"
        /\ k < Len(s) => s[k] \in {"started", "delta"}

GoesOn(s) ==
    /\ Len(s) >= 1 /\ s[1] = "started"
    /\ \A k \in 2 .. Len(s) : s[k] = "delta"

\* The jobs that were claimed and are not members yet.
Claimed ==
    deferred \cup (IF pc \in {"run", "admit", "prefill", "attach"} THEN {cur} ELSE {})

\* Nobody is told anything before it was claimed, but for a refusal or Busy.
Stories ==
    \A j \in Jobs :
        /\ IsStory(stream[j])
        /\ client[j] = "none" => stream[j] = <<>> /\ ticket[j] = "none"
        /\ ticket[j] = "waiting" => stream[j] = <<>>
        /\ ticket[j] = "dropped" /\ watchdog[j] = "armed" => stream[j] = <<>>

ClaimedFresh == \A j \in Claimed : ticket[j] = "sent" /\ stream[j] = <<>>

\* Members were claimed; those that still decode, or have ended and were not
\* told so, are in the middle of their story.
MembersTold ==
    /\ \A j \in members : ticket[j] = "sent"
    /\ \A j \in alive \cup (finishing \ abandoned) : GoesOn(stream[j])

\* With overlap, a member that has ended and was told so is owed nothing.
NothingOwed ==
    mode = "overlap" /\ pc \in {"top", "emit", "collect", "advance", "flush"} =>
        \A j \in members \ (alive \cup abandoned \cup finishing) : emitted[j] = gen[j]

StoryInv == Stories /\ ClaimedFresh /\ MembersTold /\ NothingOwed

-----------------------------------------------------------------------------
(* Where a job can be.                                                     *)

(* The next job of the channel.                                            *)
LEMMA QueueHead ==
    ASSUME QwenTypes, Apart, queue # <<>>
    PROVE  /\ Tail(queue) \in Seq(Jobs) /\ IsInjective(Tail(queue))
           /\ Head(queue) \in Jobs /\ Head(queue) \in Queued
           /\ Range(Tail(queue)) = Queued \ {Head(queue)}
  BY TailInjective DEF QwenTypes, QueueTypes, Apart, Queued

(* The next job of the group that is formed.                               *)
LEMMA FormingHead ==
    ASSUME QwenTypes, Apart, forming # <<>>
    PROVE  /\ Tail(forming) \in Seq(Jobs) /\ IsInjective(Tail(forming))
           /\ Head(forming) \in Jobs /\ Head(forming) \in Formed
           /\ Range(Tail(forming)) = Formed \ {Head(forming)}
  BY TailInjective DEF QwenTypes, QueueTypes, Apart, Formed

(* A single job is visited, and what is left to visit.                     *)
LEMMA StagesVisit ==
    ASSUME QwenTypes, Stages, NEW j, NEW next, Visit(j, next)
    PROVE  /\ j \in todo /\ todo' = todo \ {j} /\ pc' \in {pc, next}
           /\ j \in members /\ j \in Jobs
           /\ UNCHANGED <<loop, forming, admitted, cur, deferred>>
  BY DEF QwenTypes, MemberTypes, Visit, formVars

(* What a token does to the member it is for.                              *)
LEMMA OutcomeFacts ==
    ASSUME NEW g \in Nat, NEW out \in Outcomes(g)
    PROVE  /\ out.gen \in Nat /\ out.over \in BOOLEAN
           /\ out.events \in Seq(Story)
           /\ \A k \in 1 .. Len(out.events) :
                 /\ out.events[k] \in {"delta", "done", "error"}
                 /\ k < Len(out.events) => out.events[k] = "delta"
           /\ ~out.over => \A k \in 1 .. Len(out.events) : out.events[k] = "delta"
           /\ out.events = <<"error">> => out.over
<1>1. CASE out = [events |-> <<"done">>, gen |-> g, over |-> TRUE]
  BY <1>1 DEF Story
<1>2. CASE out = [events |-> <<"error">>, gen |-> g, over |-> TRUE]
  BY <1>2 DEF Story
<1>3. CASE out = [events |-> <<"delta", "done">>, gen |-> g + 1, over |-> TRUE]
  BY <1>3 DEF Story
<1>4. CASE out = [events |-> <<>>, gen |-> g + 1, over |-> FALSE]
  BY <1>4 DEF Story
<1>5. CASE out = [events |-> <<"delta">>, gen |-> g + 1, over |-> FALSE]
  BY <1>5 DEF Story
<1> QED BY <1>1, <1>2, <1>3, <1>4, <1>5 DEF Outcomes

(* A token ends the member it is for, or leaves everything but its count   *)
(* as it was; nobody else is touched.                                      *)
LEMMA ConsumeFacts ==
    ASSUME QwenTypes, NEW j \in Jobs, NEW out, NEW sent, Consume(j, out, sent)
    PROVE  /\ abandoned' \in {abandoned, abandoned \cup {j}}
           /\ \/ alive' = alive /\ abandoned' = abandoned
              \/ alive' = alive \ {j}
           /\ UNCHANGED <<config, queueVars, ticketVars, lane, cache, members, emitted,
                          finishing, mode>>
<1>1. gen[j] \in Nat /\ out \in Outcomes(gen[j])
  BY DEF QwenTypes, GenTypes, Consume
<1>2. out.events = <<"error">> => out.over
  BY <1>1, OutcomeFacts
<1> QED BY <1>2 DEF Consume

(* What a member was owed is sent; if that fails it is given up.           *)
LEMMA EmitFacts ==
    ASSUME NEW j, NEW events, NEW sent, EmitPending(j, events, sent)
    PROVE  /\ abandoned' \in {abandoned, abandoned \cup {j}}
           /\ finishing' = finishing \ {j}
           /\ \/ alive' = alive /\ abandoned' = abandoned
              \/ alive' = alive \ {j}
           /\ UNCHANGED <<config, queueVars, ticketVars, lane, cache, members, gen, mode>>
  BY DEF EmitPending

(* Every step leaves the jobs where the next point of the dispatcher       *)
(* expects them.                                                           *)
LEMMA StagesNext ==
    ASSUME QwenTypes, Apart, Stages, [Next]_vars
    PROVE  Stages'
<1> USE SchedulerOptions DEF QwenTypes, QueueTypes, MemberTypes, Stages, Idle, Admitting, OneInHand, GroupSteps,
        queueVars, clientVars, ticketVars, formVars, laneVars, memberVars
<1>1. CASE \E j \in Jobs : Submit(j) \/ Close(j) \/ Expire(j)
  BY <1>1 DEF Submit, Close, Expire
<1>2. CASE DropHandle
  BY <1>2 DEF DropHandle
<1>3. CASE \E j \in Jobs : WatchdogEnds(j) \/ WatchdogRejects(j)
  BY <1>3 DEF WatchdogEnds, WatchdogRejects
<1>4. CASE Admission
  <2>1. CASE RecvFirst \/ Stop \/ FormTake
    BY <2>1 DEF RecvFirst, Stop, FormTake, ReceiveInto
  <2>2. CASE FormClose
    <3>1. PICK kept : /\ kept = Filtered(forming, {j \in Jobs : IsWaiting(j)})
                      /\ cur' \in {None, kept[1]} /\ pc' \in {"solo", "recv", "take"}
                      /\ pc' = "solo" <=> Len(kept) = 1 /\ config.solo
                      /\ pc' = "solo" => cur' = kept[1]
                      /\ pc' # "solo" => cur' = None
      BY <2>2 DEF FormClose
    <3>2. kept \in Seq(Jobs)
      BY <3>1, FilteredProperties DEF Apart
    <3>3. pc' = "solo" => cur' \in Jobs
      BY <3>1, <3>2
    <3> QED BY <2>2, <3>1, <3>3 DEF FormClose
  <2>3. CASE SoloClaim
    BY <2>3 DEF SoloClaim
  <2>4. CASE \E events \in SoloStreams, sent \in 0 .. 3 : SoloRun(events, sent)
    BY <2>4 DEF SoloRun
  <2>5. CASE GroupTake
    <3>1. Head(forming) \in Jobs
      BY <2>5, FormingHead DEF GroupTake
    <3> QED BY <2>5, <3>1 DEF GroupTake, Take
  <2>6. CASE GroupReceive
    BY <2>6 DEF GroupReceive
  <2>7. CASE Claim
    BY <2>7 DEF Claim
  <2>8. CASE AdmitOk
    BY <2>8 DEF AdmitOk
  <2>9. CASE Prefill
    BY <2>9 DEF Prefill
  <2>10. CASE \E events \in {<<"error">>, <<"started", "done">>}, sent \in 0 .. 2 :
                  AdmitRefused(events, sent)
    BY <2>10 DEF AdmitRefused, Dismiss
  <2>11. CASE \E sent \in 0 .. 1 : PrefillFails(sent)
    BY <2>11 DEF PrefillFails, Dismiss
  <2>12. CASE \E next \in {"begin", "serial", "pack"} : GroupClose(next)
    BY <2>12 DEF GroupClose
  <2>13. CASE PackedPrefill \/ \E reached \in SUBSET deferred : PackedPrefillFails(reached)
    BY <2>13 DEF PackedPrefill, PackedPrefillFails
  <2>14. CASE \E j \in deferred : DeferredNext(j)
    BY <2>14 DEF DeferredNext
  <2>15. CASE DeferredDone \/ LateClose
    BY <2>15 DEF DeferredDone, LateClose
  <2>16. CASE LateTake
    <3>1. Head(queue) \in Jobs
      BY <2>16, QueueHead DEF LateTake
    <3> QED BY <2>16, <3>1 DEF LateTake, Take
  <2>17. CASE Attach
    <3>1. cur \notin members
      BY <2>17 DEF Attach, Apart, InHand
    <3> QED BY <2>17, <3>1 DEF Attach
  <2>18. CASE \E sent \in 0 .. 1 : AttachFails(sent)
    BY <2>18 DEF AttachFails, Dismiss
  <2> QED BY <1>4, <2>1, <2>2, <2>3, <2>4, <2>5, <2>6, <2>7, <2>8, <2>9, <2>10, <2>11, <2>12,
             <2>13, <2>14, <2>15, <2>16, <2>17, <2>18 DEF Admission
<1>5. CASE Stepping
  <2>1. CASE \E j \in {cur} \ {None}, sent \in Lengths :
                \E out \in Outcomes(gen[j]) : FirstToken(out, sent)
    BY <2>1, ConsumeFacts DEF FirstToken
  <2>2. CASE \E how \in {"plain", "overlap"} : GroupBegins(how)
    BY <2>2 DEF GroupBegins
  <2>3. CASE StepDone \/ StepOk
    BY <2>3 DEF StepDone, StepOk, After, Fed, Evicted
  <2>4. CASE \E reached \in SUBSET alive : StepFails(reached) \/ CollectFails(reached)
    BY <2>4 DEF StepFails, CollectFails, After
  <2>5. ASSUME NEW j \in todo, NEW sent \in Lengths, NEW out \in Outcomes(gen[j]),
               ConsumeStep(j, out, sent)
        PROVE  Stages'
    <3>1. /\ pc = "consume" /\ Visit(j, "top") /\ Consume(j, out, sent)
      BY <2>5 DEF ConsumeStep
    <3>2. /\ j \in Jobs /\ todo' = todo \ {j} /\ pc' \in {pc, "top"}
          /\ UNCHANGED <<loop, forming, admitted, cur, deferred>>
      BY <3>1, StagesVisit
    <3> QED BY <3>1, <3>2, ConsumeFacts
  <2>6. ASSUME NEW j \in todo, NEW sent \in Lengths, NEW events \in Owed(j),
               Emit(j, events, sent) \/ Flush(j, events, sent)
        PROVE  Stages'
    <3>1. PICK next \in {"collect", "end"} :
             /\ (pc = "emit" /\ next = "collect") \/ (pc = "flush" /\ next = "end")
             /\ Visit(j, next) /\ EmitPending(j, events, sent)
      BY <2>6 DEF Emit, Flush
    <3>2. /\ j \in Jobs /\ todo' = todo \ {j} /\ pc' \in {pc, next}
          /\ UNCHANGED <<loop, forming, admitted, cur, deferred>>
      BY <3>1, StagesVisit
    <3> QED BY <3>1, <3>2, EmitFacts
  <2>7. CASE Collect
    BY <2>7 DEF Collect
  <2>8. ASSUME NEW j \in todo,
               (\E eos \in BOOLEAN : Advance(j, eos)) \/ (\E sent \in 0 .. 1 : AdvanceFails(j, sent))
        PROVE  Stages'
    <3>1. /\ pc = "advance" /\ Visit(j, "top")
          /\ \/ UNCHANGED <<alive, abandoned, finishing>>
             \/ /\ alive' = alive \ {j} /\ abandoned' \in {abandoned, abandoned \cup {j}}
                /\ finishing' \in {finishing, finishing \cup {j}}
          /\ UNCHANGED <<members, mode>>
      BY <2>8 DEF Advance, AdvanceFails
    <3>2. /\ j \in Jobs /\ todo' = todo \ {j} /\ pc' \in {pc, "top"}
          /\ UNCHANGED <<loop, forming, admitted, cur, deferred>>
      BY <3>1, StagesVisit
    <3> QED BY <3>1, <3>2
  <2>10. CASE GroupEnds
    BY <2>10 DEF GroupEnds
  <2> QED BY <1>5, <2>1, <2>2, <2>3, <2>4, <2>5, <2>6, <2>7, <2>8, <2>10 DEF Stepping
<1>6. CASE UNCHANGED vars
  BY <1>6 DEF vars
<1> QED BY <1>1, <1>2, <1>3, <1>4, <1>5, <1>6 DEF Next, Dispatcher

-----------------------------------------------------------------------------
(* Types.                                                                  *)

(* Several events in a row to one client.                                  *)
LEMMA SendFacts ==
    ASSUME QwenTypes, NEW j \in Jobs, NEW events \in Seq(Story), NEW sent,
           Send(j, events, sent)
    PROVE  /\ stream' \in [Jobs -> Seq(Story)]
           /\ client' \in [Jobs -> {"none", "open", "closed", "stalled"}]
           /\ stream'[j] = stream[j] \o SubSeq(events, 1, sent)
           /\ \A i \in Jobs : i # j => stream'[i] = stream[i] /\ client'[i] = client[i]
           /\ \A i \in Jobs : client'[i] = "none" <=> client[i] = "none"
           /\ sent \in 0 .. Len(events) /\ Len(events) \in Nat
<1>1. sent \in Nat /\ sent <= Len(events) /\ Len(events) \in Nat
  BY DEF Send
<1>2. SubSeq(events, 1, sent) \in Seq(Story)
  BY <1>1, PrefixProperties
<1>3. stream[j] \in Seq(Story) /\ stream[j] \o SubSeq(events, 1, sent) \in Seq(Story)
  BY <1>2 DEF QwenTypes, ClientTypes
<1> QED BY <1>1, <1>3 DEF QwenTypes, ClientTypes, Send

(* A failure that several clients are told of.                             *)
LEMMA SendErrorsFacts ==
    ASSUME QwenTypes, NEW to, to \subseteq Jobs, NEW reached, SendErrors(to, reached)
    PROVE  /\ stream' \in [Jobs -> Seq(Story)]
           /\ client' \in [Jobs -> {"none", "open", "closed", "stalled"}]
           /\ reached \subseteq to
           /\ \A i \in reached : stream'[i] = Append(stream[i], "error")
           /\ \A i \in Jobs \ reached : stream'[i] = stream[i]
           /\ \A i \in Jobs : client'[i] = "none" <=> client[i] = "none"
<1>1. \A i \in Jobs : stream[i] \in Seq(Story) /\ Append(stream[i], "error") \in Seq(Story)
  BY DEF QwenTypes, ClientTypes, Story
<1> QED BY <1>1 DEF QwenTypes, ClientTypes, SendErrors

(* The lane that a new member of the group is given.                       *)
LEMMA MinVacancy ==
    ASSUME Vacancies # {}
    PROVE  Min(Vacancies) \in Vacancies
<1>1. Vacancies \subseteq Nat
  BY SchedulerOptions DEF Vacancies, LaneIds
<1>2. PICK x \in Vacancies : \A y \in Vacancies : x <= y
  BY <1>1, LeastNat
<1> QED BY <1>2 DEF Min

(* What a member is owed: text, and then perhaps an end.                   *)
LEMMA OwedTypes ==
    ASSUME QwenTypes, NEW j \in Jobs, NEW events \in Owed(j)
    PROVE  /\ events \in Seq(Story)
           /\ \A k \in 1 .. Len(events) :
                 /\ events[k] \in {"delta", "done", "error"}
                 /\ k < Len(events) => events[k] = "delta"
           /\ events # <<"error">> /\ j \notin finishing =>
                 \A k \in 1 .. Len(events) : events[k] = "delta"
           /\ j \in abandoned => events = <<>>
           /\ gen[j] = emitted[j] /\ j \notin finishing => events = <<>>
<1> DEFINE n == gen[j] - emitted[j]
           text == [k \in 1 .. n |-> "delta"]
<1>1. n \in Int
  BY DEF QwenTypes, GenTypes
<1>4. gen[j] = emitted[j] => n = 0 /\ ~(gen[j] > emitted[j])
  BY DEF QwenTypes, GenTypes
<1>5. \/ j \in abandoned /\ events = <<>>
      \/ j \notin abandoned /\ events = text \o <<"done">> /\ j \in finishing
      \/ j \notin abandoned /\ events = text \o <<>> /\ j \notin finishing
      \/ j \notin abandoned /\ events = <<"error">> /\ gen[j] > emitted[j]
  BY DEF Owed
<1> HIDE DEF n
<1>a. ASSUME n <= 0 PROVE text = <<>>
  <2>1. 1 .. n = {}
    BY <1>1, <1>a
  <2> QED BY <2>1
<1>b. ASSUME n > 0
      PROVE  text \in Seq(Story) /\ \A k \in 1 .. Len(text) : text[k] = "delta"
  <2>1. n \in Nat
    BY <1>1, <1>b
  <2>2. text \in [1 .. n -> Story]
    BY DEF Story
  <2>3. text \in Seq(Story) /\ Len(text) = n
    BY <2>1, <2>2
  <2> QED BY <2>3
<1> HIDE DEF text
<1>2. text \in Seq(Story) /\ \A k \in 1 .. Len(text) : text[k] = "delta"
  <2>1. CASE n <= 0
    BY <1>a, <2>1
  <2> QED BY <1>1, <1>b, <2>1
<1>3. n = 0 => text = <<>>
  BY <1>a
<1>6. CASE j \in abandoned /\ events = <<>>
  BY <1>6
<1>7. CASE j \notin abandoned /\ events = text \o <<"done">> /\ j \in finishing
  <2>1. <<"done">> \in Seq(Story)
    BY DEF Story
  <2>2. /\ events \in Seq(Story) /\ Len(events) = Len(text) + 1 /\ Len(text) \in Nat
        /\ \A k \in 1 .. Len(text) : events[k] = text[k]
        /\ events[Len(text) + 1] = "done"
    BY <1>2, <1>7, <2>1
  <2>3. \A k \in 1 .. Len(events) : k \in 1 .. Len(text) \/ k = Len(events)
    BY <2>2
  <2> QED BY <1>2, <1>7, <2>2, <2>3
<1>8. CASE j \notin abandoned /\ events = text \o <<>> /\ j \notin finishing
  <2>1. events = text
    BY <1>2, <1>8
  <2> QED BY <1>2, <1>3, <1>4, <1>8, <2>1
<1>9. CASE j \notin abandoned /\ events = <<"error">> /\ gen[j] > emitted[j]
  BY <1>4, <1>9 DEF Story
<1> QED BY <1>5, <1>6, <1>7, <1>8, <1>9

\* Nobody's request is unmade.
Kept == ClientTypes' /\ \A j \in Jobs : client'[j] = "none" => client[j] = "none"

(* The steps that say something to a client, and all the others.           *)
LEMMA ClientTypesNext ==
    ASSUME QwenTypes, Stages, [Next]_vars
    PROVE  Kept
<1>0. /\ <<"error">> \in Seq(Story) /\ <<"started", "done">> \in Seq(Story)
      /\ <<"started">> \in Seq(Story) /\ SoloStreams \subseteq Seq(Story)
      /\ \A j \in Jobs : Append(stream[j], "busy") \in Seq(Story) /\ <<"refused">> \in Seq(Story)
  BY DEF Story, SoloStreams, QwenTypes, ClientTypes
<1>1. ASSUME NEW j \in Jobs, NEW events \in Seq(Story), NEW sent, Send(j, events, sent)
      PROVE  Kept
  BY <1>1, SendFacts DEF ClientTypes, Kept
<1>2. ASSUME NEW to, to \subseteq Jobs, NEW reached, SendErrors(to, reached)
      PROVE  Kept
  BY <1>2, SendErrorsFacts DEF ClientTypes, Kept
<1>3. ASSUME UNCHANGED clientVars PROVE Kept
  BY <1>3 DEF ClientTypes, QwenTypes, Kept, clientVars
<1>4. ASSUME NEW j \in Jobs, Submit(j) \/ Close(j) \/ Expire(j) PROVE Kept
  BY <1>0, <1>4 DEF ClientTypes, QwenTypes, Kept, clientVars, Submit, Close, Expire
<1>5. ASSUME NEW j \in Jobs, WatchdogEnds(j) \/ WatchdogRejects(j) PROVE Kept
  BY <1>0, <1>5 DEF ClientTypes, QwenTypes, Kept, clientVars, WatchdogEnds, WatchdogRejects
<1>6. CASE DropHandle
  BY <1>3, <1>6 DEF DropHandle
<1>7. CASE Admission
  <2>1. ASSUME NEW events \in SoloStreams, NEW sent \in 0 .. 3, SoloRun(events, sent)
        PROVE  Kept
    <3>1. cur \in Jobs /\ events \in Seq(Story) /\ Send(cur, events, sent)
      BY <1>0, <2>1 DEF SoloRun, Stages, OneInHand
    <3> QED BY <1>1, <3>1
  <2>2. ASSUME NEW events \in Seq(Story), NEW sent, Dismiss(events, sent), pc \in OneInHand
        PROVE  Kept
    <3>1. cur \in Jobs /\ Send(cur, events, sent)
      BY <2>2 DEF Dismiss, Stages
    <3> QED BY <1>1, <3>1
  <2>3. CASE \E events \in {<<"error">>, <<"started", "done">>}, sent \in 0 .. 2 :
                AdmitRefused(events, sent)
    BY <1>0, <2>2, <2>3 DEF AdmitRefused, OneInHand
  <2>4. CASE \E sent \in 0 .. 1 : PrefillFails(sent) \/ AttachFails(sent)
    BY <1>0, <2>2, <2>4 DEF PrefillFails, AttachFails, OneInHand
  <2>5. CASE \E reached \in SUBSET deferred : PackedPrefillFails(reached)
    BY <1>2, <2>5 DEF PackedPrefillFails, QwenTypes, QueueTypes
  <2>6. CASE Attach
    <3>1. cur \in Jobs /\ Send(cur, <<"started">>, 1)
      BY <2>6 DEF Attach, Stages, OneInHand
    <3> QED BY <1>0, <1>1, <3>1
  <2>7. CASE RecvFirst \/ Stop \/ FormTake \/ FormClose \/ SoloClaim \/ GroupTake
    BY <1>3, <2>7 DEF RecvFirst, Stop, FormTake, FormClose, SoloClaim, GroupTake, ReceiveInto,
                      Take
  <2>8. CASE GroupReceive \/ Claim \/ AdmitOk \/ Prefill \/ PackedPrefill \/ DeferredDone
    BY <1>3, <2>8 DEF GroupReceive, Claim, AdmitOk, Prefill, PackedPrefill, DeferredDone
  <2>9. CASE \/ LateTake \/ LateClose \/ \E j \in deferred : DeferredNext(j)
             \/ \E next \in {"begin", "serial", "pack"} : GroupClose(next)
    BY <1>3, <2>9 DEF LateTake, LateClose, DeferredNext, GroupClose, Take
  <2> QED BY <1>7, <2>1, <2>3, <2>4, <2>5, <2>6, <2>7, <2>8, <2>9 DEF Admission
<1>8. CASE Stepping
  <2>1. ASSUME NEW j \in Jobs, NEW sent, NEW out \in Outcomes(gen[j]), Consume(j, out, sent)
        PROVE  Kept
    <3>1. gen[j] \in Nat /\ Send(j, out.events, sent)
      BY <2>1 DEF QwenTypes, GenTypes, Consume
    <3>2. out.events \in Seq(Story)
      BY <3>1, OutcomeFacts
    <3> QED BY <1>1, <3>1, <3>2
  <2>2. CASE \E j \in {cur} \ {None}, sent \in Lengths :
                \E out \in Outcomes(gen[j]) : FirstToken(out, sent)
    BY <2>1, <2>2 DEF FirstToken, QwenTypes, QueueTypes
  <2>3. ASSUME NEW j \in todo, NEW sent \in Lengths
        PROVE  /\ j \in Jobs
               /\ \A out \in Outcomes(gen[j]) : ConsumeStep(j, out, sent) => Kept
               /\ \A events \in Owed(j) : Emit(j, events, sent) \/ Flush(j, events, sent) => Kept
    <3>1. j \in Jobs
      BY DEF QwenTypes, MemberTypes
    <3>2. \A events \in Owed(j) : events \in Seq(Story)
      BY <3>1, OwedTypes
    <3> QED BY <1>1, <2>1, <3>1, <3>2 DEF ConsumeStep, Emit, Flush, EmitPending
  <2>4. CASE \E reached \in SUBSET alive : StepFails(reached) \/ CollectFails(reached)
    <3>1. Fed \subseteq Jobs /\ alive \subseteq Jobs
      BY DEF QwenTypes, MemberTypes, Fed
    <3> QED BY <1>2, <2>4, <3>1 DEF StepFails, CollectFails
  <2>5. CASE \E j \in todo, sent \in 0 .. 1 : AdvanceFails(j, sent)
    BY <1>0, <1>1, <2>5 DEF AdvanceFails, QwenTypes, MemberTypes
  <2>6. CASE \/ StepDone \/ StepOk \/ Collect \/ GroupEnds
             \/ \E how \in {"plain", "overlap"} : GroupBegins(how)
             \/ \E j \in todo, eos \in BOOLEAN : Advance(j, eos)
    BY <1>3, <2>6 DEF StepDone, StepOk, Collect, GroupEnds, GroupBegins, Advance
  <2> QED BY <1>8, <2>2, <2>3, <2>4, <2>5, <2>6 DEF Stepping
<1>9. CASE UNCHANGED vars
  BY <1>3, <1>9 DEF vars
<1> QED BY <1>4, <1>5, <1>6, <1>7, <1>8, <1>9 DEF Next, Dispatcher

(* Tickets, deadlines and watchdogs keep their types.                      *)
LEMMA TicketTypesNext ==
    ASSUME QwenTypes, Stages, [Next]_vars
    PROVE  TicketTypes'
<1>0. TicketTypes /\ ticket \in [Jobs -> {"none", "waiting", "sent", "closed", "dropped"}]
  BY DEF QwenTypes, TicketTypes
<1>1. ASSUME UNCHANGED ticketVars PROVE TicketTypes'
  BY <1>0, <1>1 DEF TicketTypes, ticketVars
<1>2. ASSUME UNCHANGED <<expired, watchdog>>,
             \/ UNCHANGED ticket \/ \E dropped : DropUnclaimed(dropped)
             \/ ticket' = [ticket EXCEPT ![cur] = "sent"]
             \/ \E dropped : ticket' = [j \in Jobs |-> IF j \in dropped /\ ticket[j] = "waiting"
                                                      THEN "dropped" ELSE ticket[j]]
      PROVE  TicketTypes'
  BY <1>0, <1>2 DEF TicketTypes, DropUnclaimed
<1>3. ASSUME NEW j \in Jobs, Submit(j) \/ Close(j) \/ Expire(j) PROVE TicketTypes'
  BY <1>0, <1>3 DEF TicketTypes, ticketVars, Submit, Close, Expire
<1>4. ASSUME NEW j \in Jobs, WatchdogEnds(j) \/ WatchdogRejects(j) PROVE TicketTypes'
  BY <1>0, <1>4 DEF TicketTypes, ticketVars, WatchdogEnds, WatchdogRejects
<1>5. CASE DropHandle
  BY <1>1, <1>5 DEF DropHandle
<1>6. CASE Admission
  <2>1. CASE RecvFirst \/ FormTake \/ FormClose \/ SoloClaim
    BY <1>2, <2>1 DEF RecvFirst, FormTake, FormClose, SoloClaim, ReceiveInto
  <2>2. CASE GroupTake \/ LateTake \/ Claim
    BY <1>2, <2>2 DEF GroupTake, LateTake, Claim, Take
  <2>3. CASE Stop \/ GroupReceive \/ AdmitOk \/ Prefill \/ PackedPrefill \/ DeferredDone \/ LateClose
    BY <1>1, <2>3 DEF Stop, GroupReceive, AdmitOk, Prefill, PackedPrefill, DeferredDone, LateClose
  <2>4. CASE \/ \E events \in SoloStreams, sent \in 0 .. 3 : SoloRun(events, sent)
             \/ \E events \in {<<"error">>, <<"started", "done">>}, sent \in 0 .. 2 :
                   AdmitRefused(events, sent)
             \/ \E sent \in 0 .. 1 : PrefillFails(sent) \/ AttachFails(sent)
    BY <1>1, <2>4 DEF SoloRun, AdmitRefused, PrefillFails, AttachFails, Dismiss
  <2>5. CASE \/ \E next \in {"begin", "serial", "pack"} : GroupClose(next)
             \/ \E reached \in SUBSET deferred : PackedPrefillFails(reached)
             \/ \E j \in deferred : DeferredNext(j)
             \/ Attach
    BY <1>1, <2>5 DEF GroupClose, PackedPrefillFails, DeferredNext, Attach
  <2> QED BY <1>6, <2>1, <2>2, <2>3, <2>4, <2>5 DEF Admission
<1>7. CASE Stepping
  <2>1. CASE GroupEnds
    BY <1>2, <2>1 DEF GroupEnds
  <2>2. CASE \/ StepDone \/ StepOk \/ Collect
             \/ \E how \in {"plain", "overlap"} : GroupBegins(how)
             \/ \E reached \in SUBSET alive : StepFails(reached) \/ CollectFails(reached)
    BY <1>1, <2>2 DEF StepDone, StepOk, Collect, GroupBegins, StepFails, CollectFails
  <2>3. CASE \/ \E j \in todo, eos \in BOOLEAN : Advance(j, eos)
             \/ \E j \in todo, sent \in 0 .. 1 : AdvanceFails(j, sent)
             \/ \E j \in {cur} \ {None}, sent \in Lengths :
                   \E out \in Outcomes(gen[j]) : FirstToken(out, sent)
    BY <1>1, <2>3 DEF Advance, AdvanceFails, FirstToken, Consume
  <2>4. ASSUME NEW j \in todo, NEW sent \in Lengths
        PROVE  /\ \A out \in Outcomes(gen[j]) : ConsumeStep(j, out, sent) => TicketTypes'
               /\ \A events \in Owed(j) :
                     Emit(j, events, sent) \/ Flush(j, events, sent) => TicketTypes'
    BY <1>1 DEF ConsumeStep, Consume, Emit, Flush, EmitPending
  <2> QED BY <1>7, <2>1, <2>2, <2>3, <2>4 DEF Stepping
<1>8. CASE UNCHANGED vars
  BY <1>1, <1>8 DEF vars
<1> QED BY <1>3, <1>4, <1>5, <1>6, <1>7, <1>8 DEF Next, Dispatcher

(* The channel, the group that is formed and the job in hand keep their    *)
(* types.                                                                  *)
LEMMA QueueTypesNext ==
    ASSUME QwenTypes, Apart, Stages, [Next]_vars
    PROVE  QueueTypes'
<1>0. /\ QueueTypes
      /\ pc \in OneInHand => cur \in Jobs
      /\ pc \in OneInHand \cup Admitting => loop \in {"take", "serial", "packed", "late"}
  BY DEF QwenTypes, QueueTypes, Stages
<1>1. ASSUME UNCHANGED <<config, handle, queue, forming, loop, admitted, deferred>>,
             cur' \in {cur, None}, pc' \in {pc, loop, "recv"} \cup GroupSteps
      PROVE  QueueTypes'
  BY <1>0, <1>1 DEF QueueTypes, Idle, Admitting
<1>2. ASSUME NEW j \in Jobs, Submit(j) \/ Close(j) \/ Expire(j) PROVE QueueTypes'
  <2>1. Append(queue, j) \in Seq(Jobs)
    BY <1>0 DEF QueueTypes
  <2> QED BY <1>0, <1>2, <2>1 DEF QueueTypes, queueVars, formVars, Submit, Close, Expire
<1>3. ASSUME NEW j \in Jobs, WatchdogEnds(j) \/ WatchdogRejects(j) PROVE QueueTypes'
  BY <1>1, <1>3 DEF queueVars, formVars, WatchdogEnds, WatchdogRejects
<1>4. CASE DropHandle
  BY <1>0, <1>4 DEF DropHandle, QueueTypes, formVars
<1>5. CASE Admission
  <2>1. CASE RecvFirst \/ FormTake
    <3>1. /\ Tail(queue) \in Seq(Jobs) /\ Head(queue) \in Jobs
      BY <2>1, QueueHead DEF RecvFirst, FormTake
    <3>2. Append(forming, Head(queue)) \in Seq(Jobs)
      BY <1>0, <3>1 DEF QueueTypes
    <3> QED BY <1>0, <2>1, <3>1, <3>2 DEF RecvFirst, FormTake, ReceiveInto, QueueTypes, Idle
  <2>2. CASE FormClose
    <3>1. PICK kept : /\ kept = Filtered(forming, {j \in Jobs : IsWaiting(j)})
                      /\ (Len(kept) = 1 /\ cur' = kept[1]) \/ cur' = None
                      /\ forming' \in {<<>>, kept} /\ pc' \in {"solo", "recv", "take"}
      BY <2>2 DEF FormClose
    <3>2. kept \in Seq(Jobs) /\ <<>> \in Seq(Jobs)
      BY <1>0, <3>1, FilteredProperties DEF Apart, QueueTypes
    <3>3. cur' \in Jobs \cup {None}
      BY <3>1, <3>2
    <3> QED BY <1>0, <2>2, <3>1, <3>2, <3>3 DEF FormClose, QueueTypes, Idle, Admitting, OneInHand
  <2>3. CASE SoloClaim \/ Stop
    BY <1>0, <2>3 DEF SoloClaim, Stop, QueueTypes, queueVars, formVars, Idle
  <2>4. CASE \E events \in SoloStreams, sent \in 0 .. 3 : SoloRun(events, sent)
    BY <1>1, <2>4 DEF SoloRun, formVars
  <2>5. CASE GroupTake
    <3>1. Head(forming) \in Jobs /\ Tail(forming) \in Seq(Jobs)
      BY <2>5, FormingHead DEF GroupTake
    <3> QED BY <1>0, <2>5, <3>1 DEF GroupTake, Take, QueueTypes, OneInHand
  <2>6. CASE GroupReceive
    <3>1. Head(queue) \in Jobs /\ Tail(queue) \in Seq(Jobs)
      BY <2>6, QueueHead DEF GroupReceive
    <3>2. <<Head(queue)>> \in Seq(Jobs)
      BY <3>1
    <3> QED BY <1>0, <2>6, <3>1, <3>2 DEF GroupReceive, QueueTypes
  <2>7. CASE Claim \/ Prefill \/ Attach
    BY <1>0, <2>7 DEF Claim, Prefill, Attach, QueueTypes, Admitting, OneInHand,
                      queueVars, formVars
  <2>8. CASE AdmitOk
    BY <1>0, <2>8 DEF AdmitOk, QueueTypes, Admitting, OneInHand, queueVars
  <2>9. CASE \/ \E events \in {<<"error">>, <<"started", "done">>}, sent \in 0 .. 2 :
                   AdmitRefused(events, sent)
             \/ \E sent \in 0 .. 1 : PrefillFails(sent) \/ AttachFails(sent)
    BY <1>1, <2>9 DEF AdmitRefused, PrefillFails, AttachFails, Dismiss
  <2>10. CASE \/ \E next \in {"begin", "serial", "pack"} : GroupClose(next)
              \/ \E reached \in SUBSET deferred : PackedPrefillFails(reached)
    BY <1>0, <2>10 DEF GroupClose, PackedPrefillFails, QueueTypes, Admitting, GroupSteps
  <2>11. CASE PackedPrefill \/ DeferredDone \/ LateClose \/ \E j \in deferred : DeferredNext(j)
    BY <1>0, <2>11 DEF PackedPrefill, DeferredDone, LateClose, DeferredNext, QueueTypes,
                       Admitting, GroupSteps, OneInHand, queueVars, formVars
  <2>12. CASE LateTake
    <3>1. Head(queue) \in Jobs /\ Tail(queue) \in Seq(Jobs)
      BY <2>12, QueueHead DEF LateTake
    <3> QED BY <1>0, <2>12, <3>1 DEF LateTake, Take, QueueTypes, OneInHand
  <2> QED BY <1>5, <2>1, <2>2, <2>3, <2>4, <2>5, <2>6, <2>7, <2>8, <2>9, <2>10, <2>11, <2>12
          DEF Admission
<1>6. CASE Stepping
  <2>1. CASE GroupEnds
    <3>1. <<>> \in Seq(Jobs)
      OBVIOUS
    <3> QED BY <1>0, <2>1, <3>1 DEF GroupEnds, QueueTypes, Idle
  <2>2. CASE \/ StepDone \/ StepOk \/ Collect
             \/ \E how \in {"plain", "overlap"} : GroupBegins(how)
             \/ \E reached \in SUBSET alive : StepFails(reached) \/ CollectFails(reached)
    BY <1>1, <2>2 DEF StepDone, StepOk, Collect, GroupBegins, StepFails, CollectFails,
                      queueVars, formVars, After, GroupSteps
  <2>3. CASE \E j \in {cur} \ {None}, sent \in Lengths :
                \E out \in Outcomes(gen[j]) : FirstToken(out, sent)
    BY <1>1, <2>3 DEF FirstToken, Consume, queueVars
  <2>4. ASSUME NEW j \in todo, NEW next \in {"top", "collect", "end"}, Visit(j, next),
               UNCHANGED <<config, queueVars>>
        PROVE  QueueTypes'
    <3>1. pc' \in {pc, next} /\ UNCHANGED formVars
      BY <2>4 DEF Visit
    <3> QED BY <1>1, <2>4, <3>1 DEF formVars, queueVars, GroupSteps
  <2>5. CASE \/ \E j \in todo, eos \in BOOLEAN : Advance(j, eos)
             \/ \E j \in todo, sent \in 0 .. 1 : AdvanceFails(j, sent)
    BY <2>4, <2>5 DEF Advance, AdvanceFails
  <2>6. ASSUME NEW j \in todo, NEW sent \in Lengths
        PROVE  /\ \A out \in Outcomes(gen[j]) : ConsumeStep(j, out, sent) => QueueTypes'
               /\ \A events \in Owed(j) :
                     Emit(j, events, sent) \/ Flush(j, events, sent) => QueueTypes'
    BY <2>4 DEF ConsumeStep, Consume, Emit, Flush, EmitPending
  <2> QED BY <1>6, <2>1, <2>2, <2>3, <2>5, <2>6 DEF Stepping
<1>7. CASE UNCHANGED vars
  BY <1>1, <1>7 DEF vars, queueVars, formVars
<1> QED BY <1>2, <1>3, <1>4, <1>5, <1>6, <1>7 DEF Next, Dispatcher

(* Members and their tokens keep their types; whoever is alive, given up   *)
(* or about to finish is a member.                                         *)
LEMMA MemberTypesNext ==
    ASSUME QwenTypes, Stages, [Next]_vars
    PROVE  MemberTypes' /\ GenTypes'
<1>0. MemberTypes /\ GenTypes /\ deferred \subseteq Jobs /\ cur \in Jobs \cup {None}
  BY DEF QwenTypes, QueueTypes
<1>1. ASSUME UNCHANGED memberVars PROVE MemberTypes' /\ GenTypes'
  BY <1>0, <1>1 DEF memberVars, MemberTypes, GenTypes
<1>2. ASSUME NEW j \in Jobs,
             Submit(j) \/ Close(j) \/ Expire(j) \/ WatchdogEnds(j) \/ WatchdogRejects(j)
      PROVE  MemberTypes' /\ GenTypes'
  BY <1>1, <1>2 DEF Submit, Close, Expire, WatchdogEnds, WatchdogRejects
<1>a. CASE DropHandle
  BY <1>1, <1>a DEF DropHandle
<1>3. CASE Admission
  <2>1. CASE Attach
    <3>1. cur \in Jobs
      BY <2>1 DEF Attach, Stages, OneInHand
    <3> QED BY <1>0, <2>1, <3>1 DEF Attach, MemberTypes, GenTypes
  <2>2. CASE RecvFirst \/ Stop \/ FormTake \/ FormClose \/ SoloClaim \/ GroupTake \/ LateTake
    BY <1>1, <2>2 DEF RecvFirst, Stop, FormTake, FormClose, SoloClaim, GroupTake, LateTake,
                      ReceiveInto, Take
  <2>3. CASE GroupReceive \/ Claim \/ AdmitOk \/ Prefill \/ PackedPrefill \/ DeferredDone \/ LateClose
    BY <1>1, <2>3 DEF GroupReceive, Claim, AdmitOk, Prefill, PackedPrefill, DeferredDone, LateClose
  <2>4. CASE \/ \E events \in SoloStreams, sent \in 0 .. 3 : SoloRun(events, sent)
             \/ \E events \in {<<"error">>, <<"started", "done">>}, sent \in 0 .. 2 :
                   AdmitRefused(events, sent)
             \/ \E sent \in 0 .. 1 : PrefillFails(sent) \/ AttachFails(sent)
    BY <1>1, <2>4 DEF SoloRun, AdmitRefused, PrefillFails, AttachFails, Dismiss
  <2>5. CASE \/ \E next \in {"begin", "serial", "pack"} : GroupClose(next)
             \/ \E reached \in SUBSET deferred : PackedPrefillFails(reached)
             \/ \E j \in deferred : DeferredNext(j)
    BY <1>1, <2>5 DEF GroupClose, PackedPrefillFails, DeferredNext
  <2> QED BY <1>3, <2>1, <2>2, <2>3, <2>4, <2>5 DEF Admission
<1>4. CASE Stepping
  <2>1. ASSUME NEW j \in members, NEW sent, NEW out \in Outcomes(gen[j]), Consume(j, out, sent)
        PROVE  /\ gen' \in [Jobs -> Nat] /\ emitted' \in [Jobs -> Nat]
               /\ members' = members /\ finishing' = finishing /\ mode' = mode
               /\ alive' \subseteq members /\ abandoned' \subseteq members
    <3>1. out.gen \in Nat /\ j \in Jobs
      BY <1>0, <2>1, OutcomeFacts DEF MemberTypes, GenTypes
    <3>2. /\ abandoned' \in {abandoned, abandoned \cup {j}} /\ alive' \subseteq alive
          /\ UNCHANGED <<members, emitted, finishing, mode>>
      BY <2>1, <3>1, ConsumeFacts
    <3> QED BY <1>0, <2>1, <3>1, <3>2 DEF Consume, MemberTypes, GenTypes
  <2>2. CASE \E j \in {cur} \ {None}, sent \in Lengths :
                \E out \in Outcomes(gen[j]) : FirstToken(out, sent)
    <3>1. PICK sent \in Lengths, out \in Outcomes(gen[cur]) : FirstToken(out, sent)
      BY <2>2
    <3>2. cur \in members /\ Consume(cur, out, sent) /\ todo' = todo
      BY <1>0, <3>1 DEF FirstToken, Stages, MemberTypes
    <3> QED BY <1>0, <2>1, <3>2 DEF MemberTypes, GenTypes
  <2>3. ASSUME NEW j \in todo, NEW sent \in Lengths, NEW out \in Outcomes(gen[j]),
               ConsumeStep(j, out, sent)
        PROVE  MemberTypes' /\ GenTypes'
    <3>1. j \in members /\ Consume(j, out, sent) /\ todo' \subseteq todo
      BY <1>0, <2>3 DEF ConsumeStep, Visit, MemberTypes
    <3> QED BY <1>0, <2>1, <3>1 DEF MemberTypes, GenTypes
  <2>4. ASSUME NEW j \in todo, NEW sent \in Lengths, NEW events \in Owed(j),
               Emit(j, events, sent) \/ Flush(j, events, sent)
        PROVE  MemberTypes' /\ GenTypes'
    <3>1. EmitPending(j, events, sent) /\ todo' \subseteq todo /\ j \in members
      BY <1>0, <2>4 DEF Emit, Flush, Visit, MemberTypes
    <3>2. emitted' \in [Jobs -> Nat]
      BY <1>0, <3>1 DEF EmitPending, GenTypes, MemberTypes
    <3> QED BY <1>0, <3>1, <3>2, EmitFacts DEF MemberTypes, GenTypes
  <2>5. CASE \E reached \in SUBSET alive : StepFails(reached) \/ CollectFails(reached)
    BY <1>0, <2>5 DEF StepFails, CollectFails, MemberTypes, GenTypes
  <2>6. CASE StepDone \/ StepOk \/ Collect
    BY <1>0, <2>6 DEF StepDone, StepOk, Collect, Fed, Evicted, MemberTypes, GenTypes
  <2>7. CASE \E how \in {"plain", "overlap"} : GroupBegins(how)
    BY <1>0, <2>7 DEF GroupBegins, MemberTypes, GenTypes
  <2>8. CASE \E j \in todo, eos \in BOOLEAN : Advance(j, eos)
    BY <1>0, <2>8 DEF Advance, Visit, MemberTypes, GenTypes
  <2>9. CASE \E j \in todo, sent \in 0 .. 1 : AdvanceFails(j, sent)
    BY <1>0, <2>9 DEF AdvanceFails, Visit, MemberTypes, GenTypes
  <2>10. CASE GroupEnds
    BY <1>0, <2>10 DEF GroupEnds, Stages, MemberTypes, GenTypes
  <2> QED BY <1>4, <2>2, <2>3, <2>4, <2>5, <2>6, <2>7, <2>8, <2>9, <2>10 DEF Stepping
<1>5. CASE UNCHANGED vars
  BY <1>1, <1>5 DEF vars
<1> QED BY <1>2, <1>a, <1>3, <1>4, <1>5 DEF Next, Dispatcher

(* Lanes, seats and what the lanes hold keep their types.                  *)
LEMMA LaneTypesNext ==
    ASSUME QwenTypes, Stages, [Next]_vars
    PROVE  LaneTypes'
<1>0. LaneTypes /\ QueueTypes /\ MemberTypes
  BY DEF QwenTypes
<1>1. ASSUME UNCHANGED <<lane, cache>>, seat' = seat \/ \E S : seat' = Left(S)
      PROVE  LaneTypes'
  BY <1>0, <1>1 DEF LaneTypes, Left
<1>2. ASSUME UNCHANGED laneVars PROVE LaneTypes'
  BY <1>1, <1>2 DEF laneVars
<1>3. ASSUME NEW j \in Jobs,
             Submit(j) \/ Close(j) \/ Expire(j) \/ WatchdogEnds(j) \/ WatchdogRejects(j)
      PROVE  LaneTypes'
  BY <1>2, <1>3 DEF Submit, Close, Expire, WatchdogEnds, WatchdogRejects
<1>4. CASE DropHandle
  BY <1>2, <1>4 DEF DropHandle
<1>5. CASE Admission
  <2>1. CASE RecvFirst \/ Stop \/ FormTake \/ FormClose \/ SoloClaim \/ GroupTake \/ LateTake
    BY <1>2, <2>1 DEF RecvFirst, Stop, FormTake, FormClose, SoloClaim, GroupTake, LateTake,
                      ReceiveInto, Take
  <2>2. CASE \/ GroupReceive \/ AdmitOk \/ DeferredDone \/ LateClose
             \/ \E j \in deferred : DeferredNext(j)
             \/ \E events \in SoloStreams, sent \in 0 .. 3 : SoloRun(events, sent)
    BY <1>2, <2>2 DEF GroupReceive, AdmitOk, DeferredDone, LateClose, DeferredNext, SoloRun
  <2>3. CASE Claim
    <3>1. (IF Vacancies = {} THEN 0 ELSE Min(Vacancies)) \in 0 .. Lanes
      BY SchedulerOptions, MinVacancy DEF Vacancies, LaneIds
    <3> QED BY <1>0, <2>3, <3>1 DEF Claim, LaneTypes
  <2>4. CASE Prefill
    <3>1. cur \in Jobs
      BY <2>4 DEF Prefill, Stages, OneInHand
    <3> QED BY <1>0, <2>4, <3>1 DEF Prefill, LaneTypes
  <2>5. CASE \/ \E events \in {<<"error">>, <<"started", "done">>}, sent \in 0 .. 2 :
                   AdmitRefused(events, sent)
             \/ \E sent \in 0 .. 1 : PrefillFails(sent) \/ AttachFails(sent)
    BY <1>1, <2>5 DEF AdmitRefused, PrefillFails, AttachFails, Dismiss
  <2>6. CASE \/ \E next \in {"begin", "serial", "pack"} : GroupClose(next)
             \/ \E reached \in SUBSET deferred : PackedPrefillFails(reached)
    BY <1>1, <2>6 DEF GroupClose, PackedPrefillFails
  <2>7. CASE PackedPrefill
    <3>1. \A l \in LanesOf(deferred) : (CHOOSE j \in deferred : lane[j] = l) \in deferred
      BY DEF LanesOf
    <3> QED BY <1>0, <2>7, <3>1 DEF PackedPrefill, LaneTypes, QueueTypes
  <2>8. CASE Attach
    BY <1>0, <2>8 DEF Attach, LaneTypes
  <2> QED BY <1>5, <2>1, <2>2, <2>3, <2>4, <2>5, <2>6, <2>7, <2>8 DEF Admission
<1>6. CASE Stepping
  <2>1. CASE \E j \in {cur} \ {None}, sent \in Lengths :
                \E out \in Outcomes(gen[j]) : FirstToken(out, sent)
    BY <1>1, <2>1 DEF FirstToken, Consume
  <2>2. CASE \/ Collect \/ StepDone
             \/ \E how \in {"plain", "overlap"} : GroupBegins(how)
             \/ \E reached \in SUBSET alive : StepFails(reached) \/ CollectFails(reached)
    BY <1>1, <2>2 DEF Collect, StepDone, GroupBegins, StepFails, CollectFails, laneVars
  <2>3. CASE StepOk
    BY <1>0, <2>3 DEF StepOk, LaneTypes, Left
  <2>4. CASE \/ \E j \in todo, eos \in BOOLEAN : Advance(j, eos)
             \/ \E j \in todo, sent \in 0 .. 1 : AdvanceFails(j, sent)
    BY <1>1, <2>4 DEF Advance, AdvanceFails
  <2>5. ASSUME NEW j \in todo, NEW sent \in Lengths
        PROVE  /\ \A out \in Outcomes(gen[j]) : ConsumeStep(j, out, sent) => LaneTypes'
               /\ \A events \in Owed(j) :
                     Emit(j, events, sent) \/ Flush(j, events, sent) => LaneTypes'
    BY <1>1 DEF ConsumeStep, Consume, Emit, Flush, EmitPending
  <2>6. CASE GroupEnds
    <3>1. 0 \in 0 .. Lanes
      BY SchedulerOptions
    <3> QED BY <1>0, <2>6, <3>1 DEF GroupEnds, LaneTypes
  <2> QED BY <1>6, <2>1, <2>2, <2>3, <2>4, <2>5, <2>6 DEF Stepping
<1>7. CASE UNCHANGED vars
  BY <1>2, <1>7 DEF vars
<1> QED BY <1>3, <1>4, <1>5, <1>6, <1>7 DEF Next, Dispatcher

(* Every step keeps the types, and no request is unmade.                   *)
LEMMA TypesNext ==
    ASSUME QwenTypes, Apart, Stages, [Next]_vars
    PROVE  QwenTypes' /\ Kept
  BY ClientTypesNext, TicketTypesNext, QueueTypesNext, MemberTypesNext, LaneTypesNext
  DEF QwenTypes, Kept

-----------------------------------------------------------------------------
(* Who moves where.                                                        *)

(* Who holds a reservation, by place.                                      *)
LEMMA ReservedIs ==
    ASSUME QwenTypes, Stages
    PROVE  /\ Reserved = Queued \cup Formed \cup InHand \cup deferred \cup members
           /\ Reserved \subseteq Jobs
<1>1. ToSet(queue) = Queued /\ ToSet(forming) = Formed
  BY DEF ToSet, Queued, Formed, Range
<1>2. Queued \subseteq Jobs /\ Formed \subseteq Jobs
  BY DEF Queued, Formed, Range, QwenTypes, QueueTypes
<1> QED BY <1>1, <1>2 DEF Reserved, InHand, Stages, QwenTypes, QueueTypes, MemberTypes

(* The same after a step.                                                  *)
LEMMA ReservedIsNext ==
    ASSUME QwenTypes', Stages'
    PROVE  Reserved' = Queued' \cup Formed' \cup InHand' \cup deferred' \cup members'
<1>1. ToSet(queue') = Queued' /\ ToSet(forming') = Formed'
  BY DEF ToSet, Queued, Formed, Range
<1> QED BY <1>1 DEF Reserved, InHand, Stages, QwenTypes, MemberTypes

\* The reservations of D are released.
Released(D) ==
    D \subseteq Reserved /\ Reserved' = Reserved \ D /\ outstanding' = outstanding - Cardinality(D)

\* A request comes in; with no queue wait it finds the scheduler idle.
ComesIn(j) ==
    /\ client[j] = "none" /\ client'[j] # "none"
    /\ Reserved' = Reserved \cup {j} /\ outstanding' = outstanding + 1
    /\ config.zero => outstanding = 0

Moved == (\E D : Released(D)) \/ (\E j \in Jobs : ComesIn(j))

(* Nobody moves.                                                           *)
LEMMA NobodyMoves ==
    ASSUME Apart, UNCHANGED <<queue, forming, deferred, members, outstanding>>,
           QwenTypes, Stages, QwenTypes', Stages', InHand' = InHand, outstanding \in Int
    PROVE  Apart' /\ Moved
<1>1. Queued' = Queued /\ Formed' = Formed
  BY DEF Queued, Formed
<1>2. Apart'
  BY <1>1 DEF Apart
<1>3. Reserved' = Reserved
  BY <1>1, ReservedIs, ReservedIsNext
<1>4. Released({})
  BY <1>3, FS_EmptySet DEF Released
<1> QED BY <1>2, <1>4 DEF Moved

(* The job in hand is let go, and so is its reservation.                   *)
LEMMA HandEmptied ==
    ASSUME Apart, UNCHANGED <<queue, forming, deferred, members>>,
           QwenTypes, Stages, QwenTypes', Stages',
           cur \in Jobs, pc # "first", cur' = None, outstanding' = outstanding - 1
    PROVE  Apart' /\ Moved
<1>1. Queued' = Queued /\ Formed' = Formed
  BY DEF Queued, Formed
<1>2. InHand = {cur} /\ InHand' = {}
  BY SchedulerOptions DEF InHand
<1>3. Apart'
  BY <1>1, <1>2 DEF Apart
<1>4. cur \in Reserved /\ Reserved' = Reserved \ {cur}
  BY <1>1, <1>2, ReservedIs, ReservedIsNext DEF Apart
<1>5. Released({cur})
  BY <1>4, FS_Singleton DEF Released
<1> QED BY <1>3, <1>5 DEF Moved

(* The next job of the channel is taken: it joins the ones that form a     *)
(* group, is taken in hand, or its reservation is released.                *)
LEMMA QueueMoves ==
    ASSUME Apart, queue # <<>>, queue' = Tail(queue), UNCHANGED <<deferred, members>>,
           QwenTypes, Stages, QwenTypes', Stages', outstanding \in Int,
           InHand = {}, pc # "first", pc' # "first",
           \/ /\ forming' = Append(forming, Head(queue)) /\ InHand' = {}
              /\ outstanding' = outstanding
           \/ /\ forming = <<>> /\ forming' = <<Head(queue)>> /\ InHand' = {}
              /\ outstanding' = outstanding
           \/ /\ forming' = forming /\ InHand' = {Head(queue)}
              /\ outstanding' = outstanding
           \/ /\ forming' = forming /\ InHand' = {}
              /\ outstanding' = outstanding - 1
    PROVE  Apart' /\ Moved
<1> DEFINE j == Head(queue)
<1>1. /\ j \in Jobs /\ j \in Queued /\ IsInjective(queue') /\ Queued' = Queued \ {j}
      /\ j \notin Formed
  BY QueueHead DEF Queued, Apart
<1> HIDE DEF j
<1>2. Reserved = Queued \cup Formed \cup InHand \cup deferred \cup members
  BY ReservedIs
<1>3. Reserved' = Queued' \cup Formed' \cup InHand' \cup deferred' \cup members'
  BY ReservedIsNext
<1>4. CASE forming' = Append(forming, j) /\ InHand' = {} /\ outstanding' = outstanding
  <2>1. IsInjective(forming') /\ Formed' = Formed \cup {j}
    BY <1>1, <1>4, AppendInjective2 DEF Formed, Apart, QwenTypes, QueueTypes
  <2>2. Apart'
    BY <1>1, <1>4, <2>1 DEF Apart
  <2>3. Reserved' = Reserved
    BY <1>1, <1>2, <1>3, <1>4, <2>1
  <2>4. Released({})
    BY <1>4, <2>3, FS_EmptySet DEF Released
  <2> QED BY <2>2, <2>4 DEF Moved
<1>5. CASE forming = <<>> /\ forming' = <<j>> /\ InHand' = {} /\ outstanding' = outstanding
  <2>1. IsInjective(forming') /\ Formed' = {j} /\ Formed = {}
    <3>1. DOMAIN forming' = {1} /\ forming'[1] = j /\ DOMAIN forming = {}
      BY <1>5
    <3> QED BY <3>1 DEF Formed, Range, IsInjective
  <2>2. Apart'
    BY <1>1, <1>5, <2>1 DEF Apart
  <2>3. Reserved' = Reserved
    BY <1>1, <1>2, <1>3, <1>5, <2>1
  <2>4. Released({})
    BY <1>5, <2>3, FS_EmptySet DEF Released
  <2> QED BY <2>2, <2>4 DEF Moved
<1>6. CASE forming' = forming /\ InHand' = {j} /\ outstanding' = outstanding
  <2>1. Formed' = Formed
    BY <1>6 DEF Formed
  <2>2. Apart'
    BY <1>1, <1>6, <2>1 DEF Apart
  <2>3. Reserved' = Reserved
    BY <1>1, <1>2, <1>3, <1>6, <2>1
  <2>4. Released({})
    BY <1>6, <2>3, FS_EmptySet DEF Released
  <2> QED BY <2>2, <2>4 DEF Moved
<1>7. CASE forming' = forming /\ InHand' = {} /\ outstanding' = outstanding - 1
  <2>1. Formed' = Formed
    BY <1>7 DEF Formed
  <2>2. Apart'
    BY <1>1, <1>7, <2>1 DEF Apart
  <2>3. Reserved' = Reserved \ {j} /\ j \in Reserved
    BY <1>1, <1>2, <1>3, <1>7, <2>1 DEF Apart
  <2>4. Released({j})
    BY <1>7, <2>3, FS_Singleton DEF Released
  <2> QED BY <2>2, <2>4 DEF Moved
<1> QED BY <1>4, <1>5, <1>6, <1>7 DEF j

(* A sequence without repetitions is as long as it has elements.           *)
LEMMA CountIsLength ==
    ASSUME NEW S, NEW q \in Seq(S), IsInjective(q)
    PROVE  IsFiniteSet(Range(q)) /\ Cardinality(Range(q)) = Len(q)
<1> DEFINE D == 1 .. Len(q)
<1>1. Len(q) \in Nat /\ DOMAIN q = D /\ q \in [D -> Range(q)]
  BY DEF Range
<1>2. IsFiniteSet(D) /\ Cardinality(D) = Len(q)
  BY <1>1, FS_Interval
<1>3. q \in Bijection(D, Range(q))
  BY <1>1 DEF Bijection, Injection, Surjection, IsInjective, Range
<1> HIDE DEF D
<1>4. Bijection(D, Range(q)) # {}
  BY <1>3
<1> QED BY <1>2, <1>4, FS_Bijection DEF ExistsBijection

(* The group is formed: the jobs that nobody waits for are dropped.        *)
LEMMA FormCloseMoves ==
    ASSUME Apart, FormClose, QwenTypes, Stages, QwenTypes', Stages', outstanding \in Int
    PROVE  Apart' /\ Moved
<1> DEFINE kept == Filtered(forming, {j \in Jobs : IsWaiting(j)})
<1>1. /\ DropUnclaimed(ToSet(forming) \ ToSet(kept))
      /\ UNCHANGED <<queue, deferred, members>> /\ pc = "form"
      /\ \/ Len(kept) = 1 /\ cur' = kept[1] /\ forming' = <<>> /\ pc' = "solo"
         \/ cur' = None /\ forming' = kept /\ pc' # "first"
  BY DEF FormClose, memberVars
<1>2. /\ kept \in Seq(Jobs) /\ IsInjective(kept)
      /\ Range(kept) \subseteq Formed
  BY FilteredProperties DEF Apart, QwenTypes, QueueTypes, Formed
<1> HIDE DEF kept
<1>3. ToSet(kept) = Range(kept) /\ ToSet(forming) = Formed
  BY DEF ToSet, Range, Formed
<1>4. outstanding' = outstanding - Cardinality(Formed \ Range(kept))
  BY <1>1, <1>3 DEF DropUnclaimed
<1>5. InHand = {} /\ Queued' = Queued
  BY <1>1 DEF InHand, Queued, Stages, QwenTypes, QueueTypes, OneInHand
<1>6. /\ IsInjective(forming') /\ Formed' \cup InHand' = Range(kept)
      /\ Formed' \cap InHand' = {}
  <2>1. CASE Len(kept) = 1 /\ cur' = kept[1] /\ forming' = <<>> /\ pc' = "solo"
    <3>1. Range(kept) = {kept[1]}
      BY <1>2, <2>1 DEF Range
    <3>2. IsInjective(<<>>) /\ Formed' = {}
      BY <2>1 DEF IsInjective, Formed, Range
    <3>3. InHand' = {kept[1]}
      <4>1. kept[1] \in Jobs
        BY <1>2, <2>1
      <4> QED BY <2>1, <4>1, SchedulerOptions DEF InHand
    <3> QED BY <2>1, <3>1, <3>2, <3>3
  <2>2. CASE cur' = None /\ forming' = kept /\ pc' # "first"
    BY <1>2, <2>2 DEF InHand, Formed
  <2> QED BY <1>1, <2>1, <2>2
<1>7. Apart'
  BY <1>1, <1>2, <1>5, <1>6 DEF Apart
<1>8. Reserved = Queued \cup Formed \cup InHand \cup deferred \cup members
  BY ReservedIs
<1>9. Reserved' = Queued' \cup Formed' \cup InHand' \cup deferred' \cup members'
  BY ReservedIsNext
<1>10. Reserved' = Reserved \ (Formed \ Range(kept)) /\ Formed \subseteq Reserved
  BY <1>1, <1>2, <1>5, <1>6, <1>8, <1>9 DEF Apart
<1>11. Released(Formed \ Range(kept))
  BY <1>4, <1>10 DEF Released
<1> QED BY <1>7, <1>11 DEF Moved

(* The group is over, and so are its members and whoever did not get in.   *)
LEMMA GroupEndsMoves ==
    ASSUME Apart, GroupEnds, QwenTypes, Stages, QwenTypes', Stages', outstanding \in Int
    PROVE  Apart' /\ Moved
<1>1. /\ outstanding' = outstanding - Cardinality(members) - Len(forming)
      /\ forming' = <<>> /\ members' = {} /\ pc = "end" /\ pc' = "recv"
      /\ UNCHANGED <<queue, cur, deferred>>
  BY DEF GroupEnds
<1>2. IsFiniteSet(Formed) /\ Cardinality(Formed) = Len(forming)
  BY CountIsLength DEF Formed, Apart, QwenTypes, QueueTypes
<1>3. IsFiniteSet(members) /\ Cardinality(members) \in Int /\ Len(forming) \in Int
  BY SchedulerOptions, FS_Subset, FS_CardinalityType DEF QwenTypes, QueueTypes, MemberTypes
<1>4. /\ Cardinality(Formed \cup members) =
            Cardinality(Formed) + Cardinality(members) - Cardinality(Formed \cap members)
  BY <1>2, <1>3, FS_Union
<1>5. Formed \cap members = {} /\ Cardinality({}) = 0
  BY FS_EmptySet DEF Apart
<1>a. Cardinality(Formed \cup members) = Len(forming) + Cardinality(members)
  <2>1. Cardinality(Formed \cap members) = 0
    BY <1>5
  <2> HIDE DEF Formed
  <2> QED BY <1>2, <1>3, <1>4, <2>1
<1>6. outstanding' = outstanding - Cardinality(Formed \cup members)
  <2> HIDE DEF Formed
  <2> QED BY <1>1, <1>3, <1>a
<1>7. Formed' = {} /\ IsInjective(forming') /\ Queued' = Queued /\ InHand' = InHand
  BY <1>1 DEF Formed, Queued, Range, IsInjective, InHand
<1>8. Apart'
  BY <1>1, <1>7 DEF Apart
<1>9. Reserved = Queued \cup Formed \cup InHand \cup deferred \cup members
  BY ReservedIs
<1>10. Reserved' = Queued' \cup Formed' \cup InHand' \cup deferred' \cup members'
  BY ReservedIsNext
<1>11. Released(Formed \cup members)
  BY <1>1, <1>6, <1>7, <1>9, <1>10 DEF Released, Apart
<1> QED BY <1>8, <1>11 DEF Moved

(* Jobs of the group go from hand to hand, or are let go.                  *)
LEMMA GroupMoves ==
    ASSUME Apart, UNCHANGED <<queue, forming>>, QwenTypes, Stages, QwenTypes', Stages',
           NEW D, D \subseteq InHand \cup deferred \cup members,
           InHand' \cup deferred' \cup members' = (InHand \cup deferred \cup members) \ D,
           InHand' \cap (deferred' \cup members') = {}, deferred' \cap members' = {},
           outstanding' = outstanding - Cardinality(D)
    PROVE  Apart' /\ Moved
<1>1. Queued' = Queued /\ Formed' = Formed
  BY DEF Queued, Formed
<1>2. Apart'
  BY <1>1 DEF Apart
<1>3. Reserved' = Reserved \ D /\ D \subseteq Reserved
  BY <1>1, ReservedIs, ReservedIsNext DEF Apart
<1> QED BY <1>2, <1>3 DEF Moved, Released

(* A request is let in, or refused.                                        *)
LEMMA SubmitMoves ==
    ASSUME Apart, Unborn, QwenTypes, Stages, QwenTypes', Stages', outstanding \in Int,
           NEW j \in Jobs, Submit(j)
    PROVE  Apart' /\ Moved
<1>1. /\ client[j] = "none" /\ client'[j] = "open"
      /\ UNCHANGED <<forming, cur, deferred, members, pc>>
  BY DEF Submit, formVars, memberVars, QwenTypes, ClientTypes
<1>2. InHand' = InHand /\ Formed' = Formed
  BY <1>1 DEF InHand, Formed
<1>3. CASE queue' = Append(queue, j) /\ outstanding' = outstanding + 1 /\ (config.zero => outstanding = 0)
  <2>1. j \notin Reserved
    BY <1>1 DEF Unborn
  <2>2. Reserved = Queued \cup Formed \cup InHand \cup deferred \cup members
    BY ReservedIs
  <2>3. IsInjective(queue') /\ Queued' = Queued \cup {j}
    BY <1>3, <2>1, <2>2, AppendInjective2 DEF Queued, Apart, QwenTypes, QueueTypes
  <2>4. Apart'
    BY <1>1, <1>2, <2>1, <2>2, <2>3 DEF Apart
  <2>5. Reserved' = Reserved \cup {j}
    BY <1>1, <1>2, <2>2, <2>3, ReservedIsNext
  <2> QED BY <1>1, <1>3, <2>4, <2>5 DEF Moved, ComesIn
<1>4. CASE UNCHANGED <<queue, outstanding>>
  BY <1>1, <1>2, <1>4, NobodyMoves
<1> QED BY <1>3, <1>4 DEF Submit

(* The next job of the group that was formed is taken in hand, or dropped. *)
LEMMA GroupTakeMoves ==
    ASSUME Apart, GroupTake, QwenTypes, Stages, QwenTypes', Stages', outstanding \in Int
    PROVE  Apart' /\ Moved
<1> DEFINE j == Head(forming)
<1>1. /\ pc = "take" /\ forming # <<>> /\ forming' = Tail(forming)
      /\ UNCHANGED <<queue, deferred, members>>
      /\ \/ cur' = j /\ pc' = "claim" /\ outstanding' = outstanding
         \/ cur' = cur /\ pc' = pc /\ outstanding' = outstanding - Cardinality({j})
  BY DEF GroupTake, Take, DropUnclaimed, memberVars
<1>2. /\ j \in Jobs /\ j \in Formed /\ IsInjective(forming') /\ Formed' = Formed \ {j}
      /\ Queued' = Queued
  BY <1>1, FormingHead DEF Formed, Queued
<1> HIDE DEF j
<1>3. InHand = {} /\ cur \notin Jobs
  BY <1>1 DEF InHand, Stages, OneInHand, QwenTypes, QueueTypes
<1>4. /\ Reserved = Queued \cup Formed \cup InHand \cup deferred \cup members
      /\ Reserved' = Queued' \cup Formed' \cup InHand' \cup deferred' \cup members'
  BY ReservedIs, ReservedIsNext
<1>5. CASE cur' = j /\ pc' = "claim" /\ outstanding' = outstanding
  <2>1. InHand' = {j}
    BY <1>2, <1>5, SchedulerOptions DEF InHand
  <2>2. Apart'
    BY <1>1, <1>2, <1>3, <2>1 DEF Apart
  <2>3. Reserved' = Reserved
    BY <1>1, <1>2, <1>3, <1>4, <2>1
  <2>4. Released({})
    BY <1>5, <2>3, FS_EmptySet DEF Released
  <2> QED BY <2>2, <2>4 DEF Moved
<1>6. CASE cur' = cur /\ pc' = pc /\ outstanding' = outstanding - Cardinality({j})
  <2>1. InHand' = {}
    BY <1>3, <1>6 DEF InHand
  <2>2. Apart'
    BY <1>1, <1>2, <1>3, <2>1 DEF Apart
  <2>3. Reserved' = Reserved \ {j} /\ j \in Reserved
    BY <1>1, <1>2, <1>3, <1>4, <2>1 DEF Apart
  <2>4. Released({j})
    BY <1>6, <2>3 DEF Released
  <2> QED BY <2>2, <2>4 DEF Moved
<1> QED BY <1>1, <1>5, <1>6

(* The next job of the channel.                                            *)
LEMMA ReceiveMoves ==
    ASSUME Apart, RecvFirst \/ FormTake \/ GroupReceive \/ LateTake,
           QwenTypes, Stages, QwenTypes', Stages', outstanding \in Int
    PROVE  Apart' /\ Moved
<1> DEFINE j == Head(queue)
<1>1. /\ queue # <<>> /\ queue' = Tail(queue) /\ UNCHANGED <<deferred, members>>
      /\ pc \in {"recv", "form", "take", "late"}
      /\ \/ forming' = Append(forming, j) /\ cur' = cur /\ outstanding' = outstanding
         \/ forming = <<>> /\ forming' = <<j>> /\ cur' = cur /\ outstanding' = outstanding
         \/ forming' = forming /\ cur' = j /\ pc' = "claim" /\ outstanding' = outstanding
         \/ forming' = forming /\ cur' = cur /\ outstanding' = outstanding - Cardinality({j})
  BY DEF RecvFirst, FormTake, GroupReceive, LateTake, ReceiveInto, Take, DropUnclaimed, memberVars
<1>2. j \in Jobs
  BY <1>1, QueueHead
<1>3. Cardinality({j}) = 1
  BY FS_Singleton
<1>4. InHand = {} /\ cur \notin Jobs /\ pc # "first"
  BY <1>1 DEF InHand, Stages, OneInHand, QwenTypes, QueueTypes
<1>5. cur' = cur => InHand' = {} /\ pc' # "first"
  BY <1>4 DEF InHand, Stages, OneInHand, QwenTypes, QueueTypes
<1>6. cur' = j /\ pc' = "claim" => InHand' = {j} /\ pc' # "first"
  BY <1>2, SchedulerOptions DEF InHand
<1> QED BY <1>1, <1>3, <1>4, <1>5, <1>6, QueueMoves

(* The admission of a job: from hand to hand, or let go.                   *)
LEMMA AdmissionMoves ==
    ASSUME Apart, Admission, QwenTypes, Stages, QwenTypes', Stages', outstanding \in Int
    PROVE  Apart' /\ Moved
<1>0. /\ pc \in OneInHand => cur \in Jobs /\ cur # None
      /\ pc \notin OneInHand => cur = None
      /\ {"solo", "run", "claim", "admit", "prefill", "attach"} \subseteq OneInHand
  BY SchedulerOptions DEF Stages, OneInHand, QwenTypes, QueueTypes
<1>1. CASE RecvFirst \/ FormTake \/ GroupReceive \/ LateTake
  BY <1>1, ReceiveMoves
<1>2. CASE FormClose
  BY <1>2, FormCloseMoves
<1>3. CASE GroupTake
  BY <1>3, GroupTakeMoves
<1>4. ASSUME UNCHANGED <<queue, forming, cur, deferred, members, outstanding>>,
             pc # "first" /\ pc' # "first"
      PROVE  Apart' /\ Moved
  <2>1. InHand' = InHand
    BY <1>4 DEF InHand
  <2> QED BY <1>4, <2>1, NobodyMoves
<1>5. CASE Stop \/ Prefill \/ PackedPrefill \/ DeferredDone \/ LateClose
  BY <1>4, <1>5 DEF Stop, Prefill, PackedPrefill, DeferredDone, LateClose, queueVars, formVars,
                    memberVars
<1>6. ASSUME UNCHANGED <<queue, forming, deferred, members>>, pc \in OneInHand \ {"first"},
             cur' = None, outstanding' = outstanding - 1
      PROVE  Apart' /\ Moved
  BY <1>0, <1>6, HandEmptied
<1>7. ASSUME NEW events, NEW sent, Dismiss(events, sent), pc \in OneInHand \ {"first"}
      PROVE  Apart' /\ Moved
  BY <1>6, <1>7 DEF Dismiss, memberVars
<1>8. CASE \/ \E events \in {<<"error">>, <<"started", "done">>}, sent \in 0 .. 2 :
                   AdmitRefused(events, sent)
           \/ \E sent \in 0 .. 1 : PrefillFails(sent) \/ AttachFails(sent)
  BY <1>0, <1>7, <1>8 DEF AdmitRefused, PrefillFails, AttachFails
<1>9. CASE SoloClaim \/ Claim
  <2>1. CASE IsWaiting(cur)
    BY <1>4, <1>9, <2>1 DEF SoloClaim, Claim, memberVars
  <2>2. CASE ~IsWaiting(cur)
    BY <1>0, <1>6, <1>9, <2>2, FS_Singleton DEF SoloClaim, Claim, DropUnclaimed, memberVars
  <2> QED BY <2>1, <2>2
<1>10. CASE \E events \in SoloStreams, sent \in 0 .. 3 : SoloRun(events, sent)
  BY <1>0, <1>6, <1>10 DEF SoloRun, memberVars
<1>11. CASE AdmitOk
  <2>1. CASE config.packed /\ loop = "take"
    <3>1. /\ pc = "admit" /\ deferred' = deferred \cup {cur} /\ cur' = None
          /\ UNCHANGED <<queue, forming, members, outstanding>>
      BY <1>11, <2>1 DEF AdmitOk, queueVars, memberVars
    <3>2. InHand = {cur} /\ InHand' = {}
      BY <1>0, <3>1 DEF InHand
    <3>3. outstanding' = outstanding - Cardinality({})
      BY <3>1, FS_EmptySet
    <3> QED BY <3>1, <3>2, <3>3, GroupMoves DEF Apart
  <2>2. CASE ~(config.packed /\ loop = "take")
    BY <1>4, <1>11, <2>2 DEF AdmitOk, queueVars, memberVars
  <2> QED BY <2>1, <2>2
<1>12. CASE \/ \E next \in {"begin", "serial", "pack"} : GroupClose(next)
            \/ \E reached \in SUBSET deferred : PackedPrefillFails(reached)
  <2>1. PICK D : /\ D \subseteq deferred /\ deferred' = deferred \ D
                 /\ outstanding' = outstanding - Cardinality(D)
                 /\ UNCHANGED <<queue, forming, cur, members>>
                 /\ pc # "first" /\ pc' # "first"
    BY <1>12 DEF GroupClose, PackedPrefillFails, memberVars
  <2>2. InHand' = InHand
    BY <2>1 DEF InHand
  <2> QED BY <2>1, <2>2, GroupMoves DEF Apart
<1>13. CASE \E j \in deferred : DeferredNext(j)
  <2>1. PICK j \in deferred : DeferredNext(j)
    BY <1>13
  <2>2. /\ deferred' = deferred \ {j} /\ cur' = j /\ pc' # "first"
        /\ UNCHANGED <<queue, forming, members, outstanding>> /\ pc \notin OneInHand
    BY <2>1 DEF DeferredNext, queueVars, memberVars, OneInHand
  <2>3. InHand = {} /\ InHand' = {j} /\ j \in Jobs
    BY <1>0, <2>2, SchedulerOptions DEF InHand, QwenTypes, QueueTypes
  <2>4. outstanding' = outstanding - Cardinality({})
    BY <2>2, FS_EmptySet
  <2> QED BY <2>2, <2>3, <2>4, GroupMoves DEF Apart
<1>14. CASE Attach
  <2>1. /\ pc = "attach" /\ members' = members \cup {cur} /\ pc' = "first"
        /\ UNCHANGED <<queue, forming, cur, deferred, outstanding>>
    BY <1>14 DEF Attach, queueVars, formVars
  <2>2. InHand = {cur} /\ InHand' = {}
    BY <1>0, <2>1 DEF InHand
  <2>3. outstanding' = outstanding - Cardinality({})
    BY <2>1, FS_EmptySet
  <2> QED BY <2>1, <2>2, <2>3, GroupMoves DEF Apart
<1> QED BY <1>1, <1>2, <1>3, <1>5, <1>8, <1>9, <1>10, <1>11, <1>12, <1>13, <1>14 DEF Admission

(* While the group steps nobody moves, until it is over.                   *)
LEMMA SteppingMoves ==
    ASSUME Apart, Stepping, QwenTypes, Stages, QwenTypes', Stages', outstanding \in Int
    PROVE  Apart' /\ Moved
<1>1. CASE GroupEnds
  BY <1>1, GroupEndsMoves
<1>2. ASSUME UNCHANGED <<queue, forming, cur, deferred, members, outstanding>>,
             pc # "first" /\ pc' # "first"
      PROVE  Apart' /\ Moved
  <2>1. InHand' = InHand
    BY <1>2 DEF InHand
  <2> QED BY <1>2, <2>1, NobodyMoves
<1>3. CASE \E j \in {cur} \ {None}, sent \in Lengths :
              \E out \in Outcomes(gen[j]) : FirstToken(out, sent)
  <2>1. /\ pc = "first" /\ cur' = None
        /\ UNCHANGED <<queue, forming, deferred, members, outstanding>>
    BY <1>3 DEF FirstToken, Consume, queueVars
  <2>2. InHand = {} /\ InHand' = {}
    BY <2>1 DEF InHand
  <2> QED BY <2>1, <2>2, NobodyMoves
<1>4. CASE \/ StepDone \/ StepOk \/ Collect
           \/ \E how \in {"plain", "overlap"} : GroupBegins(how)
           \/ \E reached \in SUBSET alive : StepFails(reached) \/ CollectFails(reached)
  BY <1>2, <1>4 DEF StepDone, StepOk, Collect, GroupBegins, StepFails, CollectFails, After,
                    queueVars, formVars
<1>5. ASSUME NEW j \in todo, NEW next \in {"top", "collect", "end"}, Visit(j, next),
             pc # "first", UNCHANGED <<queueVars, members>>
      PROVE  Apart' /\ Moved
  BY <1>2, <1>5 DEF Visit, queueVars, formVars
<1>6. CASE \/ \E j \in todo, eos \in BOOLEAN : Advance(j, eos)
           \/ \E j \in todo, sent \in 0 .. 1 : AdvanceFails(j, sent)
  BY <1>5, <1>6 DEF Advance, AdvanceFails
<1>7. ASSUME NEW j \in todo, NEW sent \in Lengths
      PROVE  /\ \A out \in Outcomes(gen[j]) : ConsumeStep(j, out, sent) => Apart' /\ Moved
             /\ \A events \in Owed(j) :
                   Emit(j, events, sent) \/ Flush(j, events, sent) => Apart' /\ Moved
  BY <1>5 DEF ConsumeStep, Consume, Emit, Flush, EmitPending
<1> QED BY <1>1, <1>3, <1>4, <1>6, <1>7 DEF Stepping

(* Every step moves a job from one place to another, releases reservations *)
(* or lets one request in.                                                 *)
LEMMA PlacesNext ==
    ASSUME PlaceInv, outstanding \in Int, [Next]_vars
    PROVE  /\ QwenTypes' /\ Stages' /\ Kept
           /\ Apart' /\ Moved
<1>1. QwenTypes' /\ Stages' /\ Kept
  BY TypesNext, StagesNext DEF PlaceInv
<1>2. ASSUME NEW j \in Jobs, Submit(j) PROVE Apart' /\ Moved
  BY <1>1, <1>2, SubmitMoves DEF PlaceInv
<1>3. ASSUME UNCHANGED <<queue, forming, cur, deferred, pc, members, outstanding>>
      PROVE  Apart' /\ Moved
  <2>1. InHand' = InHand
    BY <1>3 DEF InHand
  <2> QED BY <1>1, <1>3, <2>1, NobodyMoves DEF PlaceInv
<1>4. ASSUME NEW j \in Jobs, Close(j) \/ Expire(j) \/ WatchdogEnds(j) \/ WatchdogRejects(j)
      PROVE  Apart' /\ Moved
  BY <1>3, <1>4 DEF Close, Expire, WatchdogEnds, WatchdogRejects, queueVars, formVars,
                    memberVars
<1>5. CASE DropHandle
  BY <1>1, <1>3, <1>5 DEF DropHandle, formVars, memberVars
<1>a. CASE UNCHANGED vars
  BY <1>1, <1>3, <1>a DEF vars, queueVars, formVars, memberVars
<1>6. CASE Dispatcher
  BY <1>1, <1>6, AdmissionMoves, SteppingMoves DEF Dispatcher, PlaceInv
<1> QED BY <1>1, <1>2, <1>4, <1>5, <1>a, <1>6 DEF Next

-----------------------------------------------------------------------------
(* The count of reservations.                                              *)

(* A set of requests is finite.                                            *)
LEMMA ReservedFinite ==
    ASSUME QwenTypes, Stages
    PROVE  IsFiniteSet(Reserved) /\ Cardinality(Reserved) \in Nat
  BY SchedulerOptions, ReservedIs, FS_Subset, FS_CardinalityType

(* What moves is counted.                                                  *)
LEMMA CountNext ==
    ASSUME PlaceInv, CountInv, [Next]_vars
    PROVE  PlaceInv' /\ CountInv'
<1>1. /\ QwenTypes /\ Stages /\ IsFiniteSet(Reserved) /\ Cardinality(Reserved) \in Nat
      /\ outstanding = Cardinality(Reserved) /\ Reserved \subseteq Jobs
  BY ReservedFinite, ReservedIs DEF PlaceInv, CountInv
<1>2. QwenTypes' /\ Stages' /\ Kept /\ Apart' /\ Moved
  BY <1>1, PlacesNext
<1>3. config' = config
  <2>1. CASE \E j \in Jobs : \/ Submit(j) \/ Close(j) \/ Expire(j)
                             \/ WatchdogEnds(j) \/ WatchdogRejects(j)
    BY <2>1 DEF Submit, Close, Expire, WatchdogEnds, WatchdogRejects
  <2>2. CASE DropHandle \/ UNCHANGED vars
    BY <2>2 DEF DropHandle, vars
  <2>3. CASE Admission
    BY <2>3 DEF Admission, RecvFirst, Stop, FormTake, FormClose, SoloClaim, SoloRun, GroupTake,
                GroupReceive, Claim, AdmitOk, Prefill, AdmitRefused, PrefillFails, GroupClose,
                PackedPrefill, PackedPrefillFails, DeferredNext, DeferredDone, LateTake,
                LateClose, Attach, AttachFails, ReceiveInto, Take, Dismiss
  <2>4. ASSUME NEW out, NEW sent, FirstToken(out, sent) PROVE config' = config
    BY <2>4 DEF FirstToken, Consume
  <2>5. ASSUME NEW j, NEW sent
        PROVE  /\ \A out : ConsumeStep(j, out, sent) => config' = config
               /\ \A events : Emit(j, events, sent) \/ Flush(j, events, sent) => config' = config
               /\ \A eos : Advance(j, eos) => config' = config
               /\ AdvanceFails(j, sent) => config' = config
    BY DEF ConsumeStep, Consume, Emit, Flush, EmitPending, Advance, AdvanceFails
  <2>a. ASSUME NEW how, NEW reached
        PROVE  (\/ GroupBegins(how) \/ StepFails(reached) \/ CollectFails(reached)
                \/ StepDone \/ StepOk \/ Collect \/ GroupEnds) => config' = config
    BY DEF StepDone, StepOk, Collect, GroupEnds, GroupBegins, StepFails, CollectFails
  <2>6. CASE Stepping
    BY <2>4, <2>5, <2>a, <2>6 DEF Stepping
  <2> QED BY <2>1, <2>2, <2>3, <2>6 DEF Next, Dispatcher
<1>4. CASE \E D : Released(D)
  <2>1. PICK D : Released(D)
    BY <1>4
  <2>2. IsFiniteSet(D) /\ Cardinality(D) \in Nat
    BY <1>1, <2>1, FS_Subset, FS_CardinalityType DEF Released
  <2>3. Cardinality(Reserved \ D) = Cardinality(Reserved) - Cardinality(Reserved \cap D)
    BY <1>1, <2>2, FS_Difference
  <2>4. Reserved \cap D = D
    BY <2>1 DEF Released
  <2>5. outstanding' = Cardinality(Reserved') /\ outstanding' <= outstanding
    BY <1>1, <2>1, <2>2, <2>3, <2>4 DEF Released
  <2>6. CountInv'
    <3>1. outstanding' \in Int /\ (config.zero => outstanding <= 1)
      BY <1>1, <2>1, <2>2 DEF Released, CountInv
    <3> QED BY <1>1, <1>3, <2>5, <3>1 DEF CountInv
  <2>7. Unborn'
    BY <1>1, <1>2, <2>1 DEF Released, Unborn, Kept, PlaceInv
  <2> QED BY <1>2, <2>6, <2>7 DEF PlaceInv
<1>5. CASE \E j \in Jobs : ComesIn(j)
  <2>1. PICK j \in Jobs : ComesIn(j)
    BY <1>5
  <2>2. j \notin Reserved
    BY <2>1 DEF ComesIn, Unborn, PlaceInv
  <2>3. Cardinality(Reserved \cup {j}) = Cardinality(Reserved) + 1
    BY <1>1, <2>2, FS_AddElement
  <2>4. CountInv'
    BY <1>1, <1>3, <2>1, <2>3 DEF ComesIn, CountInv
  <2>5. Unborn'
    BY <1>1, <1>2, <2>1 DEF ComesIn, Unborn, Kept, PlaceInv
  <2> QED BY <1>2, <2>4, <2>5 DEF PlaceInv
<1> QED BY <1>2, <1>4, <1>5 DEF Moved

(* At the start nobody is anywhere.                                        *)
LEMMA PlaceInit ==
    ASSUME Init
    PROVE  PlaceInv /\ CountInv
<1>1. QwenTypes
  <2>1. QueueTypes
    BY DEF Init, QueueTypes, Idle
  <2>2. ClientTypes /\ TicketTypes
    BY DEF Init, ClientTypes, TicketTypes
  <2>3. LaneTypes /\ MemberTypes /\ GenTypes
    BY SchedulerOptions DEF Init, LaneTypes, MemberTypes, GenTypes
  <2> QED BY <2>1, <2>2, <2>3 DEF QwenTypes
<1>2. /\ Queued = {} /\ Formed = {} /\ InHand = {}
      /\ IsInjective(queue) /\ IsInjective(forming)
  BY DEF Init, Queued, Formed, InHand, Range, IsInjective
<1>3. Apart
  BY <1>2 DEF Apart, Init
<1>4. Stages
  BY SchedulerOptions DEF Stages, Init, OneInHand, Idle
<1>5. Reserved = {}
  BY <1>1, <1>2, <1>4, ReservedIs DEF Init
<1>6. CountInv
  BY <1>5, FS_EmptySet DEF CountInv, Init
<1> QED BY <1>1, <1>3, <1>4, <1>5, <1>6 DEF PlaceInv, Unborn

(* A job is in one place at a time, and in the places of this point of the *)
(* dispatcher: nobody is queued, in hand or in a group twice.              *)
THEOREM PlacesCorrect == Spec => [](PlaceInv /\ CountInv)
<1>1. Init => PlaceInv /\ CountInv
  BY PlaceInit
<1>2. PlaceInv /\ CountInv /\ [Next]_vars => (PlaceInv /\ CountInv)'
  BY CountNext
<1> QED BY <1>1, <1>2, PTL DEF Spec

(* The counter behind the zero-wait admission is exact on every path out   *)
(* of the scheduler, and without a queue wait at most one request is in.   *)
THEOREM ReservationsCorrect == Spec => []OutstandingExact
<1>1. CountInv => OutstandingExact
  BY DEF CountInv, OutstandingExact
<1> QED BY <1>1, PlacesCorrect, PTL

-----------------------------------------------------------------------------
(* Lanes.                                                                  *)

(* Who has a lane, and which: only a job not admitted yet may have none.   *)
LEMMA HolderLanes ==
    ASSUME PlaceInv, LanesDiffer
    PROVE  /\ Holders \subseteq Jobs /\ alive \subseteq Holders /\ deferred \subseteq Holders
           /\ \A j \in Holders : lane[j] \in 0 .. Lanes
           /\ \A j \in Holders : lane[j] # 0 => lane[j] \in LaneIds
           /\ \A j \in alive \cup deferred : lane[j] \in LaneIds
           /\ pc \in {"prefill", "attach"} => lane[cur] \in LaneIds
           /\ pc \in {"claim", "admit", "prefill", "attach"} =>
                 cur \in Jobs /\ cur \notin alive \cup deferred
           /\ alive \cap deferred = {}
<1>1. /\ pc \in {"claim", "admit", "prefill", "attach"} =>
            cur \in Jobs /\ cur \notin alive \cup deferred
      /\ alive \cap deferred = {} /\ alive \subseteq Jobs /\ deferred \subseteq Jobs
  BY SchedulerOptions DEF PlaceInv, QwenTypes, QueueTypes, MemberTypes, Apart, InHand, Stages, OneInHand
<1>2. Holders \subseteq Jobs /\ alive \subseteq Holders /\ deferred \subseteq Holders
  BY <1>1 DEF Holders
<1>3. \A j \in Holders : lane[j] \in 0 .. Lanes
  BY <1>2 DEF PlaceInv, QwenTypes, LaneTypes
<1>4. \A j \in Holders : lane[j] # 0 => lane[j] \in LaneIds
  BY <1>3, SchedulerOptions DEF LaneIds
<1>5. \A j \in alive \cup deferred : lane[j] # 0
  BY <1>1, <1>2 DEF LanesDiffer
<1>6. pc \in {"prefill", "attach"} => lane[cur] \in LaneIds
  BY <1>4 DEF LanesDiffer, Holders
<1> QED BY <1>1, <1>2, <1>3, <1>4, <1>5, <1>6

(* Some of those that have a lane leave it; the others keep theirs.        *)
LEMMA LanesLeave ==
    ASSUME PlaceInv, LanesDiffer, SeatsExact, NEW D, D \subseteq Holders,
           Holders' = Holders \ D, alive' = alive \ D, UNCHANGED <<lane, cache>>,
           seat' = Left(LanesOf(D)), pc = "admit" => cur \in D
    PROVE  LanesDiffer' /\ SeatsExact'
<1>1. /\ \A j \in Holders : lane[j] \in 0 .. Lanes
      /\ \A j \in Holders' : lane[j] # 0 /\ lane[j] \in LaneIds
  BY HolderLanes DEF LanesDiffer
<1>2. \A l \in LaneIds : seat'[l] = IF l \in LanesOf(D) THEN "Vacant" ELSE seat[l]
  BY DEF Left
<1>3. \A j \in Holders' : lane[j] \notin LanesOf(D) /\ seat'[lane[j]] = seat[lane[j]]
  BY <1>1, <1>2 DEF LanesOf, LanesDiffer
<1>4. LanesDiffer'
  BY <1>1 DEF LanesDiffer
<1>5. ASSUME NEW l \in LaneIds, seat'[l] \notin {"Vacant", "VacantPadClobbered"}
      PROVE  \E j \in Holders' : lane[j] = l
  <2>1. l \notin LanesOf(D) /\ l \in Occupied
    BY <1>2, <1>5 DEF Occupied
  <2>2. PICK j \in Holders : lane[j] = l
    BY <2>1 DEF SeatsExact
  <2> QED BY <2>1, <2>2 DEF LanesOf
<1>6. \A j \in alive' : seat'[lane[j]] = "ActivePrefilled" /\ cache[lane[j]] = j
  BY <1>3, HolderLanes DEF SeatsExact
<1>7. \A j \in Holders' \ alive' : seat'[lane[j]] = "ActiveAwaitingPrefill"
  BY <1>1, <1>3 DEF SeatsExact
<1>8. \A l \in Occupied' : \E j \in Holders' : lane'[j] = l
  BY <1>5 DEF Occupied
<1>9. SeatsExact'
  BY <1>6, <1>7, <1>8 DEF SeatsExact
<1> QED BY <1>4, <1>9

(* A job leaves its lane.                                                  *)
LEMMA LaneLeaves ==
    ASSUME PlaceInv, LanesDiffer, SeatsExact, NEW j \in Holders,
           Holders' = Holders \ {j}, alive' = alive \ {j}, UNCHANGED <<lane, cache>>,
           seat' = Left({lane[j]}), pc = "admit" => cur = j
    PROVE  LanesDiffer' /\ SeatsExact'
<1>1. LanesOf({j}) = {lane[j]}
  BY DEF LanesOf
<1> QED BY <1>1, LanesLeave

(* The lanes stay as they are.                                             *)
LEMMA LanesStay ==
    ASSUME PlaceInv, LaneInv, UNCHANGED <<laneVars, alive>>, Holders' = Holders,
           pc = "admit" => (pc' = "admit" /\ cur' = cur) \/ lane[cur] # 0,
           pc' \notin {"flush", "end"} => pc \notin {"flush", "end"}
    PROVE  LanesDiffer' /\ (pc' \notin {"flush", "end"} => SeatsExact')
<1>1. LanesDiffer'
  BY DEF LaneInv, LanesDiffer, laneVars
<1>2. ASSUME SeatsExact PROVE SeatsExact'
  <2>1. Occupied' = Occupied
    BY DEF Occupied, laneVars
  <2> QED BY <1>2, <2>1 DEF SeatsExact, laneVars
<1> QED BY <1>1, <1>2 DEF LaneInv

(* What is prefilled stays so.                                             *)
LEMMA PrefilledStays ==
    ASSUME Prefilled, UNCHANGED <<lane, cache>>, deferred' \subseteq deferred,
           pc' = "attach" => pc = "attach" /\ cur' = cur,
           \/ pc' \notin {"packed", "attach", "first"}
           \/ pc' \in {"attach", "first"} /\ loop' # "packed"
           \/ loop' = "packed" /\ loop = "packed" /\ pc \in {"attach", "first"}
           \/ pc' = pc /\ loop' = loop
    PROVE  Prefilled'
  BY DEF Prefilled

(* The job in hand goes no further: it leaves its lane, if it has one.     *)
LEMMA DismissLanes ==
    ASSUME PlaceInv, LaneInv, pc \in {"admit", "prefill", "attach"},
           NEW events, NEW sent, Dismiss(events, sent)
    PROVE  LaneInv'
<1>1. /\ UNCHANGED <<lane, cache, deferred, alive, loop>> /\ cur' = None /\ pc' = loop
      /\ seat' = Left({lane[cur]}) /\ loop \in {"take", "serial", "packed", "late"}
  BY DEF Dismiss, memberVars, PlaceInv, QwenTypes, QueueTypes
<1>2. cur \in Holders /\ cur \notin alive \cup deferred
  BY HolderLanes DEF LaneInv, Holders
<1>3. Holders' = Holders \ {cur} /\ alive' = alive \ {cur}
  BY <1>1, <1>2 DEF Holders
<1>4. LanesDiffer' /\ SeatsExact'
  BY <1>1, <1>2, <1>3, LaneLeaves DEF LaneInv
<1>5. pc \in {"admit", "prefill"} => loop # "packed"
  BY DEF PlaceInv, Stages
<1>6. Prefilled'
  BY <1>1, <1>5, PrefilledStays DEF LaneInv
<1> QED BY <1>4, <1>6 DEF LaneInv

(* A job is claimed, and given the first vacant lane if there is one.      *)
LEMMA ClaimLanes ==
    ASSUME PlaceInv, LaneInv, Claim, IsWaiting(cur)
    PROVE  LaneInv'
<1> DEFINE l == IF Vacancies = {} THEN 0 ELSE Min(Vacancies)
<1>1. /\ pc = "claim" /\ pc' = "admit" /\ lane' = [lane EXCEPT ![cur] = l]
      /\ seat' = [k \in LaneIds |-> IF k = l THEN "ActiveAwaitingPrefill" ELSE seat[k]]
      /\ UNCHANGED <<cur, loop, cache, deferred, alive>>
  BY DEF Claim, memberVars
<1>2. /\ l = 0 \/ (l \in LaneIds /\ seat[l] \in {"Vacant", "VacantPadClobbered"})
      /\ 0 \notin LaneIds
  BY MinVacancy, SchedulerOptions DEF Vacancies, LaneIds
<1> HIDE DEF l
<1>3. /\ cur \in Jobs /\ cur \notin Holders
      /\ Holders = alive \cup deferred /\ Holders' = Holders \cup {cur}
      /\ Holders \subseteq Jobs
  BY <1>1, HolderLanes DEF Holders, LaneInv
<1>4. lane'[cur] = l /\ \A j \in Holders : lane'[j] = lane[j]
  BY <1>1, <1>3 DEF PlaceInv, QwenTypes, LaneTypes
<1>5. /\ \A j \in Holders : lane[j] \in LaneIds
      /\ alive \subseteq Holders
  BY <1>3, HolderLanes DEF LaneInv
<1>6. SeatsExact
  BY <1>1 DEF LaneInv
<1>7. \A j \in Holders : lane[j] # l /\ seat'[lane[j]] = seat[lane[j]]
  <2>1. ASSUME NEW j \in Holders
        PROVE  seat[lane[j]] \in {"ActivePrefilled", "ActiveAwaitingPrefill"}
    BY <1>2, <1>5, <1>6 DEF SeatsExact
  <2>2. \A j \in Holders : lane[j] # l
    BY <1>2, <1>5, <2>1
  <2> QED BY <1>1, <1>5, <2>2
<1>8. LanesDiffer'
  BY <1>1, <1>2, <1>3, <1>4, <1>5, <1>7 DEF LanesDiffer, LaneInv
<1>9. SeatsExact'
  <2>1. \A k \in Occupied' : k = l \/ k \in Occupied
    BY <1>1 DEF Occupied
  <2>2. \A k \in Occupied' : \E j \in Holders' : lane'[j] = k
    BY <1>3, <1>4, <1>6, <2>1 DEF SeatsExact
  <2>3. \A j \in alive' : seat'[lane'[j]] = "ActivePrefilled" /\ cache'[lane'[j]] = j
    BY <1>1, <1>4, <1>5, <1>6, <1>7 DEF SeatsExact
  <2>4. \A j \in Holders' \ alive' : lane'[j] # 0 => seat'[lane'[j]] = "ActiveAwaitingPrefill"
    <3>1. \A j \in Holders \ alive : seat'[lane'[j]] = "ActiveAwaitingPrefill"
      BY <1>2, <1>4, <1>5, <1>6, <1>7 DEF SeatsExact
    <3>2. l # 0 => seat'[l] = "ActiveAwaitingPrefill"
      BY <1>1, <1>2
    <3> QED BY <1>1, <1>3, <1>4, <3>1, <3>2
  <2> QED BY <2>2, <2>3, <2>4 DEF SeatsExact
<1>10. Prefilled'
  BY <1>1 DEF Prefilled
<1> QED BY <1>8, <1>9, <1>10 DEF LaneInv

(* The lane of the job in hand is prefilled: no other one is touched.      *)
LEMMA PrefillLanes ==
    ASSUME PlaceInv, LaneInv, Prefill
    PROVE  LaneInv'
<1>1. /\ pc = "prefill" /\ pc' = "attach" /\ cache' = [cache EXCEPT ![lane[cur]] = cur]
      /\ UNCHANGED <<lane, seat, cur, loop, deferred, alive>>
  BY DEF Prefill, formVars, memberVars
<1>2. Holders' = Holders /\ alive \subseteq Holders
  BY <1>1, HolderLanes DEF Holders, LaneInv
<1>3. /\ lane[cur] \in LaneIds /\ cur \in Holders \ alive
      /\ \A j \in Holders : lane[j] # 0
  BY <1>1, HolderLanes DEF LaneInv, LanesDiffer, Holders
<1>4. cache'[lane[cur]] = cur
  BY <1>1, <1>3 DEF PlaceInv, QwenTypes, LaneTypes
<1>5. \A j \in alive : cache'[lane[j]] = cache[lane[j]]
  <2>1. \A j \in alive : lane[j] # lane[cur] /\ lane[j] \in LaneIds
    BY <1>1, <1>2, <1>3, HolderLanes DEF LaneInv, LanesDiffer
  <2> QED BY <1>1, <2>1 DEF PlaceInv, QwenTypes, LaneTypes
<1>6. LanesDiffer'
  BY <1>1, <1>2, <1>3 DEF LaneInv, LanesDiffer
<1>7. SeatsExact'
  <2>1. SeatsExact /\ Occupied' = Occupied
    BY <1>1 DEF LaneInv, Occupied
  <2> QED BY <1>1, <1>2, <1>5, <2>1 DEF SeatsExact
<1>8. loop # "packed"
  BY <1>1 DEF PlaceInv, Stages
<1>9. Prefilled'
  BY <1>1, <1>4, <1>8 DEF Prefilled
<1> QED BY <1>6, <1>7, <1>9 DEF LaneInv

(* The deferred lanes are prefilled in one go, each by its own job.        *)
LEMMA PackedPrefillLanes ==
    ASSUME PlaceInv, LaneInv, PackedPrefill
    PROVE  LaneInv'
<1>1. /\ pc = "pack" /\ pc' = "packed"
      /\ cache' = [l \in LaneIds |-> IF l \in LanesOf(deferred)
                                     THEN CHOOSE j \in deferred : lane[j] = l ELSE cache[l]]
      /\ UNCHANGED <<lane, seat, cur, loop, deferred, alive>>
  BY DEF PackedPrefill, formVars, memberVars
<1>2. /\ Holders' = Holders /\ Holders = alive \cup deferred /\ alive \cap deferred = {}
      /\ \A j \in Holders : lane[j] \in LaneIds
  BY <1>1, HolderLanes DEF Holders, LaneInv
<1>3. \A i, j \in Holders : lane[i] = lane[j] => i = j
  BY DEF LaneInv, LanesDiffer
<1>4. \A j \in deferred : cache'[lane[j]] = j
  <2> TAKE j \in deferred
  <2>1. lane[j] \in LanesOf(deferred) /\ lane[j] \in LaneIds
    BY <1>2 DEF LanesOf
  <2>2. (CHOOSE i \in deferred : lane[i] = lane[j]) = j
    <3>1. \A i \in deferred : lane[i] = lane[j] => i = j
      BY <1>2, <1>3
    <3> QED BY <3>1
  <2> QED BY <1>1, <2>1, <2>2
<1>5. \A j \in alive : cache'[lane[j]] = cache[lane[j]]
  <2> TAKE j \in alive
  <2>1. lane[j] \notin LanesOf(deferred) /\ lane[j] \in LaneIds
    BY <1>2, <1>3 DEF LanesOf
  <2> QED BY <1>1, <2>1
<1>6. LanesDiffer'
  BY <1>1, <1>2 DEF LaneInv, LanesDiffer
<1>7. SeatsExact'
  <2>1. SeatsExact /\ Occupied' = Occupied
    BY <1>1 DEF LaneInv, Occupied
  <2> QED BY <1>1, <1>2, <1>5, <2>1 DEF SeatsExact
<1>8. Prefilled'
  BY <1>1, <1>4 DEF Prefilled
<1> QED BY <1>6, <1>7, <1>8 DEF LaneInv

(* The job in hand becomes a member, on the lane that it prefilled.        *)
LEMMA AttachLanes ==
    ASSUME PlaceInv, LaneInv, Attach
    PROVE  LaneInv'
<1>1. /\ pc = "attach" /\ pc' = "first" /\ alive' = alive \cup {cur}
      /\ seat' = [seat EXCEPT ![lane[cur]] = "ActivePrefilled"]
      /\ UNCHANGED <<lane, cache, cur, loop, deferred>>
  BY DEF Attach, formVars
<1>2. /\ Holders' = Holders /\ Holders = alive \cup deferred \cup {cur}
      /\ lane[cur] \in LaneIds /\ cur \notin alive \cup deferred
      /\ \A j \in Holders : lane[j] \in LaneIds
  BY <1>1, HolderLanes DEF Holders, LaneInv
<1>3. \A i, j \in Holders : lane[i] = lane[j] => i = j
  BY DEF LaneInv, LanesDiffer
<1>4. SeatsExact /\ cache[lane[cur]] = cur
  BY <1>1 DEF LaneInv, Prefilled
<1>5. \A l \in LaneIds : seat'[l] = IF l = lane[cur] THEN "ActivePrefilled" ELSE seat[l]
  BY <1>1 DEF PlaceInv, QwenTypes, LaneTypes
<1>6. LanesDiffer'
  <2>1. 0 \notin LaneIds
    BY SchedulerOptions DEF LaneIds
  <2> QED BY <1>1, <1>2, <1>3, <2>1 DEF LanesDiffer
<1>7. SeatsExact'
  <2>1. \A k \in Occupied' : k = lane[cur] \/ k \in Occupied
    BY <1>5 DEF Occupied
  <2>2. \A k \in Occupied' : \E j \in Holders' : lane'[j] = k
    BY <1>1, <1>2, <1>4, <2>1 DEF SeatsExact
  <2>3. \A j \in alive \cup deferred : seat'[lane[j]] = seat[lane[j]]
    BY <1>2, <1>3, <1>5
  <2>4. \A j \in alive' : seat'[lane'[j]] = "ActivePrefilled" /\ cache'[lane'[j]] = j
    BY <1>1, <1>2, <1>4, <1>5, <2>3 DEF SeatsExact
  <2>5. \A j \in Holders' \ alive' : lane'[j] # 0 => seat'[lane'[j]] = "ActiveAwaitingPrefill"
    BY <1>1, <1>2, <1>4, <2>3 DEF SeatsExact
  <2> QED BY <2>2, <2>4, <2>5 DEF SeatsExact
<1>8. Prefilled'
  BY <1>1, PrefilledStays DEF LaneInv
<1> QED BY <1>6, <1>7, <1>8 DEF LaneInv

(* Outside of the group's steps the lanes stay, if nobody who has one is   *)
(* let go.                                                                 *)
LEMMA HandsLanes ==
    ASSUME PlaceInv, LaneInv, UNCHANGED <<laneVars, deferred, alive>>,
           pc \notin {"admit", "prefill", "attach", "flush", "end"},
           pc' \notin {"admit", "prefill", "attach"},
           \/ pc' \notin {"packed", "first"}
           \/ loop' = loop /\ pc' = pc
    PROVE  LaneInv'
<1>1. Holders' = Holders
  BY DEF Holders
<1>2. LanesDiffer' /\ (pc' \notin {"flush", "end"} => SeatsExact')
  BY <1>1, LanesStay
<1>3. Prefilled'
  BY PrefilledStays DEF LaneInv, laneVars
<1> QED BY <1>2, <1>3 DEF LaneInv

(* The admission of a job keeps the lanes apart.                           *)
LEMMA AdmissionLanes ==
    ASSUME PlaceInv, LaneInv, Admission
    PROVE  LaneInv'
<1>0. /\ loop \in {"take", "serial", "packed", "late"}
      /\ pc \in {"claim", "admit", "prefill"} => loop # "packed"
      /\ pc = "take" => loop = "take"
  BY DEF PlaceInv, QwenTypes, QueueTypes, Stages
<1>1. CASE \/ RecvFirst \/ Stop \/ FormTake \/ FormClose \/ SoloClaim
           \/ GroupTake \/ GroupReceive \/ LateTake \/ LateClose
  <2>1. UNCHANGED <<laneVars, deferred, alive>>
    BY <1>1 DEF RecvFirst, Stop, FormTake, FormClose, SoloClaim, GroupTake, GroupReceive,
                LateTake, LateClose, ReceiveInto, Take, memberVars, formVars
  <2>2. /\ pc \in {"recv", "form", "solo", "take", "late"}
        /\ pc' \in {"recv", "form", "stopped", "solo", "take", "run", "claim", "late", "begin"}
    BY <1>1 DEF RecvFirst, Stop, FormTake, FormClose, SoloClaim, GroupTake, GroupReceive,
                LateTake, LateClose, ReceiveInto, Take
  <2> QED BY <2>1, <2>2, HandsLanes
<1>2. CASE \E events \in SoloStreams, sent \in 0 .. 3 : SoloRun(events, sent)
  BY <1>2, HandsLanes DEF SoloRun, memberVars
<1>3. CASE Claim
  <2>1. CASE IsWaiting(cur)
    BY <1>3, <2>1, ClaimLanes
  <2>2. CASE ~IsWaiting(cur)
    <3>1. /\ UNCHANGED <<lane, seat, cache, deferred, alive>> /\ pc = "claim" /\ pc' = loop
      BY <1>3, <2>2 DEF Claim, memberVars
    <3> QED BY <1>0, <3>1, HandsLanes DEF laneVars
  <2> QED BY <2>1, <2>2
<1>4. CASE AdmitOk
  <2>1. /\ pc = "admit" /\ lane[cur] # 0 /\ UNCHANGED <<laneVars, alive, loop>>
        /\ \/ deferred' = deferred \cup {cur} /\ pc' = "take"
           \/ deferred' = deferred /\ cur' = cur /\ pc' = "prefill"
    BY <1>4 DEF AdmitOk, memberVars
  <2>2. Holders' = Holders
    BY <2>1 DEF Holders
  <2>3. LanesDiffer' /\ SeatsExact'
    BY <2>1, <2>2, LanesStay
  <2>4. Prefilled'
    BY <2>1 DEF Prefilled
  <2> QED BY <2>3, <2>4 DEF LaneInv
<1>5. CASE Prefill \/ PackedPrefill \/ Attach
  BY <1>5, PrefillLanes, PackedPrefillLanes, AttachLanes
<1>6. CASE \/ \E events \in {<<"error">>, <<"started", "done">>}, sent \in 0 .. 2 :
                   AdmitRefused(events, sent)
           \/ \E sent \in 0 .. 1 : PrefillFails(sent) \/ AttachFails(sent)
  BY <1>6, DismissLanes DEF AdmitRefused, PrefillFails, AttachFails
<1>7. CASE \/ \E next \in {"begin", "serial", "pack"} : GroupClose(next)
           \/ \E reached \in SUBSET deferred : PackedPrefillFails(reached)
  <2>1. PICK D : /\ D \subseteq deferred /\ deferred' = deferred \ D /\ seat' = Left(LanesOf(D))
                 /\ pc \in {"take", "pack"} /\ pc' \in {"begin", "serial", "pack", "late"}
                 /\ UNCHANGED <<lane, cache, alive>>
    BY <1>7 DEF GroupClose, PackedPrefillFails, memberVars
  <2>2. /\ Holders = alive \cup deferred /\ alive \cap deferred = {}
        /\ Holders' = Holders \ D /\ alive' = alive \ D
    BY <2>1, HolderLanes DEF Holders, LaneInv
  <2>3. LanesDiffer' /\ SeatsExact'
    BY <2>1, <2>2, LanesLeave DEF LaneInv
  <2>4. Prefilled'
    BY <2>1 DEF Prefilled
  <2> QED BY <2>3, <2>4 DEF LaneInv
<1>8. CASE \E j \in deferred : DeferredNext(j)
  <2>1. PICK j \in deferred : DeferredNext(j)
    BY <1>8
  <2>2. /\ pc \in {"serial", "packed"} /\ deferred' = deferred \ {j} /\ cur' = j /\ loop' = pc
        /\ pc' = IF pc = "serial" THEN "prefill" ELSE "attach"
        /\ UNCHANGED <<laneVars, alive>>
    BY <2>1 DEF DeferredNext, memberVars
  <2>3. Holders' = Holders
    BY <2>2 DEF Holders
  <2>4. LanesDiffer' /\ SeatsExact'
    BY <2>2, <2>3, LanesStay
  <2>5. Prefilled'
    BY <2>2 DEF Prefilled, LaneInv, laneVars
  <2> QED BY <2>4, <2>5 DEF LaneInv
<1>9. CASE DeferredDone
  BY <1>9, HandsLanes DEF DeferredDone, formVars, memberVars
<1> QED BY <1>1, <1>2, <1>3, <1>4, <1>5, <1>6, <1>7, <1>8, <1>9 DEF Admission

(* When the group steps, the pads overwrite no lane of a live member.      *)
LEMMA StepLanes ==
    ASSUME PlaceInv, LaneInv, StepOk
    PROVE  LaneInv'
<1>1. /\ pc = "top" /\ pc' \in {"emit", "consume"} /\ alive' = Fed /\ deferred = {} /\ deferred' = {}
      /\ seat' = [l \in LaneIds |-> IF l \in Padded THEN "VacantPadClobbered"
                                    ELSE Left(LanesOf(Evicted))[l]]
      /\ cache' = [l \in LaneIds |-> IF l \in Padded THEN None ELSE cache[l]]
      /\ UNCHANGED lane
  BY DEF StepOk, formVars, PlaceInv, Stages
<1>2. /\ Holders = alive /\ Holders' = Fed /\ Fed \subseteq alive /\ Evicted = alive \ Fed
      /\ \A j \in alive : lane[j] \in LaneIds
  BY <1>1, HolderLanes DEF Holders, LaneInv, Fed, Evicted
<1>3. SeatsExact /\ \A i, j \in alive : lane[i] = lane[j] => i = j
  BY <1>1, <1>2 DEF LaneInv, LanesDiffer
<1>4. \A j \in Fed : lane[j] \notin Padded /\ lane[j] \notin LanesOf(Evicted)
  BY <1>2, <1>3 DEF Padded, LanesOf
<1>5. \A j \in Fed : seat'[lane[j]] = seat[lane[j]] /\ cache'[lane[j]] = cache[lane[j]]
  BY <1>1, <1>2, <1>4 DEF Left
<1>6. \A l \in Occupied' : \E j \in Fed : lane[j] = l
  <2> TAKE l \in Occupied'
  <2>1. l \in LaneIds /\ l \notin Padded /\ l \notin LanesOf(Evicted) /\ l \in Occupied
    BY <1>1 DEF Occupied, Left
  <2>2. PICK j \in alive : lane[j] = l
    BY <1>2, <1>3, <2>1 DEF SeatsExact
  <2> QED BY <1>2, <2>1, <2>2 DEF LanesOf
<1>7. LanesDiffer'
  <2>1. 0 \notin LaneIds
    BY SchedulerOptions DEF LaneIds
  <2> QED BY <1>1, <1>2, <1>3, <2>1 DEF LanesDiffer
<1>8. SeatsExact'
  BY <1>1, <1>2, <1>3, <1>5, <1>6 DEF SeatsExact
<1>9. Prefilled'
  BY <1>1 DEF Prefilled
<1> QED BY <1>7, <1>8, <1>9 DEF LaneInv

(* A member that stops decoding leaves its lane, any other keeps it.       *)
LEMMA MemberLanes ==
    ASSUME PlaceInv, LaneInv, pc \notin {"admit", "prefill", "attach", "flush", "end"},
           pc' \notin {"admit", "prefill", "attach", "first"},
           pc' = "packed" => pc = "first" /\ loop = "packed",
           UNCHANGED <<lane, cache, deferred, loop>>, NEW j,
           \/ UNCHANGED <<alive, seat>>
           \/ j \in alive /\ alive' = alive \ {j} /\ seat' = Left({lane[j]})
    PROVE  LaneInv'
<1>1. Prefilled'
  BY PrefilledStays DEF LaneInv
<1>2. CASE UNCHANGED <<alive, seat>>
  <2>1. Holders' = Holders
    BY <1>2 DEF Holders
  <2>2. LanesDiffer' /\ (pc' \notin {"flush", "end"} => SeatsExact')
    BY <1>2, <2>1, LanesStay DEF laneVars
  <2> QED BY <1>1, <2>2 DEF LaneInv
<1>3. CASE j \in alive /\ alive' = alive \ {j} /\ seat' = Left({lane[j]})
  <2>1. alive \cap deferred = {} /\ Holders = alive \cup deferred
    BY HolderLanes DEF Holders, LaneInv
  <2>2. j \in Holders /\ Holders' = Holders \ {j}
    BY <1>3, <2>1 DEF Holders
  <2>3. LanesDiffer' /\ SeatsExact'
    BY <1>3, <2>2, LaneLeaves DEF LaneInv
  <2> QED BY <1>1, <2>3 DEF LaneInv
<1> QED BY <1>2, <1>3

(* The group steps and ends; what it left in the lanes is forgotten.       *)
LEMMA SteppingLanes ==
    ASSUME PlaceInv, LaneInv, Stepping
    PROVE  LaneInv'
<1>0. /\ loop \in {"take", "serial", "packed", "late"}
      /\ pc = "first" => cur \in alive
      /\ pc \in {"consume", "advance"} => todo \subseteq alive
      /\ pc \in GroupSteps => deferred = {}
      /\ pc \in {"flush", "end"} => alive = {}
      /\ {"begin", "top", "collect"} \subseteq GroupSteps
  BY DEF PlaceInv, QwenTypes, QueueTypes, Stages, GroupSteps
<1>1. CASE \E j \in {cur} \ {None}, sent \in Lengths :
              \E out \in Outcomes(gen[j]) : FirstToken(out, sent)
  <2>1. /\ pc = "first" /\ pc' = loop /\ UNCHANGED <<lane, cache, deferred, loop>>
        /\ \/ UNCHANGED <<alive, seat>>
           \/ alive' = alive \ {cur} /\ seat' = Left({lane[cur]})
    BY <1>1 DEF FirstToken, Consume
  <2> QED BY <1>0, <2>1, MemberLanes
<1>2. CASE \/ Collect
           \/ \E how \in {"plain", "overlap"} : GroupBegins(how)
  <2>1. /\ pc \in {"begin", "collect"} /\ pc' \in {"top", "advance"}
        /\ UNCHANGED <<lane, cache, deferred, loop, alive, seat>>
    BY <1>2 DEF Collect, GroupBegins, formVars, laneVars
  <2> QED BY <2>1, MemberLanes
<1>3. CASE StepOk
  BY <1>3, StepLanes
<1>4. ASSUME UNCHANGED <<lane, deferred>>, alive' = {}, pc \in GroupSteps, pc' \in {"flush", "end"}
      PROVE  LaneInv'
  <2>1. Holders' = {}
    BY <1>0, <1>4 DEF Holders
  <2> QED BY <1>4, <2>1 DEF LaneInv, LanesDiffer, Prefilled
<1>5. CASE \/ StepDone
           \/ \E reached \in SUBSET alive : StepFails(reached) \/ CollectFails(reached)
  BY <1>0, <1>4, <1>5 DEF StepDone, StepFails, CollectFails, After, formVars, laneVars
<1>6. ASSUME NEW j \in todo, NEW sent, NEW out, ConsumeStep(j, out, sent)
      PROVE  LaneInv'
  <2>1. /\ pc = "consume" /\ pc' \in {pc, "top"} /\ UNCHANGED <<lane, cache, deferred, loop>>
        /\ \/ UNCHANGED <<alive, seat>>
           \/ alive' = alive \ {j} /\ seat' = Left({lane[j]})
    BY <1>6 DEF ConsumeStep, Consume, Visit, formVars
  <2> QED BY <1>0, <2>1, MemberLanes
<1>7. ASSUME NEW j \in todo, NEW sent, NEW events, Emit(j, events, sent)
      PROVE  LaneInv'
  <2>1. /\ pc = "emit" /\ pc' \in {pc, "collect"} /\ UNCHANGED <<lane, cache, deferred, loop>>
        /\ alive' = alive \/ alive' = alive \ {j}
        /\ seat' = IF j \in alive \ alive' THEN Left({lane[j]}) ELSE seat
    BY <1>7 DEF Emit, EmitPending, Visit, formVars
  <2>2. \/ UNCHANGED <<alive, seat>>
        \/ j \in alive /\ alive' = alive \ {j} /\ seat' = Left({lane[j]})
    <3>1. CASE j \in alive \ alive'
      BY <2>1, <3>1
    <3>2. CASE j \notin alive \ alive'
      BY <2>1, <3>2
    <3> QED BY <3>1, <3>2
  <2> QED BY <2>1, <2>2, MemberLanes
<1>8. ASSUME NEW j \in todo, NEW sent, NEW events, Flush(j, events, sent)
      PROVE  LaneInv'
  <2>1. /\ pc = "flush" /\ pc' \in {"flush", "end"} /\ UNCHANGED <<lane, deferred>>
        /\ alive' \subseteq alive
    BY <1>8 DEF Flush, EmitPending, Visit, formVars
  <2> QED BY <1>0, <1>4, <2>1 DEF GroupSteps
<1>9. CASE \/ \E j \in todo, eos \in BOOLEAN : Advance(j, eos)
           \/ \E j \in todo, sent \in 0 .. 1 : AdvanceFails(j, sent)
  <2>1. PICK j \in todo :
           /\ pc = "advance" /\ pc' \in {pc, "top"} /\ UNCHANGED <<lane, cache, deferred, loop>>
           /\ \/ UNCHANGED <<alive, seat>>
              \/ alive' = alive \ {j} /\ seat' = Left({lane[j]})
    BY <1>9 DEF Advance, AdvanceFails, Visit, formVars
  <2> QED BY <1>0, <2>1, MemberLanes
<1>10. CASE GroupEnds
  <2>1. /\ pc = "end" /\ pc' = "recv" /\ UNCHANGED <<deferred, alive>>
        /\ seat' = [l \in LaneIds |-> "Vacant"]
    BY <1>10 DEF GroupEnds
  <2>2. Holders' = {} /\ alive' = {}
    BY <1>0, <2>1 DEF Holders, GroupSteps
  <2>3. Occupied' = {}
    BY <2>1 DEF Occupied
  <2> QED BY <2>1, <2>2, <2>3 DEF LaneInv, LanesDiffer, SeatsExact, Prefilled
<1> QED BY <1>1, <1>2, <1>3, <1>5, <1>6, <1>7, <1>8, <1>9, <1>10 DEF Stepping

(* Every step keeps the lanes.                                             *)
LEMMA LanesNext ==
    ASSUME PlaceInv, LaneInv, [Next]_vars
    PROVE  LaneInv'
<1>1. ASSUME UNCHANGED <<laneVars, alive, deferred, cur, loop, pc>> PROVE LaneInv'
  <2>1. Holders' = Holders
    BY <1>1 DEF Holders
  <2>2. LanesDiffer' /\ (pc' \notin {"flush", "end"} => SeatsExact')
    BY <1>1, <2>1, LanesStay
  <2>3. Prefilled'
    BY <1>1, PrefilledStays DEF LaneInv, laneVars
  <2> QED BY <2>2, <2>3 DEF LaneInv
<1>2. ASSUME NEW j \in Jobs,
             Submit(j) \/ Close(j) \/ Expire(j) \/ WatchdogEnds(j) \/ WatchdogRejects(j)
      PROVE  LaneInv'
  BY <1>1, <1>2 DEF Submit, Close, Expire, WatchdogEnds, WatchdogRejects, formVars, memberVars
<1>3. CASE DropHandle
  BY <1>1, <1>3 DEF DropHandle, formVars, memberVars
<1>4. CASE UNCHANGED vars
  BY <1>1, <1>4 DEF vars, formVars, memberVars
<1>5. CASE Dispatcher
  BY <1>5, AdmissionLanes, SteppingLanes DEF Dispatcher
<1> QED BY <1>2, <1>3, <1>4, <1>5 DEF Next

(* When a step is planned, the roster's active seats are exactly the lanes *)
(* of the live members, each prefilled by its own member and not written   *)
(* over since: run_group's pads and a lane reused by a later member never  *)
(* corrupt another member's decode.                                        *)
THEOREM LanesCorrect == Spec => []LaneIsOwn
<1>1. Init => LaneInv
  <2>1. Init => Holders = {} /\ Occupied = {} /\ alive = {}
    BY DEF Init, Holders, Occupied
  <2> QED BY <2>1 DEF Init, LaneInv, LanesDiffer, SeatsExact, Prefilled
<1>2. PlaceInv /\ LaneInv /\ [Next]_vars => LaneInv'
  BY LanesNext
<1>3. PlaceInv /\ LaneInv => LaneIsOwn
  <2> SUFFICES ASSUME PlaceInv, LaneInv, pc = "top"
               PROVE  /\ Occupied = LanesOf(alive)
                      /\ \A j \in alive : seat[lane[j]] = "ActivePrefilled" /\ cache[lane[j]] = j
    BY DEF LaneIsOwn, Occupied
  <2>1. deferred = {} /\ SeatsExact
    BY DEF PlaceInv, Stages, LaneInv
  <2>2. Holders = alive /\ \A j \in alive : lane[j] \in LaneIds
    BY <2>1, HolderLanes DEF Holders, LaneInv
  <2>3. Occupied \subseteq LanesOf(alive)
    BY <2>1, <2>2 DEF SeatsExact, LanesOf
  <2>4. LanesOf(alive) \subseteq Occupied
    BY <2>1, <2>2 DEF SeatsExact, LanesOf, Occupied
  <2> QED BY <2>1, <2>3, <2>4 DEF SeatsExact
<1>4. Spec => [](PlaceInv /\ CountInv)
  BY PlacesCorrect
<1> QED BY <1>1, <1>2, <1>3, <1>4, PTL DEF Spec

-----------------------------------------------------------------------------
(* Stories.                                                                *)

(* What goes on is a story, and stays one with text and then an end.       *)
LEMMA StoryGrows ==
    ASSUME NEW s \in Seq(Story), GoesOn(s), NEW e \in Seq(Story), NEW n \in Nat, n <= Len(e),
           \A k \in 1 .. Len(e) : /\ e[k] \in {"delta", "done", "error"}
                                  /\ k < Len(e) => e[k] = "delta"
    PROVE  /\ IsStory(s \o SubSeq(e, 1, n))
           /\ (\A k \in 1 .. Len(e) : e[k] = "delta") => GoesOn(s \o SubSeq(e, 1, n))
<1> DEFINE p == SubSeq(e, 1, n)
           t == s \o p
<1>1. /\ p \in Seq(Story) /\ Len(p) = n /\ \A i \in 1 .. n : p[i] = e[i]
  BY PrefixProperties
<1> HIDE DEF p
<1>a. Len(s) >= 1 /\ s[1] = "started" /\ \A k \in 2 .. Len(s) : s[k] = "delta"
  BY DEF GoesOn
<1>b. /\ t \in Seq(Story) /\ Len(t) = Len(s) + Len(p) /\ Len(s) \in Nat
      /\ \A i \in 1 .. Len(s) : t[i] = s[i]
  BY <1>1
<1>c. \A i \in 1 .. Len(t) : i > Len(s) => t[i] = p[i - Len(s)]
  BY <1>1
<1> HIDE DEF t
<1>2. /\ t \in Seq(Story) /\ Len(t) = Len(s) + n /\ Len(s) \in Nat /\ Len(s) >= 1
      /\ \A i \in 1 .. Len(s) : t[i] = s[i]
      /\ \A i \in 1 .. Len(t) : i > Len(s) => t[i] = p[i - Len(s)]
  BY <1>1, <1>a, <1>b, <1>c
<1>3. t[1] = "started" /\ \A i \in 2 .. Len(s) : t[i] = "delta"
  <2>1. 1 \in 1 .. Len(s) /\ \A i \in 2 .. Len(s) : i \in 1 .. Len(s)
    BY <1>2
  <2> HIDE DEF GoesOn
  <2> QED BY <1>a, <1>b, <2>1
<1>4. ASSUME NEW i \in 1 .. Len(t), i > Len(s)
      PROVE  /\ i - Len(s) \in 1 .. Len(e) /\ t[i] = e[i - Len(s)]
             /\ i < Len(t) => i - Len(s) < Len(e)
  <2>1. i - Len(s) \in 1 .. n
    BY <1>2, <1>4
  <2>2. Len(e) \in Nat
    OBVIOUS
  <2> QED BY <1>1, <1>2, <1>4, <2>1, <2>2
<1>5. IsStory(t)
  <2> SUFFICES ASSUME NEW k \in 1 .. Len(t)
               PROVE  /\ k = 1 => t[k] \in {"refused", "busy", "error", "started"}
                      /\ k > 1 => t[k] \in {"delta", "done", "error"} /\ t[1] = "started"
                      /\ k < Len(t) => t[k] \in {"started", "delta"}
    BY DEF IsStory
  <2>1. CASE k > Len(s)
    BY <1>2, <1>3, <1>4, <2>1
  <2>2. CASE k <= Len(s)
    BY <1>2, <1>3, <2>2
  <2> QED BY <1>2, <2>1, <2>2
<1>6. ASSUME \A k \in 1 .. Len(e) : e[k] = "delta" PROVE GoesOn(t)
  <2>1. \A k \in 2 .. Len(t) : t[k] = "delta"
    <3> TAKE k \in 2 .. Len(t)
    <3>1. CASE k > Len(s)
      BY <1>2, <1>4, <1>6, <3>1
    <3>2. CASE k <= Len(s)
      BY <1>2, <1>3, <3>2
    <3> QED BY <1>2, <3>1, <3>2
  <2> QED BY <1>2, <1>3, <2>1 DEF GoesOn
<1> QED BY <1>5, <1>6 DEF t, p

(* As much of a story as was told is a story.                              *)
LEMMA StoryStarts ==
    ASSUME NEW e \in Seq(Story), IsStory(e), NEW n \in Nat, n <= Len(e)
    PROVE  IsStory(<<>> \o SubSeq(e, 1, n))
<1> DEFINE p == SubSeq(e, 1, n)
<1>1. /\ p \in Seq(Story) /\ Len(p) = n /\ \A i \in 1 .. n : p[i] = e[i]
  BY PrefixProperties
<1> HIDE DEF p
<1>2. <<>> \o p = p
  BY <1>1
<1>3. Len(e) \in Nat
  OBVIOUS
<1>4. IsStory(p)
  BY <1>1, <1>3 DEF IsStory
<1> QED BY <1>2, <1>4 DEF p

(* A story that goes on may end with an error; a single word can be one.   *)
LEMMA StoryEnds ==
    ASSUME NEW s \in Seq(Story), GoesOn(s) \/ s = <<>>
    PROVE  IsStory(Append(s, "error"))
<1> DEFINE t == Append(s, "error")
<1>1. /\ Len(t) = Len(s) + 1 /\ Len(s) \in Nat /\ t[Len(s) + 1] = "error"
      /\ \A i \in 1 .. Len(s) : t[i] = s[i]
  OBVIOUS
<1> HIDE DEF t
<1>2. CASE GoesOn(s)
  BY <1>1, <1>2 DEF IsStory, GoesOn
<1>3. CASE s = <<>>
  <2>1. Len(s) = 0
    BY <1>3
  <2> QED BY <1>1, <2>1 DEF IsStory
<1> QED BY <1>2, <1>3 DEF t

(* The stories the scheduler tells in one go.                              *)
LEMMA WholeStories ==
    /\ \A e \in SoloStreams \cup {<<"error">>, <<"started", "done">>, <<"started">>} :
          e \in Seq(Story) /\ IsStory(e)
    /\ IsStory(<<>>) /\ IsStory(<<"refused">>) /\ IsStory(<<"busy">>)
    /\ GoesOn(<<"started">>)
<1>1. /\ <<"error">> \in Seq(Story) /\ IsStory(<<"error">>)
      /\ <<"started">> \in Seq(Story) /\ IsStory(<<"started">>)
      /\ IsStory(<<>>) /\ IsStory(<<"refused">>) /\ IsStory(<<"busy">>)
      /\ GoesOn(<<"started">>)
  BY DEF Story, IsStory, GoesOn
<1>2. <<"started", "done">> \in Seq(Story) /\ IsStory(<<"started", "done">>)
  BY DEF Story, IsStory
<1>3. <<"started", "error">> \in Seq(Story) /\ IsStory(<<"started", "error">>)
  BY DEF Story, IsStory
<1>4. <<"started", "delta", "done">> \in Seq(Story) /\ IsStory(<<"started", "delta", "done">>)
  BY DEF Story, IsStory
<1> QED BY <1>1, <1>2, <1>3, <1>4 DEF SoloStreams

(* Jobs that were claimed are told more.                                   *)
LEMMA StoriesTold ==
    ASSUME QwenTypes, Stories, Kept, UNCHANGED <<ticket, watchdog>>, NEW T,
           \A j \in T : ticket[j] = "sent" /\ IsStory(stream'[j]),
           \A j \in Jobs \ T : stream'[j] = stream[j]
    PROVE  Stories'
<1> SUFFICES ASSUME NEW j \in Jobs
             PROVE  /\ IsStory(stream'[j])
                    /\ client'[j] = "none" => stream'[j] = <<>> /\ ticket'[j] = "none"
                    /\ ticket'[j] = "waiting" => stream'[j] = <<>>
                    /\ ticket'[j] = "dropped" /\ watchdog'[j] = "armed" => stream'[j] = <<>>
  BY DEF Stories
<1>1. client'[j] = "none" => client[j] = "none"
  BY DEF Kept
<1>2. CASE j \in T
  BY <1>1, <1>2 DEF Stories
<1>3. CASE j \notin T
  BY <1>1, <1>3 DEF Stories
<1> QED BY <1>2, <1>3

(* Some that wait are claimed or dropped; nobody is told anything.         *)
LEMMA TicketsMove ==
    ASSUME Stories, Kept, UNCHANGED <<stream, watchdog>>,
           \A j \in Jobs : \/ ticket'[j] = ticket[j]
                           \/ ticket[j] = "waiting" /\ ticket'[j] \in {"dropped", "sent"}
    PROVE  Stories'
<1> SUFFICES ASSUME NEW j \in Jobs
             PROVE  /\ IsStory(stream'[j])
                    /\ client'[j] = "none" => stream'[j] = <<>> /\ ticket'[j] = "none"
                    /\ ticket'[j] = "waiting" => stream'[j] = <<>>
                    /\ ticket'[j] = "dropped" /\ watchdog'[j] = "armed" => stream'[j] = <<>>
  BY DEF Stories
<1>1. client'[j] = "none" => client[j] = "none"
  BY DEF Kept
<1> QED BY <1>1 DEF Stories

(* The same, while the group stays as it is.                               *)
LEMMA QuietStories ==
    ASSUME PlaceInv, StoryInv, Kept, UNCHANGED <<stream, watchdog, memberVars>>,
           pc' \notin {"top", "emit", "collect", "advance", "flush"},
           \A j \in Jobs : \/ ticket'[j] = ticket[j]
                           \/ ticket[j] = "waiting" /\ ticket'[j] \in {"dropped", "sent"},
           \A j \in Claimed' :
              j \in Claimed \/ (j \in Jobs /\ ticket[j] = "waiting" /\ ticket'[j] = "sent")
    PROVE  StoryInv'
<1>1. Stories'
  BY TicketsMove DEF StoryInv
<1>2. members \subseteq Jobs /\ Claimed \subseteq Jobs
  BY DEF PlaceInv, QwenTypes, QueueTypes, MemberTypes, Stages, Claimed, OneInHand
<1>3. ClaimedFresh'
  <2> SUFFICES ASSUME NEW j \in Claimed' PROVE ticket'[j] = "sent" /\ stream'[j] = <<>>
    BY DEF ClaimedFresh
  <2>1. CASE j \in Claimed
    BY <1>2, <2>1 DEF StoryInv, ClaimedFresh
  <2>2. CASE j \in Jobs /\ ticket[j] = "waiting" /\ ticket'[j] = "sent"
    BY <2>2 DEF StoryInv, Stories
  <2> QED BY <2>1, <2>2
<1>4. MembersTold'
  BY <1>2 DEF StoryInv, MembersTold, memberVars
<1>5. NothingOwed'
  BY DEF NothingOwed
<1> QED BY <1>1, <1>3, <1>4, <1>5 DEF StoryInv

(* A job that was claimed and not told anything is told its whole story,   *)
(* or as much of it as its client takes.                                   *)
LEMMA FreshTold ==
    ASSUME PlaceInv, StoryInv, Kept, UNCHANGED <<ticket, watchdog, memberVars>>,
           NEW j \in Claimed \ members, NEW events \in Seq(Story), IsStory(events), NEW sent,
           Send(j, events, sent), Claimed' \subseteq Claimed \ {j},
           pc' \notin {"top", "emit", "collect", "advance", "flush"}
    PROVE  StoryInv'
<1>1. Claimed \subseteq Jobs /\ QwenTypes
  BY DEF PlaceInv, QwenTypes, QueueTypes, Stages, Claimed, OneInHand
<1>2. /\ stream'[j] = stream[j] \o SubSeq(events, 1, sent)
      /\ \A i \in Jobs : i # j => stream'[i] = stream[i]
      /\ sent \in Nat /\ sent <= Len(events)
  BY <1>1, SendFacts
<1>3. ticket[j] = "sent" /\ stream[j] = <<>>
  BY DEF StoryInv, ClaimedFresh
<1>4. IsStory(stream'[j])
  BY <1>2, <1>3, StoryStarts
<1>5. Stories'
  <2>1. \A i \in Jobs \ {j} : stream'[i] = stream[i]
    BY <1>2
  <2> QED BY <1>1, <1>3, <1>4, <2>1, StoriesTold DEF StoryInv
<1>6. ClaimedFresh'
  BY <1>1, <1>2 DEF StoryInv, ClaimedFresh
<1>7. MembersTold'
  <2>1. members \subseteq Jobs /\ alive \subseteq members /\ finishing \subseteq members
    BY DEF PlaceInv, QwenTypes, MemberTypes
  <2> QED BY <1>2, <2>1 DEF StoryInv, MembersTold, memberVars
<1>8. NothingOwed'
  BY DEF NothingOwed
<1> QED BY <1>5, <1>6, <1>7, <1>8 DEF StoryInv

(* What clients and watchdogs do: Busy goes only to a job not claimed.     *)
LEMMA OutsideStories ==
    ASSUME PlaceInv, StoryInv, Kept, UNCHANGED <<pc, cur, deferred, memberVars>>, NEW j \in Jobs,
           Submit(j) \/ Close(j) \/ Expire(j) \/ WatchdogEnds(j) \/ WatchdogRejects(j)
    PROVE  StoryInv'
<1>1. Claimed' = Claimed /\ Claimed \subseteq Jobs /\ members \subseteq Jobs
  BY DEF PlaceInv, QwenTypes, QueueTypes, MemberTypes, Stages, Claimed, OneInHand
<1>2. /\ \A i \in Jobs : ticket[i] = "sent" => ticket'[i] = "sent" /\ stream'[i] = stream[i]
      /\ \A i \in Jobs \ {j} : /\ ticket'[i] = ticket[i] /\ stream'[i] = stream[i]
                               /\ watchdog'[i] = watchdog[i]
  <2>1. CASE Submit(j)
    BY <2>1 DEF Submit, StoryInv, Stories, PlaceInv, QwenTypes, ClientTypes, TicketTypes
  <2>2. CASE Close(j) \/ Expire(j)
    BY <2>2 DEF Close, Expire, ticketVars, clientVars
  <2>3. CASE WatchdogEnds(j)
    BY <2>3 DEF WatchdogEnds, clientVars, PlaceInv, QwenTypes, TicketTypes
  <2>4. CASE WatchdogRejects(j)
    BY <2>4 DEF WatchdogRejects, PlaceInv, QwenTypes, TicketTypes, ClientTypes
  <2> QED BY <2>1, <2>2, <2>3, <2>4
<1>3. /\ IsStory(stream'[j])
      /\ client'[j] = "none" => stream'[j] = <<>> /\ ticket'[j] = "none"
      /\ ticket'[j] = "waiting" => stream'[j] = <<>>
      /\ ticket'[j] = "dropped" /\ watchdog'[j] = "armed" => stream'[j] = <<>>
  <2>0. /\ IsStory(stream[j])
        /\ client[j] = "none" => stream[j] = <<>> /\ ticket[j] = "none"
        /\ ticket[j] = "waiting" => stream[j] = <<>>
        /\ ticket[j] = "dropped" /\ watchdog[j] = "armed" => stream[j] = <<>>
        /\ client'[j] = "none" => client[j] = "none"
    BY DEF StoryInv, Stories, Kept
  <2>1. CASE Submit(j)
    BY <2>0, <2>1, WholeStories DEF Submit, PlaceInv, QwenTypes, ClientTypes, TicketTypes
  <2>2. CASE Close(j) \/ Expire(j)
    BY <2>0, <2>2 DEF Close, Expire, ticketVars, clientVars
  <2>3. CASE WatchdogEnds(j)
    BY <2>0, <2>3 DEF WatchdogEnds, clientVars, PlaceInv, QwenTypes, TicketTypes
  <2>4. CASE WatchdogRejects(j)
    <3>1. stream[j] = <<>> /\ stream'[j] = Append(stream[j], "busy")
      BY <2>0, <2>4 DEF WatchdogRejects, PlaceInv, QwenTypes, ClientTypes
    <3>2. stream'[j] = <<"busy">>
      BY <3>1
    <3>3. /\ watchdog'[j] = "ended" /\ client'[j] = "open" /\ ticket'[j] # "waiting"
      BY <2>4 DEF WatchdogRejects, PlaceInv, QwenTypes, TicketTypes
    <3> QED BY <3>2, <3>3, WholeStories
  <2> QED BY <2>1, <2>2, <2>3, <2>4
<1>4. Stories'
  <2> SUFFICES ASSUME NEW i \in Jobs, i # j
               PROVE  /\ IsStory(stream'[i])
                      /\ client'[i] = "none" => stream'[i] = <<>> /\ ticket'[i] = "none"
                      /\ ticket'[i] = "waiting" => stream'[i] = <<>>
                      /\ ticket'[i] = "dropped" /\ watchdog'[i] = "armed" => stream'[i] = <<>>
    BY <1>3 DEF Stories
  <2>1. client'[i] = "none" => client[i] = "none"
    BY DEF Kept
  <2> QED BY <1>2, <2>1 DEF StoryInv, Stories
<1>5. ClaimedFresh'
  BY <1>1, <1>2 DEF StoryInv, ClaimedFresh
<1>6. MembersTold'
  <2>1. alive \subseteq members /\ finishing \subseteq members
    BY DEF PlaceInv, QwenTypes, MemberTypes
  <2> QED BY <1>1, <1>2, <2>1 DEF StoryInv, MembersTold, memberVars
<1>7. NothingOwed'
  BY DEF StoryInv, NothingOwed, memberVars
<1> QED BY <1>4, <1>5, <1>6, <1>7 DEF StoryInv

(* The steps of an admission that tell nobody anything.                    *)
LEMMA AdmissionQuiet ==
    ASSUME PlaceInv, StoryInv, Kept,
           \/ RecvFirst \/ Stop \/ FormTake \/ FormClose \/ SoloClaim \/ GroupTake
           \/ GroupReceive \/ Claim \/ AdmitOk \/ Prefill \/ PackedPrefill \/ DeferredDone
           \/ LateTake \/ LateClose \/ (\E j \in deferred : DeferredNext(j))
           \/ (\E next \in {"begin", "serial", "pack"} : GroupClose(next))
    PROVE  StoryInv'
<1>0. /\ loop \in {"take", "serial", "packed", "late"}
      /\ ticket \in [Jobs -> {"none", "waiting", "sent", "closed", "dropped"}]
      /\ pc \in OneInHand => cur \in Jobs
  BY DEF PlaceInv, QwenTypes, QueueTypes, TicketTypes, Stages
<1>1. ASSUME NEW S, DropUnclaimed(S)
      PROVE  \A j \in Jobs : \/ ticket'[j] = ticket[j]
                             \/ ticket[j] = "waiting" /\ ticket'[j] \in {"dropped", "sent"}
  BY <1>1 DEF DropUnclaimed
<1>2. ASSUME UNCHANGED <<stream, watchdog, memberVars>>,
             ticket' = ticket \/ (\E S : DropUnclaimed(S)),
             pc' \notin {"top", "emit", "collect", "advance", "flush"}, Claimed' \subseteq Claimed
      PROVE  StoryInv'
  BY <1>1, <1>2, QuietStories
<1>3. CASE RecvFirst \/ Stop \/ FormTake \/ FormClose \/ GroupTake \/ GroupReceive
  <2>1. /\ UNCHANGED <<stream, watchdog, memberVars, deferred>>
        /\ ticket' = ticket \/ (\E S : DropUnclaimed(S))
        /\ pc' \in {"recv", "form", "stopped", "solo", "take", "claim"}
    BY <1>3 DEF RecvFirst, Stop, FormTake, FormClose, GroupTake, GroupReceive, ReceiveInto, Take,
                clientVars, ticketVars, formVars
  <2>2. Claimed' \subseteq Claimed
    BY <2>1 DEF Claimed
  <2> QED BY <1>2, <2>1, <2>2
<1>4. CASE LateTake \/ LateClose \/ DeferredDone
  <2>1. /\ UNCHANGED <<stream, watchdog, memberVars, deferred>>
        /\ ticket' = ticket \/ (\E S : DropUnclaimed(S))
        /\ pc' \in {"late", "claim", "begin"}
    BY <1>4 DEF LateTake, LateClose, DeferredDone, Take, clientVars, ticketVars, formVars
  <2>2. Claimed' \subseteq Claimed
    BY <2>1 DEF Claimed
  <2> QED BY <1>2, <2>1, <2>2
<1>5. CASE \/ AdmitOk \/ Prefill \/ PackedPrefill \/ (\E j \in deferred : DeferredNext(j))
           \/ (\E next \in {"begin", "serial", "pack"} : GroupClose(next))
  <2>1. /\ UNCHANGED <<stream, watchdog, memberVars, ticket>>
        /\ pc' \in {"take", "prefill", "attach", "packed", "begin", "serial", "pack"}
    BY <1>5 DEF AdmitOk, Prefill, PackedPrefill, DeferredNext, GroupClose, clientVars, ticketVars
  <2>2. Claimed' \subseteq Claimed
    BY <1>5 DEF AdmitOk, Prefill, PackedPrefill, DeferredNext, GroupClose, Claimed, formVars
  <2> QED BY <1>2, <2>1, <2>2
<1>6. CASE SoloClaim \/ Claim
  <2>1. /\ UNCHANGED <<stream, watchdog, memberVars, deferred>>
        /\ pc \in {"solo", "claim"} /\ pc \in OneInHand
    BY <1>6 DEF SoloClaim, Claim, clientVars, OneInHand
  <2>2. CASE IsWaiting(cur)
    <3>1. /\ ticket' = [ticket EXCEPT ![cur] = "sent"] /\ pc' \in {"run", "admit"}
          /\ cur' = cur
      BY <1>6, <2>2 DEF SoloClaim, Claim
    <3>2. cur \in Jobs /\ ticket[cur] = "waiting"
      BY <1>0, <2>1, <2>2 DEF IsWaiting
    <3>3. Claimed' \subseteq Claimed \cup {cur}
      BY <2>1, <3>1 DEF Claimed
    <3>4. /\ ticket'[cur] = "sent"
          /\ \A j \in Jobs : ticket'[j] = ticket[j] \/ j = cur
      BY <1>0, <3>1, <3>2
    <3> QED BY <2>1, <3>1, <3>2, <3>3, <3>4, QuietStories
  <2>3. CASE ~IsWaiting(cur)
    <3>1. DropUnclaimed({cur}) /\ pc' \in {"recv", loop}
      BY <1>6, <2>3 DEF SoloClaim, Claim
    <3>2. Claimed' \subseteq Claimed
      BY <1>0, <2>1, <3>1 DEF Claimed
    <3> QED BY <1>0, <1>2, <2>1, <3>1, <3>2
  <2> QED BY <2>2, <2>3
<1> QED BY <1>3, <1>4, <1>5, <1>6

(* The admission of a job: it is told of its start, or of its end.         *)
LEMMA AdmissionStories ==
    ASSUME PlaceInv, StoryInv, Kept, Admission
    PROVE  StoryInv'
<1>0. /\ loop \in {"take", "serial", "packed", "late"}
      /\ pc \in {"run", "admit", "prefill", "attach"} =>
            cur \in Jobs /\ cur \in Claimed \ members /\ cur \notin deferred
      /\ deferred \subseteq Jobs /\ members \subseteq Jobs /\ deferred \cap members = {}
      /\ QwenTypes
  BY SchedulerOptions
  DEF PlaceInv, QwenTypes, QueueTypes, MemberTypes, Stages, Apart, InHand, OneInHand, Claimed
<1>1. CASE \/ RecvFirst \/ Stop \/ FormTake \/ FormClose \/ SoloClaim \/ GroupTake
           \/ GroupReceive \/ Claim \/ AdmitOk \/ Prefill \/ PackedPrefill \/ DeferredDone
           \/ LateTake \/ LateClose \/ (\E j \in deferred : DeferredNext(j))
           \/ (\E next \in {"begin", "serial", "pack"} : GroupClose(next))
  BY <1>1, AdmissionQuiet
<1>2. ASSUME NEW events \in Seq(Story), IsStory(events), NEW sent, Send(cur, events, sent),
             UNCHANGED <<ticketVars, memberVars, deferred>>,
             pc \in {"run", "admit", "prefill", "attach"},
             pc' \in {"recv", "take", "serial", "packed", "late"}
      PROVE  StoryInv'
  <2>1. Claimed' \subseteq Claimed \ {cur}
    BY <1>0, <1>2 DEF Claimed
  <2> QED BY <1>0, <1>2, <2>1, FreshTold DEF ticketVars
<1>3. ASSUME NEW events \in Seq(Story), IsStory(events), NEW sent, Dismiss(events, sent),
             pc \in {"admit", "prefill", "attach"}
      PROVE  StoryInv'
  BY <1>0, <1>2, <1>3 DEF Dismiss
<1>4. CASE \E events \in SoloStreams, sent \in 0 .. 3 : SoloRun(events, sent)
  BY <1>2, <1>4, WholeStories DEF SoloRun
<1>5. CASE \/ \E events \in {<<"error">>, <<"started", "done">>}, sent \in 0 .. 2 :
                   AdmitRefused(events, sent)
           \/ \E sent \in 0 .. 1 : PrefillFails(sent) \/ AttachFails(sent)
  BY <1>3, <1>5, WholeStories DEF AdmitRefused, PrefillFails, AttachFails
<1>6. CASE \E reached \in SUBSET deferred : PackedPrefillFails(reached)
  <2>1. PICK reached \in SUBSET deferred : PackedPrefillFails(reached)
    BY <1>6
  <2>2. /\ pc = "pack" /\ pc' = "late" /\ deferred' = {} /\ SendErrors(deferred, reached)
        /\ UNCHANGED <<ticket, watchdog, memberVars>>
    BY <2>1 DEF PackedPrefillFails, ticketVars
  <2>3. /\ \A i \in reached : stream'[i] = Append(stream[i], "error")
        /\ \A i \in Jobs \ reached : stream'[i] = stream[i]
    BY <1>0, <2>2, SendErrorsFacts
  <2>4. \A i \in reached : ticket[i] = "sent" /\ IsStory(stream'[i])
    <3> TAKE i \in reached
    <3>1. i \in Claimed
      BY DEF Claimed
    <3>2. ticket[i] = "sent" /\ stream[i] = <<>>
      BY <3>1 DEF StoryInv, ClaimedFresh
    <3>3. stream[i] \in Seq(Story)
      BY <1>0 DEF QwenTypes, ClientTypes
    <3> QED BY <2>3, <3>2, <3>3, StoryEnds
  <2>5. Stories'
    BY <1>0, <2>2, <2>3, <2>4, StoriesTold DEF StoryInv
  <2>6. Claimed' = {}
    BY <2>2 DEF Claimed
  <2>7. MembersTold'
    <3>1. \A i \in members : stream'[i] = stream[i]
      BY <1>0, <2>3
    <3>2. alive \subseteq members /\ finishing \subseteq members
      BY <1>0 DEF QwenTypes, MemberTypes
    <3> QED BY <2>2, <3>1, <3>2 DEF StoryInv, MembersTold, memberVars
  <2>8. NothingOwed'
    BY <2>2 DEF NothingOwed
  <2> QED BY <2>5, <2>6, <2>7, <2>8 DEF StoryInv, ClaimedFresh
<1>7. CASE Attach
  <2>1. /\ pc = "attach" /\ pc' = "first" /\ Send(cur, <<"started">>, 1)
        /\ members' = members \cup {cur} /\ alive' = alive \cup {cur}
        /\ UNCHANGED <<ticket, watchdog, deferred, abandoned, finishing>>
    BY <1>7 DEF Attach, ticketVars, formVars
  <2>2. /\ stream'[cur] = stream[cur] \o SubSeq(<<"started">>, 1, 1)
        /\ \A i \in Jobs : i # cur => stream'[i] = stream[i]
    <3> DEFINE e == <<"started">>
    <3>1. e \in Seq(Story) /\ Send(cur, e, 1) /\ cur \in Jobs /\ QwenTypes
      BY <1>0, <2>1, WholeStories
    <3> HIDE DEF e
    <3>2. /\ stream'[cur] = stream[cur] \o SubSeq(e, 1, 1)
          /\ \A i \in Jobs : i # cur => stream'[i] = stream[i]
      BY <3>1, SendFacts, Zenon
    <3> QED BY <3>2 DEF e
  <2>3. ticket[cur] = "sent" /\ stream[cur] = <<>>
    BY <1>0, <2>1 DEF StoryInv, ClaimedFresh
  <2>4. stream'[cur] = <<"started">>
    <3> DEFINE q == SubSeq(<<"started">>, 1, 1)
    <3>1. <<"started">> \in Seq(Story) /\ Len(<<"started">>) = 1
      BY WholeStories
    <3>2. q \in Seq(Story) /\ Len(q) = 1 /\ \A i \in 1 .. 1 : q[i] = <<"started">>[i]
      BY <3>1, PrefixProperties
    <3> HIDE DEF q
    <3>3. q = <<"started">> /\ <<>> \o q = q
      BY <3>2
    <3> QED BY <2>2, <2>3, <3>3 DEF q
  <2>5. Stories'
    <3>1. IsStory(stream'[cur]) /\ \A i \in Jobs \ {cur} : stream'[i] = stream[i]
      BY <2>2, <2>4, WholeStories
    <3> QED BY <1>0, <2>1, <2>3, <3>1, StoriesTold DEF StoryInv
  <2>6. ClaimedFresh'
    <3>1. Claimed' = deferred /\ deferred \subseteq Claimed
      BY <2>1 DEF Claimed
    <3> QED BY <1>0, <2>1, <2>2, <3>1 DEF StoryInv, ClaimedFresh
  <2>7. MembersTold'
    <3>1. alive \subseteq members /\ finishing \subseteq members
      BY <1>0 DEF QwenTypes, MemberTypes
    <3> QED BY <1>0, <2>1, <2>2, <2>3, <2>4, <3>1, WholeStories DEF StoryInv, MembersTold
  <2>8. NothingOwed'
    BY <2>1 DEF NothingOwed
  <2> QED BY <2>5, <2>6, <2>7, <2>8 DEF StoryInv
<1> QED BY <1>1, <1>4, <1>5, <1>6, <1>7 DEF Admission

(* Members are told more, or stop.                                         *)
LEMMA StepTells ==
    ASSUME PlaceInv, StoryInv, Kept, UNCHANGED <<ticket, watchdog, deferred, members>>,
           NEW T, T \subseteq members,
           \A i \in T : IsStory(stream'[i]), \A i \in Jobs \ T : stream'[i] = stream[i],
           pc \notin {"run", "admit", "prefill", "attach"},
           pc' \notin {"run", "admit", "prefill", "attach"},
           \A i \in alive' \cup (finishing' \ abandoned') : GoesOn(stream'[i]),
           NothingOwed'
    PROVE  StoryInv'
<1>1. QwenTypes /\ deferred \subseteq Jobs /\ deferred \cap members = {}
  BY DEF PlaceInv, QwenTypes, QueueTypes, Apart
<1>2. \A i \in members : ticket[i] = "sent"
  BY DEF StoryInv, MembersTold
<1>3. Stories'
  BY <1>1, <1>2, StoriesTold DEF StoryInv
<1>4. ClaimedFresh'
  <2>1. Claimed = deferred /\ Claimed' = deferred
    BY DEF Claimed
  <2> QED BY <1>1, <2>1 DEF StoryInv, ClaimedFresh
<1>5. MembersTold'
  BY <1>2 DEF MembersTold
<1> QED BY <1>3, <1>4, <1>5 DEF StoryInv

(* A member in the middle of its story is told how it goes on, or ends.    *)
LEMMA MemberTold ==
    ASSUME PlaceInv, NEW j \in Jobs, GoesOn(stream[j]),
           NEW events \in Seq(Story), NEW sent, Send(j, events, sent),
           \A k \in 1 .. Len(events) : /\ events[k] \in {"delta", "done", "error"}
                                       /\ k < Len(events) => events[k] = "delta"
    PROVE  /\ IsStory(stream'[j])
           /\ \A i \in Jobs \ {j} : stream'[i] = stream[i]
           /\ (\A k \in 1 .. Len(events) : events[k] = "delta") => GoesOn(stream'[j])
<1>1. QwenTypes /\ stream[j] \in Seq(Story)
  BY DEF PlaceInv, QwenTypes, ClientTypes
<1>2. /\ stream'[j] = stream[j] \o SubSeq(events, 1, sent)
      /\ \A i \in Jobs : i # j => stream'[i] = stream[i]
      /\ sent \in Nat /\ sent <= Len(events)
  BY <1>1, SendFacts
<1> QED BY <1>1, <1>2, StoryGrows

(* A token for a live member.                                              *)
LEMMA ConsumeTells ==
    ASSUME PlaceInv, StoryInv, Kept, NEW j \in alive, NEW out \in Outcomes(gen[j]), NEW sent,
           Consume(j, out, sent), UNCHANGED deferred,
           pc \in {"first", "consume"}, pc' \in {loop, "consume", "top"},
           pc' = "top" => pc = "consume"
    PROVE  StoryInv'
<1>1. /\ j \in Jobs /\ j \in members /\ gen[j] \in Nat /\ alive \subseteq members
      /\ finishing \subseteq members /\ members \subseteq Jobs /\ alive \cap finishing = {}
      /\ loop \in {"take", "serial", "packed", "late"}
      /\ pc = "consume" => mode = "plain"
  BY DEF PlaceInv, QwenTypes, QueueTypes, MemberTypes, GenTypes, Stages
<1>2. /\ out.events \in Seq(Story)
      /\ \A k \in 1 .. Len(out.events) :
            /\ out.events[k] \in {"delta", "done", "error"}
            /\ k < Len(out.events) => out.events[k] = "delta"
      /\ ~out.over => \A k \in 1 .. Len(out.events) : out.events[k] = "delta"
  BY <1>1, OutcomeFacts
<1>3. GoesOn(stream[j]) /\ Send(j, out.events, sent)
  BY DEF StoryInv, MembersTold, Consume
<1>4. /\ IsStory(stream'[j]) /\ \A i \in Jobs \ {j} : stream'[i] = stream[i]
      /\ ~out.over => GoesOn(stream'[j])
  BY <1>1, <1>2, <1>3, MemberTold
<1>5. /\ UNCHANGED <<ticket, watchdog, members, finishing, mode>>
      /\ abandoned \subseteq abandoned' /\ alive' \subseteq alive /\ (j \in alive' => ~out.over)
  BY DEF Consume, ticketVars
<1>6. \A i \in alive' \cup (finishing' \ abandoned') : GoesOn(stream'[i])
  <2> TAKE i \in alive' \cup (finishing' \ abandoned')
  <2>1. CASE i = j
    BY <1>1, <1>4, <1>5, <2>1
  <2>2. CASE i # j
    BY <1>1, <1>4, <1>5, <2>2 DEF StoryInv, MembersTold
  <2> QED BY <2>1, <2>2
<1>7. NothingOwed'
  BY <1>1, <1>5 DEF NothingOwed
<1> DEFINE T == {j}
<1>8. /\ T \subseteq members /\ \A i \in T : IsStory(stream'[i])
      /\ \A i \in Jobs \ T : stream'[i] = stream[i]
  BY <1>1, <1>4
<1>9. /\ pc \notin {"run", "admit", "prefill", "attach"}
      /\ pc' \notin {"run", "admit", "prefill", "attach"}
      /\ UNCHANGED <<ticket, watchdog, deferred, members>>
  BY <1>1, <1>5
<1> HIDE DEF T
<1> QED BY <1>6, <1>7, <1>8, <1>9, StepTells

(* What a member is owed is sent to it.                                    *)
LEMMA EmitTells ==
    ASSUME PlaceInv, StoryInv, Kept, NEW j \in todo, NEW events \in Owed(j), NEW sent,
           EmitPending(j, events, sent), UNCHANGED deferred,
           pc \in {"emit", "flush"}, pc' \in {"emit", "collect", "flush", "end"}
    PROVE  StoryInv'
<1>1. /\ j \in Jobs /\ j \in members /\ alive \subseteq members /\ QwenTypes
      /\ finishing \subseteq members /\ members \subseteq Jobs /\ alive \cap finishing = {}
      /\ alive \cap abandoned = {} /\ mode = "overlap"
  BY DEF PlaceInv, QwenTypes, MemberTypes, Stages
<1>2. /\ events \in Seq(Story)
      /\ \A k \in 1 .. Len(events) :
            /\ events[k] \in {"delta", "done", "error"}
            /\ k < Len(events) => events[k] = "delta"
      /\ events # <<"error">> /\ j \notin finishing =>
            \A k \in 1 .. Len(events) : events[k] = "delta"
      /\ j \in abandoned => events = <<>>
      /\ gen[j] = emitted[j] /\ j \notin finishing => events = <<>>
  BY <1>1, OwedTypes
<1>3. /\ Send(j, events, sent) /\ UNCHANGED <<ticket, watchdog, members, gen, mode>>
      /\ emitted' = [emitted EXCEPT ![j] = gen[j]] /\ finishing' = finishing \ {j}
      /\ \/ alive' = alive /\ abandoned' = abandoned /\ events # <<"error">>
         \/ alive' = alive \ {j} /\ abandoned' = abandoned \cup {j}
  BY DEF EmitPending, ticketVars
<1>4. GoesOn(stream[j]) \/ events = <<>>
  <2>1. CASE j \in abandoned
    BY <1>2, <2>1
  <2>2. CASE j \in alive \cup (finishing \ abandoned)
    BY <2>2 DEF StoryInv, MembersTold
  <2>3. CASE j \notin alive \cup abandoned \cup finishing
    <3>1. emitted[j] = gen[j]
      BY <1>1, <2>3 DEF StoryInv, NothingOwed
    <3> QED BY <1>2, <2>3, <3>1
  <2> QED BY <2>1, <2>2, <2>3
<1>5. /\ IsStory(stream'[j]) /\ \A i \in Jobs \ {j} : stream'[i] = stream[i]
      /\ j \in alive' => GoesOn(stream'[j])
  <2>1. CASE GoesOn(stream[j])
    <3>1. j \in alive' => j \in alive /\ events # <<"error">> /\ j \notin finishing
      BY <1>1, <1>3
    <3> QED BY <1>1, <1>2, <1>3, <2>1, <3>1, MemberTold
  <2>2. CASE events = <<>>
    <3>1. /\ stream'[j] = stream[j] \o SubSeq(events, 1, sent)
          /\ \A i \in Jobs : i # j => stream'[i] = stream[i]
          /\ sent \in 0 .. Len(events)
      BY <1>1, <1>2, <1>3, SendFacts
    <3>2. sent = 0
      BY <2>2, <3>1
    <3>3. SubSeq(events, 1, sent) = <<>>
      <4>1. SubSeq(events, 1, sent) \in Seq(Story) /\ Len(SubSeq(events, 1, sent)) = 0
        BY <1>2, <3>1, <3>2, PrefixProperties
      <4> QED BY <4>1
    <3>4. stream[j] \in Seq(Story)
      BY <1>1 DEF QwenTypes, ClientTypes
    <3>5. stream'[j] = stream[j]
      <4>1. stream[j] \o <<>> = stream[j]
        BY <3>4
      <4> QED BY <3>1, <3>3, <4>1
    <3> QED BY <1>1, <1>3, <3>1, <3>5 DEF StoryInv, Stories, MembersTold
  <2> QED BY <1>4, <2>1, <2>2
<1>6. \A i \in alive' \cup (finishing' \ abandoned') : GoesOn(stream'[i])
  <2> TAKE i \in alive' \cup (finishing' \ abandoned')
  <2>1. CASE i = j
    BY <1>3, <1>5, <2>1
  <2>2. CASE i # j
    BY <1>1, <1>3, <1>5, <2>2 DEF StoryInv, MembersTold
  <2> QED BY <2>1, <2>2
<1>7. NothingOwed'
  <2> SUFFICES ASSUME NEW i \in members \ (alive' \cup abandoned' \cup finishing')
               PROVE  emitted'[i] = gen[i]
    BY <1>3 DEF NothingOwed
  <2>1. CASE i = j
    BY <1>1, <1>3, <2>1 DEF QwenTypes, GenTypes
  <2>2. CASE i # j
    <3>1. i \in members \ (alive \cup abandoned \cup finishing) /\ emitted'[i] = emitted[i]
      BY <1>1, <1>3, <2>2 DEF QwenTypes, GenTypes
    <3> QED BY <1>1, <3>1 DEF StoryInv, NothingOwed
  <2> QED BY <2>1, <2>2
<1> QED BY <1>1, <1>3, <1>5, <1>6, <1>7, StepTells

(* A step fails, and live members are told so.                             *)
LEMMA FailTells ==
    ASSUME PlaceInv, StoryInv, Kept, NEW to, to \subseteq alive, NEW reached,
           SendErrors(to, reached), UNCHANGED <<ticketVars, deferred, members, finishing, mode>>,
           alive' = {}, abandoned' = abandoned \cup alive, UNCHANGED <<gen, emitted>>,
           pc \in {"top", "collect"}, pc' \in {"flush", "end"}
    PROVE  StoryInv'
<1>1. /\ alive \subseteq members /\ finishing \subseteq members /\ members \subseteq Jobs
      /\ alive \cap finishing = {} /\ QwenTypes /\ to \subseteq Jobs
  BY DEF PlaceInv, QwenTypes, MemberTypes, Stages
<1>2. /\ reached \subseteq to
      /\ \A i \in reached : stream'[i] = Append(stream[i], "error")
      /\ \A i \in Jobs \ reached : stream'[i] = stream[i]
  BY <1>1, SendErrorsFacts
<1>3. \A i \in reached : IsStory(stream'[i])
  <2> TAKE i \in reached
  <2>1. stream[i] \in Seq(Story) /\ GoesOn(stream[i])
    BY <1>1, <1>2 DEF QwenTypes, ClientTypes, StoryInv, MembersTold
  <2> QED BY <1>2, <2>1, StoryEnds
<1>4. \A i \in alive' \cup (finishing' \ abandoned') : GoesOn(stream'[i])
  BY <1>1, <1>2 DEF StoryInv, MembersTold
<1>5. NothingOwed'
  <2>1. mode = "overlap" => \A i \in members \ (alive \cup abandoned \cup finishing) : emitted[i] = gen[i]
    BY DEF StoryInv, NothingOwed
  <2> QED BY <2>1 DEF NothingOwed
<1>6. reached \subseteq members /\ UNCHANGED <<ticket, watchdog, deferred, members>>
  BY <1>1, <1>2 DEF ticketVars
<1> QED BY <1>2, <1>3, <1>4, <1>5, <1>6, StepTells

(* Nobody is told anything; some live members stop, and either end or are  *)
(* given up.                                                               *)
LEMMA StepQuiet ==
    ASSUME PlaceInv, StoryInv, Kept, UNCHANGED <<stream, ticketVars, deferred, members, mode>>,
           alive' \subseteq alive, abandoned \subseteq abandoned', finishing \subseteq finishing',
           alive \subseteq alive' \cup abandoned' \cup finishing', finishing' \subseteq finishing \cup alive,
           pc \notin {"run", "admit", "prefill", "attach"},
           pc' \notin {"run", "admit", "prefill", "attach"},
           \/ emitted' = gen'
           \/ /\ pc \in {"top", "emit", "collect", "advance", "flush"} /\ emitted' = emitted
              /\ \A i \in members \ alive : gen'[i] = gen[i]
    PROVE  StoryInv'
<1>1. \A i \in alive' \cup (finishing' \ abandoned') : GoesOn(stream'[i])
  BY DEF StoryInv, MembersTold
<1>2. NothingOwed'
  <2>1. CASE emitted' = gen'
    BY <2>1 DEF NothingOwed
  <2>2. CASE /\ pc \in {"top", "emit", "collect", "advance", "flush"} /\ emitted' = emitted
             /\ \A i \in members \ alive : gen'[i] = gen[i]
    <3>1. mode = "overlap" => \A i \in members \ (alive \cup abandoned \cup finishing) : emitted[i] = gen[i]
      BY <2>2 DEF StoryInv, NothingOwed
    <3> QED BY <2>2, <3>1 DEF NothingOwed
  <2> QED BY <2>1, <2>2
<1> DEFINE T == {}
<1>3. /\ T \subseteq members /\ \A i \in T : IsStory(stream'[i])
      /\ \A i \in Jobs \ T : stream'[i] = stream[i]
      /\ UNCHANGED <<ticket, watchdog, deferred, members>>
  BY DEF ticketVars
<1> HIDE DEF T
<1> QED BY <1>1, <1>2, <1>3, StepTells

(* The group's steps.                                                      *)
LEMMA SteppingStories ==
    ASSUME PlaceInv, StoryInv, Kept, Stepping
    PROVE  StoryInv'
<1>0. /\ loop \in {"take", "serial", "packed", "late"}
      /\ pc = "first" => cur \in alive
      /\ pc \in {"consume", "advance"} => todo \subseteq alive
      /\ alive \subseteq members /\ members \subseteq Jobs
      /\ gen \in [Jobs -> Nat] /\ alive \cap finishing = {}
  BY DEF PlaceInv, QwenTypes, QueueTypes, MemberTypes, GenTypes, Stages
<1>1. CASE \E j \in {cur} \ {None}, sent \in Lengths :
              \E out \in Outcomes(gen[j]) : FirstToken(out, sent)
  <2>1. PICK sent \in Lengths, out \in Outcomes(gen[cur]) : FirstToken(out, sent)
    BY <1>1
  <2>2. pc = "first" /\ pc' = loop /\ Consume(cur, out, sent) /\ UNCHANGED deferred
    BY <2>1 DEF FirstToken
  <2>3. cur \in alive /\ pc' # "top"
    BY <1>0, <2>2
  <2> QED BY <2>2, <2>3, ConsumeTells
<1>2. ASSUME NEW j \in todo, NEW sent \in Lengths, NEW out \in Outcomes(gen[j]),
             ConsumeStep(j, out, sent)
      PROVE  StoryInv'
  <2>1. /\ pc = "consume" /\ pc' \in {"consume", "top"} /\ Consume(j, out, sent)
        /\ UNCHANGED deferred
    BY <1>2 DEF ConsumeStep, Visit, formVars
  <2> QED BY <1>0, <2>1, ConsumeTells
<1>3. ASSUME NEW j \in todo, NEW sent \in Lengths, NEW events \in Owed(j),
             Emit(j, events, sent) \/ Flush(j, events, sent)
      PROVE  StoryInv'
  <2>1. /\ pc \in {"emit", "flush"} /\ pc' \in {"emit", "collect", "flush", "end"}
        /\ EmitPending(j, events, sent) /\ UNCHANGED deferred
    BY <1>3 DEF Emit, Flush, Visit, formVars
  <2> QED BY <2>1, EmitTells
<1>4. CASE \E reached \in SUBSET alive : StepFails(reached) \/ CollectFails(reached)
  <2>1. PICK reached \in SUBSET alive : StepFails(reached) \/ CollectFails(reached)
    BY <1>4
  <2>2. PICK to : to \subseteq alive /\ SendErrors(to, reached)
    BY <2>1 DEF StepFails, CollectFails, Fed
  <2>3. /\ UNCHANGED <<ticketVars, deferred, members, finishing, mode, gen, emitted>>
        /\ alive' = {} /\ abandoned' = abandoned \cup alive
        /\ pc \in {"top", "collect"} /\ pc' \in {"flush", "end"}
    BY <2>1 DEF StepFails, CollectFails, After, formVars
  <2> QED BY <2>2, <2>3, FailTells
<1>5. CASE StepDone \/ StepOk
  <2>1. /\ pc = "top" /\ pc' \in {"flush", "end", "emit", "consume"}
        /\ alive' \subseteq alive /\ abandoned' = abandoned \cup Evicted
        /\ alive \subseteq alive' \cup Evicted
        /\ UNCHANGED <<stream, ticketVars, deferred, members, mode, finishing, gen, emitted>>
    BY <1>5 DEF StepDone, StepOk, After, Fed, formVars, clientVars
  <2> QED BY <2>1, StepQuiet
<1>6. CASE Collect
  <2>1. /\ pc = "collect" /\ pc' \in {"top", "advance"}
        /\ UNCHANGED <<stream, ticketVars, deferred, members, mode, alive, abandoned, finishing,
                       gen, emitted>>
    BY <1>6 DEF Collect, formVars, clientVars
  <2> QED BY <2>1, StepQuiet
<1>7. CASE \E how \in {"plain", "overlap"} : GroupBegins(how)
  <2>1. /\ pc = "begin" /\ pc' = "top" /\ emitted' = gen'
        /\ UNCHANGED <<stream, ticketVars, deferred, members, alive, abandoned, finishing>>
    BY <1>7 DEF GroupBegins, formVars, clientVars
  <2>2. NothingOwed' /\ \A i \in alive' \cup (finishing' \ abandoned') : GoesOn(stream'[i])
    BY <2>1 DEF NothingOwed, StoryInv, MembersTold
  <2> DEFINE T == {}
  <2>3. /\ T \subseteq members /\ \A i \in T : IsStory(stream'[i])
        /\ \A i \in Jobs \ T : stream'[i] = stream[i]
        /\ UNCHANGED <<ticket, watchdog, deferred, members>>
    BY <2>1 DEF ticketVars
  <2> HIDE DEF T
  <2> QED BY <2>1, <2>2, <2>3, StepTells
<1>8. CASE \E j \in todo, eos \in BOOLEAN : Advance(j, eos)
  <2>1. PICK j \in todo, eos \in BOOLEAN : Advance(j, eos)
    BY <1>8
  <2>2. /\ pc = "advance" /\ pc' \in {"advance", "top"}
        /\ UNCHANGED <<stream, ticketVars, deferred, members, mode, abandoned, emitted>>
        /\ gen' = [gen EXCEPT ![j] = IF eos THEN @ ELSE @ + 1]
        /\ \/ UNCHANGED <<finishing, alive>>
           \/ finishing' = finishing \cup {j} /\ alive' = alive \ {j}
    BY <2>1 DEF Advance, Visit, formVars, clientVars
  <2>3. j \in alive /\ \A i \in members \ alive : gen'[i] = gen[i]
    BY <1>0, <2>2
  <2> QED BY <2>2, <2>3, StepQuiet
<1>9. CASE \E j \in todo, sent \in 0 .. 1 : AdvanceFails(j, sent)
  <2>1. PICK j \in todo, sent \in 0 .. 1 : AdvanceFails(j, sent)
    BY <1>9
  <2>2. /\ pc = "advance" /\ pc' \in {"advance", "top"} /\ Send(j, <<"error">>, sent)
        /\ UNCHANGED <<ticket, watchdog, deferred, members, mode, finishing, gen, emitted>>
        /\ abandoned' = abandoned \cup {j} /\ alive' = alive \ {j}
    BY <2>1 DEF AdvanceFails, Visit, formVars, ticketVars
  <2>3. j \in alive /\ j \in Jobs /\ GoesOn(stream[j])
    BY <1>0, <2>2 DEF StoryInv, MembersTold
  <2>4. IsStory(stream'[j]) /\ \A i \in Jobs \ {j} : stream'[i] = stream[i]
    <3> DEFINE e == <<"error">>
    <3>1. /\ e \in Seq(Story) /\ Send(j, e, sent)
          /\ \A k \in 1 .. Len(e) : /\ e[k] \in {"delta", "done", "error"}
                                    /\ k < Len(e) => e[k] = "delta"
      BY <2>2 DEF Story
    <3> HIDE DEF e
    <3> QED BY <2>3, <3>1, MemberTold
  <2>5. \A i \in alive' \cup (finishing' \ abandoned') : GoesOn(stream'[i])
    <3>1. finishing \subseteq Jobs
      BY DEF PlaceInv, QwenTypes, MemberTypes
    <3> QED BY <1>0, <2>2, <2>4, <3>1 DEF StoryInv, MembersTold
  <2>6. NothingOwed'
    <3>1. mode = "overlap" => \A i \in members \ (alive \cup abandoned \cup finishing) : emitted[i] = gen[i]
      BY <2>2 DEF StoryInv, NothingOwed
    <3> QED BY <2>2, <3>1 DEF NothingOwed
  <2> DEFINE T == {j}
  <2>7. /\ T \subseteq members /\ \A i \in T : IsStory(stream'[i])
        /\ \A i \in Jobs \ T : stream'[i] = stream[i]
        /\ UNCHANGED <<ticket, watchdog, deferred, members>>
    BY <1>0, <2>2, <2>3, <2>4
  <2> HIDE DEF T
  <2> QED BY <2>2, <2>5, <2>6, <2>7, StepTells
<1>10. CASE GroupEnds
  <2>1. /\ pc = "end" /\ pc' = "recv" /\ members' = {} /\ finishing' = {}
        /\ UNCHANGED <<stream, watchdog, deferred, alive>>
        /\ ticket' = [j \in Jobs |-> IF j \in ToSet(forming) /\ ticket[j] = "waiting"
                                     THEN "dropped" ELSE ticket[j]]
    BY <1>10 DEF GroupEnds, clientVars
  <2>2. deferred = {} /\ alive = {}
    BY <2>1 DEF PlaceInv, Stages
  <2>3. Stories'
    BY <2>1, TicketsMove DEF StoryInv
  <2>4. Claimed' = {}
    BY <2>1, <2>2 DEF Claimed
  <2> QED BY <2>1, <2>2, <2>3, <2>4 DEF StoryInv, ClaimedFresh, MembersTold, NothingOwed
<1> QED BY <1>1, <1>2, <1>3, <1>4, <1>5, <1>6, <1>7, <1>8, <1>9, <1>10 DEF Stepping

(* Every step keeps the stories.                                           *)
LEMMA StoriesNext ==
    ASSUME PlaceInv, StoryInv, [Next]_vars
    PROVE  StoryInv'
<1>1. Kept
  BY ClientTypesNext DEF PlaceInv
<1>2. ASSUME NEW j \in Jobs,
             Submit(j) \/ Close(j) \/ Expire(j) \/ WatchdogEnds(j) \/ WatchdogRejects(j)
      PROVE  StoryInv'
  <2>1. UNCHANGED <<pc, cur, deferred, memberVars>>
    BY <1>2 DEF Submit, Close, Expire, WatchdogEnds, WatchdogRejects, formVars
  <2> QED BY <1>1, <1>2, <2>1, OutsideStories
<1>3. ASSUME UNCHANGED <<client, stream, ticket, watchdog, pc, cur, deferred, memberVars>>
      PROVE  StoryInv'
  <2>1. Claimed' = Claimed
    BY <1>3 DEF Claimed
  <2> QED BY <1>3, <2>1 DEF StoryInv, Stories, ClaimedFresh, MembersTold, NothingOwed, memberVars
<1>4. CASE DropHandle
  BY <1>3, <1>4 DEF DropHandle, clientVars, ticketVars, formVars
<1>5. CASE UNCHANGED vars
  BY <1>3, <1>5 DEF vars, clientVars, ticketVars, formVars
<1>6. CASE Dispatcher
  BY <1>1, <1>6, AdmissionStories, SteppingStories DEF Dispatcher
<1> QED BY <1>2, <1>4, <1>5, <1>6 DEF Next

(* A client sees one story: a refusal, Busy, an error, or Started and then *)
(* text up to one Done or Error; never Busy for a job that was claimed,    *)
(* however its watchdog races the dispatcher, and nothing after the end,   *)
(* however emission lags behind the decode.                                *)
THEOREM StreamsCorrect == Spec => []StreamWellFormed
<1>1. Init => StoryInv
  <2> SUFFICES ASSUME Init PROVE StoryInv
    OBVIOUS
  <2>1. Stories
    BY WholeStories DEF Init, Stories
  <2>2. Claimed = {}
    BY DEF Init, Claimed
  <2> QED BY <2>1, <2>2 DEF Init, StoryInv, ClaimedFresh, MembersTold, NothingOwed
<1>2. PlaceInv /\ StoryInv /\ [Next]_vars => StoryInv'
  BY StoriesNext
<1>3. PlaceInv /\ StoryInv => StreamWellFormed
  <2> SUFFICES ASSUME PlaceInv, StoryInv, NEW j \in Jobs, NEW k \in DOMAIN stream[j]
               PROVE  /\ k = 1 => stream[j][k] \in {"refused", "busy", "error", "started"}
                      /\ k > 1 => stream[j][k] \in {"delta", "done", "error"} /\ stream[j][1] = "started"
                      /\ k < Len(stream[j]) => stream[j][k] \in {"started", "delta"}
    BY DEF StreamWellFormed
  <2>1. stream[j] \in Seq(Story) /\ IsStory(stream[j])
    BY DEF PlaceInv, QwenTypes, ClientTypes, StoryInv, Stories
  <2>2. k \in 1 .. Len(stream[j])
    BY <2>1
  <2> QED BY <2>1, <2>2 DEF IsStory
<1>4. Spec => [](PlaceInv /\ CountInv)
  BY PlacesCorrect
<1> QED BY <1>1, <1>2, <1>3, <1>4, PTL DEF Spec
=============================================================================
