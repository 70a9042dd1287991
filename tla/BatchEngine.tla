---------------------------- MODULE BatchEngine ----------------------------
(***************************************************************************)
(* The batch engine thread (batch_engine.rs, batch_runtime.rs) over the    *)
(* scheduler: clients submit requests and aborts through an unbounded      *)
(* command queue, the thread alternates between draining that queue and    *)
(* one scheduler step, and answers each request on a bounded reply channel *)
(* with Started, Token..., and Done or Error.                              *)
(*                                                                         *)
(* `events' is everything a reply channel ever accepted. Nothing is taken  *)
(* out of it, the case in which a bounded channel fills first. The model   *)
(* forward (BatchStepper) is FinishBuild's Forward and may fail.           *)
(***************************************************************************)
EXTENDS Scheduler

CONSTANT MaxWaiting    \* NV_BATCH_MAX_WAITING

ASSUME EngineAssumption == MaxWaiting \in Nat \ {0}

VARIABLES
    cmds,        \* the command queue, oldest first
    mode,        \* where run_loop / BatchEngine::step stands
    meta,        \* the keys of BatchEngine::meta
    started,     \* ReqMeta::started
    completion,  \* ReqMeta::completion_tokens
    producing,   \* step: producing_ids still to be reported
    held,        \* the sequences the stepper keeps state for
    asked,       \* the request's own max_new_tokens; -1 before it is made
    events,      \* the events each reply channel accepted
    client       \* the receiver: "none", "open", "aborted" (open), "gone"

engineVars == <<cmds, mode, meta, started, completion, producing, held,
                asked, events, client>>
allVars == <<vars, engineVars>>

\* Mutant: room for the tokens and two more events.
REPLY_EVENTS_SHORT == 2

REPLY_EVENTS == 3

Started == [kind |-> "Started"]
TokenOf(t) == [kind |-> "Token", token |-> t]
Error == [kind |-> "Error"]
Done(why, n) == [kind |-> "Done", reason |-> why, completion |-> n]

-----------------------------------------------------------------------------
(* The reply channel.                                                      *)

Listening(s) == client[s] \in {"open", "aborted"}

\* try_send succeeds while the receiver is there and a slot is left.
CanSend(s, n) == Listening(s) /\ Len(events[s]) + n <= asked[s] + REPLY_EVENTS

Sent(s, e) == IF CanSend(s, 1) THEN Append(events[s], e) ELSE events[s]

EngineInit ==
    /\ Init
    /\ cmds = <<>> /\ mode = "poll"
    /\ meta = {} /\ held = {} /\ producing = <<>>
    /\ started = [s \in Seqs |-> FALSE]
    /\ completion = [s \in Seqs |-> 0]
    /\ asked = [s \in Seqs |-> -1]
    /\ events = [s \in Seqs |-> <<>>]
    /\ client = [s \in Seqs |-> "none"]

-----------------------------------------------------------------------------
(* Clients. The thread takes the commands in order and numbers requests as *)
(* it meets them, so the i-th request made is sequence i.                  *)

Submitting == \A i \in DOMAIN cmds : cmds[i].kind # "Shutdown"

\* submit: a reply channel for the request's tokens and three more events.
Submit(s, p, m) ==
    /\ Submitting /\ mode # "stopped"
    /\ client[s] = "none"
    /\ \A u \in Seqs : u < s => client[u] # "none"
    /\ cmds' = Append(cmds, [kind |-> "Submit", seq |-> s, prompt |-> p])
    /\ asked' = [asked EXCEPT ![s] = m]
    /\ client' = [client EXCEPT ![s] = "open"]
    /\ UNCHANGED <<vars, mode, meta, started, completion, producing, held,
                   events>>

\* abort, by a client that learned its sequence number from an event; the
\* client goes on reading, or leaves.
ClientAbort(s) ==
    /\ Submitting /\ mode # "stopped"
    /\ client[s] = "open"
    /\ events[s] # <<>>
    /\ cmds' = Append(cmds, [kind |-> "Abort", seq |-> s])
    /\ client' \in {[client EXCEPT ![s] = c] : c \in {"aborted", "gone"}}
    /\ UNCHANGED <<vars, mode, meta, started, completion, producing, held,
                   asked, events>>

\* The task that reads the replies is dropped.
ClientDrop(s) ==
    /\ Listening(s)
    /\ client' = [client EXCEPT ![s] = "gone"]
    /\ UNCHANGED <<vars, cmds, mode, meta, started, completion, producing,
                   held, asked, events>>

\* Drop for BatchEngineHandle.
HandleDrop ==
    /\ Submitting /\ mode # "stopped"
    /\ cmds' = Append(cmds, [kind |-> "Shutdown"])
    /\ UNCHANGED <<vars, mode, meta, started, completion, producing, held,
                   asked, events, client>>

-----------------------------------------------------------------------------
(* run_loop takes the commands first.                                      *)

Capacity == NumBlocks * BlockSize

Polling(k) ==
    /\ mode = "poll"
    /\ op = Idle
    /\ cmds # <<>>
    /\ Head(cmds).kind = k
    /\ cmds' = Tail(cmds)

Rejected(s, p) == Len(p) + 1 > Capacity \/ Len(waiting) >= MaxWaiting

\* admit, refusing a prompt the pool can never hold and a request that would
\* make the queue too long. It is over before it becomes a sequence, as its
\* Done says.
PollReject ==
    /\ Polling("Submit")
    /\ LET s == Head(cmds).seq
       IN  /\ Rejected(s, Head(cmds).prompt)
           /\ state' = [state EXCEPT ![s] = "Aborted"]
           /\ events' = [events EXCEPT ![s] =
                            IF Listening(s) THEN <<Error, Done("Aborted", 0)>>
                            ELSE @]
    /\ UNCHANGED <<poolVars, reason, plen, maxNew, computed, drafts, queueVars,
                   stepVars, kv, mode, meta, started, completion, producing,
                   held, asked, client>>

\* Mutant: admit takes the request's limit as it is.
PollAdmitUnclamped ==
    /\ Polling("Submit")
    /\ LET s == Head(cmds).seq
           p == Head(cmds).prompt
       IN  /\ ~Rejected(s, p)
           /\ Enqueue(s, p, asked[s])
           /\ meta' = meta \cup {s}
           /\ held' = held \cup {s}
    /\ UNCHANGED <<mode, started, completion, producing, asked, events, client>>

\* admit: the output limit is cut to what finishes inside the pool.
PollAdmit ==
    /\ Polling("Submit")
    /\ LET s == Head(cmds).seq
           p == Head(cmds).prompt
       IN  /\ ~Rejected(s, p)
           /\ Enqueue(s, p, Smaller(asked[s], Capacity - Len(p) - 1))
           /\ meta' = meta \cup {s}
           /\ held' = held \cup {s}
    /\ UNCHANGED <<mode, started, completion, producing, asked, events, client>>

\* abort of a sequence that is waiting or running; any other is ignored.
AbortSequence(s) ==
    \/ Abort(s)
    \/ /\ s \notin Range(waiting) \cup Range(running)
       /\ UNCHANGED vars

PollAbort ==
    /\ Polling("Abort")
    /\ AbortSequence(Head(cmds).seq)
    /\ held' = held \ {Head(cmds).seq}
    /\ UNCHANGED <<mode, meta, started, completion, producing, asked, events,
                   client>>

\* The loop ends; with the engine every reply sender is dropped.
PollShutdown ==
    /\ Polling("Shutdown")
    /\ mode' = "stopped"
    /\ meta' = {}
    /\ UNCHANGED <<vars, started, completion, producing, held, asked, events,
                   client>>

-----------------------------------------------------------------------------
(* BatchEngine::step.                                                      *)

\* Mutant: drain_finished does not release the stepper's state.
DrainKeepsState ==
    LET gone == Range(finished)
    IN  /\ events' = [s \in Seqs |->
                         IF s \in gone \cap meta
                         THEN Sent(s, Done(reason[s], completion[s]))
                         ELSE events[s]]
        /\ meta' = meta \ gone
        /\ finished' = <<>>
        /\ UNCHANGED <<poolVars, seqVars, waiting, running, draftCount, kv,
                       cmds, started, completion, asked, client, held>>

\* drain_finished: every finished sequence gets its Done and is forgotten.
Drain ==
    LET gone == Range(finished)
    IN  /\ events' = [s \in Seqs |->
                         IF s \in gone \cap meta
                         THEN Sent(s, Done(reason[s], completion[s]))
                         ELSE events[s]]
        /\ meta' = meta \ gone
        /\ held' = held \ gone
        /\ finished' = <<>>
        /\ UNCHANGED <<poolVars, seqVars, waiting, running, draftCount, kv,
                       cmds, started, completion, asked, client>>

\* Mutant: has_work asks the scheduler only.
BeginStepSchedulerOnly ==
    /\ mode = "poll"
    /\ op = Idle
    /\ cmds = <<>>
    /\ HasWork
    /\ Drain
    /\ mode' = "build"
    /\ UNCHANGED <<stepVars, producing>>

BeginStep ==
    /\ mode = "poll"
    /\ op = Idle
    /\ cmds = <<>>
    /\ HasWork \/ meta # {}
    /\ Drain
    /\ mode' = IF HasWork THEN "build" ELSE "poll"
    /\ UNCHANGED <<stepVars, producing>>

\* Scheduler::step, up to the end of the batch.
BuildBatch ==
    /\ mode = "build"
    /\ \/ StepMixed \/ ScheduleChunk \/ AdmitEmpty \/ AdmitBegin \/ AdmitEnd
    /\ UNCHANGED engineVars

BatchBuilt ==
    /\ mode = "build"
    /\ FinishBuild
    /\ LET makers == Filtered(batch, {it \in Range(batch) : ProducesToken(it)})
       IN  producing' = [i \in 1 .. Len(makers) |-> makers[i].seq]
    /\ mode' = IF batch = <<>> THEN "drain" ELSE "model"
    /\ UNCHANGED <<cmds, meta, started, completion, held, asked, events, client>>

\* Mutant: Started is sent with every chunk of the prompt.
RunModelRestarts ==
    LET prefilling == {it.seq : it \in {i \in Range(batch) : i.prefill}}
    IN  /\ mode = "model"
        /\ started' = [s \in Seqs |-> started[s] \/ s \in prefilling]
        /\ events' = [s \in Seqs |-> IF s \in prefilling THEN Sent(s, Started)
                                     ELSE events[s]]
        /\ mode' \in {"apply", "fail"}
        /\ UNCHANGED <<vars, cmds, meta, completion, producing, held, asked,
                       client>>

\* emit_started for the prefilling items, then the model: a failing stepper,
\* or a result that does not match the batch, fails the step.
RunModel ==
    LET prefilling == {it.seq : it \in {i \in Range(batch) : i.prefill}}
        first == {s \in prefilling : ~started[s]}
    IN  /\ mode = "model"
        /\ started' = [s \in Seqs |-> started[s] \/ s \in first]
        /\ events' = [s \in Seqs |-> IF s \in first THEN Sent(s, Started)
                                     ELSE events[s]]
        /\ mode' \in {"apply", "fail"}
        /\ UNCHANGED <<vars, cmds, meta, completion, producing, held, asked,
                       client>>

\* complete_step.
ApplyItems ==
    /\ mode = "apply"
    /\ \/ ItemNotRunning \/ ApplyChunk \/ (\E t \in Token : ApplyToken(t))
       \/ Retire \/ ExtendDone \/ ExtendGrow \/ ExtendOverflow
       \/ PreemptYoungest
    /\ UNCHANGED engineVars

ItemsApplied ==
    /\ mode = "apply"
    /\ StepDone
    /\ mode' = "emit"
    /\ UNCHANGED <<cmds, meta, started, completion, producing, held, asked,
                   events, client>>

\* emit_tokens, one sequence: the token it was given, or the failure.
Emit ==
    /\ mode = "emit"
    /\ op = Idle
    /\ producing # <<>>
    /\ CanSend(Head(producing), 1)
    /\ LET s == Head(producing)
           failed == s \in failures
       IN  /\ events' = [events EXCEPT ![s] =
                            Append(@, IF failed THEN Error
                                      ELSE TokenOf(LastOf(toks[s])))]
           /\ completion' = [completion EXCEPT ![s] = IF failed THEN @ ELSE @ + 1]
    /\ producing' = Tail(producing)
    /\ UNCHANGED <<vars, cmds, mode, meta, started, held, asked, client>>

\* Mutant: the request is forgotten but its sequence goes on.
EmitRefusedRunsOn ==
    /\ mode = "emit"
    /\ op = Idle
    /\ producing # <<>>
    /\ ~CanSend(Head(producing), 1)
    /\ meta' = meta \ {Head(producing)}
    /\ held' = held \ {Head(producing)}
    /\ producing' = Tail(producing)
    /\ UNCHANGED <<vars, cmds, mode, started, completion, asked, events, client>>

\* The reply could not be delivered: the sequence is aborted.
EmitRefused ==
    /\ mode = "emit"
    /\ op = Idle
    /\ producing # <<>>
    /\ LET s == Head(producing)
       IN  /\ ~CanSend(s, 1)
           /\ AbortSequence(s)
           /\ meta' = meta \ {s}
           /\ held' = held \ {s}
    /\ producing' = Tail(producing)
    /\ UNCHANGED <<cmds, mode, started, completion, asked, events, client>>

EndStep ==
    /\ mode = "drain" \/ (mode = "emit" /\ producing = <<>>)
    /\ op = Idle
    /\ Drain
    /\ mode' = "poll"
    /\ UNCHANGED <<stepVars, producing>>

\* fail_all: every request in flight gets an Error, and no Done.
FailOne(s) ==
    /\ mode = "fail"
    /\ op = Idle
    /\ s \in meta
    /\ events' = [events EXCEPT ![s] = Sent(s, Error)]
    /\ AbortSequence(s)
    /\ meta' = meta \ {s}
    /\ held' = held \ {s}
    /\ UNCHANGED <<cmds, mode, started, completion, producing, asked, client>>

FailDone ==
    /\ mode = "fail"
    /\ op = Idle
    /\ meta = {}
    /\ finished' = <<>>
    /\ phase' = "idle" /\ batch' = <<>> /\ producing' = <<>>
    /\ mode' = "poll"
    /\ UNCHANGED <<poolVars, seqVars, waiting, running, draftCount, failures,
                   budget, todo, pending, kv, cmds, meta, started, completion,
                   held, asked, events, client>>

EngineThread ==
    \/ PollReject
    \/ PollAdmit
    \/ PollAbort
    \/ PollShutdown
    \/ BeginStep
    \/ BuildBatch
    \/ BatchBuilt
    \/ RunModel
    \/ ApplyItems
    \/ ItemsApplied
    \/ Emit
    \/ EmitRefused
    \/ EndStep
    \/ \E s \in Seqs : FailOne(s)
    \/ FailDone
    \/ PoolStep /\ UNCHANGED engineVars

Clients ==
    \/ \E s \in Seqs, p \in Prompts, m \in MaxNews : Submit(s, p, m)
    \/ \E s \in Seqs : ClientAbort(s)
    \/ \E s \in Seqs : ClientDrop(s)
    \/ HandleDrop

EngineNext == EngineThread \/ Clients

EngineSpec == EngineInit /\ [][EngineNext]_allVars

\* The engine runs on an OS thread of its own, which never waits while it has
\* something to do.
FairEngineSpec == EngineSpec /\ WF_allVars(EngineThread)

-----------------------------------------------------------------------------
(* Properties.                                                             *)

AtLoopTop == mode = "poll" /\ op = Idle

\* At the top of the loop the engine's requests are exactly the scheduler's
\* sequences: has_work never keeps the thread spinning for a request nobody
\* will finish, and no sequence runs for a request that was forgotten.
MetaMatchesScheduler ==
    AtLoopTop =>
        meta = Range(waiting) \cup Range(running) \cup Range(finished)

\* The stepper keeps per-sequence state for the unfinished sequences and for
\* no other: every way a sequence ends releases it.
StepperStateReleased ==
    AtLoopTop => held = Range(waiting) \cup Range(running)

SentTokens(s) == {i \in 1 .. Len(events[s]) : events[s][i].kind = "Token"}

Output(s) == SubSeq(toks[s], plen[s] + 1, Len(toks[s]))

\* A reply stream is a prefix of Started Token* [Error] [Done]; its tokens are
\* the output's, each once and in order, whatever was preempted and computed
\* again; and Done counts them.
StreamWellFormed ==
    \A s \in Seqs :
        LET ev == events[s]
        IN  \A i \in 1 .. Len(ev) :
                /\ ev[i].kind = "Started" => i = 1
                /\ ev[i].kind = "Token" =>
                      /\ ev[1] = Started
                      /\ i - 1 <= Len(Output(s))
                      /\ ev[i].token = Output(s)[i - 1]
                /\ ev[i].kind = "Error" => \A j \in i + 1 .. Len(ev) : ev[j].kind = "Done"
                /\ ev[i].kind = "Done" =>
                      /\ i = Len(ev)
                      /\ ev[i].completion = Cardinality(SentTokens(s))

\* The request was taken from the command queue and its sender is gone.
Closed(s) ==
    /\ client[s] # "none"
    /\ s \notin meta
    /\ \A i \in 1 .. Len(cmds) : cmds[i].kind = "Submit" => cmds[i].seq # s

\* While the engine lives, a client that listens to the end gets Done or an
\* Error last, and a request that finished by itself got all of its output:
\* the reply channel is never too small.
ListenerGetsTheEnd ==
    \A s \in Seqs :
        Closed(s) /\ Listening(s) /\ mode # "stopped" =>
            /\ events[s] # <<>>
            /\ LastOf(events[s]).kind \in {"Done", "Error"}
            /\ \A why \in {"Eos", "MaxTokens"} :
                  LastOf(events[s]) = Done(why, completion[s]) =>
                      Cardinality(SentTokens(s)) = Len(Output(s))

\* The limit admit puts on the output keeps every sequence inside the pool:
\* complete_step never fails a sequence of the engine.
AdmittedFitsPool ==
    /\ failures = {}
    /\ \A s \in Range(running) : Needed(s) <= NumBlocks

\* Every request's reply channel is closed in the end, whether it finished,
\* was refused, aborted or failed, or the engine was shut down.
EveryRequestCloses ==
    \A s \in Seqs : client[s] # "none" ~> (Closed(s) \/ mode = "stopped")
=============================================================================
