-------------------------- MODULE ResponseLifecycle --------------------------
(***************************************************************************)
(* What a realtime session promises about its responses, whoever creates,  *)
(* streams, cancels or closes them: one response at a time holds the slot; *)
(* an id is admitted once, opened on the wire at most once after that, and *)
(* ended at most once, only after it was opened and only after it let go   *)
(* of the slot, so that a client that sees the end may create the next.    *)
(***************************************************************************)
CONSTANT
    Ids         \* response ids; 0 is not one of them

VARIABLES
    owner,      \* the response that holds the slot, or 0
    stage       \* id -> "fresh", "admitted", "open" or "ended"

lifecycle == <<owner, stage>>

Init == owner = 0 /\ stage = [r \in Ids |-> "fresh"]

Admit(r) ==
    /\ owner = 0 /\ stage[r] = "fresh"
    /\ owner' = r
    /\ stage' = [stage EXCEPT ![r] = "admitted"]

Release ==
    /\ owner # 0
    /\ owner' = 0
    /\ UNCHANGED stage

Open(r) ==
    /\ stage[r] = "admitted"
    /\ stage' = [stage EXCEPT ![r] = "open"]
    /\ UNCHANGED owner

End(r) ==
    /\ stage[r] = "open" /\ owner # r
    /\ stage' = [stage EXCEPT ![r] = "ended"]
    /\ UNCHANGED owner

Next == Release \/ \E r \in Ids : Admit(r) \/ Open(r) \/ End(r)

Spec == Init /\ [][Next]_lifecycle
=============================================================================
