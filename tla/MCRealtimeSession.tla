------------------------- MODULE MCRealtimeSession -------------------------
(* Instances of the realtime session for TLC.                              *)
EXTENDS RealtimeSession

Setup(delay, eou, eager) == [delay |-> delay, eou |-> eou, eager |-> eager]

\* With and without a barge-in delay; no classifier, one, or one with eager
\* dispatch (which a score may or may not earn).
AllConfigs == {Setup(delay, eou, eager) : delay, eou, eager \in BOOLEAN}
                \ {Setup(delay, FALSE, TRUE) : delay \in BOOLEAN}

BareConfigs == {c \in AllConfigs : ~c.eou}
EagerConfigs == {c \in AllConfigs : c.eager}

\* What a session with a classifier does, one with eager dispatch may do too.
VoiceConfigs == BareConfigs \cup EagerConfigs

\* No classifier, with and without a delay; a classifier with eager dispatch.
ClientConfigs == BareConfigs \cup {Setup(FALSE, TRUE, TRUE)}

\* Bound: client events only where there is no classifier. (Nothing makes a
\* client act, so this takes nothing away from the fairness.)
ClientsBounded == config.eou => ops' = 0

(* A session that reported a violation is being terminated: its states are *)
(* checked, what its tasks still do is not explored.                       *)
Healthy == violations = {}
=============================================================================
