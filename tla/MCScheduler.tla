---------------------------- MODULE MCScheduler ----------------------------
(* The scheduler with small pools, prompts that share a prefix, and requests *)
(* that do not fit together.                                                *)
EXTENDS Scheduler

\* An empty prompt, and two prompts that share their first block.
SharedPrompts == {<<>>, <<1, 1, 1>>, <<1, 1>>}

\* A prompt whose output may outgrow a pool of six tokens.
CrowdingPrompts == {<<1, 1, 1, 1>>, <<2>>}

NoDrafts == {}
OneOrTwoDrafts == {<<1>>, <<1, 1>>}
=============================================================================
