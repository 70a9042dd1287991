-------------------------- MODULE MCQwenScheduler --------------------------
(* Instances of the Qwen batch scheduler for TLC.                          *)
EXTENDS QwenScheduler

Setup(zero, solo, packed, overlap, max) ==
    [zero |-> zero, solo |-> solo, packed |-> packed, overlap |-> overlap,
     maxNew |-> max]

\* The default; packed prefill; overlap, with a token more, so that a member
\* is still alive when its pending token is sent; no queue wait.
SomeConfigs == {Setup(FALSE, TRUE, FALSE, FALSE, 2), Setup(FALSE, FALSE, TRUE, FALSE, 2),
                Setup(FALSE, FALSE, FALSE, TRUE, 3), Setup(TRUE, TRUE, FALSE, FALSE, 2)}
=============================================================================
