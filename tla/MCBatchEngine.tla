--------------------------- MODULE MCBatchEngine ---------------------------
(* The batch engine with two requests that do not fit the pool together.   *)
EXTENDS BatchEngine

\* An empty prompt, one the pool can never hold, and one that can be served
\* with a long output only if the output is cut.
EnginePrompts == {<<>>, <<1, 1, 1>>, <<1, 1, 1, 1, 1, 1>>}

NoDrafts == {}
=============================================================================
