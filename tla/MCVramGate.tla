----------------------------- MODULE MCVramGate -----------------------------
(* The admission gate with three requests at a time.                       *)
EXTENDS VramGate, TLC

Symmetry == Permutations(Requests)
=============================================================================
