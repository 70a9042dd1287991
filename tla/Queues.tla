------------------------------- MODULE Queues -------------------------------
(* What the code does to its queues besides pushing and popping: it keeps  *)
(* the elements that pass a test (retain, filter), in their order.         *)
EXTENDS Naturals, Sequences, FiniteSets

\* VecDeque::retain(|x| x != id), for an id that occurs at most once.
Without(q, id) ==
    LET k == CHOOSE i \in 1 .. Len(q) : q[i] = id
    IN  [i \in 1 .. Len(q) - 1 |-> IF i < k THEN q[i] ELSE q[i + 1]]

\* Iterator::filter: the elements of queue q that are in set S, in order.
Filtered(q, S) ==
    LET idx == {i \in 1 .. Len(q) : q[i] \in S}
        nth(k) == CHOOSE i \in idx : Cardinality({j \in idx : j <= i}) = k
    IN  [k \in 1 .. Cardinality(idx) |-> q[nth(k)]]
=============================================================================
