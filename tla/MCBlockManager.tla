--------------------------- MODULE MCBlockManager ---------------------------
(* The block pool with two sequences that share prefixes.                  *)
EXTENDS BlockManager, TLC

\* One of the prompts is a prefix of another, whose two blocks are full.
MCPrompts == {<<1, 1>>, <<2>>, <<1, 1, 1, 1>>}

\* Bound: the texts a sequence may have. Growing <<1, 1>> leads to the other
\* prompt's blocks, growing <<2>> to a block with a hash of its own.
Texts == {<<>>, <<2>>, <<2, 1>>, <<2, 1, 1>>,
          <<1, 1>>, <<1, 1, 1>>, <<1, 1, 1, 1>>}

TextsBounded == \A s \in Seqs : toks[s] \in Texts

Symmetry == Permutations(Seqs)

MCNext == PoolNext /\ TextsBounded'
MCSpec == PoolInit /\ [][MCNext]_poolVars
=============================================================================
