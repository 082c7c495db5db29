---------------------------- MODULE MCBlockPool ----------------------------
(***************************************************************************)
(* Model values and bounds for LinkedPool. Two prompts that share their    *)
(* first block, two or three slots, a pool of a few blocks: enough for two *)
(* sequences to compute the same block, to share one, to copy it and for   *)
(* the free queue to be recycled while cached blocks are still in it.      *)
(***************************************************************************)
EXTENDS LinkedPool

CONSTANTS h1, h2, h3, s1, s2, s3

MCHash    == {h1, h2, h3}
MCPrompts == {<<h1, h2>>, <<h1, h3>>}
MCSeqs    == {s1, s2, s3}

Symmetry == Permutations(Seqs)

\* The closed form of Subsequence is what filtering the sequence one element
\* at a time gives, over every set of indices of a few sequences.
ASSUME SubsequenceIsFilter ==
    \A n \in 0 .. 4 : \A I \in SUBSET (1 .. n) :
        LET s == [i \in 1 .. n |-> 10 - i] IN
        Subsequence(s, I) = SelectSeq(s, LAMBDA x : 10 - x \in I)
=============================================================================
