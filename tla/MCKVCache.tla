----------------------------- MODULE MCKVCache -----------------------------
(***************************************************************************)
(* Model values and bounds for KVCache.  Streams A and B agree on their    *)
(* first block and differ after it; every stream is a prompt of two full   *)
(* blocks and one generated position, so a sequence ends with three blocks *)
(* and two of them fill the pool.                                          *)
(***************************************************************************)
EXTENDS KVCache

CONSTANTS s1, s2, s3, x1, x2, a3, a4, a5, b3, b4, b5

MCSeqs    == {s1, s2}
MCValues  == {x1, x2, a3, a4, a5, b3, b4, b5}
MCHash    == {x2, a4, b4}
MCStreams == {<<x1, x2, a3, a4, a5>>, <<x1, x2, b3, b4, b5>>}

Symmetry == Permutations(Seqs)
=============================================================================
