---------------------------- MODULE AttentionPaths ----------------------------
(* Which keys a query attends to, on each of the ways the model computes        *)
(* attention: over a batch of prompts without a cache, over the history of one  *)
(* sequence in the cache, and token by token over the blocks of the cache.      *)
(* A key is <<sequence, position>>; a row's output is, per query head, the set  *)
(* of keys with the key/value head they are read from. Scores, scale and the    *)
(* softmax are left out: a key whose mask is -inf has no weight.                *)
EXTENDS Integers, Sequences, SequencesExt

CONSTANTS NumHeads, NumKvHeads, BlockSize, MaxBlocks,
          ExactUpTo             \* 2^p: the mask's float type has p significant bits

HeadsPerKv == NumHeads \div NumKvHeads
\* repeat_interleave: neighbouring query heads share a key/value head.
KvHead(h) == (h - 1) \div HeadsPerKv + 1
Attends(keys) == [h \in 1..NumHeads |-> {<<key, KvHead(h)>> : key \in keys}]

\* compute_cu_seqlens: where each sequence of the flat batch begins.
CuSeqlens(lens) ==
    LET cu[s \in 0..Len(lens)] == IF s = 0 THEN 0 ELSE cu[s - 1] + lens[s] IN cu
Segment(rows, lens, s) == SubSeq(rows, CuSeqlens(lens)[s - 1] + 1, CuSeqlens(lens)[s])

CausalRowsAhead(segment) ==       \* mutant: diagonal=2, a key of the future
    [t \in DOMAIN segment |-> Attends({segment[u] : u \in DOMAIN segment \cap 1..(t + 1)})]
\* The causal mask of n keys: triu with diagonal=1.
CausalRows(segment) == [t \in DOMAIN segment |-> Attends({segment[u] : u \in 1..t})]
VarlenAttention(rows, lens) ==
    FlattenSeq([s \in DOMAIN lens |-> CausalRows(Segment(rows, lens, s))])

\* Sequences of one length on a GPU are one call: reshape to (batch, length).
EqualWidth(device, lens) ==
    device = "cuda" /\ Len(lens) > 1 /\ \A s \in DOMAIN lens : lens[s] = lens[1]
EqualWidthAttention(rows, lens) ==
    [t \in DOMAIN rows |->
       LET b == (t - 1) \div lens[1]
       IN CausalRows(SubSeq(rows, b * lens[1] + 1, (b + 1) * lens[1]))[t - b * lens[1]]]

PrefillAttention(rows, lens, device) ==
    IF EqualWidth(device, lens) THEN EqualWidthAttention(rows, lens)
    ELSE VarlenAttention(rows, lens)

(* The cached path compares positions after converting them to the type of the  *)
(* queries. A float with p significant bits holds the integers up to 2^p; above, *)
(* it rounds to a multiple of a power of two, ties to even.                     *)
Spacings == {1, 2, 4, 8, 16, 32, 64, 128, 256, 512, 1024}
Spacing(n) == CHOOSE step \in Spacings :
                 /\ n < step * ExactUpTo
                 /\ step = 1 \/ n >= (step \div 2) * ExactUpTo
Rounded(n) ==
    LET step == Spacing(n)
        low == n \div step
        rest == n % step
    IN step * (IF 2 * rest > step \/ (2 * rest = step /\ low % 2 = 1)
               THEN low + 1 ELSE low)

CachedAttention(history, positions) ==
    [t \in DOMAIN positions |->
       Attends({history[k] : k \in {k \in DOMAIN history :
                                      Rounded(k - 1) <= Rounded(positions[t])}})]

\* Decode, block by block: the last block is cut, a missing block ends the walk.
PagedDecode(table, seqLen, cache) ==
    LET needed == (seqLen + BlockSize - 1) \div BlockSize
        upto == {b \in 1..needed : \A c \in 1..b : table[c] >= 0}
        part(b) == SubSeq(cache[table[b]], 1,
                          IF b = needed THEN seqLen - (b - 1) * BlockSize ELSE BlockSize)
    IN Attends(UNION {ToSet(part(b)) : b \in upto})

\* The same for tensors only: all blocks are gathered, positions past the length
\* masked; a missing block reads block 0.
TensorPagedDecode(table, seqLen, cache) ==
    LET block(b) == IF table[b] < 0 THEN 0 ELSE table[b]
        all == FlattenSeq([b \in 1..MaxBlocks |-> cache[block(b)]])
    IN Attends({all[k] : k \in {k \in DOMAIN all : k - 1 < seqLen}})

DecodeAttention(table, seqLen, cache, device) ==
    IF device \in {"cuda", "mps"} THEN TensorPagedDecode(table, seqLen, cache)
    ELSE PagedDecode(table, seqLen, cache)
===============================================================================
