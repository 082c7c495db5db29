--------------------------- MODULE BlockPoolOps ---------------------------
(***************************************************************************)
(* The operations of core/block_pool.py as operators over one record, so   *)
(* that a caller that makes several pool calls in one handler (KVCache) is *)
(* still one atomic step.  A pool is                                       *)
(*                                                                         *)
(*   caching  enable_caching                                               *)
(*   free     the free queue, least recently freed block first; the        *)
(*            doubly linked list that implements it is FreeBlockQueue      *)
(*   ref      ref_cnt of every block                                       *)
(*   hash     block_hash of every block (NoHash for None)                  *)
(*   map      _hash_to_block, the prefix cache (NoBlock when absent)       *)
(*                                                                         *)
(* A hash is a model value: hash_block chains blake2b over the tokens of   *)
(* the block, and distinct prefixes are taken to have distinct hashes.     *)
(***************************************************************************)
EXTENDS Integers, SequencesExt

CONSTANTS
    NumBlocks,      \* num_gpu_blocks
    Hash,           \* hashes of full blocks
    NoHash          \* block_hash = None

ASSUME NumBlocksAssumption == NumBlocks \in Nat \ {0}
ASSUME NoHashAssumption    == NoHash \notin Hash

Block     == 0 .. NumBlocks - 1
NullBlock == 0
NoBlock   == -1

Pool == [ caching : BOOLEAN,
          free    : Seq(Block),
          ref     : [Block -> Nat],
          hash    : [Block -> Hash \cup {NoHash}],
          map     : [Hash -> Block \cup {NoBlock}] ]

-----------------------------------------------------------------------------
\* The elements of s at the indices I, in the order of s: the k-th one is the
\* one whose index has k indices of I up to it.
Rank(I, i)        == Cardinality({j \in I : j <= i})
Subsequence(s, I) == [k \in 1 .. Cardinality(I) |-> s[CHOOSE i \in I : Rank(I, i) = k]]

-----------------------------------------------------------------------------
(* Construction: every block is free but block 0, popped as the null block. *)

InitPool(caching) ==
    [ caching |-> caching,
      free    |-> [i \in 1 .. NumBlocks - 1 |-> i],
      ref     |-> [b \in Block |-> 0],
      hash    |-> [b \in Block |-> NoHash],
      map     |-> [h \in Hash |-> NoBlock] ]

NumFree(p) == Len(p.free)

-----------------------------------------------------------------------------
(* Allocation. *)

\* The blocks that get_new_blocks(n) pops.
Popped(p, n) == SubSeq(p.free, 1, n)

\* _evict_cached_block on each popped block: the entry of its hash is popped
\* from the map, whichever block the entry names, and its hash reset.
Evicted(p, B) == {p.hash[b] : b \in B} \ {NoHash}
MapWithout(p, H) == [h \in Hash |-> IF h \in H THEN NoBlock ELSE p.map[h]]

\* Mutant: the hashes are reset, and the entries stay in the map.
GetNewBlocksStale(p, n) ==
    LET B == ToSet(Popped(p, n)) IN
    [ p EXCEPT !.free = SubSeq(p.free, n + 1, Len(p.free)),
               !.ref  = [b \in Block |-> IF b \in B THEN 1 ELSE p.ref[b]],
               !.hash = [b \in Block |-> IF p.caching /\ b \in B THEN NoHash ELSE p.hash[b]] ]

\* get_new_blocks(n), which raises unless n blocks are free.  It also raises on a
\* popped block with a ref_cnt, which FreeQueueExact of BlockPool rules out.
CanGet(p, n) == n <= NumFree(p)

GetNewBlocks(p, n) ==
    LET B == ToSet(Popped(p, n)) IN
    [ p EXCEPT !.free = SubSeq(p.free, n + 1, Len(p.free)),
               !.ref  = [b \in Block |-> IF b \in B THEN 1 ELSE p.ref[b]],
               !.hash = [b \in Block |-> IF p.caching /\ b \in B THEN NoHash ELSE p.hash[b]],
               !.map  = IF p.caching THEN MapWithout(p, Evicted(p, B)) ELSE p.map ]

\* Mutant: a block that is reused stays in the free queue.
TouchStaysQueued(p, B) ==
    [p EXCEPT !.ref = [b \in Block |-> IF b \in B THEN p.ref[b] + 1 ELSE p.ref[b]]]

\* touch(blocks), B without repetition: an unreferenced block leaves the free queue.
Touch(p, B) ==
    LET woken == {b \in B : p.ref[b] = 0 /\ b # NullBlock} IN
    [ p EXCEPT !.free = Subsequence(p.free, {i \in DOMAIN p.free : p.free[i] \notin woken}),
               !.ref  = [b \in Block |-> IF b \in B THEN p.ref[b] + 1 ELSE p.ref[b]] ]

\* Mutant: a block goes back although others hold it.
FreeBlocksEager(p, bs) ==
    LET dropped == {i \in DOMAIN bs : bs[i] # NullBlock /\ bs[i] \notin ToSet(p.free)} IN
    [ p EXCEPT !.free = p.free \o Subsequence(bs, dropped),
               !.ref  = [b \in Block |-> IF b \in ToSet(bs) THEN p.ref[b] - 1 ELSE p.ref[b]] ]

\* free_blocks(bs), bs without repetition: the blocks that reach 0 are appended
\* to the free queue in the order of bs.
FreeBlocks(p, bs) ==
    LET dropped == {i \in DOMAIN bs : p.ref[bs[i]] = 1 /\ bs[i] # NullBlock} IN
    [ p EXCEPT !.free = p.free \o Subsequence(bs, dropped),
               !.ref  = [b \in Block |-> IF b \in ToSet(bs) THEN p.ref[b] - 1 ELSE p.ref[b]] ]

-----------------------------------------------------------------------------
(* Prefix cache. *)

\* get_cached_block(h)
CachedBlock(p, h) == IF p.caching THEN p.map[h] ELSE NoBlock

\* try_reuse_prefix, the lookups: the cached blocks of the longest prefix of hs,
\* the hashes of a prompt's full blocks, whose every block is cached.
CachedPrefix(p, hs) ==
    LET hit == {i \in DOMAIN hs : \A j \in 1 .. i : CachedBlock(p, hs[j]) # NoBlock} IN
    [i \in 1 .. Cardinality(hit) |-> CachedBlock(p, hs[i])]

\* cache_block(b, h) does something only for a block that has no hash yet.
Cacheable(p, b) == p.caching /\ b # NullBlock /\ p.hash[b] = NoHash

\* cache_block(bs[i], hs[i]) for each full block, bs and hs without repetition:
\* an entry another block registered is overwritten, and that block keeps its hash.
CacheBlocks(p, bs, hs) ==
    LET new == {i \in DOMAIN bs \cap DOMAIN hs : Cacheable(p, bs[i])} IN
    [ p EXCEPT
        !.hash = [b \in Block |-> IF \E i \in new : bs[i] = b
                                    THEN hs[CHOOSE i \in new : bs[i] = b] ELSE p.hash[b]],
        !.map  = [h \in Hash |-> IF \E i \in new : hs[i] = h
                                    THEN bs[CHOOSE i \in new : hs[i] = h] ELSE p.map[h]] ]

EnableCaching(p) == [p EXCEPT !.caching = TRUE]

\* POST /v1/cache/purge: clears the map and resets every block's hash.
PurgeCache(p) == [ p EXCEPT !.hash = [b \in Block |-> NoHash],
                            !.map  = [h \in Hash |-> NoBlock] ]
=============================================================================
