---------------------------- MODULE KVCacheOps ----------------------------
(***************************************************************************)
(* The operations of PagedKVCache (core/kv_cache.py) over one record:      *)
(*                                                                         *)
(*   pool     the block pool                                               *)
(*   held     _seq_blocks                                                  *)
(*   table    block_table, one row per sequence (NoBlock for -1)           *)
(*   len      seq_lens                                                     *)
(*   content  the K/V tensors: what each offset of each block holds        *)
(*   dirty    _dirty_blocks                                                *)
(*   dummy    _graph_dummy_block_id (NoBlock before init_graph_buffers)     *)
(*   lru      the sequences that hold blocks, by last access: the live     *)
(*            entries of _lru_heap (stale ones are skipped when popped)    *)
(*                                                                         *)
(* The K/V of a position depends on the tokens up to it, so a value stands *)
(* for that prefix: sequences that agree on a value agree on every token   *)
(* before it, and the value at the end of a full block is the block's      *)
(* chained hash.  One layer stands for all: every layer is written at the  *)
(* same places.                                                            *)
(***************************************************************************)
EXTENDS BlockPoolOps

CONSTANTS
    BlockSize,      \* block_size
    MaxBlocks,      \* max_blocks_per_seq
    Seqs,           \* sequence slots
    Values,         \* K/V values
    Zero            \* zeroed memory

ASSUME BlockSizeAssumption == BlockSize \in Nat \ {0} /\ MaxBlocks \in Nat \ {0}
ASSUME HashAssumption      == Hash \subseteq Values /\ Zero \notin Values
ASSUME SeqsAssumption      == IsFiniteSet(Seqs)

Offset  == 0 .. BlockSize - 1
BlockIx == 0 .. MaxBlocks - 1

KVCacheType ==
    [ pool    : Pool,
      held    : [Seqs -> Seq(Block)],
      table   : [Seqs -> [BlockIx -> Block \cup {NoBlock}]],
      len     : [Seqs -> Nat],
      content : [Block -> [Offset -> Values \cup {Zero}]],
      dirty   : SUBSET Block,
      dummy   : Block \cup {NoBlock},
      lru     : Seq(Seqs) ]

IndexOf(p)  == p \div BlockSize
OffsetOf(p) == p % BlockSize

EmptyRow  == [i \in BlockIx |-> NoBlock]
ZeroBlock == [o \in Offset |-> Zero]

InitKV(caching) ==
    [ pool    |-> InitPool(caching),
      held    |-> [s \in Seqs |-> <<>>],
      table   |-> [s \in Seqs |-> EmptyRow],
      len     |-> [s \in Seqs |-> 0],
      content |-> [b \in Block |-> ZeroBlock],
      dirty   |-> {},
      dummy   |-> NoBlock,
      lru     |-> <<>> ]

\* init_graph_buffers takes a block of its own for the padded rows, once.
InitGraphBuffers(kv) ==
    IF kv.dummy # NoBlock THEN kv
    ELSE [kv EXCEPT !.pool = GetNewBlocks(@, 1), !.dummy = Head(kv.pool.free)]

-----------------------------------------------------------------------------
(* The order of last accesses. *)

\* A queue without s.
Without(q, s) == Subsequence(q, {i \in DOMAIN q : q[i] # s})

\* _touch: s becomes the most recently used sequence.
Touched(kv, s)  == IF kv.held[s] = <<>> THEN kv
                   ELSE [kv EXCEPT !.lru = Append(Without(@, s), s)]

\* _touch for each of a list of sequences, none of them twice.
TouchedInTurn(kv, ss) ==
    [ kv EXCEPT !.lru = Subsequence(@, {i \in DOMAIN @ : @[i] \notin ToSet(ss)})
                          \o Subsequence(ss, {i \in DOMAIN ss : kv.held[ss[i]] # <<>>}) ]

\* Mutant: the blocks are not marked dirty.
FreeSequenceNotDirty(kv, s) ==
    [ kv EXCEPT !.pool     = FreeBlocks(@, Reverse(kv.held[s])),
                !.held[s]  = <<>>,
                !.table[s] = EmptyRow,
                !.len[s]   = 0,
                !.lru      = Without(@, s) ]

\* free_sequence: the blocks become dirty and go back tail first.
FreeSequence(kv, s) ==
    [ kv EXCEPT !.pool     = FreeBlocks(@, Reverse(kv.held[s])),
                !.held[s]  = <<>>,
                !.table[s] = [i \in BlockIx |-> IF i < Len(kv.held[s]) THEN NoBlock ELSE @[i]],
                !.len[s]   = 0,
                !.dirty    = @ \cup ToSet(kv.held[s]),
                !.lru      = Without(@, s) ]

-----------------------------------------------------------------------------
(* allocate_blocks(s, n), with the sequence-level eviction of _evict_lru. *)

\* The cache after the k least recently used sequences have been freed.
AfterEvicting(kv) ==
    LET after[k \in 0 .. Len(kv.lru)] ==
            IF k = 0 THEN kv ELSE FreeSequence(after[k - 1], kv.lru[k])
    IN  after

\* How many sequences _evict_lru gets to: it goes on while blocks are missing,
\* and a pinned or protected sequence at the front stops it.
Victims(kv, n) == {k \in 0 .. Len(kv.lru) : NumFree(AfterEvicting(kv)[k].pool) >= n}

Reach(kv, keep) ==
    LET kept == {k \in DOMAIN kv.lru : kv.lru[k] \in keep} IN
    IF kept = {} THEN Len(kv.lru) ELSE Min(kept) - 1

\* "ok"; "oom" when every sequence was evicted in vain; "spin" when the oldest
\* sequence may not be evicted: it is pushed back on the heap with its old tick
\* and popped again, for ever.
AllocationOutcome(kv, s, n, pinned) ==
    LET keep == pinned \cup {s} IN
    IF \E k \in Victims(kv, n) : k <= Reach(kv, keep) THEN "ok"
    ELSE IF Reach(kv, keep) < Len(kv.lru) THEN "spin" ELSE "oom"

\* What is left when allocate_blocks does not return "ok": the sequences that
\* could be evicted have been.
AfterVainEviction(kv, s, pinned) == AfterEvicting(kv)[Reach(kv, pinned \cup {s})]

\* Blocks that were used before are zeroed as they are handed out.
Zeroed(kv, B) ==
    [ kv EXCEPT !.content = [b \in Block |-> IF b \in B \cap kv.dirty THEN ZeroBlock ELSE @[b]],
                !.dirty   = @ \ B ]

\* Mutant: the row is written from its start.
AllocateBlocksAtStart(kv, s, n) ==
    LET room  == AfterEvicting(kv)[Min(Victims(kv, n))]
        fresh == Popped(room.pool, n)
    IN  Touched([ Zeroed(room, ToSet(fresh)) EXCEPT
                     !.pool     = GetNewBlocks(room.pool, n),
                     !.held[s]  = @ \o fresh,
                     !.table[s] = [i \in BlockIx |-> IF i < n THEN fresh[i + 1] ELSE @[i]] ], s)

AllocateBlocks(kv, s, n) ==
    LET room  == AfterEvicting(kv)[Min(Victims(kv, n))]
        fresh == Popped(room.pool, n)
        start == Len(room.held[s])
        got   == [ Zeroed(room, ToSet(fresh)) EXCEPT
                     !.pool     = GetNewBlocks(room.pool, n),
                     !.held[s]  = @ \o fresh,
                     !.table[s] = [i \in BlockIx |-> IF i \in start .. start + n - 1
                                                       THEN fresh[i - start + 1] ELSE @[i]] ]
    IN  Touched(got, s)

-----------------------------------------------------------------------------
(* Prefix caching. *)

\* The chained hashes of the full blocks of a list of values.
BlockHashes(vs) == [i \in 1 .. Len(vs) \div BlockSize |-> vs[i * BlockSize]]

\* try_reuse_prefix: the blocks are appended to _seq_blocks, the row is written
\* from index 0, and the length is set when something was reused.
Reused(kv, vs) == CachedPrefix(kv.pool, BlockHashes(vs))

ReusePrefix(kv, s, vs) ==
    LET bs == Reused(kv, vs) IN
    IF bs = <<>> THEN kv
    ELSE Touched([ kv EXCEPT
            !.pool     = Touch(@, ToSet(bs)),
            !.held[s]  = @ \o bs,
            !.table[s] = [i \in BlockIx |-> IF i < Len(bs) THEN bs[i + 1] ELSE @[i]],
            !.len[s]   = Len(bs) * BlockSize ], s)

\* register_prefix_blocks
RegisterPrefix(kv, s, vs) ==
    [kv EXCEPT !.pool = CacheBlocks(@, kv.held[s], BlockHashes(vs))]

\* _cow_if_shared: a block of s that others hold too is replaced by a copy,
\* unless no block is free, when the shared block is used in place.
IsShared(kv, s, i) ==
    /\ kv.pool.caching
    /\ i < Len(kv.held[s])
    /\ kv.pool.ref[kv.held[s][i + 1]] > 1

\* Mutant: the count of the shared block is not lowered.
CowIfSharedKeepsCount(kv, s, i, b) ==
    IF ~(IsShared(kv, s, i) /\ CanGet(kv.pool, 1)) THEN [kv |-> kv, block |-> b]
    ELSE LET new == Head(kv.pool.free)
         IN  [ kv    |-> [ kv EXCEPT !.pool            = GetNewBlocks(@, 1),
                                     !.content[new]    = kv.content[b],
                                     !.table[s][i]     = new,
                                     !.held[s][i + 1]  = new ],
               block |-> new ]

CowIfShared(kv, s, i, b) ==
    IF ~(IsShared(kv, s, i) /\ CanGet(kv.pool, 1)) THEN [kv |-> kv, block |-> b]
    ELSE LET new == Head(kv.pool.free)
             old == kv.held[s][i + 1]
         IN  [ kv    |-> [ kv EXCEPT
                             !.pool = [GetNewBlocks(kv.pool, 1) EXCEPT !.ref[old] = @ - 1],
                             !.content[new]    = kv.content[b],
                             !.table[s][i]     = new,
                             !.held[s][i + 1]  = new ],
               block |-> new ]

-----------------------------------------------------------------------------
(* Reads and writes. *)

\* write_kv(s, p, v): a missing block is allocated first; it becomes the next
\* block of the sequence, whatever block index p falls in.
MissingBlock(kv, s, p) == kv.table[s][IndexOf(p)] = NoBlock

WriteKV(kv, s, p, v) ==
    LET ready == IF MissingBlock(kv, s, p) THEN AllocateBlocks(kv, s, 1) ELSE kv
        found == IF MissingBlock(kv, s, p) THEN Last(ready.held[s]) ELSE kv.table[s][IndexOf(p)]
        cow   == CowIfShared(ready, s, IndexOf(p), found)
    IN  Touched([ cow.kv EXCEPT
                    !.content[cow.block][OffsetOf(p)] = v,
                    !.len[s] = Max({@, p + 1}) ], s)

\* read_kv: a position whose block is missing reads as zero.
ReadKV(kv, s, p) ==
    LET b == kv.table[s][IndexOf(p)] IN
    IF b = NoBlock THEN Zero ELSE kv.content[b][OffsetOf(p)]

\* write_kv_decode, position p[s] of each sequence s of R: no block is allocated
\* and a missing one is clamped to block 0.  Where several writes meet any may
\* win: won are the sequences whose write stays, one for each cell written.
DecodeBlock(kv, s, p) == IF MissingBlock(kv, s, p) THEN NullBlock ELSE kv.table[s][IndexOf(p)]
Cell(kv, s, p)        == <<DecodeBlock(kv, s, p), OffsetOf(p)>>

MayWin(kv, R, won, p) ==
    /\ \A s \in R : \E w \in won : Cell(kv, w, p[w]) = Cell(kv, s, p[s])
    /\ \A w, x \in won : Cell(kv, w, p[w]) = Cell(kv, x, p[x]) => w = x

WriteKVDecode(kv, R, won, p, v) ==
    LET writers(b, o) == {s \in won : Cell(kv, s, p[s]) = <<b, o>>} IN
    [ kv EXCEPT !.content = [b \in Block |-> [o \in Offset |->
                                IF writers(b, o) = {} THEN @[b][o]
                                ELSE v[CHOOSE s \in writers(b, o) : TRUE]]],
                !.len     = [s \in Seqs |-> IF s \in R THEN Max({@[s], p[s] + 1}) ELSE @[s]] ]
=============================================================================
