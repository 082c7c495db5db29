----------------------------- MODULE BlockPool -----------------------------
(***************************************************************************)
(* The block pool (core/block_pool.py) driven by the calls PagedKVCache    *)
(* makes on it: sequences are admitted on a prompt and reuse its cached    *)
(* prefix, grow by fresh blocks, register the blocks of their prompt,      *)
(* replace a shared block by a private copy before writing to it, and are  *)
(* freed.  What the blocks hold is left to KVCache.                        *)
(***************************************************************************)
EXTENDS BlockPoolOps

CONSTANTS
    Seqs,       \* sequence slots (seq_id)
    Prompts,    \* prompts, each as the hashes of its full blocks in order
    NoPrompt    \* the slot is free

ASSUME SeqsAssumption    == IsFiniteSet(Seqs)
ASSUME PromptsAssumption == \A c \in Prompts : c \in Seq(Hash) /\ IsInjective(c)
ASSUME NoPromptAssumption == NoPrompt \notin Prompts

VARIABLES
    pool,       \* the block pool
    held,       \* _seq_blocks: the blocks of each sequence, in order
    prompt      \* the prompt each slot serves

vars == <<pool, held, prompt>>

TypeOK == /\ pool \in Pool
          /\ held \in [Seqs -> Seq(Block)]
          /\ prompt \in [Seqs -> Prompts \cup {NoPrompt}]

Init == /\ pool = InitPool(FALSE)
        /\ held = [s \in Seqs |-> <<>>]
        /\ prompt = [s \in Seqs |-> NoPrompt]

-----------------------------------------------------------------------------
(* try_reuse_prefix *)

Admit(s, c) ==
    /\ prompt[s] = NoPrompt
    /\ LET reused == CachedPrefix(pool, c) IN
         /\ pool' = Touch(pool, ToSet(reused))
         /\ held' = [held EXCEPT ![s] = reused]
    /\ prompt' = [prompt EXCEPT ![s] = c]

\* allocate_blocks(s, n) when the pool has the blocks: they extend the sequence.
Allocate(s, n) ==
    /\ prompt[s] # NoPrompt
    /\ CanGet(pool, n)
    /\ pool' = GetNewBlocks(pool, n)
    /\ held' = [held EXCEPT ![s] = @ \o Popped(pool, n)]
    /\ UNCHANGED prompt

\* register_prefix_blocks
Register(s) ==
    /\ prompt[s] # NoPrompt
    /\ pool' = CacheBlocks(pool, held[s], prompt[s])
    /\ UNCHANGED <<held, prompt>>

\* _cow_if_shared, past its early returns: the shared block stays with the
\* other sequences and s gets a fresh one in its place.
Shared(p, b) == p.caching /\ p.ref[b] > 1

\* Mutant: the count of the shared block is not lowered.
CopyOnWriteKeepsCount(s, i) ==
    /\ i \in DOMAIN held[s]
    /\ Shared(pool, held[s][i])
    /\ CanGet(pool, 1)
    /\ pool' = GetNewBlocks(pool, 1)
    /\ held' = [held EXCEPT ![s][i] = Head(pool.free)]
    /\ UNCHANGED prompt

CopyOnWrite(s, i) ==
    /\ i \in DOMAIN held[s]
    /\ Shared(pool, held[s][i])
    /\ CanGet(pool, 1)
    /\ LET old == held[s][i] IN
         /\ pool' = [GetNewBlocks(pool, 1) EXCEPT !.ref[old] = @ - 1]
         /\ held' = [held EXCEPT ![s][i] = Head(pool.free)]
    /\ UNCHANGED prompt

\* Mutant: the blocks go back first block first.
FreeForward(s) ==
    /\ prompt[s] # NoPrompt
    /\ pool' = FreeBlocks(pool, held[s])
    /\ held' = [held EXCEPT ![s] = <<>>]
    /\ prompt' = [prompt EXCEPT ![s] = NoPrompt]

\* free_sequence: the blocks go back last block first.
Free(s) ==
    /\ prompt[s] # NoPrompt
    /\ pool' = FreeBlocks(pool, Reverse(held[s]))
    /\ held' = [held EXCEPT ![s] = <<>>]
    /\ prompt' = [prompt EXCEPT ![s] = NoPrompt]

\* enable_prefix_caching
Enable ==
    /\ ~pool.caching
    /\ pool' = EnableCaching(pool)
    /\ UNCHANGED <<held, prompt>>

\* handle_cache_purge; 400 when caching is off
Purge ==
    /\ pool.caching
    /\ pool' = PurgeCache(pool)
    /\ UNCHANGED <<held, prompt>>

Next == \/ \E s \in Seqs, c \in Prompts : Admit(s, c)
        \/ \E s \in Seqs, n \in 1 .. NumBlocks : Allocate(s, n)
        \/ \E s \in Seqs : Register(s) \/ Free(s)
        \/ \E s \in Seqs, i \in 1 .. NumBlocks : CopyOnWrite(s, i)
        \/ Enable
        \/ Purge

Spec == Init /\ [][Next]_vars

-----------------------------------------------------------------------------
(* Properties. *)

Holders(b) == {s \in Seqs : b \in ToSet(held[s])}

\* The reference count of a block is the number of sequences that hold it, and
\* no sequence holds a block twice: free_blocks gives a block back when the
\* last of them lets go, not before and not later (block_pool.py:219-238).
RefCountExact ==
    /\ \A s \in Seqs : IsInjective(held[s])
    /\ \A b \in Block : pool.ref[b] = Cardinality(Holders(b))

\* The free queue holds exactly the unreferenced blocks, each once, and never
\* the null block: so get_new_blocks never meets its "possible
\* double-allocation" error and _remove never its "broken linked-list
\* pointers" (block_pool.py:127-143, 211-215).
FreeQueueExact ==
    /\ IsInjective(pool.free)
    /\ ToSet(pool.free) = {b \in Block \ {NullBlock} : pool.ref[b] = 0}

\* An entry of the prefix cache leads to a block that still carries the hash
\* of the entry: a reused block was not reallocated since it was registered
\* (block_pool.py:270-288).
CacheEntriesSound ==
    \A h \in Hash : pool.map[h] # NoBlock =>
        /\ pool.map[h] # NullBlock
        /\ pool.hash[pool.map[h]] = h

\* No block is lost, and the null block, which backs the -1 entries of the block
\* tables, is nobody's: the null block, the free queue and the sequences divide
\* the blocks among them (get_usage counts on it, block_pool.py:189-191, 297-302).
BlocksConserved ==
    LET taken == UNION {ToSet(held[s]) : s \in Seqs} IN
    /\ Block = {NullBlock} \cup ToSet(pool.free) \cup taken
    /\ NullBlock \notin ToSet(pool.free) \cup taken
    /\ ToSet(pool.free) \cap taken = {}

\* free_blocks of a sequence puts its first blocks behind its last ones in the
\* free queue, so a cached chain is evicted from its end and the part that is
\* left can still be reused (kv_cache.py:498-524, block_pool.py:226-238). The
\* docstrings of both promise the reverse, that the block nearest the tail of
\* the prompt goes back last and stays cached longest (block_pool.py:230-231,
\* kv_cache.py:502-504): the order of the code contradicts them.
ChainsFreedTailFirst ==
    [][\A s \in Seqs : held'[s] = <<>> =>
         \A i, j \in DOMAIN held[s] : \A m, n \in DOMAIN pool'.free :
            /\ i < j
            /\ pool.ref[held[s][i]] > 0 /\ pool'.free[m] = held[s][i]
            /\ pool.ref[held[s][j]] > 0 /\ pool'.free[n] = held[s][j]
            => n < m]_vars

-----------------------------------------------------------------------------
(* The pool implements the ownership of blocks. *)

Cached == {pool.map[h] : h \in Hash} \ {NoBlock}

Ownership == INSTANCE BlockOwnership
                 WITH owners <- [b \in Block |-> Holders(b)], cached <- Cached

\* Fresh blocks belong to nobody, and only cached blocks are shared.
ImplementsOwnership == Ownership!Spec
=============================================================================
