----------------------------- MODULE LinkedPool -----------------------------
(***************************************************************************)
(* BlockPool beside the linked list its free queue really is: every call   *)
(* of the pool makes its calls on FreeKVCacheBlockQueue (core/block_pool.py)*)
(* in the order the code makes them, while pool.free says what they should *)
(* come to.                                                                *)
(***************************************************************************)
EXTENDS BlockPool, FreeBlockQueue

VARIABLE links      \* free_block_queue

lvars == <<pool, held, prompt, links>>

\* The constructor pops block 0 as the null block.
LInit == Init /\ links = PopLeft(InitLinks)

\* The blocks of bs, in order, that count n holders and are not the null block.
Counting(bs, n) ==
    Subsequence(bs, {i \in DOMAIN bs : pool.ref[bs[i]] = n /\ bs[i] # NullBlock})

\* touch removes the unreferenced blocks of the prefix it is given, in order.
LAdmit(s, c) ==
    /\ Admit(s, c)
    /\ links' = RemoveAll(links, Counting(CachedPrefix(pool, c), 0))

LAllocate(s, n) == Allocate(s, n) /\ links' = PopLeftN(links, n)

LCopyOnWrite(s, i) == CopyOnWrite(s, i) /\ links' = PopLeftN(links, 1)

\* free_blocks appends the blocks it released, last block of the sequence first.
LFree(s) ==
    /\ Free(s)
    /\ links' = AppendN(links, Counting(Reverse(held[s]), 1))

LNext == \/ \E s \in Seqs, c \in Prompts : LAdmit(s, c)
         \/ \E s \in Seqs, n \in 1 .. NumBlocks : LAllocate(s, n)
         \/ \E s \in Seqs, i \in 1 .. NumBlocks : LCopyOnWrite(s, i)
         \/ \E s \in Seqs : LFree(s)
         \/ (Enable \/ Purge \/ \E s \in Seqs : Register(s)) /\ UNCHANGED links

LSpec == LInit /\ [][LNext]_lvars

-----------------------------------------------------------------------------
(* Properties. *)

\* The pointers, followed from the head, give the queue that the pool is
\* modelled with, the back pointers retrace them, a block outside has none, the
\* counter agrees, and no call ever met a broken pointer or an empty queue it
\* thought full (block_pool.py:94-143).
LinksExact ==
    /\ links \in Links
    /\ links.ok
    /\ Queued(links) = pool.free
    /\ links.num = NumFree(pool)
    /\ \A x \in Node : links.next[x] # None => links.prev[links.next[x]] = x
    /\ \A b \in Block \ ToSet(pool.free) : links.next[b] = None /\ links.prev[b] = None
=============================================================================
