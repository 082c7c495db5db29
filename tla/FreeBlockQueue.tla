-------------------------- MODULE FreeBlockQueue --------------------------
(***************************************************************************)
(* FreeKVCacheBlockQueue (core/block_pool.py) as operators over a record:  *)
(* the pointers of the doubly linked list between a head and a tail        *)
(* sentinel, the counter num_free_blocks kept beside it, and whether every *)
(* call so far returned (the code raises on a pointer it finds unset).     *)
(***************************************************************************)
EXTENDS BlockPoolOps

HeadNode == -1
TailNode == -2
None     == -3
Node     == Block \cup {HeadNode, TailNode}

Links == [ next : [Node -> Node \cup {None}],   \* next_free_block
           prev : [Node -> Node \cup {None}],   \* prev_free_block
           num  : Int,                          \* num_free_blocks
           ok   : BOOLEAN ]                     \* nothing was raised

Raised(q) == [q EXCEPT !.ok = FALSE]

\* __init__ wires consecutive blocks and the sentinels around them.
InitLinks ==
    [ next |-> [x \in Node |-> CASE x = TailNode      -> None
                                 [] x = NumBlocks - 1 -> TailNode
                                 [] OTHER             -> x + 1],
      prev |-> [x \in Node |-> CASE x = HeadNode -> None
                                 [] x = TailNode -> NumBlocks - 1
                                 [] OTHER        -> x - 1],
      num  |-> NumBlocks,
      ok   |-> TRUE ]

\* _remove
Unlink(q, b) ==
    IF q.prev[b] = None \/ q.next[b] = None THEN Raised(q)
    ELSE [ next |-> [q.next EXCEPT ![q.prev[b]] = q.next[b], ![b] = None],
           prev |-> [q.prev EXCEPT ![q.next[b]] = q.prev[b], ![b] = None],
           num  |-> q.num - 1,
           ok   |-> q.ok ]

\* popleft
PopLeft(q) ==
    LET first == q.next[HeadNode] IN
    IF q.num = 0 \/ first \notin Block THEN Raised(q) ELSE Unlink(q, first)

\* popleft_n, after each of the blocks that it pops
Popping(q, n) ==
    LET popped[k \in 0 .. n] == IF k = 0 THEN q ELSE PopLeft(popped[k - 1])
    IN  popped

PopLeftN(q, n) == IF n > q.num THEN Raised(q) ELSE Popping(q, n)[n]

\* Mutant: the block keeps no pointer to its predecessor.
AppendBlockNoBackLink(q, b) ==
    LET last == q.prev[TailNode] IN
    IF last = None THEN Raised(q)
    ELSE [ next |-> [q.next EXCEPT ![last] = b, ![b] = TailNode],
           prev |-> [q.prev EXCEPT ![TailNode] = b],
           num  |-> q.num + 1,
           ok   |-> q.ok ]

\* append
AppendBlock(q, b) ==
    LET last == q.prev[TailNode] IN
    IF last = None THEN Raised(q)
    ELSE [ next |-> [q.next EXCEPT ![last] = b, ![b] = TailNode],
           prev |-> [q.prev EXCEPT ![b] = last, ![TailNode] = b],
           num  |-> q.num + 1,
           ok   |-> q.ok ]

\* append_n, and remove of each block of a sequence
Appending(q, bs) ==
    LET appended[k \in 0 .. Len(bs)] == IF k = 0 THEN q ELSE AppendBlock(appended[k - 1], bs[k])
    IN  appended

Removing(q, bs) ==
    LET removed[k \in 0 .. Len(bs)] == IF k = 0 THEN q ELSE Unlink(removed[k - 1], bs[k])
    IN  removed

AppendN(q, bs)   == Appending(q, bs)[Len(bs)]
RemoveAll(q, bs) == Removing(q, bs)[Len(bs)]

-----------------------------------------------------------------------------
\* The blocks met from the head, one pointer at a time.
Walk(q) ==
    LET met[k \in 0 .. NumBlocks + 1] ==
            IF k = 0 THEN HeadNode
            ELSE IF met[k - 1] \in Block \cup {HeadNode} THEN q.next[met[k - 1]] ELSE TailNode
    IN  met

Queued(q) ==
    LET met == {k \in 1 .. NumBlocks + 1 : Walk(q)[k] \in Block}
    IN  [k \in 1 .. Cardinality(met) |-> Walk(q)[k]]
=============================================================================
