--------------------------- MODULE KVCacheProofs ---------------------------
(***************************************************************************)
(* The structures of the paged cache agree, and a request reads the K/V of *)
(* its own tokens, for every number and size of blocks, every set of slots *)
(* and every set of streams.                                               *)
(***************************************************************************)
EXTENDS KVCache, BlockPoolOpsProofs

-----------------------------------------------------------------------------
(* Positions. *)

\* Multiplication keeps the order.
LEMMA Times ==
    ASSUME NEW a \in Nat, NEW b \in Nat, a <= b, NEW k \in Nat
    PROVE  k * a <= k * b /\ k * a \in Nat /\ k * b \in Nat
<1>1. PICK d \in Nat : b = a + d
    BY b - a \in Nat, b = a + (b - a)
<1>2. k * b = k * a + k * d
    BY <1>1
<1>3. k * a \in Nat /\ k * b \in Nat /\ k * d \in Nat
    OBVIOUS
<1> QED BY <1>2, <1>3

\* A position is an offset in a block (kv_cache.py:293-315).
LEMMA Divided ==
    ASSUME NEW p \in Nat
    PROVE  /\ IndexOf(p) \in Nat /\ OffsetOf(p) \in Offset
           /\ p = BlockSize * IndexOf(p) + OffsetOf(p)
BY BlockSizeAssumption DEF IndexOf, OffsetOf, Offset

\* An offset in a block is a position.
LEMMA Composed ==
    ASSUME NEW i \in Nat, NEW o \in Offset
    PROVE  /\ BlockSize * i + o \in Nat
           /\ IndexOf(BlockSize * i + o) = i /\ OffsetOf(BlockSize * i + o) = o
BY BlockSizeAssumption DEF IndexOf, OffsetOf, Offset

\* A position below the end of block i is in one of the blocks up to it.
LEMMA Below ==
    ASSUME NEW p \in Nat, NEW i \in Nat
    PROVE  p < BlockSize * i <=> IndexOf(p) < i
<1> DEFINE j == IndexOf(p)
           o == OffsetOf(p)
<1>1. j \in Nat /\ o \in Nat /\ o < BlockSize /\ p = BlockSize * j + o /\ BlockSize \in Nat
    BY Divided, BlockSizeAssumption DEF Offset
<1> HIDE DEF j, o
<1>2. CASE j < i
    <2>1. BlockSize * (j + 1) <= BlockSize * i /\ BlockSize * i \in Nat /\ BlockSize * j \in Nat
        BY <1>1, <1>2, Times
    <2>2. BlockSize * (j + 1) = BlockSize * j + BlockSize
        BY <1>1
    <2>3. \A a, b \in Nat : a + BlockSize <= b => a + o < b
        BY <1>1
    <2> QED BY <1>1, <1>2, <2>1, <2>2, <2>3 DEF j
<1>3. CASE ~(j < i)
    <2>1. BlockSize * i <= BlockSize * j /\ BlockSize * i \in Nat /\ BlockSize * j \in Nat
        BY <1>1, <1>3, Times
    <2>2. \A a, b \in Nat : b <= a => ~(a + o < b)
        BY <1>1
    <2> QED BY <1>1, <1>3, <2>1, <2>2 DEF j
<1> QED BY <1>2, <1>3

\* The positions of a row are in its blocks.
LEMMA Inside ==
    ASSUME NEW p \in Nat, p < BlockSize * MaxBlocks
    PROVE  IndexOf(p) \in BlockIx
BY Below, Divided, BlockSizeAssumption DEF BlockIx

\* The next position is in the same block or in the next one.
LEMMA Following ==
    ASSUME NEW p \in Nat
    PROVE  IndexOf(p) <= IndexOf(p + 1) /\ IndexOf(p + 1) <= IndexOf(p) + 1
<1>1. IndexOf(p) \in Nat /\ IndexOf(p + 1) \in Nat /\ p + 1 \in Nat
    BY Divided
<1>2. p < BlockSize * (IndexOf(p + 1) + 1)
    <2>1. p + 1 < BlockSize * (IndexOf(p + 1) + 1)
        BY <1>1, Below
    <2>2. BlockSize * (IndexOf(p + 1) + 1) \in Nat
        BY <1>1, BlockSizeAssumption
    <2> QED BY <2>1, <2>2
<1>3. ~(BlockSize * (IndexOf(p) + 2) <= p + 1)
    <2>1. p < BlockSize * (IndexOf(p) + 1)
        BY <1>1, Below
    <2>2. BlockSize * (IndexOf(p) + 2) = BlockSize * (IndexOf(p) + 1) + BlockSize
        BY <1>1, BlockSizeAssumption
    <2>3. BlockSize * (IndexOf(p) + 1) \in Nat /\ BlockSize \in Nat \ {0}
        BY <1>1, BlockSizeAssumption
    <2> QED BY <2>1, <2>2, <2>3
<1>4. p + 1 < BlockSize * (IndexOf(p) + 2)
    <2>1. BlockSize * (IndexOf(p) + 2) \in Nat
        BY <1>1, BlockSizeAssumption
    <2> QED BY <1>3, <2>1
<1>5. IndexOf(p) < IndexOf(p + 1) + 1 /\ IndexOf(p + 1) < IndexOf(p) + 2
    BY <1>1, <1>2, <1>4, Below
<1> QED BY <1>1, <1>5

-----------------------------------------------------------------------------
(* What every operation of the cache keeps.                                 *)

\* The sequences that have block b.
HoldersIn(c, b) == {s \in Seqs : b \in ToSet(c.held[s])}

\* The counts of the pool: one reference for each sequence that has the block.
Counted(c) ==
    \A b \in Block : c.pool.ref[b] = Cardinality(HoldersIn(c, b)) + (IF b = c.dummy THEN 1 ELSE 0)

\* A sequence has a block once, and never block 0.
Listed(c) == \A s \in Seqs : IsInjective(c.held[s]) /\ NullBlock \notin ToSet(c.held[s])

\* A row is the list of blocks, then -1.
Tabled(c) ==
    \A s \in Seqs, i \in BlockIx :
        c.table[s][i] = IF i < Len(c.held[s]) THEN c.held[s][i + 1] ELSE NoBlock

\* The order of last accesses has every sequence with blocks, once.
Ordered(c) == IsInjective(c.lru) /\ ToSet(c.lru) = {s \in Seqs : c.held[s] # <<>>}

\* Only a block that carries a hash is shared, and none does without caching.
SharedHashed(c) ==
    /\ \A s, t \in Seqs : \A b \in ToSet(c.held[s]) \cap ToSet(c.held[t]) :
           s # t => c.pool.hash[b] # NoHash
    /\ ~c.pool.caching => \A b \in Block : c.pool.hash[b] = NoHash

\* A free block is zero, or will be zeroed before it is used.
FreeZeroed(c) == \A b \in ToSet(c.pool.free) : b \in c.dirty \/ c.content[b] = ZeroBlock

\* What every operation of the cache keeps.
Sound(c) ==
    /\ c \in KVCacheType
    /\ QueueExact(c.pool) /\ EntriesSound(c.pool)
    /\ Counted(c) /\ Listed(c) /\ Tabled(c) /\ Ordered(c)
    /\ SharedHashed(c) /\ FreeZeroed(c)

-----------------------------------------------------------------------------
(* Lists and counts. *)

\* The fields of a cache (kv_cache.py:78-157).
LEMMA Fields ==
    ASSUME NEW c \in KVCacheType
    PROVE  /\ c.pool \in Pool
           /\ c.held \in [Seqs -> Seq(Block)]
           /\ c.table \in [Seqs -> [BlockIx -> Block \cup {NoBlock}]]
           /\ c.len \in [Seqs -> Nat]
           /\ c.content \in [Block -> [Offset -> Values \cup {Zero}]]
           /\ c.dirty \subseteq Block
           /\ c.dummy \in Block \cup {NoBlock}
           /\ c.lru \in Seq(Seqs)
BY DEF KVCacheType

\* A queue loses an element, and keeps the others.
LEMMA WithoutIs ==
    ASSUME NEW S, NEW q \in Seq(S), NEW s
    PROVE  /\ Without(q, s) \in Seq(S)
           /\ ToSet(Without(q, s)) = ToSet(q) \ {s}
           /\ IsInjective(q) => IsInjective(Without(q, s))
<1> DEFINE I == {i \in DOMAIN q : q[i] # s}
<1>1. I \in SUBSET DOMAIN q
    OBVIOUS
<1>2. /\ Subsequence(q, I) \in Seq(S)
      /\ ToSet(Subsequence(q, I)) = {q[i] : i \in I}
      /\ IsInjective(q) => IsInjective(Subsequence(q, I))
    BY <1>1, SubsequenceProperties
<1>3. {q[i] : i \in I} = ToSet(q) \ {s}
    BY DEF ToSet
<1> QED BY <1>2, <1>3 DEF Without

\* What a list becomes when s is put at its end.
LEMMA AppendedIs ==
    ASSUME NEW S, NEW q \in Seq(S), NEW s \in S
    PROVE  /\ Append(q, s) \in Seq(S)
           /\ ToSet(Append(q, s)) = ToSet(q) \cup {s}
           /\ IsInjective(q) /\ s \notin ToSet(q) => IsInjective(Append(q, s))
<1>1. <<s>> \in Seq(S) /\ ToSet(<<s>>) = {s} /\ IsInjective(<<s>>)
    BY DEF ToSet, IsInjective
<1>2. Append(q, s) = q \o <<s>>
    OBVIOUS
<1>3. /\ q \o <<s>> \in Seq(S)
      /\ ToSet(q \o <<s>>) = ToSet(q) \cup ToSet(<<s>>)
      /\ IsInjective(q) /\ IsInjective(<<s>>) /\ ToSet(q) \cap ToSet(<<s>>) = {}
           => IsInjective(q \o <<s>>)
    BY <1>1, ConcatKeepsInjective
<1> QED BY <1>1, <1>2, <1>3

\* An index of a list, and the block there.
LEMMA At ==
    ASSUME NEW S, NEW q \in Seq(S), NEW i \in Nat, i < Len(q)
    PROVE  i + 1 \in DOMAIN q /\ q[i + 1] \in S /\ q[i + 1] \in ToSet(q)
BY ToSetProperties

\* The empty list.
LEMMA EmptyIs == ToSet(<<>>) = {} /\ IsInjective(<<>>) /\ Len(<<>>) = 0 /\ \A S : <<>> \in Seq(S)
BY DEF ToSet, IsInjective

\* A list is empty when it has no element.
LEMMA NotEmpty ==
    ASSUME NEW S, NEW q \in Seq(S)
    PROVE  (q = <<>> <=> Len(q) = 0) /\ (q = <<>> <=> ToSet(q) = {}) /\ Len(q) \in Nat
<1>1. Len(q) \in Nat /\ DOMAIN q = 1 .. Len(q)
    BY ToSetProperties
<1>2. q = <<>> <=> Len(q) = 0
    OBVIOUS
<1>3. Len(q) # 0 => 1 \in DOMAIN q
    BY <1>1
<1>4. Len(q) # 0 => q[1] \in ToSet(q)
    BY <1>3 DEF ToSet
<1> QED BY <1>1, <1>2, <1>4, EmptyIs

\* The holders of a block can be counted.
LEMMA HoldersCount ==
    ASSUME NEW c, NEW b
    PROVE  /\ IsFiniteSet(HoldersIn(c, b)) /\ Cardinality(HoldersIn(c, b)) \in Nat
           /\ Cardinality(HoldersIn(c, b)) = 0 <=> HoldersIn(c, b) = {}
<1>1. HoldersIn(c, b) \in SUBSET Seqs
    BY DEF HoldersIn
<1>2. IsFiniteSet(HoldersIn(c, b))
    BY <1>1, SeqsAssumption, FS_Subset
<1> QED BY <1>2, FS_CardinalityType, FS_EmptySet

\* What a sequence has is counted: a block without references is nobody's.
LEMMA Referenced ==
    ASSUME NEW c, Sound(c)
    PROVE  /\ \A s \in Seqs : /\ c.held[s] \in Seq(Block) /\ ToSet(c.held[s]) \subseteq Block
                              /\ \A b \in ToSet(c.held[s]) : c.pool.ref[b] > 0
           /\ \A b \in Block : c.pool.ref[b] \in Nat
           /\ \A b \in ToSet(c.pool.free) : /\ b \in Block /\ b # NullBlock /\ b # c.dummy
                                            /\ c.pool.ref[b] = 0
                                            /\ \A s \in Seqs : b \notin ToSet(c.held[s])
<1>1. c \in KVCacheType
    BY DEF Sound
<1>2. /\ c.pool.ref \in [Block -> Nat]
      /\ \A s \in Seqs : c.held[s] \in Seq(Block)
    BY <1>1, Fields, PoolFields
<1>3. \A s \in Seqs : ToSet(c.held[s]) \subseteq Block
    BY <1>2, ToSetProperties
<1>4. ASSUME NEW s \in Seqs, NEW b \in ToSet(c.held[s]) PROVE c.pool.ref[b] > 0
    <2>1. s \in HoldersIn(c, b) /\ b \in Block
        BY <1>3, <1>4 DEF HoldersIn
    <2>2. Cardinality(HoldersIn(c, b)) \in Nat \ {0}
        BY <2>1, HoldersCount
    <2>3. c.pool.ref[b] = Cardinality(HoldersIn(c, b)) + (IF b = c.dummy THEN 1 ELSE 0)
        BY <2>1 DEF Sound, Counted
    <2> QED BY <2>2, <2>3
<1>5. ASSUME NEW b \in ToSet(c.pool.free)
      PROVE  /\ b \in Block /\ b # NullBlock /\ b # c.dummy /\ c.pool.ref[b] = 0
             /\ \A s \in Seqs : b \notin ToSet(c.held[s])
    <2>1. b \in Block /\ b # NullBlock /\ c.pool.ref[b] = 0
        BY DEF Sound, QueueExact
    <2>2. c.pool.ref[b] = Cardinality(HoldersIn(c, b)) + (IF b = c.dummy THEN 1 ELSE 0)
        BY <2>1 DEF Sound, Counted
    <2>3. Cardinality(HoldersIn(c, b)) \in Nat
        BY HoldersCount
    <2> QED BY <1>4, <2>1, <2>2, <2>3
<1> QED BY <1>2, <1>3, <1>4, <1>5

-----------------------------------------------------------------------------
(* One sequence gets another list of blocks.                                *)

\* The other structures follow: what has to be shown of d, which is c but for the
\* list t of sequence s.
Follows(c, d, s, t) ==
    /\ \A r \in Seqs : d.held[r] = IF r = s THEN t ELSE c.held[r]
    /\ \A b \in Block : d.pool.ref[b] =
           IF b \in ToSet(t)
             THEN IF b \in ToSet(c.held[s]) THEN c.pool.ref[b] ELSE c.pool.ref[b] + 1
             ELSE IF b \in ToSet(c.held[s]) THEN c.pool.ref[b] - 1 ELSE c.pool.ref[b]
    /\ \A r \in Seqs, i \in BlockIx :
           d.table[r][i] = IF r # s THEN c.table[r][i]
                           ELSE IF i < Len(t) THEN t[i + 1] ELSE NoBlock
    /\ ToSet(d.lru) = IF t = <<>> THEN ToSet(c.lru) \ {s} ELSE ToSet(c.lru) \cup {s}
    /\ d.dummy = c.dummy

\* How the number of holders moves when one sequence gets another list.
LEMMA HoldersStep ==
    ASSUME NEW c, NEW d, NEW s \in Seqs, NEW t, Follows(c, d, s, t), NEW b
    PROVE  Cardinality(HoldersIn(d, b)) =
             IF b \in ToSet(t)
               THEN IF b \in ToSet(c.held[s]) THEN Cardinality(HoldersIn(c, b))
                                              ELSE Cardinality(HoldersIn(c, b)) + 1
               ELSE IF b \in ToSet(c.held[s]) THEN Cardinality(HoldersIn(c, b)) - 1
                                              ELSE Cardinality(HoldersIn(c, b))
<1> DEFINE H == HoldersIn(c, b)
<1>1. HoldersIn(d, b) = IF b \in ToSet(t) THEN H \cup {s} ELSE H \ {s}
    BY DEF HoldersIn, Follows
<1>2. s \in H <=> b \in ToSet(c.held[s])
    BY DEF HoldersIn
<1>3. IsFiniteSet(H)
    BY HoldersCount
<1> HIDE DEF H
<1>4. Cardinality(H \cup {s}) = IF s \in H THEN Cardinality(H) ELSE Cardinality(H) + 1
    BY <1>3, FS_AddElement
<1>5. Cardinality(H \ {s}) = IF s \in H THEN Cardinality(H) - 1 ELSE Cardinality(H)
    BY <1>3, FS_RemoveElement
<1> QED BY <1>1, <1>2, <1>4, <1>5 DEF H

\* A step that changes what one sequence has, and follows it in the pool, the row and
\* the order, leaves a sound cache.
LEMMA OneSequence ==
    ASSUME NEW c, Sound(c), NEW d \in KVCacheType, NEW s \in Seqs, NEW t \in Seq(Block),
           Follows(c, d, s, t),
           IsInjective(t), NullBlock \notin ToSet(t),
           QueueExact(d.pool), EntriesSound(d.pool), IsInjective(d.lru),
           \A r \in Seqs \ {s} : \A b \in ToSet(t) \cap ToSet(c.held[r]) : d.pool.hash[b] # NoHash,
           \A r \in Seqs \ {s} : \A b \in ToSet(c.held[r]) :
               c.pool.hash[b] # NoHash => d.pool.hash[b] # NoHash,
           ~d.pool.caching => \A b \in Block : d.pool.hash[b] = NoHash,
           FreeZeroed(d)
    PROVE  Sound(d)
<1>1. \A r \in Seqs : d.held[r] = IF r = s THEN t ELSE c.held[r]
    BY DEF Follows
<1>2. Counted(d)
    <2> SUFFICES ASSUME NEW b \in Block
                 PROVE  d.pool.ref[b] = Cardinality(HoldersIn(d, b)) + (IF b = d.dummy THEN 1 ELSE 0)
        BY DEF Counted
    <2> DEFINE m == Cardinality(HoldersIn(c, b))
    <2>1. c.pool.ref[b] = m + (IF b = c.dummy THEN 1 ELSE 0)
        BY DEF Sound, Counted
    <2>2. Cardinality(HoldersIn(d, b)) =
             IF b \in ToSet(t) THEN IF b \in ToSet(c.held[s]) THEN m ELSE m + 1
                               ELSE IF b \in ToSet(c.held[s]) THEN m - 1 ELSE m
        BY HoldersStep
    <2>3. d.pool.ref[b] =
             IF b \in ToSet(t) THEN IF b \in ToSet(c.held[s]) THEN c.pool.ref[b] ELSE c.pool.ref[b] + 1
                               ELSE IF b \in ToSet(c.held[s]) THEN c.pool.ref[b] - 1 ELSE c.pool.ref[b]
        BY DEF Follows
    <2>4. m \in Nat /\ d.dummy = c.dummy
        BY HoldersCount DEF Follows
    <2> HIDE DEF m
    <2> QED BY <2>1, <2>2, <2>3, <2>4
<1>3. Listed(d)
    BY <1>1 DEF Sound, Listed
<1>4. Tabled(d)
    <2>1. \A r \in Seqs, i \in BlockIx :
            d.table[r][i] = IF r # s THEN c.table[r][i]
                            ELSE IF i < Len(t) THEN t[i + 1] ELSE NoBlock
        BY DEF Follows
    <2> QED BY <1>1, <2>1 DEF Sound, Tabled
<1>5. Ordered(d)
    <2>1. ToSet(c.lru) = {r \in Seqs : c.held[r] # <<>>}
        BY DEF Sound, Ordered
    <2>2. ToSet(d.lru) = IF t = <<>> THEN ToSet(c.lru) \ {s} ELSE ToSet(c.lru) \cup {s}
        BY DEF Follows
    <2>3. ToSet(d.lru) = {r \in Seqs : d.held[r] # <<>>}
        BY <1>1, <2>1, <2>2
    <2> QED BY <2>3 DEF Ordered
<1>6. SharedHashed(d)
    <2> SUFFICES ASSUME NEW r \in Seqs, NEW q \in Seqs, NEW b \in ToSet(d.held[r]) \cap ToSet(d.held[q]), r # q
                 PROVE  d.pool.hash[b] # NoHash
        BY DEF SharedHashed
    <2>1. CASE r = s
        BY <1>1, <2>1
    <2>2. CASE q = s
        BY <1>1, <2>2
    <2>3. CASE r # s /\ q # s
        <3>1. b \in ToSet(c.held[r]) \cap ToSet(c.held[q])
            BY <1>1, <2>3
        <3>2. c.pool.hash[b] # NoHash
            BY <3>1 DEF Sound, SharedHashed
        <3> QED BY <2>3, <3>1, <3>2
    <2> QED BY <2>1, <2>2, <2>3
<1> QED BY <1>2, <1>3, <1>4, <1>5, <1>6 DEF Sound

-----------------------------------------------------------------------------
(* free_sequence and eviction.                                              *)

\* What free_sequence changes (kv_cache.py:498-524).
LEMMA FreeSequenceFields ==
    ASSUME NEW c \in KVCacheType, NEW s \in Seqs
    PROVE  LET d == FreeSequence(c, s) IN
           /\ d.pool = FreeBlocks(c.pool, Reverse(c.held[s]))
           /\ d.held = [c.held EXCEPT ![s] = <<>>]
           /\ d.table = [c.table EXCEPT ![s] = [i \in BlockIx |-> IF i < Len(c.held[s]) THEN NoBlock ELSE @[i]]]
           /\ d.len = [c.len EXCEPT ![s] = 0]
           /\ d.dirty = c.dirty \cup ToSet(c.held[s])
           /\ d.lru = Without(c.lru, s)
           /\ d.content = c.content /\ d.dummy = c.dummy
           /\ DOMAIN d = DOMAIN c
BY DEF FreeSequence, KVCacheType

\* free_sequence of s: nobody else loses a block, and no block its content or
\* its hash (kv_cache.py:498-524).
Freed(c, d, S) ==
    /\ \A r \in Seqs : d.held[r] = IF r \in S THEN <<>> ELSE c.held[r]
    /\ d.content = c.content /\ d.dummy = c.dummy
    /\ d.pool.hash = c.pool.hash /\ d.pool.map = c.pool.map /\ d.pool.caching = c.pool.caching

\* free_sequence gives back what s has, and nothing else (kv_cache.py:498-524).
LEMMA FreeSequenceSound ==
    ASSUME NEW c, Sound(c), NEW s \in Seqs
    PROVE  Sound(FreeSequence(c, s)) /\ Freed(c, FreeSequence(c, s), {s})
<1> DEFINE d  == FreeSequence(c, s)
           bs == Reverse(c.held[s])
<1>1. c \in KVCacheType
    BY DEF Sound
<1>2. /\ d.pool = FreeBlocks(c.pool, bs)
      /\ d.held = [c.held EXCEPT ![s] = <<>>]
      /\ d.table = [c.table EXCEPT ![s] = [i \in BlockIx |-> IF i < Len(c.held[s]) THEN NoBlock ELSE @[i]]]
      /\ d.len = [c.len EXCEPT ![s] = 0]
      /\ d.dirty = c.dirty \cup ToSet(c.held[s])
      /\ d.lru = Without(c.lru, s)
      /\ d.content = c.content /\ d.dummy = c.dummy
    BY <1>1, FreeSequenceFields
<1> HIDE DEF d
<1>3. /\ c.pool \in Pool /\ c.held \in [Seqs -> Seq(Block)] /\ c.lru \in Seq(Seqs)
      /\ c.table \in [Seqs -> [BlockIx -> Block \cup {NoBlock}]]
      /\ c.len \in [Seqs -> Nat] /\ c.dirty \subseteq Block
    BY <1>1, Fields
<1>4. /\ bs \in Seq(Block) /\ ToSet(bs) = ToSet(c.held[s]) /\ IsInjective(bs)
      /\ \A b \in ToSet(bs) : c.pool.ref[b] > 0
    BY <1>3, ReverseProperties, Referenced DEF Sound, Listed
<1> HIDE DEF bs
<1>5. /\ d.pool \in Pool
      /\ d.pool.ref = [b \in Block |-> IF b \in ToSet(bs) THEN c.pool.ref[b] - 1 ELSE c.pool.ref[b]]
      /\ QueueExact(d.pool) /\ EntriesSound(d.pool)
    <2>1. QueueExact(c.pool) /\ EntriesSound(c.pool)
        BY DEF Sound
    <2> DEFINE p == c.pool
    <2>2. p \in Pool /\ QueueExact(p) /\ EntriesSound(p) /\ \A b \in ToSet(bs) : p.ref[b] > 0
        BY <1>3, <1>4, <2>1
    <2> HIDE DEF p
    <2>3. /\ FreeBlocks(p, bs) \in Pool
          /\ FreeBlocks(p, bs).ref = [b \in Block |-> IF b \in ToSet(bs) THEN p.ref[b] - 1 ELSE p.ref[b]]
          /\ QueueExact(FreeBlocks(p, bs)) /\ EntriesSound(FreeBlocks(p, bs))
        BY ONLY <1>4, <2>2, FreeBlocksSound
    <2> QED BY <1>2, <2>3 DEF p
<1>6. /\ d.pool.hash = c.pool.hash /\ d.pool.map = c.pool.map /\ d.pool.caching = c.pool.caching
    BY <1>2, <1>3 DEF FreeBlocks, Pool
<1>7. d.lru \in Seq(Seqs) /\ ToSet(d.lru) = ToSet(c.lru) \ {s} /\ IsInjective(d.lru)
    BY <1>2, <1>3, WithoutIs DEF Sound, Ordered
<1>8. d \in KVCacheType
    <2>1. d.held \in [Seqs -> Seq(Block)]
        BY <1>2, <1>3, EmptyIs
    <2>2. d.table \in [Seqs -> [BlockIx -> Block \cup {NoBlock}]]
        BY <1>2, <1>3
    <2>3. d.dirty \subseteq Block
        BY <1>2, <1>3, Referenced
    <2>4. d.len \in [Seqs -> Nat]
        BY <1>2, <1>3
    <2>5. /\ d = [c EXCEPT !.pool = d.pool, !.held = d.held, !.table = d.table, !.len = d.len,
                           !.dirty = d.dirty, !.lru = d.lru]
        BY <1>1, <1>2 DEF d, bs, FreeSequence, KVCacheType
    <2> QED BY <1>1, <1>5, <1>7, <2>1, <2>2, <2>3, <2>4, <2>5 DEF KVCacheType
<1>9. Freed(c, d, {s})
    BY <1>2, <1>3, <1>6 DEF Freed
<1>10. FreeZeroed(d)
    <2> SUFFICES ASSUME NEW b \in ToSet(d.pool.free) PROVE b \in d.dirty \/ d.content[b] = ZeroBlock
        BY DEF FreeZeroed
    <2>1. b \in Block /\ b # NullBlock /\ d.pool.ref[b] = 0
        BY <1>5 DEF QueueExact
    <2>2. CASE b \in ToSet(c.held[s])
        BY <1>2, <2>2
    <2>3. CASE b \notin ToSet(c.held[s])
        <3>1. c.pool.ref[b] = 0
            BY <1>4, <1>5, <2>1, <2>3
        <3>2. b \in ToSet(c.pool.free)
            BY <2>1, <3>1 DEF Sound, QueueExact
        <3> QED BY <1>2, <3>2 DEF Sound, FreeZeroed
    <2> QED BY <2>2, <2>3
<1>11. Follows(c, d, s, <<>>)
    <2>1. \A r \in Seqs : d.held[r] = IF r = s THEN <<>> ELSE c.held[r]
        BY <1>2, <1>3
    <2>2. \A b \in Block : d.pool.ref[b] = IF b \in ToSet(c.held[s]) THEN c.pool.ref[b] - 1 ELSE c.pool.ref[b]
        BY <1>4, <1>5
    <2>3. ASSUME NEW r \in Seqs, NEW i \in BlockIx
          PROVE  d.table[r][i] = IF r # s THEN c.table[r][i] ELSE NoBlock
        <3>1. c.table[s][i] = IF i < Len(c.held[s]) THEN c.held[s][i + 1] ELSE NoBlock
            BY DEF Sound, Tabled
        <3>2. d.table[r] = IF r # s THEN c.table[r]
                           ELSE [j \in BlockIx |-> IF j < Len(c.held[s]) THEN NoBlock ELSE c.table[s][j]]
            BY <1>2, <1>3
        <3> QED BY <3>1, <3>2
    <2> QED BY <1>2, <1>7, <2>1, <2>2, <2>3, EmptyIs DEF Follows, BlockIx
<1>12. Sound(d)
    <2>1. \A r \in Seqs : \A b \in ToSet(c.held[r]) : c.pool.hash[b] # NoHash => d.pool.hash[b] # NoHash
        BY <1>6
    <2>2. ~d.pool.caching => \A b \in Block : d.pool.hash[b] = NoHash
        BY <1>6 DEF Sound, SharedHashed
    <2> QED BY <1>5, <1>7, <1>8, <1>10, <1>11, <2>1, <2>2, OneSequence, EmptyIs
<1> QED BY <1>9, <1>12 DEF d

\* The cache after the first i victims.
LEMMA EvictingTurns ==
    ASSUME NEW c, NEW n \in Nat, Len(c.lru) = n
    PROVE  /\ AfterEvicting(c)[0] = c
           /\ \A i \in 1 .. n : AfterEvicting(c)[i] = FreeSequence(AfterEvicting(c)[i - 1], c.lru[i])
<1> DEFINE Turn(x, i) == FreeSequence(x, c.lru[i])
           Run(a, m) == a = [i \in 0 .. m |-> IF i = 0 THEN c ELSE Turn(a[i - 1], i)]
           T == {m \in Nat : \E a : Run(a, m)}
<1>0. AfterEvicting(c) = (CHOOSE a : Run(a, n))
    BY DEF AfterEvicting
<1> HIDE DEF Turn
<1>1. 0 \in T
    <2> DEFINE a == [i \in 0 .. 0 |-> c]
    <2>1. Run(a, 0)
        OBVIOUS
    <2> QED BY <2>1
<1>2. ASSUME NEW m \in Nat, m \in T PROVE m + 1 \in T
    <2>1. PICK a : Run(a, m)
        BY <1>2
    <2> DEFINE b == [i \in 0 .. m + 1 |-> IF i <= m THEN a[i] ELSE Turn(a[m], i)]
    <2>2. ASSUME NEW i \in 0 .. m + 1 PROVE b[i] = IF i = 0 THEN c ELSE Turn(b[i - 1], i)
        <3>1. CASE i = 0
            BY <3>1, <2>1
        <3>2. CASE i # 0 /\ i <= m
            BY <3>2, <2>1
        <3>3. CASE i = m + 1
            BY <3>3
        <3> QED BY <3>1, <3>2, <3>3
    <2>3. Run(b, m + 1)
        BY <2>2
    <2> HIDE DEF b, Run
    <2> QED BY <2>3
<1> HIDE DEF T
<1>3. n \in T
    BY <1>1, <1>2, Induction
<1>4. \E a : Run(a, n)
    BY <1>3 DEF T
<1> DEFINE run == CHOOSE a : Run(a, n)
<1>5. Run(run, n)
    <2> HIDE DEF Run
    <2> QED BY <1>4
<1> HIDE DEF run
<1>6. run[0] = c /\ \A i \in 1 .. n : run[i] = Turn(run[i - 1], i)
    BY <1>5
<1>7. AfterEvicting(c) = run
    BY <1>0 DEF run
<1> QED BY <1>6, <1>7 DEF Turn

\* _evict_lru takes the blocks of the first k sequences of the LRU order, and
\* nothing else changes (kv_cache.py:213-238).
LEMMA EvictingSound ==
    ASSUME NEW c, Sound(c), NEW k \in 0 .. Len(c.lru)
    PROVE  /\ Sound(AfterEvicting(c)[k])
           /\ Freed(c, AfterEvicting(c)[k], {c.lru[i] : i \in 1 .. k})
<1> DEFINE n == Len(c.lru)
           a == AfterEvicting(c)
           S(i) == {c.lru[j] : j \in 1 .. i}
           T == {i \in 0 .. n : Sound(a[i]) /\ Freed(c, a[i], S(i))}
<1>1. n \in Nat /\ \A i \in 1 .. n : c.lru[i] \in Seqs
    <2>1. c.lru \in Seq(Seqs)
        BY Fields DEF Sound
    <2> QED BY <2>1, ToSetProperties
<1>2. a[0] = c /\ \A i \in 1 .. n : a[i] = FreeSequence(a[i - 1], c.lru[i])
    BY <1>1, EvictingTurns
<1> HIDE DEF a, n
<1>3. 0 \in T
    <2>1. S(0) = {}
        OBVIOUS
    <2>2. Freed(c, c, {})
        BY DEF Freed
    <2> HIDE DEF S
    <2>3. a[0] = c
        BY <1>2
    <2>4. 0 \in 0 .. n
        BY <1>1
    <2>5. Sound(a[0])
        BY <2>3
    <2>6. Freed(c, a[0], S(0))
        BY <2>1, <2>2, <2>3
    <2> QED BY <2>4, <2>5, <2>6
<1>4. ASSUME NEW i \in 1 .. n, i - 1 \in T PROVE i \in T
    <2>1. S(i) = S(i - 1) \cup {c.lru[i]}
        <3>1. \A j \in 1 .. i : j \in 1 .. i - 1 \/ j = i
            BY <1>1
        <3>2. \A j \in 1 .. i - 1 : j \in 1 .. i
            BY <1>1
        <3> QED BY <3>1, <3>2
    <2>2. Sound(a[i - 1]) /\ Freed(c, a[i - 1], S(i - 1)) /\ c.lru[i] \in Seqs
        BY <1>1, <1>4
    <2>3. Sound(a[i]) /\ Freed(a[i - 1], a[i], {c.lru[i]})
        BY <1>2, <2>2, FreeSequenceSound
    <2> HIDE DEF S
    <2>4. Freed(c, a[i], S(i))
        BY <2>1, <2>2, <2>3 DEF Freed
    <2> QED BY <1>1, <2>3, <2>4
<1> HIDE DEF T
<1>5. k \in T
    BY <1>1, <1>3, <1>4, LoopInduction DEF n
<1> QED BY <1>5 DEF T, a

-----------------------------------------------------------------------------
(* allocate_blocks.                                                         *)

\* The least of a set of naturals.
LEMMA MinIs ==
    ASSUME NEW T \in SUBSET Nat, T # {}
    PROVE  Min(T) \in T /\ \A x \in T : Min(T) <= x
<1>1. \E m \in T : \A x \in T : m <= x
    BY Least
<1> QED BY <1>1 DEF Min

\* The sequences eviction may get to are neither pinned nor the one it is for.
LEMMA ReachIs ==
    ASSUME NEW c \in KVCacheType, NEW keep
    PROVE  /\ Reach(c, keep) \in 0 .. Len(c.lru)
           /\ \A i \in 1 .. Reach(c, keep) : i \in DOMAIN c.lru /\ c.lru[i] \notin keep
<1> DEFINE n    == Len(c.lru)
           kept == {k \in DOMAIN c.lru : c.lru[k] \in keep}
<1>1. n \in Nat /\ DOMAIN c.lru = 1 .. n
    BY Fields, ToSetProperties
<1>2. kept \in SUBSET Nat /\ kept \subseteq 1 .. n
    BY <1>1
<1>3. kept # {} => Min(kept) \in kept /\ \A x \in kept : Min(kept) <= x
    <2> HIDE DEF kept
    <2> QED BY <1>2, MinIs
<1>4. Reach(c, keep) = IF kept = {} THEN n ELSE Min(kept) - 1
    BY DEF Reach
<1> HIDE DEF kept, n
<1>5. Reach(c, keep) \in 0 .. n
    <2>1. CASE kept = {}
        BY <1>1, <1>4, <2>1
    <2>2. CASE kept # {}
        <3>1. Min(kept) \in 1 .. n
            BY <1>2, <1>3, <2>2
        <3> QED BY <1>1, <1>4, <2>2, <3>1
    <2> QED BY <2>1, <2>2
<1>6. ASSUME NEW i \in 1 .. Reach(c, keep) PROVE i \notin kept
    <2>1. CASE kept # {}
        <3>1. Min(kept) \in 1 .. n /\ \A x \in kept : Min(kept) <= x
            BY <1>2, <1>3, <2>1
        <3>2. i < Min(kept) /\ i \in Nat
            BY <1>1, <1>4, <2>1, <3>1
        <3>3. i \in kept => Min(kept) <= i
            BY <3>1
        <3> QED BY <1>1, <3>1, <3>2, <3>3
    <2> QED BY <2>1
<1>7. \A i \in 1 .. Reach(c, keep) : i \in 1 .. n
    BY <1>1, <1>5
<1> QED BY <1>1, <1>5, <1>6, <1>7 DEF kept, n

\* The cache after as much eviction as one block needs.
Room(c) == AfterEvicting(c)[Min(Victims(c, 1))]

\* When an allocation succeeds, _evict_lru has taken the sequences V, none of
\* them kept, and a block is free.
LEMMA EvictionIs ==
    ASSUME NEW c, Sound(c), NEW s \in Seqs, NEW pinned,
           AllocationOutcome(c, s, 1, pinned) = "ok"
    PROVE  \E V \in SUBSET (ToSet(c.lru) \ (pinned \cup {s})) :
             Sound(Room(c)) /\ Freed(c, Room(c), V) /\ NumFree(Room(c).pool) >= 1
<1> DEFINE keep == pinned \cup {s}
           k    == Min(Victims(c, 1))
           W    == {c.lru[i] : i \in 1 .. k}
<1>1. PICK m \in Victims(c, 1) : m <= Reach(c, keep)
    BY DEF AllocationOutcome
<1>2. Len(c.lru) \in Nat /\ c \in KVCacheType
    BY Fields, ToSetProperties DEF Sound
<1>3. Victims(c, 1) \in SUBSET Nat
    BY <1>2 DEF Victims
<1>4. k \in Victims(c, 1) /\ k <= m
    BY <1>1, <1>3, MinIs
<1>5. Reach(c, keep) \in 0 .. Len(c.lru) /\ m \in Nat
    BY <1>1, <1>2, <1>3, ReachIs
<1>6. /\ k \in 0 .. Len(c.lru) /\ k <= Reach(c, keep)
      /\ NumFree(AfterEvicting(c)[k].pool) >= 1
    <2>1. k \in 0 .. Len(c.lru) /\ NumFree(AfterEvicting(c)[k].pool) >= 1
        BY <1>4 DEF Victims
    <2> HIDE DEF k, keep
    <2> QED BY <1>1, <1>2, <1>4, <1>5, <2>1
<1>0. Room(c) = AfterEvicting(c)[k]
    BY DEF Room
<1> HIDE DEF k
<1>7. Sound(AfterEvicting(c)[k]) /\ Freed(c, AfterEvicting(c)[k], W)
    BY <1>6, EvictingSound
<1>8. W \in SUBSET (ToSet(c.lru) \ keep)
    <2>1. ASSUME NEW i \in 1 .. k PROVE i \in DOMAIN c.lru /\ c.lru[i] \notin keep
        <3>1. i \in 1 .. Reach(c, keep)
            BY <1>2, <1>5, <1>6
        <3> HIDE DEF keep
        <3> QED BY <1>2, <3>1, ReachIs
    <2> QED BY <2>1 DEF ToSet
<1> HIDE DEF W
<1> QED BY <1>0, <1>6, <1>7, <1>8

\* What allocate_blocks makes of the cache c once it has the block f.
Handed(c, s, f) ==
    [ Zeroed(c, ToSet(<<f>>)) EXCEPT
        !.pool     = GetNewBlocks(c.pool, 1),
        !.held[s]  = @ \o <<f>>,
        !.table[s] = [i \in BlockIx |-> IF i \in Len(c.held[s]) .. Len(c.held[s]) + 1 - 1
                                          THEN <<f>>[i - Len(c.held[s]) + 1] ELSE @[i]] ]

\* What it changes.
Granted(c, d, s, f) ==
    LET t == Append(c.held[s], f) IN
    /\ d \in KVCacheType
    /\ d.pool = GetNewBlocks(c.pool, 1)
    /\ \A r \in Seqs : d.held[r] = IF r = s THEN t ELSE c.held[r]
    /\ \A r \in Seqs, i \in BlockIx :
          d.table[r][i] = IF r # s THEN c.table[r][i] ELSE IF i < Len(t) THEN t[i + 1] ELSE NoBlock
    /\ \A b \in Block : d.content[b] = IF b = f /\ f \in c.dirty THEN ZeroBlock ELSE c.content[b]
    /\ d.dirty = c.dirty \ {f}
    /\ d.len = c.len /\ d.dummy = c.dummy /\ d.lru = c.lru

\* The fields after block f was handed to s (kv_cache.py:268-287).
LEMMA HandedFields ==
    ASSUME NEW c \in KVCacheType, NEW s \in Seqs, NEW f \in Block, Tabled(c),
           GetNewBlocks(c.pool, 1) \in Pool
    PROVE  Granted(c, Handed(c, s, f), s, f)
<1> DEFINE z     == Zeroed(c, ToSet(<<f>>))
           pool  == GetNewBlocks(c.pool, 1)
           n     == Len(c.held[s])
           t     == Append(c.held[s], f)
           row   == [i \in BlockIx |-> IF i \in n .. n + 1 - 1
                                         THEN <<f>>[i - n + 1] ELSE c.table[s][i]]
           z2    == [b \in Block |-> IF b \in ToSet(<<f>>) \cap c.dirty THEN ZeroBlock ELSE c.content[b]]
           held  == [c.held EXCEPT ![s] = @ \o <<f>>]
           table == [c.table EXCEPT ![s] = row]
           d     == Handed(c, s, f)
<1>1. z = [c EXCEPT !.content = z2, !.dirty = c.dirty \ ToSet(<<f>>)]
    BY DEF Zeroed, KVCacheType
<1>2. d = [z EXCEPT !.pool = pool, !.held[s] = @ \o <<f>>, !.table[s] =
             [i \in BlockIx |-> IF i \in n .. n + 1 - 1 THEN <<f>>[i - n + 1] ELSE @[i]]]
    BY DEF Handed
<1> HIDE DEF z, pool, z2
<1>3. z.held = c.held /\ z.table = c.table
    BY <1>1 DEF KVCacheType
<1>4. d = [z EXCEPT !.pool = pool, !.held = held, !.table = table]
    BY <1>2, <1>3
<1>5. d = [c EXCEPT !.content = z2, !.dirty = c.dirty \ ToSet(<<f>>),
                    !.pool = pool, !.held = held, !.table = table]
    <2> HIDE DEF row, held, table, d
    <2> QED BY <1>1, <1>4
<1> HIDE DEF row, held, table, d, t, n
<1>6. /\ d.pool = pool /\ d.held = held /\ d.table = table /\ d.content = z2
      /\ d.dirty = c.dirty \ ToSet(<<f>>)
      /\ d.len = c.len /\ d.dummy = c.dummy /\ d.lru = c.lru
    BY <1>5 DEF KVCacheType
<1>7. /\ c.held \in [Seqs -> Seq(Block)] /\ c.table \in [Seqs -> [BlockIx -> Block \cup {NoBlock}]]
      /\ c.content \in [Block -> [Offset -> Values \cup {Zero}]] /\ c.dirty \subseteq Block
    BY Fields
<1>8. /\ t \in Seq(Block) /\ c.held[s] \o <<f>> = t /\ Len(t) = n + 1 /\ n \in Nat
      /\ \A i \in 1 .. n + 1 : t[i] = IF i = n + 1 THEN f ELSE c.held[s][i]
    BY <1>7 DEF t, n
<1>9. \A r \in Seqs : held[r] = IF r = s THEN t ELSE c.held[r]
    BY <1>7, <1>8 DEF held
<1>10. held \in [Seqs -> Seq(Block)]
    BY <1>7, <1>8 DEF held
<1>11. \A i \in BlockIx : row[i] = IF i < Len(t) THEN t[i + 1] ELSE NoBlock
    <2> SUFFICES ASSUME NEW i \in BlockIx
                 PROVE  row[i] = IF i < Len(t) THEN t[i + 1] ELSE NoBlock
        OBVIOUS
    <2>1. c.table[s][i] = IF i < n THEN c.held[s][i + 1] ELSE NoBlock
        BY DEF Tabled, n
    <2>2. i \in Nat
        BY DEF BlockIx
    <2>3. row[i] = IF i \in n .. n + 1 - 1 THEN <<f>>[i - n + 1] ELSE c.table[s][i]
        BY DEF row
    <2>4. CASE i < n
        <3>1. row[i] = c.held[s][i + 1]
            BY <1>8, <2>1, <2>2, <2>3, <2>4
        <3>2. i + 1 \in 1 .. n + 1 /\ i + 1 # n + 1 /\ i < Len(t)
            BY <1>8, <2>2, <2>4
        <3> QED BY <1>8, <3>1, <3>2
    <2>5. CASE i = n
        <3>1. row[i] = f
            BY <1>8, <2>3, <2>5
        <3> QED BY <1>8, <2>5, <3>1
    <2>6. CASE i > n
        BY <1>8, <2>1, <2>2, <2>3, <2>6
    <2> QED BY <1>8, <2>2, <2>4, <2>5, <2>6
<1>12. row \in [BlockIx -> Block \cup {NoBlock}]
    <2>1. \A i \in BlockIx : row[i] \in Block \cup {NoBlock}
        <3>1. \A i \in BlockIx : i \in Nat
            BY DEF BlockIx
        <3>2. \A i \in Nat : i < Len(t) => t[i + 1] \in Block
            BY <1>8, At
        <3> QED BY <1>11, <3>1, <3>2
    <2>2. row = [i \in BlockIx |-> row[i]]
        BY DEF row
    <2> QED BY ONLY <2>1, <2>2
<1>13. /\ \A r \in Seqs : table[r] = IF r = s THEN row ELSE c.table[r]
       /\ table \in [Seqs -> [BlockIx -> Block \cup {NoBlock}]]
    BY <1>7, <1>12 DEF table
<1>14. /\ \A b \in Block : z2[b] = IF b = f /\ f \in c.dirty THEN ZeroBlock ELSE c.content[b]
       /\ z2 \in [Block -> [Offset -> Values \cup {Zero}]]
    <2>1. ToSet(<<f>>) = {f}
        BY DEF ToSet
    <2>2. ZeroBlock \in [Offset -> Values \cup {Zero}]
        BY DEF ZeroBlock
    <2>3. z2 = [b \in Block |-> IF b \in {f} \cap c.dirty THEN ZeroBlock ELSE c.content[b]]
        BY <2>1 DEF z2
    <2> QED BY <1>7, <2>2, <2>3
<1>15. d.dirty = c.dirty \ {f} /\ d.dirty \subseteq Block
    BY <1>6, <1>7 DEF ToSet
<1>16. d \in KVCacheType
    <2>1. d = [c EXCEPT !.content = d.content, !.dirty = d.dirty, !.pool = d.pool,
                        !.held = d.held, !.table = d.table]
        BY <1>5, <1>6
    <2>2. pool \in Pool
        BY DEF pool
    <2> QED BY <1>6, <1>10, <1>13, <1>14, <1>15, <2>1, <2>2 DEF KVCacheType
<1>17. \A r \in Seqs, i \in BlockIx :
          d.table[r][i] = IF r # s THEN c.table[r][i] ELSE IF i < Len(t) THEN t[i + 1] ELSE NoBlock
    BY <1>6, <1>11, <1>13
<1> QED BY <1>6, <1>9, <1>14, <1>15, <1>16, <1>17 DEF d, t, pool, Granted

\* The first free block f goes to s, zeroed; the rest stays as it is.
Allocated(c, d, s, f) ==
    /\ f \in Block /\ f # NullBlock /\ \A r \in Seqs : f \notin ToSet(c.held[r])
    /\ \A r \in Seqs : d.held[r] = IF r = s THEN Append(c.held[s], f) ELSE c.held[r]
    /\ \A b \in Block : d.content[b] = IF b = f THEN ZeroBlock ELSE c.content[b]
    /\ \A b \in Block : d.pool.hash[b] = IF b = f THEN NoHash ELSE c.pool.hash[b]
    /\ d.pool.ref[f] = 1
    /\ d.pool.caching = c.pool.caching

\* _touch changes only the order of last accesses.
LEMMA TouchedFields ==
    ASSUME NEW c \in KVCacheType, NEW s \in Seqs
    PROVE  LET d == Touched(c, s) IN
           /\ d = [c EXCEPT !.lru = d.lru]
           /\ d.pool = c.pool /\ d.held = c.held /\ d.table = c.table /\ d.len = c.len
           /\ d.content = c.content /\ d.dirty = c.dirty /\ d.dummy = c.dummy
           /\ d.lru = IF c.held[s] = <<>> THEN c.lru ELSE Append(Without(c.lru, s), s)
BY DEF Touched, KVCacheType

\* _touch moves s to the end of the order.
LEMMA TouchedLru ==
    ASSUME NEW c \in KVCacheType, NEW s \in Seqs, IsInjective(c.lru), c.held[s] # <<>>
    PROVE  LET q == Append(Without(c.lru, s), s) IN
           q \in Seq(Seqs) /\ ToSet(q) = ToSet(c.lru) \cup {s} /\ IsInjective(q)
<1> DEFINE w == Without(c.lru, s)
<1>1. w \in Seq(Seqs) /\ ToSet(w) = ToSet(c.lru) \ {s} /\ IsInjective(w)
    BY Fields, WithoutIs
<1> HIDE DEF w
<1>2. Append(w, s) \in Seq(Seqs) /\ ToSet(Append(w, s)) = ToSet(w) \cup {s} /\ IsInjective(Append(w, s))
    BY <1>1, AppendedIs
<1> QED BY <1>1, <1>2 DEF w

\* _touch leaves a sound cache (kv_cache.py:195-211).
LEMMA TouchedSound ==
    ASSUME NEW c, Sound(c), NEW s \in Seqs
    PROVE  Sound(Touched(c, s))
<1> DEFINE d == Touched(c, s)
<1>1. CASE c.held[s] = <<>>
    BY <1>1 DEF Touched
<1>2. CASE c.held[s] # <<>>
    <2>1. c \in KVCacheType /\ Ordered(c)
        BY DEF Sound
    <2>2. /\ d = [c EXCEPT !.lru = d.lru]
          /\ d.pool = c.pool /\ d.held = c.held /\ d.table = c.table
          /\ d.content = c.content /\ d.dirty = c.dirty /\ d.dummy = c.dummy
          /\ d.lru = Append(Without(c.lru, s), s)
        BY <1>2, <2>1, TouchedFields
    <2> HIDE DEF d
    <2>3. d.lru \in Seq(Seqs) /\ ToSet(d.lru) = ToSet(c.lru) \cup {s} /\ IsInjective(d.lru)
        BY <1>2, <2>1, <2>2, TouchedLru DEF Ordered
    <2>4. d \in KVCacheType
        BY <2>1, <2>2, <2>3 DEF KVCacheType
    <2>5. Ordered(d)
        BY <1>2, <2>1, <2>2, <2>3 DEF Ordered
    <2>6. \A b : HoldersIn(d, b) = HoldersIn(c, b)
        BY <2>2 DEF HoldersIn
    <2>7. Counted(d)
        BY <2>2, <2>6 DEF Sound, Counted
    <2>8. Listed(d) /\ Tabled(d) /\ SharedHashed(d) /\ FreeZeroed(d)
        BY <2>2 DEF Sound, Listed, Tabled, SharedHashed, FreeZeroed
    <2>9. QueueExact(d.pool) /\ EntriesSound(d.pool)
        BY <2>2 DEF Sound
    <2> QED BY <2>4, <2>5, <2>7, <2>8, <2>9 DEF Sound, d
<1> QED BY <1>1, <1>2

\* The first free block goes to s, without a hash and zeroed (kv_cache.py:268-287).
LEMMA HandedSound ==
    ASSUME NEW c, Sound(c), NEW s \in Seqs, NumFree(c.pool) >= 1
    PROVE  LET f == c.pool.free[1]
               d == Touched(Handed(c, s, f), s)
           IN  Popped(c.pool, 1) = <<f>> /\ Sound(d) /\ Allocated(c, d, s, f)
<1> DEFINE f == c.pool.free[1]
           h == Handed(c, s, f)
           d == Touched(h, s)
           t == Append(c.held[s], f)
<1>1. /\ c \in KVCacheType /\ c.pool \in Pool /\ c.pool.free \in Seq(Block) /\ Len(c.pool.free) \in Nat
      /\ c.held \in [Seqs -> Seq(Block)] /\ c.table \in [Seqs -> [BlockIx -> Block \cup {NoBlock}]]
      /\ c.content \in [Block -> [Offset -> Values \cup {Zero}]] /\ c.dirty \subseteq Block
      /\ c.lru \in Seq(Seqs)
    BY Fields, PoolFields, ToSetProperties DEF Sound
<1>2. Popped(c.pool, 1) = <<f>>
    <2> DEFINE q == c.pool.free
    <2>1. q \in Seq(Block) /\ Len(q) \in Nat /\ Len(q) >= 1
        BY <1>1 DEF NumFree
    <2> HIDE DEF q
    <2>2. /\ SubSeq(q, 1, 1) \in Seq(Block) /\ Len(SubSeq(q, 1, 1)) = 1
          /\ SubSeq(q, 1, 1)[1] = q[1]
        BY <2>1
    <2>3. \A x \in Seq(Block) : Len(x) = 1 => x = <<x[1]>>
        OBVIOUS
    <2>4. SubSeq(q, 1, 1) = <<SubSeq(q, 1, 1)[1]>>
        BY <2>2, <2>3
    <2> QED BY <2>2, <2>4 DEF Popped, q
<1>3. f \in ToSet(c.pool.free)
    BY <1>1, ToSetProperties DEF NumFree
<1> HIDE DEF f
<1>4. /\ f \in Block /\ f # NullBlock /\ f # c.dummy /\ c.pool.ref[f] = 0
      /\ \A r \in Seqs : f \notin ToSet(c.held[r])
    BY <1>3, Referenced
<1>5. ToSet(<<f>>) = {f}
    BY DEF ToSet
<1> DEFINE g == GetNewBlocks(c.pool, 1)
<1> HIDE DEF g
<1>6. /\ g \in Pool /\ QueueExact(g) /\ EntriesSound(g)
      /\ \A b \in Block : g.ref[b] = IF b = f THEN 1 ELSE c.pool.ref[b]
      /\ \A b \in Block : g.hash[b] = IF c.pool.caching /\ b = f THEN NoHash ELSE c.pool.hash[b]
      /\ g.caching = c.pool.caching
    <2> DEFINE p == c.pool
    <2>1. p \in Pool /\ QueueExact(p) /\ EntriesSound(p) /\ 1 \in 0 .. NumFree(p)
        BY <1>1 DEF Sound, NumFree
    <2>2. ToSet(Popped(p, 1)) = {f}
        BY <1>2, <1>5
    <2>3. g = GetNewBlocks(p, 1)
        BY DEF g
    <2> HIDE DEF p
    <2>4. /\ g \in Pool /\ QueueExact(g) /\ EntriesSound(g)
          /\ g.ref = [b \in Block |-> IF b \in ToSet(Popped(p, 1)) THEN 1 ELSE p.ref[b]]
        BY ONLY <2>1, <2>3, GetNewBlocksSound
    <2>5. /\ g.hash = [b \in Block |-> IF p.caching /\ b \in ToSet(Popped(p, 1)) THEN NoHash ELSE p.hash[b]]
          /\ g.caching = p.caching
        BY ONLY <2>1, <2>3 DEF GetNewBlocks, Pool
    <2>6. p = c.pool
        BY DEF p
    <2> QED BY ONLY <2>2, <2>4, <2>5, <2>6
<1>7. /\ t \in Seq(Block) /\ ToSet(t) = ToSet(c.held[s]) \cup {f} /\ IsInjective(t)
      /\ c.held[s] \o <<f>> = t /\ Len(t) = Len(c.held[s]) + 1 /\ Len(c.held[s]) \in Nat
      /\ \A i \in 1 .. Len(t) : t[i] = IF i = Len(t) THEN f ELSE c.held[s][i]
    <2>1. c.held[s] \in Seq(Block) /\ IsInjective(c.held[s]) /\ f \notin ToSet(c.held[s])
        BY <1>1, <1>4 DEF Sound, Listed
    <2>2. t \in Seq(Block) /\ ToSet(t) = ToSet(c.held[s]) \cup {f} /\ IsInjective(t)
        BY <1>4, <2>1, AppendedIs
    <2> QED BY <1>4, <2>1, <2>2
<1>8. /\ h \in KVCacheType /\ h.pool = g
      /\ \A r \in Seqs : h.held[r] = IF r = s THEN t ELSE c.held[r]
      /\ \A r \in Seqs, i \in BlockIx :
            h.table[r][i] = IF r # s THEN c.table[r][i] ELSE IF i < Len(t) THEN t[i + 1] ELSE NoBlock
      /\ \A b \in Block : h.content[b] = IF b = f /\ f \in c.dirty THEN ZeroBlock ELSE c.content[b]
      /\ h.dirty = c.dirty \ {f}
      /\ h.len = c.len /\ h.dummy = c.dummy /\ h.lru = c.lru
    <2>1. Tabled(c) /\ GetNewBlocks(c.pool, 1) \in Pool
        BY <1>6 DEF Sound, g
    <2> HIDE DEF f
    <2>2. Granted(c, h, s, f)
        BY <1>1, <1>4, <2>1, HandedFields
    <2> HIDE DEF h
    <2> QED BY <2>2 DEF Granted, g
<1> HIDE DEF t, h, f
<1>9. t # <<>>
    BY <1>7, EmptyIs
<1>15. /\ d = [h EXCEPT !.lru = d.lru]
       /\ d.pool = h.pool /\ d.held = h.held /\ d.table = h.table /\ d.content = h.content
       /\ d.dirty = h.dirty /\ d.dummy = h.dummy
       /\ d.lru \in Seq(Seqs) /\ ToSet(d.lru) = ToSet(c.lru) \cup {s} /\ IsInjective(d.lru)
    <2>1. IsInjective(h.lru) /\ h.held[s] # <<>>
        BY <1>8, <1>8, <1>9 DEF Sound, Ordered
    <2>2. /\ d = [h EXCEPT !.lru = d.lru]
          /\ d.pool = h.pool /\ d.held = h.held /\ d.table = h.table /\ d.content = h.content
          /\ d.dirty = h.dirty /\ d.dummy = h.dummy
          /\ d.lru = Append(Without(h.lru, s), s)
        BY <1>8, <2>1, TouchedFields
    <2> HIDE DEF d
    <2>3. h.lru = c.lru
        BY <1>8
    <2>4. /\ Append(Without(h.lru, s), s) \in Seq(Seqs) /\ IsInjective(Append(Without(h.lru, s), s))
          /\ ToSet(Append(Without(h.lru, s), s)) = ToSet(h.lru) \cup {s}
        BY <1>8, <2>1, TouchedLru
    <2> QED BY <2>2, <2>3, <2>4
<1> HIDE DEF d
<1>16. d \in KVCacheType
    BY <1>8, <1>15 DEF KVCacheType
<1>17. /\ \A b \in Block : d.pool.ref[b] = IF b = f THEN 1 ELSE c.pool.ref[b]
       /\ QueueExact(d.pool) /\ EntriesSound(d.pool) /\ d.pool.caching = c.pool.caching
       /\ \A b \in Block : d.pool.hash[b] = IF c.pool.caching /\ b = f THEN NoHash ELSE c.pool.hash[b]
    BY <1>6, <1>8, <1>15
<1>18. \A b \in Block : d.pool.hash[b] = IF b = f THEN NoHash ELSE c.pool.hash[b]
    BY <1>4, <1>17 DEF Sound, SharedHashed
<1>19. \A b \in Block : d.content[b] = IF b = f THEN ZeroBlock ELSE c.content[b]
    <2>1. f \in c.dirty \/ c.content[f] = ZeroBlock
        BY <1>3 DEF Sound, FreeZeroed
    <2>2. \A b \in Block : d.content[b] = IF b \in {f} \cap c.dirty THEN ZeroBlock ELSE c.content[b]
        BY <1>5, <1>8, <1>15
    <2> QED BY <2>1, <2>2
<1>20. Allocated(c, d, s, f)
    BY <1>4, <1>8, <1>9, <1>15, <1>17, <1>18, <1>19 DEF Allocated, t
<1>21. Follows(c, d, s, t)
    <2>1. \A b \in Block : d.pool.ref[b] =
           IF b \in ToSet(t)
             THEN IF b \in ToSet(c.held[s]) THEN c.pool.ref[b] ELSE c.pool.ref[b] + 1
             ELSE IF b \in ToSet(c.held[s]) THEN c.pool.ref[b] - 1 ELSE c.pool.ref[b]
        BY <1>4, <1>7, <1>17
    <2>2. \A r \in Seqs : d.held[r] = IF r = s THEN t ELSE c.held[r]
        BY <1>8, <1>9, <1>15
    <2>3. \A r \in Seqs, i \in BlockIx : d.table[r][i] =
             IF r # s THEN c.table[r][i] ELSE IF i < Len(t) THEN t[i + 1] ELSE NoBlock
        BY <1>8, <1>15
    <2>4. d.dummy = c.dummy
        BY <1>8, <1>15
    <2> QED BY <1>8, <1>9, <1>15, <2>1, <2>2, <2>3, <2>4 DEF Follows
<1>22. FreeZeroed(d)
    <2> SUFFICES ASSUME NEW b \in ToSet(d.pool.free) PROVE b \in d.dirty \/ d.content[b] = ZeroBlock
        BY DEF FreeZeroed
    <2>1. b \in Block /\ b # NullBlock /\ d.pool.ref[b] = 0
        BY <1>17 DEF QueueExact
    <2>2. b # f /\ c.pool.ref[b] = 0
        BY <1>17, <2>1
    <2>3. b \in ToSet(c.pool.free)
        BY <2>1, <2>2 DEF Sound, QueueExact
    <2>4. b \in c.dirty \/ c.content[b] = ZeroBlock
        BY <2>3 DEF Sound, FreeZeroed
    <2>5. b \in c.dirty => b \in d.dirty
        BY <1>5, <1>8, <1>15, <2>2
    <2> QED BY <1>19, <2>1, <2>2, <2>4, <2>5
<1>23. Sound(d)
    <2>1. NullBlock \notin ToSet(t)
        BY <1>4, <1>7 DEF Sound, Listed
    <2>2. ASSUME NEW r \in Seqs \ {s}, NEW b \in ToSet(t) \cap ToSet(c.held[r]) PROVE d.pool.hash[b] # NoHash
        <3>1. b # f /\ b \in ToSet(c.held[s]) \cap ToSet(c.held[r])
            BY <1>4, <1>7, <2>2
        <3>2. b \in Block /\ c.pool.hash[b] # NoHash
            BY <3>1, Referenced DEF Sound, SharedHashed
        <3> QED BY <1>18, <3>1, <3>2
    <2>3. ASSUME NEW r \in Seqs \ {s}, NEW b \in ToSet(c.held[r]), c.pool.hash[b] # NoHash
          PROVE  d.pool.hash[b] # NoHash
        <3>1. b \in Block /\ b # f
            BY <1>4, Referenced
        <3> QED BY <1>18, <2>3, <3>1
    <2>4. ~d.pool.caching => \A b \in Block : d.pool.hash[b] = NoHash
        BY <1>17 DEF Sound, SharedHashed
    <2> QED BY <1>7, <1>15, <1>16, <1>17, <1>21, <1>22, <2>1, <2>2, <2>3, <2>4, OneSequence
<1> QED BY <1>2, <1>20, <1>23 DEF d, h, f

\* allocate_blocks(s, 1): the sequences V are evicted, and f goes to s.
Grown(c, d, s, V, f) ==
    /\ f \in Block /\ f # NullBlock /\ \A r \in Seqs \ V : f \notin ToSet(c.held[r])
    /\ \A r \in Seqs : d.held[r] = IF r = s THEN Append(c.held[s], f)
                                   ELSE IF r \in V THEN <<>> ELSE c.held[r]
    /\ \A b \in Block : d.content[b] = IF b = f THEN ZeroBlock ELSE c.content[b]
    /\ \A b \in Block : d.pool.hash[b] = IF b = f THEN NoHash ELSE c.pool.hash[b]
    /\ d.pool.ref[f] = 1
    /\ d.pool.caching = c.pool.caching

\* What allocate_blocks does when it returns (kv_cache.py:244-287).
LEMMA AllocateSound ==
    ASSUME NEW c, Sound(c), NEW s \in Seqs, NEW pinned,
           AllocationOutcome(c, s, 1, pinned) = "ok"
    PROVE  LET d == AllocateBlocks(c, s, 1) IN
           /\ Sound(d)
           /\ \E V \in SUBSET (ToSet(c.lru) \ (pinned \cup {s})), f \in Block : Grown(c, d, s, V, f)
<1> DEFINE d == AllocateBlocks(c, s, 1)
           e == Room(c)
           f == e.pool.free[1]
<1>1. PICK V \in SUBSET (ToSet(c.lru) \ (pinned \cup {s})) :
          Sound(e) /\ Freed(c, e, V) /\ NumFree(e.pool) >= 1
    BY EvictionIs
<1>2. d = Touched([ Zeroed(e, ToSet(Popped(e.pool, 1))) EXCEPT
                      !.pool     = GetNewBlocks(e.pool, 1),
                      !.held[s]  = @ \o Popped(e.pool, 1),
                      !.table[s] = [i \in BlockIx |-> IF i \in Len(e.held[s]) .. Len(e.held[s]) + 1 - 1
                                        THEN Popped(e.pool, 1)[i - Len(e.held[s]) + 1] ELSE @[i]] ], s)
    BY DEF AllocateBlocks, Room
<1> HIDE DEF e
<1>3. /\ Popped(e.pool, 1) = <<f>>
      /\ Sound(Touched(Handed(e, s, f), s))
      /\ Allocated(e, Touched(Handed(e, s, f), s), s, f)
    BY <1>1, HandedSound
<1>4. d = Touched(Handed(e, s, f), s)
    <2> HIDE DEF d, f
    <2> QED BY <1>2, <1>3 DEF Handed
<1> HIDE DEF d, f
<1>5. Sound(d) /\ Allocated(e, d, s, f)
    BY <1>3, <1>4
<1>6. s \notin V
    BY <1>1
<1>7. Grown(c, d, s, V, f)
    <2>1. f \in Block /\ f # NullBlock /\ d.pool.ref[f] = 1 /\ d.pool.caching = c.pool.caching
        BY <1>1, <1>5 DEF Allocated, Freed
    <2>2. \A r \in Seqs \ V : f \notin ToSet(c.held[r])
        BY <1>1, <1>5 DEF Allocated, Freed
    <2>3. \A r \in Seqs : d.held[r] = IF r = s THEN Append(c.held[s], f)
                                     ELSE IF r \in V THEN <<>> ELSE c.held[r]
        BY <1>1, <1>5, <1>6 DEF Allocated, Freed
    <2>4. \A b \in Block : d.content[b] = IF b = f THEN ZeroBlock ELSE c.content[b]
        BY <1>1, <1>5 DEF Allocated, Freed
    <2>5. \A b \in Block : d.pool.hash[b] = IF b = f THEN NoHash ELSE c.pool.hash[b]
        BY <1>1, <1>5 DEF Allocated, Freed
    <2> QED BY <2>1, <2>2, <2>3, <2>4, <2>5 DEF Grown
<1>8. f \in Block
    BY <1>7 DEF Grown
<1> QED BY <1>1, <1>5, <1>7, <1>8 DEF d

-----------------------------------------------------------------------------
(* Writes.                                                                  *)

\* A length that grows is a length.
LEMMA MaxOf ==
    ASSUME NEW m \in Nat, NEW n \in Nat
    PROVE  Max({m, n}) \in Nat
<1>1. \E x \in {m, n} : \A y \in {m, n} : x >= y
    BY m >= n \/ n >= m
<1>2. Max({m, n}) \in {m, n}
    BY <1>1 DEF Max
<1> QED BY <1>2

\* Writing K/V and lengths disturbs nothing, as long as no free block is written to.
LEMMA ContentSound ==
    ASSUME NEW c, Sound(c), NEW d \in KVCacheType,
           d.pool = c.pool, d.held = c.held, d.table = c.table, d.lru = c.lru,
           d.dirty = c.dirty, d.dummy = c.dummy,
           \A b \in ToSet(c.pool.free) : d.content[b] = c.content[b]
    PROVE  Sound(d)
<1>1. \A b : HoldersIn(d, b) = HoldersIn(c, b)
    BY DEF HoldersIn
<1>2. Counted(d)
    BY <1>1 DEF Sound, Counted
<1>3. Listed(d) /\ Tabled(d) /\ Ordered(d) /\ SharedHashed(d)
    BY DEF Sound, Listed, Tabled, Ordered, SharedHashed
<1>4. FreeZeroed(d)
    BY DEF Sound, FreeZeroed
<1>5. QueueExact(d.pool) /\ EntriesSound(d.pool)
    BY DEF Sound
<1> QED BY <1>2, <1>3, <1>4, <1>5 DEF Sound

\* One value goes to offset o of block b, and the length of s becomes n.
Put(c, s, b, o, v, n) == [c EXCEPT !.content[b][o] = v, !.len[s] = n]

\* A value is written into a block that somebody has.
LEMMA PutSound ==
    ASSUME NEW c, Sound(c), NEW s \in Seqs, NEW b \in Block, NEW o \in Offset,
           NEW v \in Values, NEW n \in Nat, b \notin ToSet(c.pool.free)
    PROVE  LET d == Put(c, s, b, o, v, n) IN
           /\ Sound(d) /\ d.pool = c.pool /\ d.held = c.held
           /\ \A x \in Block, y \in Offset :
                d.content[x][y] = IF x = b /\ y = o THEN v ELSE c.content[x][y]
<1> DEFINE d   == Put(c, s, b, o, v, n)
           con == [c.content EXCEPT ![b] = [@ EXCEPT ![o] = v]]
           len == [c.len EXCEPT ![s] = n]
<1>1. /\ c \in KVCacheType /\ c.content \in [Block -> [Offset -> Values \cup {Zero}]]
      /\ c.len \in [Seqs -> Nat]
    BY Fields DEF Sound
<1>2. d = [c EXCEPT !.content = con, !.len = len]
    BY <1>1 DEF Put, KVCacheType
<1>3. /\ con \in [Block -> [Offset -> Values \cup {Zero}]]
      /\ \A x \in Block : con[x] = IF x = b THEN [c.content[b] EXCEPT ![o] = v] ELSE c.content[x]
    BY <1>1
<1>4. \A x \in Block, y \in Offset : con[x][y] = IF x = b /\ y = o THEN v ELSE c.content[x][y]
    BY <1>1, <1>3
<1>5. len \in [Seqs -> Nat]
    BY <1>1
<1> HIDE DEF d, con, len
<1>6. /\ d \in KVCacheType /\ d.content = con
      /\ d.pool = c.pool /\ d.held = c.held /\ d.table = c.table /\ d.lru = c.lru
      /\ d.dirty = c.dirty /\ d.dummy = c.dummy
    BY <1>1, <1>2, <1>3, <1>5 DEF KVCacheType
<1>7. \A x \in ToSet(c.pool.free) : d.content[x] = c.content[x]
    BY <1>3, <1>6, Referenced
<1>8. Sound(d)
    BY <1>6, <1>7, ContentSound
<1> QED BY <1>4, <1>6, <1>8 DEF d

\* What _cow_if_shared makes of the cache once it has the block f.
CopiedTo(c, s, i, b, f) ==
    [ c EXCEPT !.pool = [GetNewBlocks(c.pool, 1) EXCEPT !.ref[c.held[s][i + 1]] = @ - 1],
               !.content[f]      = c.content[b],
               !.table[s][i]     = f,
               !.held[s][i + 1]  = f ]

\* f takes the place of block i of s, with its contents and without its hash.
Copied(c, d, s, i, f) ==
    /\ f \in Block /\ f # NullBlock /\ \A r \in Seqs : f \notin ToSet(c.held[r])
    /\ \A r \in Seqs : d.held[r] = IF r = s THEN [c.held[s] EXCEPT ![i + 1] = f] ELSE c.held[r]
    /\ \A b \in Block : d.content[b] = IF b = f THEN c.content[c.held[s][i + 1]] ELSE c.content[b]
    /\ \A b \in Block : d.pool.hash[b] = IF b = f THEN NoHash ELSE c.pool.hash[b]
    /\ d.pool.ref[f] = 1
    /\ d.pool.caching = c.pool.caching

\* A list whose element i + 1 is replaced by a new one.
LEMMA ReplacedIs ==
    ASSUME NEW S, NEW q \in Seq(S), NEW i \in Nat, i < Len(q), NEW f \in S,
           NEW t, t = [q EXCEPT ![i + 1] = f]
    PROVE  /\ t \in Seq(S) /\ Len(t) = Len(q) /\ DOMAIN t = 1 .. Len(q)
           /\ \A j \in 1 .. Len(q) : t[j] = IF j = i + 1 THEN f ELSE q[j]
<1>1. Len(q) \in Nat /\ DOMAIN q = 1 .. Len(q) /\ i + 1 \in 1 .. Len(q)
    BY ToSetProperties
<1>2. /\ t \in Seq(S) /\ Len(t) = Len(q)
      /\ \A j \in 1 .. Len(q) : t[j] = IF j = i + 1 THEN f ELSE q[j]
    BY <1>1, ExceptSeq
<1>3. DOMAIN t = 1 .. Len(q)
    BY <1>2, ToSetProperties
<1> QED BY <1>2, <1>3

\* One that was not there takes the place of the one it replaces.
LEMMA ReplacedApart ==
    ASSUME NEW S, NEW q \in Seq(S), NEW i \in Nat, i < Len(q), NEW f \in S,
           IsInjective(q), f \notin ToSet(q), NEW t \in Seq(S), Len(t) = Len(q),
           \A j \in 1 .. Len(q) : t[j] = IF j = i + 1 THEN f ELSE q[j]
    PROVE  IsInjective(t) /\ ToSet(t) = (ToSet(q) \ {q[i + 1]}) \cup {f}
<1>1. Len(q) \in Nat /\ DOMAIN q = 1 .. Len(q) /\ i + 1 \in 1 .. Len(q)
    BY ToSetProperties
<1>2. DOMAIN t = 1 .. Len(q) /\ \A j \in 1 .. Len(q) : t[j] = IF j = i + 1 THEN f ELSE q[j]
    BY <1>1, ToSetProperties
<1>3. \A j \in 1 .. Len(q) : q[j] # f /\ q[j] \in ToSet(q)
    BY <1>1 DEF ToSet
<1>4. \A j, k \in 1 .. Len(q) : q[j] = q[k] => j = k
    BY <1>1 DEF IsInjective
<1>5. IsInjective(t)
    BY <1>2, <1>3, <1>4 DEF IsInjective
<1>6. \A j \in 1 .. Len(q) : t[j] \in (ToSet(q) \ {q[i + 1]}) \cup {f}
    BY <1>1, <1>2, <1>3, <1>4
<1>7. \A j \in 1 .. Len(q) : q[j] # q[i + 1] => t[j] = q[j]
    BY <1>2
<1>8. t[i + 1] = f
    BY <1>1, <1>2
<1>9. ToSet(t) = {t[j] : j \in 1 .. Len(q)} /\ ToSet(q) = {q[j] : j \in 1 .. Len(q)}
    BY <1>1, <1>2 DEF ToSet
<1>10. ToSet(t) \subseteq (ToSet(q) \ {q[i + 1]}) \cup {f}
    BY <1>6, <1>9
<1>11. f \in ToSet(t)
    BY <1>1, <1>8, <1>9
<1>12. ASSUME NEW x \in ToSet(q) \ {q[i + 1]} PROVE x \in ToSet(t)
    <2>1. PICK j \in 1 .. Len(q) : x = q[j]
        BY <1>9
    <2>2. t[j] = x
        BY <1>7, <1>12, <2>1
    <2> QED BY <1>9, <2>2
<1> QED BY <1>5, <1>10, <1>11, <1>12

\* The pool of the copy (block_pool.py:197-217; kv_cache.py:688-691).
LEMMA CopyPool ==
    ASSUME NEW p \in Pool, QueueExact(p), EntriesSound(p), NumFree(p) >= 1,
           NEW old \in Block, p.ref[old] > 1
    PROVE  LET f == p.free[1]
               q == [GetNewBlocks(p, 1) EXCEPT !.ref[old] = @ - 1]
           IN  /\ f = Head(p.free) /\ f \in ToSet(p.free) /\ f \in Block /\ f # old
               /\ q \in Pool /\ QueueExact(q) /\ EntriesSound(q)
               /\ \A b \in Block : q.ref[b] = IF b = f THEN 1
                                              ELSE IF b = old THEN p.ref[b] - 1 ELSE p.ref[b]
               /\ \A b \in Block : q.hash[b] = IF p.caching /\ b = f THEN NoHash ELSE p.hash[b]
               /\ q.caching = p.caching
<1> DEFINE f == p.free[1]
           g == GetNewBlocks(p, 1)
           q == [g EXCEPT !.ref[old] = @ - 1]
<1>1. p.free \in Seq(Block) /\ Len(p.free) \in Nat /\ p.ref \in [Block -> Nat]
    BY PoolFields, ToSetProperties
<1>2. f = Head(p.free) /\ f \in ToSet(p.free) /\ f \in Block
    BY <1>1, ToSetProperties DEF NumFree
<1>3. p.ref[f] = 0 /\ f # old
    BY <1>2 DEF QueueExact
<1>4. 1 \in 0 .. NumFree(p)
    BY <1>1 DEF NumFree
<1>5. /\ Popped(p, 1) \in Seq(Block) /\ Len(Popped(p, 1)) = 1
      /\ g \in Pool /\ QueueExact(g) /\ EntriesSound(g)
      /\ g.ref = [b \in Block |-> IF b \in ToSet(Popped(p, 1)) THEN 1 ELSE p.ref[b]]
    BY <1>4, GetNewBlocksSound
<1>6. Popped(p, 1)[1] = f
    BY <1>1, <1>4 DEF Popped, NumFree
<1>7. ToSet(Popped(p, 1)) = {f}
    BY <1>5, <1>6, ToSetProperties
<1>8. /\ g.hash = [b \in Block |-> IF p.caching /\ b \in ToSet(Popped(p, 1)) THEN NoHash ELSE p.hash[b]]
      /\ g.caching = p.caching
    BY DEF GetNewBlocks, Pool
<1> HIDE DEF f, g
<1>9. \A b \in Block : g.ref[b] = IF b = f THEN 1 ELSE p.ref[b]
    BY <1>5, <1>7
<1>10. g.ref \in [Block -> Nat] /\ g.ref[old] > 1
    BY <1>3, <1>5, <1>9, PoolFields
<1> DEFINE ref == [g.ref EXCEPT ![old] = @ - 1]
<1>11. /\ ref \in [Block -> Nat]
       /\ \A b \in Block : ref[b] = IF b = old THEN g.ref[old] - 1 ELSE g.ref[b]
    BY <1>10
<1>12. q = [g EXCEPT !.ref = ref]
    BY <1>5 DEF Pool
<1> HIDE DEF ref, q
<1>13. /\ q \in Pool /\ q.ref = ref /\ q.free = g.free /\ q.hash = g.hash /\ q.map = g.map
       /\ q.caching = g.caching
    BY <1>5, <1>11, <1>12 DEF Pool
<1>14. QueueExact(q)
    <2>1. \A b \in Block : q.ref[b] = 0 <=> g.ref[b] = 0
        BY <1>10, <1>11, <1>13
    <2> QED BY <1>5, <1>13, <2>1 DEF QueueExact
<1>15. EntriesSound(q)
    BY <1>5, <1>13 DEF EntriesSound
<1>16. \A b \in Block : q.ref[b] = IF b = f THEN 1 ELSE IF b = old THEN p.ref[b] - 1 ELSE p.ref[b]
    BY <1>3, <1>9, <1>11, <1>13
<1>17. \A b \in Block : q.hash[b] = IF p.caching /\ b = f THEN NoHash ELSE p.hash[b]
    BY <1>7, <1>8, <1>13
<1> QED BY <1>2, <1>3, <1>8, <1>13, <1>14, <1>15, <1>16, <1>17 DEF f, q, g

\* _cow_if_shared makes its copy without disturbing anything else (kv_cache.py:678-704).
LEMMA CopySound ==
    ASSUME NEW c, Sound(c), NEW s \in Seqs, NEW i \in BlockIx, i < Len(c.held[s]),
           c.pool.ref[c.held[s][i + 1]] > 1, NumFree(c.pool) >= 1
    PROVE  LET f == Head(c.pool.free)
               d == CopiedTo(c, s, i, c.held[s][i + 1], f)
           IN  Sound(d) /\ Copied(c, d, s, i, f)
<1> DEFINE f     == c.pool.free[1]
           old   == c.held[s][i + 1]
           pool  == [GetNewBlocks(c.pool, 1) EXCEPT !.ref[old] = @ - 1]
           t     == [c.held[s] EXCEPT ![i + 1] = f]
           row   == [c.table[s] EXCEPT ![i] = f]
           held  == [c.held EXCEPT ![s] = t]
           table == [c.table EXCEPT ![s] = row]
           con   == [c.content EXCEPT ![f] = c.content[old]]
           d     == CopiedTo(c, s, i, c.held[s][i + 1], f)
<1>1. /\ c \in KVCacheType /\ c.pool \in Pool /\ QueueExact(c.pool) /\ EntriesSound(c.pool)
      /\ c.held \in [Seqs -> Seq(Block)] /\ c.table \in [Seqs -> [BlockIx -> Block \cup {NoBlock}]]
      /\ c.content \in [Block -> [Offset -> Values \cup {Zero}]]
      /\ c.lru \in Seq(Seqs) /\ i \in Nat
    BY Fields DEF Sound, BlockIx
<1>2. old \in Block /\ old \in ToSet(c.held[s]) /\ c.pool.ref[old] > 1
    BY <1>1, At
<1>3. d = [c EXCEPT !.pool = pool, !.content = con, !.table = table, !.held = held]
    <2>1. d = [c EXCEPT !.pool = pool, !.content[f] = c.content[old],
                        !.table[s][i] = f, !.held[s][i + 1] = f]
        BY DEF CopiedTo
    <2> HIDE DEF d, pool, f, old
    <2> QED BY <1>1, <2>1 DEF KVCacheType
<1> HIDE DEF d, old, con
<1>4. /\ f = Head(c.pool.free) /\ f \in ToSet(c.pool.free) /\ f \in Block /\ f # old
      /\ pool \in Pool /\ QueueExact(pool) /\ EntriesSound(pool)
      /\ \A b \in Block : pool.ref[b] = IF b = f THEN 1
                                        ELSE IF b = old THEN c.pool.ref[b] - 1 ELSE c.pool.ref[b]
      /\ \A b \in Block : pool.hash[b] = IF c.pool.caching /\ b = f THEN NoHash ELSE c.pool.hash[b]
      /\ pool.caching = c.pool.caching
    BY <1>1, <1>2, CopyPool
<1> HIDE DEF f, pool
<1>5. /\ f # NullBlock /\ f # c.dummy /\ c.pool.ref[f] = 0
      /\ \A r \in Seqs : f \notin ToSet(c.held[r])
    BY <1>4, Referenced
<1>6. /\ c.held[s] \in Seq(Block) /\ IsInjective(c.held[s]) /\ NullBlock \notin ToSet(c.held[s])
      /\ Len(c.held[s]) \in Nat
    BY <1>1, ToSetProperties DEF Sound, Listed
<1>7. /\ t \in Seq(Block) /\ Len(t) = Len(c.held[s])
      /\ \A j \in 1 .. Len(c.held[s]) : t[j] = IF j = i + 1 THEN f ELSE c.held[s][j]
      /\ IsInjective(t) /\ ToSet(t) = (ToSet(c.held[s]) \ {old}) \cup {f}
    <2> DEFINE q == c.held[s]
    <2>1. q \in Seq(Block) /\ IsInjective(q) /\ i \in Nat /\ i < Len(q) /\ f \in Block /\ f \notin ToSet(q)
        BY <1>1, <1>4, <1>5, <1>6
    <2>2. t = [q EXCEPT ![i + 1] = f] /\ old = q[i + 1]
        BY DEF old
    <2> HIDE DEF q, t
    <2>3. /\ t \in Seq(Block) /\ Len(t) = Len(q)
          /\ \A j \in 1 .. Len(q) : t[j] = IF j = i + 1 THEN f ELSE q[j]
          /\ IsInjective(t) /\ ToSet(t) = (ToSet(q) \ {q[i + 1]}) \cup {f}
        <3>1. /\ t \in Seq(Block) /\ Len(t) = Len(q)
              /\ \A j \in 1 .. Len(q) : t[j] = IF j = i + 1 THEN f ELSE q[j]
            BY <2>1, <2>2, ReplacedIs
        <3>2. IsInjective(t) /\ ToSet(t) = (ToSet(q) \ {q[i + 1]}) \cup {f}
            BY <2>1, <3>1, ReplacedApart
        <3> QED BY <3>1, <3>2
    <2> QED BY <2>2, <2>3 DEF q
<1> HIDE DEF t
<1>8. /\ held \in [Seqs -> Seq(Block)]
      /\ \A r \in Seqs : held[r] = IF r = s THEN t ELSE c.held[r]
    BY <1>1, <1>7
<1>9. /\ row \in [BlockIx -> Block \cup {NoBlock}]
      /\ \A j \in BlockIx : row[j] = IF j < Len(t) THEN t[j + 1] ELSE NoBlock
    <2>1. row \in [BlockIx -> Block \cup {NoBlock}]
        BY <1>1, <1>4
    <2>2. ASSUME NEW j \in BlockIx PROVE row[j] = IF j < Len(t) THEN t[j + 1] ELSE NoBlock
        <3>1. row[j] = IF j = i THEN f ELSE c.table[s][j]
            BY <1>1
        <3>2. c.table[s][j] = IF j < Len(c.held[s]) THEN c.held[s][j + 1] ELSE NoBlock
            BY DEF Sound, Tabled
        <3>3. j \in Nat
            BY DEF BlockIx
        <3>4. j < Len(t) => t[j + 1] = IF j = i THEN f ELSE c.held[s][j + 1]
            BY <1>1, <1>6, <1>7, <3>3
        <3> HIDE DEF row
        <3> QED BY <1>7, <3>1, <3>2, <3>4
    <2> HIDE DEF row
    <2> QED BY <2>1, <2>2
<1> HIDE DEF row
<1>10. /\ table \in [Seqs -> [BlockIx -> Block \cup {NoBlock}]]
       /\ \A r \in Seqs : table[r] = IF r = s THEN row ELSE c.table[r]
    BY <1>1, <1>9
<1>11. /\ con \in [Block -> [Offset -> Values \cup {Zero}]]
       /\ \A b \in Block : con[b] = IF b = f THEN c.content[old] ELSE c.content[b]
    BY <1>1, <1>2, <1>4 DEF con
<1> HIDE DEF held, table
<1>12. /\ d \in KVCacheType
       /\ d.pool = pool /\ d.held = held /\ d.table = table /\ d.content = con
       /\ d.dirty = c.dirty /\ d.dummy = c.dummy /\ d.lru = c.lru
    BY <1>1, <1>3, <1>4, <1>8, <1>10, <1>11 DEF KVCacheType
<1>13. \A b \in Block : d.pool.hash[b] = IF b = f THEN NoHash ELSE c.pool.hash[b]
    BY <1>4, <1>12 DEF Sound, SharedHashed
<1>14. Copied(c, d, s, i, f)
    BY <1>4, <1>5, <1>8, <1>11, <1>12, <1>13 DEF Copied, t, old
<1>15. t # <<>> /\ s \in ToSet(c.lru)
    <2>1. c.held[s] # <<>> /\ t # <<>>
        BY <1>1, <1>6, <1>7, NotEmpty
    <2> QED BY <2>1 DEF Sound, Ordered
<1>16. Follows(c, d, s, t)
    <2>1. ASSUME NEW b \in Block
          PROVE  d.pool.ref[b] =
             IF b \in ToSet(t)
               THEN IF b \in ToSet(c.held[s]) THEN c.pool.ref[b] ELSE c.pool.ref[b] + 1
               ELSE IF b \in ToSet(c.held[s]) THEN c.pool.ref[b] - 1 ELSE c.pool.ref[b]
        BY <1>2, <1>4, <1>5, <1>7, <1>12
    <2>2. ASSUME NEW r \in Seqs, NEW j \in BlockIx
          PROVE  d.table[r][j] = IF r # s THEN c.table[r][j]
                                 ELSE IF j < Len(t) THEN t[j + 1] ELSE NoBlock
        BY <1>9, <1>10, <1>12
    <2>3. \A r \in Seqs : d.held[r] = IF r = s THEN t ELSE c.held[r]
        BY <1>8, <1>12
    <2>4. ToSet(d.lru) = IF t = <<>> THEN ToSet(c.lru) \ {s} ELSE ToSet(c.lru) \cup {s}
        BY <1>12, <1>15
    <2> QED BY <1>12, <2>1, <2>2, <2>3, <2>4 DEF Follows
<1>17. FreeZeroed(d)
    <2> SUFFICES ASSUME NEW b \in ToSet(d.pool.free) PROVE b \in d.dirty \/ d.content[b] = ZeroBlock
        BY DEF FreeZeroed
    <2>1. b \in Block /\ b # NullBlock /\ d.pool.ref[b] = 0
        BY <1>4, <1>12 DEF QueueExact
    <2>2. b # f /\ c.pool.ref[b] = 0
        BY <1>2, <1>4, <1>12, <2>1, Referenced
    <2>3. b \in ToSet(c.pool.free)
        BY <1>1, <2>1, <2>2 DEF QueueExact
    <2>4. b \in c.dirty \/ c.content[b] = ZeroBlock
        BY <2>3 DEF Sound, FreeZeroed
    <2> QED BY <1>11, <1>12, <2>1, <2>2, <2>4
<1>18. Sound(d)
    <2>1. NullBlock \notin ToSet(t)
        BY <1>5, <1>6, <1>7
    <2>2. ASSUME NEW r \in Seqs \ {s}, NEW b \in ToSet(t) \cap ToSet(c.held[r]) PROVE d.pool.hash[b] # NoHash
        <3>1. b # f /\ b \in ToSet(c.held[s]) \cap ToSet(c.held[r])
            BY <1>5, <1>7, <2>2
        <3>2. b \in Block /\ c.pool.hash[b] # NoHash
            BY <3>1, Referenced DEF Sound, SharedHashed
        <3> QED BY <1>13, <3>1, <3>2
    <2>3. ASSUME NEW r \in Seqs \ {s}, NEW b \in ToSet(c.held[r]), c.pool.hash[b] # NoHash
          PROVE  d.pool.hash[b] # NoHash
        <3>1. b \in Block /\ b # f
            BY <1>5, Referenced
        <3> QED BY <1>13, <2>3, <3>1
    <2>4. ~d.pool.caching => \A b \in Block : d.pool.hash[b] = NoHash
        BY <1>4, <1>12, <1>13 DEF Sound, SharedHashed
    <2>5. QueueExact(d.pool) /\ EntriesSound(d.pool) /\ IsInjective(d.lru)
        BY <1>4, <1>12 DEF Sound, Ordered
    <2> QED BY <1>7, <1>12, <1>16, <1>17, <2>1, <2>2, <2>3, <2>4, <2>5, OneSequence
<1> QED BY <1>4, <1>14, <1>18 DEF d

\* What write_kv of position p of s makes of the cache c, one disjunct for each
\* way to the block: it is there, it is allocated, it is copied.
InPlace(c, d, s, p, v) ==
    LET i == IndexOf(p)
        b == c.held[s][i + 1]
    IN  /\ i < Len(c.held[s])
        /\ b \in Block /\ b \in ToSet(c.held[s])
        /\ \A r \in Seqs : d.held[r] = c.held[r]
        /\ \A x \in Block, o \in Offset :
             d.content[x][o] = IF x = b /\ o = OffsetOf(p) THEN v ELSE c.content[x][o]
        /\ \A x \in Block : d.pool.hash[x] = c.pool.hash[x]

InNew(c, d, s, p, v, V, f) ==
    /\ Len(c.held[s]) <= IndexOf(p)
    /\ f \in Block /\ f # NullBlock /\ \A r \in Seqs \ V : f \notin ToSet(c.held[r])
    /\ \A r \in Seqs : d.held[r] = IF r = s THEN Append(c.held[s], f)
                                   ELSE IF r \in V THEN <<>> ELSE c.held[r]
    /\ \A x \in Block, o \in Offset :
         d.content[x][o] = IF x = f THEN IF o = OffsetOf(p) THEN v ELSE Zero ELSE c.content[x][o]
    /\ \A x \in Block : d.pool.hash[x] = IF x = f THEN NoHash ELSE c.pool.hash[x]

InCopy(c, d, s, p, v, f) ==
    LET i == IndexOf(p)
        b == c.held[s][i + 1]
    IN  /\ i < Len(c.held[s])
        /\ b \in Block /\ b \in ToSet(c.held[s])
        /\ f \in Block /\ f # NullBlock /\ \A r \in Seqs : f \notin ToSet(c.held[r])
        /\ \A r \in Seqs : d.held[r] = IF r = s THEN [c.held[s] EXCEPT ![i + 1] = f] ELSE c.held[r]
        /\ \A x \in Block, o \in Offset :
             d.content[x][o] = IF x = f THEN IF o = OffsetOf(p) THEN v ELSE c.content[b][o]
                                        ELSE c.content[x][o]
        /\ \A x \in Block : d.pool.hash[x] = IF x = f THEN NoHash ELSE c.pool.hash[x]

\* The end of write_kv, once the cache and the block are what they are.
Finished(e, b, s, p, v) ==
    Touched([ e EXCEPT !.content[b][OffsetOf(p)] = v, !.len[s] = Max({@, p + 1}) ], s)

\* The last part of write_kv: the value is written and s touched.
LEMMA WrittenSound ==
    ASSUME NEW c, Sound(c), NEW s \in Seqs, NEW b \in Block, NEW p \in Nat, NEW v \in Values,
           b \notin ToSet(c.pool.free)
    PROVE  LET d == Finished(c, b, s, p, v)
           IN  /\ Sound(d) /\ d.pool = c.pool /\ d.held = c.held
               /\ \A x \in Block, y \in Offset :
                    d.content[x][y] = IF x = b /\ y = OffsetOf(p) THEN v ELSE c.content[x][y]
<1> DEFINE n == Max({c.len[s], p + 1})
           e == Put(c, s, b, OffsetOf(p), v, n)
           d == Touched(e, s)
<1>1. c \in KVCacheType /\ c.len \in [Seqs -> Nat]
    BY Fields DEF Sound
<1>2. n \in Nat
    BY <1>1, MaxOf
<1>3. OffsetOf(p) \in Offset
    BY Divided
<1>4. [ c EXCEPT !.content[b][OffsetOf(p)] = v, !.len[s] = Max({@, p + 1}) ] = e
    BY DEF Put
<1> HIDE DEF n
<1>5. /\ Sound(e) /\ e.pool = c.pool /\ e.held = c.held
      /\ \A x \in Block, y \in Offset :
           e.content[x][y] = IF x = b /\ y = OffsetOf(p) THEN v ELSE c.content[x][y]
    BY <1>2, <1>3, PutSound
<1> HIDE DEF e
<1>6. e \in KVCacheType
    BY <1>5 DEF Sound
<1>7. Sound(d) /\ d.pool = e.pool /\ d.held = e.held /\ d.content = e.content
    BY <1>5, <1>6, TouchedSound, TouchedFields
<1> HIDE DEF d
<1>8. /\ Sound(d) /\ d.pool = c.pool /\ d.held = c.held
      /\ \A x \in Block, y \in Offset :
           d.content[x][y] = IF x = b /\ y = OffsetOf(p) THEN v ELSE c.content[x][y]
    BY <1>5, <1>7
<1> QED BY <1>4, <1>8 DEF d, Finished

\* write_kv: allocation, copy on write, the write and _touch (kv_cache.py:293-334).
Wrote(c, d, s, p, v, pinned) ==
    \/ InPlace(c, d, s, p, v)
    \/ \E V \in SUBSET (ToSet(c.lru) \ (pinned \cup {s})), f \in Block : InNew(c, d, s, p, v, V, f)
    \/ \E f \in Block : InCopy(c, d, s, p, v, f)

\* write_kv of a position whose block is missing (kv_cache.py:293-334).
LEMMA WriteNew ==
    ASSUME NEW c, Sound(c), NEW s \in Seqs, NEW p \in Nat, IndexOf(p) \in BlockIx,
           NEW v \in Values, NEW pinned, MissingBlock(c, s, p),
           AllocationOutcome(c, s, 1, pinned) = "ok"
    PROVE  LET d == WriteKV(c, s, p, v) IN
           Sound(d) /\ d.pool.caching = c.pool.caching /\ Wrote(c, d, s, p, v, pinned)
<1> DEFINE i == IndexOf(p)
           e == AllocateBlocks(c, s, 1)
           b == Last(e.held[s])
           d == WriteKV(c, s, p, v)
<1>1. /\ c.held[s] \in Seq(Block) /\ Len(c.held[s]) \in Nat /\ i \in Nat
      /\ c.table[s][i] = IF i < Len(c.held[s]) THEN c.held[s][i + 1] ELSE NoBlock
    BY Fields, ToSetProperties DEF Sound, Tabled, BlockIx
<1>2. Len(c.held[s]) <= i
    <2>1. i < Len(c.held[s]) => c.held[s][i + 1] \in Block
        BY <1>1, At
    <2>2. NoBlock \notin Block
        BY DEF NoBlock, Block
    <2> QED BY <1>1, <2>1, <2>2 DEF MissingBlock
<1>3. Sound(e) /\ \E V \in SUBSET (ToSet(c.lru) \ (pinned \cup {s})), f \in Block : Grown(c, e, s, V, f)
    BY AllocateSound
<1>0. d = LET cow == CowIfShared(e, s, i, b) IN Finished(cow.kv, cow.block, s, p, v)
    BY DEF WriteKV, Finished
<1> HIDE DEF e, i, d
<1>4. PICK V \in SUBSET (ToSet(c.lru) \ (pinned \cup {s})), f \in Block : Grown(c, e, s, V, f)
    BY <1>3
<1>5. e.held[s] = Append(c.held[s], f) /\ e.pool.ref[f] = 1
    BY <1>4 DEF Grown
<1>6. /\ Len(e.held[s]) = Len(c.held[s]) + 1 /\ e.held[s][Len(e.held[s])] = f
      /\ b = f
    BY <1>1, <1>5 DEF Last
<1> HIDE DEF b
<1>7. ~IsShared(e, s, i)
    <2>1. i < Len(e.held[s]) => i + 1 = Len(e.held[s])
        BY <1>1, <1>2, <1>6
    <2> QED BY <1>5, <1>6, <2>1 DEF IsShared
<1>8. d = Finished(e, f, s, p, v)
    BY <1>0, <1>6, <1>7 DEF CowIfShared
<1>9. f \notin ToSet(e.pool.free)
    BY <1>3, <1>5, Referenced
<1>10. /\ Sound(d) /\ d.pool = e.pool /\ d.held = e.held
       /\ \A x \in Block, y \in Offset :
            d.content[x][y] = IF x = f /\ y = OffsetOf(p) THEN v ELSE e.content[x][y]
    BY <1>3, <1>8, <1>9, WrittenSound
<1>11. InNew(c, d, s, p, v, V, f)
    <2>1. /\ f # NullBlock /\ \A r \in Seqs \ V : f \notin ToSet(c.held[r])
          /\ \A r \in Seqs : d.held[r] = IF r = s THEN Append(c.held[s], f)
                                         ELSE IF r \in V THEN <<>> ELSE c.held[r]
          /\ \A x \in Block : d.pool.hash[x] = IF x = f THEN NoHash ELSE c.pool.hash[x]
        BY <1>4, <1>10 DEF Grown
    <2>2. ASSUME NEW x \in Block, NEW o \in Offset
          PROVE  d.content[x][o] = IF x = f THEN IF o = OffsetOf(p) THEN v ELSE Zero ELSE c.content[x][o]
        <3>1. e.content[x] = IF x = f THEN ZeroBlock ELSE c.content[x]
            BY <1>4 DEF Grown
        <3>2. ZeroBlock[o] = Zero
            BY DEF ZeroBlock
        <3> QED BY <1>10, <3>1, <3>2
    <2> QED BY <1>2, <2>1, <2>2 DEF InNew, i
<1>12. d.pool.caching = c.pool.caching
    BY <1>4, <1>10 DEF Grown
<1> QED BY <1>10, <1>11, <1>12 DEF d, Wrote

\* write_kv of a position whose block is there, in place or in a copy.
LEMMA WriteOld ==
    ASSUME NEW c, Sound(c), NEW s \in Seqs, NEW p \in Nat, IndexOf(p) \in BlockIx,
           NEW v \in Values, NEW pinned, ~MissingBlock(c, s, p)
    PROVE  LET d == WriteKV(c, s, p, v) IN
           Sound(d) /\ d.pool.caching = c.pool.caching /\ Wrote(c, d, s, p, v, pinned)
<1> DEFINE i == IndexOf(p)
           b == c.table[s][i]
           f == Head(c.pool.free)
           d == WriteKV(c, s, p, v)
<1>0. d = LET cow == CowIfShared(c, s, i, b) IN Finished(cow.kv, cow.block, s, p, v)
    BY DEF WriteKV, Finished
<1>1. /\ c.held[s] \in Seq(Block) /\ Len(c.held[s]) \in Nat /\ i \in Nat
      /\ c.table[s][i] = IF i < Len(c.held[s]) THEN c.held[s][i + 1] ELSE NoBlock
    BY Fields, ToSetProperties DEF Sound, Tabled, BlockIx
<1>2. i < Len(c.held[s]) /\ b = c.held[s][i + 1]
    BY <1>1 DEF MissingBlock
<1>3. b \in Block /\ b \in ToSet(c.held[s]) /\ b \notin ToSet(c.pool.free)
    BY <1>1, <1>2, At, Referenced
<1>4. i \in BlockIx
    OBVIOUS
<1> HIDE DEF i, b, d
<1>5. CASE ~(IsShared(c, s, i) /\ CanGet(c.pool, 1))
    <2>1. d = Finished(c, b, s, p, v)
        BY <1>0, <1>5 DEF CowIfShared
    <2>2. /\ Sound(d) /\ d.pool = c.pool /\ d.held = c.held
          /\ \A x \in Block, y \in Offset :
               d.content[x][y] = IF x = b /\ y = OffsetOf(p) THEN v ELSE c.content[x][y]
        BY <1>3, <2>1, WrittenSound
    <2>3. InPlace(c, d, s, p, v)
        BY <1>2, <1>3, <2>2 DEF InPlace, i
    <2> QED BY <2>2, <2>3 DEF Wrote, d
<1>6. CASE IsShared(c, s, i) /\ CanGet(c.pool, 1)
    <2> DEFINE e == CopiedTo(c, s, i, c.held[s][i + 1], f)
    <2>1. c.pool.ref[c.held[s][i + 1]] > 1
        BY <1>6 DEF IsShared
    <2>2. NumFree(c.pool) >= 1
        <3>1. NumFree(c.pool) \in Nat
            BY Fields, PoolFields, ToSetProperties DEF Sound, NumFree
        <3> QED BY <1>6, <3>1 DEF CanGet
    <2>3. Sound(e) /\ Copied(c, e, s, i, f)
        BY <1>2, <1>4, <2>1, <2>2, CopySound
    <2>4. CowIfShared(c, s, i, b) = [kv |-> e, block |-> f]
        <3>1. CowIfShared(c, s, i, b) = [kv |-> CopiedTo(c, s, i, b, f), block |-> f]
            BY <1>6 DEF CowIfShared, CopiedTo
        <3> QED BY <1>2, <3>1
    <2>5. d = Finished(e, f, s, p, v)
        BY <1>0, <2>4
    <2> HIDE DEF e, f
    <2>6. f \in Block /\ e.pool.ref[f] = 1
        BY <2>3 DEF Copied
    <2>7. f \notin ToSet(e.pool.free)
        BY <2>3, <2>6, Referenced
    <2>8. /\ Sound(d) /\ d.pool = e.pool /\ d.held = e.held
          /\ \A x \in Block, y \in Offset :
               d.content[x][y] = IF x = f /\ y = OffsetOf(p) THEN v ELSE e.content[x][y]
        BY <2>3, <2>5, <2>6, <2>7, WrittenSound
    <2>9. InCopy(c, d, s, p, v, f)
        <3>1. /\ f # NullBlock /\ \A r \in Seqs : f \notin ToSet(c.held[r])
              /\ \A r \in Seqs : d.held[r] = IF r = s THEN [c.held[s] EXCEPT ![i + 1] = f] ELSE c.held[r]
              /\ \A x \in Block : d.pool.hash[x] = IF x = f THEN NoHash ELSE c.pool.hash[x]
            BY <2>3, <2>8 DEF Copied
        <3>2. \A x \in Block : e.content[x] = IF x = f THEN c.content[b] ELSE c.content[x]
            BY <1>2, <2>3 DEF Copied
        <3>3. \A x \in Block, o \in Offset :
                 d.content[x][o] = IF x = f THEN IF o = OffsetOf(p) THEN v ELSE c.content[b][o]
                                   ELSE c.content[x][o]
            BY <2>8, <3>2
        <3> QED BY <1>2, <1>3, <2>6, <3>1, <3>3 DEF InCopy, i
    <2>10. d.pool.caching = c.pool.caching
        BY <2>3, <2>8 DEF Copied
    <2> QED BY <2>6, <2>8, <2>9, <2>10 DEF Wrote, d
<1> QED BY <1>5, <1>6

-----------------------------------------------------------------------------
(* The start.                                                               *)

\* The fields of a new cache (kv_cache.py:100-157).
LEMMA InitFields ==
    ASSUME NEW caching \in BOOLEAN
    PROVE  LET c == InitKV(caching) IN
           /\ c \in KVCacheType
           /\ c.pool = InitPool(caching) /\ c.dummy = NoBlock /\ c.lru = <<>>
           /\ \A s \in Seqs : c.held[s] = <<>> /\ \A i \in BlockIx : c.table[s][i] = NoBlock
           /\ \A b \in Block : c.content[b] = ZeroBlock
<1>1. EmptyRow \in [BlockIx -> Block \cup {NoBlock}] /\ \A i \in BlockIx : EmptyRow[i] = NoBlock
    BY DEF EmptyRow
<1>2. ZeroBlock \in [Offset -> Values \cup {Zero}]
    BY DEF ZeroBlock
<1>3. <<>> \in Seq(Block) /\ <<>> \in Seq(Seqs)
    OBVIOUS
<1>4. InitPool(caching) \in Pool
    BY InitPoolSound
<1> QED BY <1>1, <1>2, <1>3, <1>4 DEF InitKV, KVCacheType

\* Without any sequence the counts are those of the dummy block.
LEMMA EmptySound ==
    ASSUME NEW c \in KVCacheType, QueueExact(c.pool), EntriesSound(c.pool), c.lru = <<>>,
           \A s \in Seqs : c.held[s] = <<>> /\ \A i \in BlockIx : c.table[s][i] = NoBlock,
           \A b \in Block : c.content[b] = ZeroBlock /\ c.pool.hash[b] = NoHash,
           \A b \in Block : c.pool.ref[b] = IF b = c.dummy THEN 1 ELSE 0
    PROVE  Sound(c)
<1>1. \A b \in Block : HoldersIn(c, b) = {}
    BY EmptyIs DEF HoldersIn
<1>2. Counted(c)
    <2> SUFFICES ASSUME NEW b \in Block
                 PROVE  c.pool.ref[b] = Cardinality(HoldersIn(c, b)) + (IF b = c.dummy THEN 1 ELSE 0)
        BY DEF Counted
    <2>1. Cardinality(HoldersIn(c, b)) = 0
        BY <1>1, HoldersCount
    <2> QED BY <2>1
<1>3. Listed(c) /\ Ordered(c)
    BY EmptyIs DEF Listed, Ordered
<1>4. Tabled(c)
    BY EmptyIs DEF Tabled, BlockIx
<1>5. SharedHashed(c)
    BY EmptyIs DEF SharedHashed
<1>6. FreeZeroed(c)
    BY DEF FreeZeroed, QueueExact
<1> QED BY <1>2, <1>3, <1>4, <1>5, <1>6 DEF Sound

\* A new cache is sound.
LEMMA InitSound ==
    ASSUME NEW caching \in BOOLEAN
    PROVE  /\ Sound(InitKV(caching)) /\ InitKV(caching).pool.caching = caching
           /\ \A s \in Seqs : InitKV(caching).held[s] = <<>>
           /\ \A b \in Block : InitKV(caching).pool.hash[b] = NoHash
<1> DEFINE c == InitKV(caching)
<1>1. /\ c \in KVCacheType
      /\ c.pool = InitPool(caching) /\ c.dummy = NoBlock /\ c.lru = <<>>
      /\ \A s \in Seqs : c.held[s] = <<>> /\ \A i \in BlockIx : c.table[s][i] = NoBlock
      /\ \A b \in Block : c.content[b] = ZeroBlock
    BY InitFields
<1>2. QueueExact(InitPool(caching)) /\ EntriesSound(InitPool(caching))
    BY InitPoolSound
<1>3. /\ InitPool(caching).caching = caching
      /\ \A b \in Block : InitPool(caching).hash[b] = NoHash /\ InitPool(caching).ref[b] = 0
    BY DEF InitPool
<1>4. NoBlock \notin Block
    BY DEF NoBlock, Block
<1> HIDE DEF c
<1>5. \A b \in Block : c.pool.ref[b] = IF b = c.dummy THEN 1 ELSE 0
    BY <1>1, <1>3, <1>4
<1>6. Sound(c)
    BY <1>1, <1>2, <1>3, <1>5, EmptySound
<1> QED BY <1>1, <1>3, <1>6 DEF c

\* init_graph_buffers takes its block from a full pool (kv_cache.py:341-360).
LEMMA GraphBuffersSound ==
    ASSUME NEW caching \in BOOLEAN, NumBlocks >= 2
    PROVE  LET d == InitGraphBuffers(InitKV(caching)) IN
           /\ Sound(d) /\ d.pool.caching = caching
           /\ \A s \in Seqs : d.held[s] = <<>>
           /\ \A b \in Block : d.pool.hash[b] = NoHash
<1> DEFINE c == InitKV(caching)
           p == InitPool(caching)
           f == Head(p.free)
           g == GetNewBlocks(p, 1)
           d == InitGraphBuffers(c)
<1>1. /\ c \in KVCacheType
      /\ c.pool = p /\ c.dummy = NoBlock /\ c.lru = <<>>
      /\ \A s \in Seqs : c.held[s] = <<>> /\ \A i \in BlockIx : c.table[s][i] = NoBlock
      /\ \A b \in Block : c.content[b] = ZeroBlock
    BY InitFields
<1>2. p \in Pool /\ QueueExact(p) /\ EntriesSound(p)
    BY InitPoolSound
<1>3. p.caching = caching /\ \A b \in Block : p.hash[b] = NoHash /\ p.ref[b] = 0
    BY DEF InitPool
<1>4. p.free \in Seq(Block) /\ Len(p.free) \in Nat /\ Len(p.free) >= 1 /\ 1 \in 0 .. NumFree(p)
    <2>1. NumBlocks - 1 \in Nat /\ p.free = [i \in 1 .. NumBlocks - 1 |-> i]
        BY NumBlocksAssumption DEF InitPool
    <2>2. p.free \in Seq(Block)
        BY <1>2, PoolFields
    <2> HIDE DEF p
    <2>3. Len(p.free) = NumBlocks - 1
        BY <2>1, <2>2
    <2> QED BY NumBlocksAssumption, <2>1, <2>2, <2>3 DEF NumFree
<1> HIDE DEF p
<1>5. f \in ToSet(p.free) /\ f \in Block /\ f = p.free[1] /\ p.ref[f] = 0
    <2>1. f = p.free[1] /\ f \in ToSet(p.free) /\ f \in Block
        BY <1>4, ToSetProperties
    <2> QED BY <1>3, <2>1
<1>6. /\ Popped(p, 1) \in Seq(Block) /\ Len(Popped(p, 1)) = 1
      /\ g \in Pool /\ QueueExact(g) /\ EntriesSound(g)
      /\ g.ref = [b \in Block |-> IF b \in ToSet(Popped(p, 1)) THEN 1 ELSE p.ref[b]]
    BY <1>2, <1>4, GetNewBlocksSound
<1>7. Popped(p, 1)[1] = f
    BY <1>4, <1>5 DEF Popped, NumFree
<1>8. ToSet(Popped(p, 1)) = {f}
    BY <1>6, <1>7, ToSetProperties
<1>9. /\ g.hash = [b \in Block |-> IF p.caching /\ b \in ToSet(Popped(p, 1)) THEN NoHash ELSE p.hash[b]]
      /\ g.caching = p.caching
    BY <1>2 DEF GetNewBlocks, Pool
<1>10. d = [c EXCEPT !.pool = g, !.dummy = f]
    <2>1. d = [c EXCEPT !.pool = GetNewBlocks(@, 1), !.dummy = Head(c.pool.free)]
        BY <1>1 DEF InitGraphBuffers
    <2> HIDE DEF c, d, g, f
    <2>2. d = [c EXCEPT !.pool = GetNewBlocks(p, 1), !.dummy = Head(p.free)]
        BY <1>1, <2>1
    <2> QED BY <2>2 DEF f, g
<1> HIDE DEF c, d, f, g
<1>11. /\ d \in KVCacheType /\ d.pool = g /\ d.dummy = f /\ d.lru = <<>>
       /\ d.held = c.held /\ d.table = c.table /\ d.content = c.content
    BY <1>1, <1>5, <1>6, <1>10 DEF KVCacheType
<1>12. \A b \in Block : d.pool.ref[b] = IF b = d.dummy THEN 1 ELSE 0
    BY <1>3, <1>6, <1>8, <1>11
<1>13. \A b \in Block : d.pool.hash[b] = NoHash
    BY <1>3, <1>9, <1>11
<1>14. Sound(d)
    BY <1>1, <1>6, <1>11, <1>12, <1>13, EmptySound
<1>15. d.pool.caching = caching /\ \A s \in Seqs : d.held[s] = <<>>
    BY <1>1, <1>3, <1>9, <1>11
<1> QED BY <1>13, <1>14, <1>15 DEF d, c

-----------------------------------------------------------------------------
(* Prefixes.                                                                *)

\* The hashes of a prompt: one for each full block, all of them different.
LEMMA HashesIs ==
    ASSUME NEW c \in Streams
    PROVE  LET hs == BlockHashes(Prompt(c)) IN
           /\ hs \in Seq(Hash) /\ IsInjective(hs) /\ Len(hs) = IndexOf(PromptLen)
           /\ \A i \in 1 .. Len(hs) : /\ i * BlockSize \in 1 .. PromptLen
                                      /\ i * BlockSize \in DOMAIN c
                                      /\ hs[i] = c[i * BlockSize]
<1> DEFINE n  == PromptLen \div BlockSize
           P  == Prompt(c)
           hs == BlockHashes(P)
<1>1. /\ c \in Seq(Values) /\ PromptLen \in Nat \ {0} /\ PromptLen <= Len(c)
      /\ BlockSize \in Nat \ {0} /\ Len(c) \in Nat /\ DOMAIN c = 1 .. Len(c)
    BY StreamsAssumption, BlockSizeAssumption, ToSetProperties
<1>2. n = IndexOf(PromptLen) /\ n \in Nat
    BY <1>1, Divided DEF IndexOf
<1>3. ASSUME NEW i \in 1 .. n
      PROVE  i * BlockSize \in 1 .. PromptLen /\ i * BlockSize \in DOMAIN c
    <2>1. i \in Nat /\ i <= IndexOf(PromptLen) /\ IndexOf(PromptLen) \in Nat
        BY <1>2
    <2>2. ~(PromptLen < BlockSize * i)
        BY <1>1, <2>1, Below
    <2>3. BlockSize * i \in Nat /\ BlockSize * i = i * BlockSize /\ BlockSize * 1 <= BlockSize * i
        BY <1>1, Times
    <2> QED BY <1>1, <2>2, <2>3
<1>4. /\ P \in Seq(Values) /\ Len(P) = PromptLen
      /\ \A j \in 1 .. PromptLen : P[j] = c[j]
    <2>1. \A j \in 1 .. PromptLen : c[j] \in Values
        BY <1>1
    <2> QED BY <1>1, <2>1, SubSeqProperties DEF Prompt
<1> HIDE DEF P, n
<1>5. hs = [i \in 1 .. n |-> P[i * BlockSize]]
    BY <1>4 DEF BlockHashes, n
<1>6. \A i \in 1 .. n : hs[i] = c[i * BlockSize]
    BY <1>3, <1>4, <1>5
<1>7. \A i \in 1 .. n : c[i * BlockSize] \in Hash
    BY BlockHashAssumption DEF n
<1>8. hs \in Seq(Hash) /\ Len(hs) = n /\ DOMAIN hs = 1 .. n
    <2>1. hs \in [1 .. n -> Hash]
        BY <1>5, <1>6, <1>7
    <2> HIDE DEF hs
    <2> QED BY <1>2, <2>1
<1> HIDE DEF hs
<1>9. ASSUME NEW i \in 1 .. n, NEW j \in 1 .. n, hs[i] = hs[j] PROVE i = j
    <2>1. i * BlockSize = j * BlockSize
        BY <1>3, <1>6, <1>9, PrefixAssumption
    <2>2. i <= j \/ j <= i
        BY <1>2
    <2>3. ASSUME NEW x \in Nat, NEW y \in Nat, x + 1 <= y PROVE x * BlockSize # y * BlockSize
        <3>1. BlockSize * (x + 1) <= BlockSize * y
            BY <1>1, <2>3, Times
        <3>2. BlockSize * (x + 1) = x * BlockSize + BlockSize /\ BlockSize * y = y * BlockSize
            BY <1>1
        <3>3. x * BlockSize \in Nat /\ y * BlockSize \in Nat
            BY <1>1
        <3> QED BY <1>1, <3>1, <3>2, <3>3
    <2> QED BY <1>2, <2>1, <2>3
<1>10. IsInjective(hs)
    BY <1>8, <1>9 DEF IsInjective
<1> QED BY <1>2, <1>3, <1>6, <1>8, <1>10 DEF hs, P

\* What try_reuse_prefix makes of a cache in which s has nothing: it gets the
\* blocks found, each with the hash of its place.
Reusing(c, d, s, hs) ==
    \E bs \in Seq(Block) :
        /\ bs = CachedPrefix(c.pool, hs) /\ Len(bs) <= Len(hs)
        /\ \A r \in Seqs : d.held[r] = IF r = s THEN bs ELSE c.held[r]
        /\ \A i \in 1 .. Len(bs) : c.pool.hash[bs[i]] = hs[i]
        /\ d.content = c.content /\ d.pool.hash = c.pool.hash
        /\ d.pool.caching = c.pool.caching

\* try_reuse_prefix gives s the cached blocks of its prefix (kv_cache.py:599-643).
LEMMA ReuseSound ==
    ASSUME NEW c, Sound(c), NEW s \in Seqs, c.held[s] = <<>>, NEW vs,
           BlockHashes(vs) \in Seq(Hash), IsInjective(BlockHashes(vs))
    PROVE  Sound(ReusePrefix(c, s, vs)) /\ Reusing(c, ReusePrefix(c, s, vs), s, BlockHashes(vs))
<1> DEFINE hs    == BlockHashes(vs)
           bs    == CachedPrefix(c.pool, hs)
           pool  == Touch(c.pool, ToSet(bs))
           row   == [i \in BlockIx |-> IF i < Len(bs) THEN bs[i + 1] ELSE c.table[s][i]]
           held  == [c.held EXCEPT ![s] = c.held[s] \o bs]
           table == [c.table EXCEPT ![s] = row]
           len   == [c.len EXCEPT ![s] = Len(bs) * BlockSize]
           e     == [c EXCEPT !.pool = pool, !.held = held, !.table = table, !.len = len]
           d     == ReusePrefix(c, s, vs)
<1>1. /\ c \in KVCacheType /\ c.pool \in Pool /\ QueueExact(c.pool) /\ EntriesSound(c.pool)
      /\ c.held \in [Seqs -> Seq(Block)] /\ c.table \in [Seqs -> [BlockIx -> Block \cup {NoBlock}]]
      /\ c.len \in [Seqs -> Nat] /\ c.lru \in Seq(Seqs)
    BY Fields DEF Sound
<1>0. d = IF bs = <<>> THEN c ELSE Touched(e, s)
    <2>1. d = IF bs = <<>> THEN c
              ELSE Touched([c EXCEPT !.pool = Touch(@, ToSet(bs)), !.held[s] = @ \o bs,
                      !.table[s] = [i \in BlockIx |-> IF i < Len(bs) THEN bs[i + 1] ELSE @[i]],
                      !.len[s] = Len(bs) * BlockSize], s)
        BY DEF ReusePrefix, Reused
    <2>2. e = [c EXCEPT !.pool = Touch(@, ToSet(bs)), !.held[s] = @ \o bs,
                      !.table[s] = [i \in BlockIx |-> IF i < Len(bs) THEN bs[i + 1] ELSE @[i]],
                      !.len[s] = Len(bs) * BlockSize]
        <3> HIDE DEF bs
        <3> QED BY <1>1 DEF KVCacheType
    <2> HIDE DEF d, e, bs
    <2> QED BY <2>1, <2>2
<1>2. /\ bs \in Seq(Block) /\ IsInjective(bs) /\ NullBlock \notin ToSet(bs)
      /\ Len(bs) \in Nat /\ Len(bs) <= Len(hs)
      /\ \A i \in 1 .. Len(bs) : c.pool.hash[bs[i]] = hs[i]
    BY <1>1, CachedPrefixSound, CachedPrefixHashes
<1>3. hs \in Seq(Hash)
    OBVIOUS
<1>4. bs = CachedPrefix(c.pool, hs)
    OBVIOUS
<1> HIDE DEF hs, bs, d
<1>5. CASE bs = <<>>
    <2>1. d = c
        BY <1>0, <1>5
    <2>2. Reusing(c, c, s, hs)
        BY <1>2, <1>4, <1>5 DEF Reusing
    <2> QED BY <2>1, <2>2 DEF d, hs
<1>6. CASE bs # <<>>
    <2>1. ToSet(bs) \in SUBSET Block /\ DOMAIN bs = 1 .. Len(bs) /\ \A i \in 1 .. Len(bs) : bs[i] \in Block
        BY <1>2, ToSetProperties
    <2>2. /\ pool \in Pool /\ QueueExact(pool) /\ EntriesSound(pool)
          /\ pool.ref = [b \in Block |-> IF b \in ToSet(bs) THEN c.pool.ref[b] + 1 ELSE c.pool.ref[b]]
        BY <1>1, <2>1, TouchSound
    <2>3. pool.hash = c.pool.hash /\ pool.map = c.pool.map /\ pool.caching = c.pool.caching
        BY <1>1 DEF Touch, Pool
    <2>4. \A r \in Seqs : held[r] = IF r = s THEN bs ELSE c.held[r]
        BY <1>1, <1>2
    <2>5. held \in [Seqs -> Seq(Block)]
        BY <1>1, <1>2, <2>4
    <2>6. /\ row \in [BlockIx -> Block \cup {NoBlock}]
          /\ \A i \in BlockIx : row[i] = IF i < Len(bs) THEN bs[i + 1] ELSE NoBlock
        <3>1. \A i \in BlockIx : i \in Nat /\ c.table[s][i] = NoBlock
            BY EmptyIs DEF Sound, Tabled, BlockIx
        <3>2. \A i \in BlockIx : i < Len(bs) => bs[i + 1] \in Block
            BY <1>2, <3>1, At
        <3> QED BY <3>1, <3>2
    <2> HIDE DEF pool, held, row
    <2>7. /\ table \in [Seqs -> [BlockIx -> Block \cup {NoBlock}]]
          /\ \A r \in Seqs : table[r] = IF r = s THEN row ELSE c.table[r]
        BY <1>1, <2>6
    <2>8. len \in [Seqs -> Nat]
        BY <1>1, <1>2, BlockSizeAssumption
    <2> HIDE DEF table, len
    <2>9. /\ e \in KVCacheType /\ e.pool = pool /\ e.held = held /\ e.table = table
          /\ e.content = c.content /\ e.dirty = c.dirty /\ e.dummy = c.dummy /\ e.lru = c.lru
        BY <1>1, <2>2, <2>5, <2>7, <2>8 DEF KVCacheType
    <2> HIDE DEF e
    <2>10. d = Touched(e, s) /\ e.held[s] # <<>> /\ IsInjective(e.lru)
        BY <1>0, <1>6, <2>4, <2>9 DEF Sound, Ordered
    <2>11. /\ d = [e EXCEPT !.lru = d.lru]
           /\ d.pool = pool /\ d.held = held /\ d.table = table /\ d.content = c.content
           /\ d.dirty = c.dirty /\ d.dummy = c.dummy
           /\ d.lru = Append(Without(e.lru, s), s)
        BY <2>9, <2>10, TouchedFields
    <2>12. d.lru \in Seq(Seqs) /\ ToSet(d.lru) = ToSet(c.lru) \cup {s} /\ IsInjective(d.lru)
        BY <2>9, <2>10, <2>11, TouchedLru
    <2>13. d \in KVCacheType
        BY <2>9, <2>11, <2>12 DEF KVCacheType
    <2>14. Reusing(c, d, s, hs)
        BY <1>2, <1>4, <2>3, <2>4, <2>11 DEF Reusing
    <2>15. Follows(c, d, s, bs)
        <3>1. ToSet(c.held[s]) = {}
            BY EmptyIs
        <3>2. ASSUME NEW r \in Seqs, NEW i \in BlockIx
              PROVE  d.table[r][i] = IF r # s THEN c.table[r][i]
                                     ELSE IF i < Len(bs) THEN bs[i + 1] ELSE NoBlock
            BY <2>6, <2>7, <2>11
        <3>3. \A b \in Block : d.pool.ref[b] = IF b \in ToSet(bs) THEN c.pool.ref[b] + 1 ELSE c.pool.ref[b]
            BY <2>2, <2>11
        <3> QED BY <1>6, <2>4, <2>11, <2>12, <3>1, <3>2, <3>3 DEF Follows
    <2>16. FreeZeroed(d)
        <3> SUFFICES ASSUME NEW b \in ToSet(d.pool.free) PROVE b \in d.dirty \/ d.content[b] = ZeroBlock
            BY DEF FreeZeroed
        <3>1. b \in Block /\ b # NullBlock /\ d.pool.ref[b] = 0
            BY <2>2, <2>11 DEF QueueExact
        <3>2. c.pool.ref[b] = 0
            BY <2>2, <2>11, <3>1, Referenced
        <3>3. b \in ToSet(c.pool.free)
            BY <1>1, <3>1, <3>2 DEF QueueExact
        <3> QED BY <2>11, <3>3 DEF Sound, FreeZeroed
    <2>17. Sound(d)
        <3>1. \A b \in ToSet(bs) : d.pool.hash[b] # NoHash
            <4>1. \A i \in 1 .. Len(hs) : hs[i] \in Hash
                BY <1>3, ToSetProperties
            <4>2. \A i \in 1 .. Len(bs) : c.pool.hash[bs[i]] # NoHash
                <5>1. \A i \in 1 .. Len(bs) : i \in 1 .. Len(hs)
                    BY <1>2, <1>3, ToSetProperties
                <5> QED BY <1>2, <4>1, <5>1, NoHashAssumption
            <4> QED BY <2>1, <2>3, <2>11, <4>2 DEF ToSet
        <3>2. ~d.pool.caching => \A b \in Block : d.pool.hash[b] = NoHash
            BY <2>3, <2>11 DEF Sound, SharedHashed
        <3>3. QueueExact(d.pool) /\ EntriesSound(d.pool)
            BY <2>2, <2>11
        <3>4. \A r \in Seqs : \A b \in ToSet(c.held[r]) : c.pool.hash[b] # NoHash => d.pool.hash[b] # NoHash
            BY <2>3, <2>11
        <3> QED BY <1>2, <2>12, <2>13, <2>15, <2>16, <3>1, <3>2, <3>3, <3>4, OneSequence
    <2> QED BY <2>14, <2>17 DEF d, hs
<1> QED BY <1>5, <1>6

\* register_prefix_blocks changes only hashes: a block of s that had none gets the
\* one of its place (kv_cache.py:645-670).
Registering(c, d, s, hs) ==
    /\ d.held = c.held /\ d.content = c.content /\ d.pool.caching = c.pool.caching
    /\ \A b \in Block :
         \/ d.pool.hash[b] = c.pool.hash[b]
         \/ /\ c.pool.hash[b] = NoHash
            /\ \E i \in DOMAIN c.held[s] \cap DOMAIN hs : b = c.held[s][i] /\ d.pool.hash[b] = hs[i]

\* register_prefix_blocks leaves a sound cache (kv_cache.py:645-670).
LEMMA RegisterSound ==
    ASSUME NEW c, Sound(c), NEW s \in Seqs, NEW vs,
           BlockHashes(vs) \in Seq(Hash), IsInjective(BlockHashes(vs))
    PROVE  /\ Sound(RegisterPrefix(c, s, vs))
           /\ Registering(c, RegisterPrefix(c, s, vs), s, BlockHashes(vs))
<1> DEFINE hs   == BlockHashes(vs)
           pool == CacheBlocks(c.pool, c.held[s], hs)
           d    == RegisterPrefix(c, s, vs)
<1>1. /\ c \in KVCacheType /\ c.pool \in Pool /\ QueueExact(c.pool) /\ EntriesSound(c.pool)
      /\ c.held[s] \in Seq(Block) /\ IsInjective(c.held[s])
    BY Fields DEF Sound, Listed
<1>2. d = [c EXCEPT !.pool = pool]
    BY DEF RegisterPrefix
<1>3. /\ pool \in Pool /\ pool.free = c.pool.free /\ pool.ref = c.pool.ref
      /\ EntriesSound(pool)
    BY <1>1, CacheBlocksSound
<1>4. /\ pool.caching = c.pool.caching
      /\ \A b \in Block :
           \/ pool.hash[b] = c.pool.hash[b]
           \/ /\ c.pool.caching /\ c.pool.hash[b] = NoHash
              /\ \E i \in DOMAIN c.held[s] \cap DOMAIN hs : b = c.held[s][i] /\ pool.hash[b] = hs[i]
    BY <1>1, CacheBlocksHashes
<1> HIDE DEF pool, d
<1>5. /\ d \in KVCacheType /\ d.pool = pool /\ d.held = c.held /\ d.table = c.table
      /\ d.content = c.content /\ d.dirty = c.dirty /\ d.dummy = c.dummy /\ d.lru = c.lru
    BY <1>1, <1>2, <1>3 DEF KVCacheType
<1>6. Registering(c, d, s, hs)
    BY <1>4, <1>5 DEF Registering
<1>7. \A b : HoldersIn(d, b) = HoldersIn(c, b)
    BY <1>5 DEF HoldersIn
<1>8. Counted(d)
    BY <1>3, <1>5, <1>7 DEF Sound, Counted
<1>9. Listed(d) /\ Tabled(d) /\ Ordered(d)
    BY <1>5 DEF Sound, Listed, Tabled, Ordered
<1>10. FreeZeroed(d)
    BY <1>3, <1>5 DEF Sound, FreeZeroed
<1>11. SharedHashed(d)
    <2>1. ASSUME NEW r \in Seqs, NEW q \in Seqs, NEW b \in ToSet(d.held[r]) \cap ToSet(d.held[q]), r # q
          PROVE  d.pool.hash[b] # NoHash
        <3>1. b \in Block /\ c.pool.hash[b] # NoHash
            BY <1>5, <2>1, Referenced DEF Sound, SharedHashed
        <3> QED BY <1>4, <1>5, <3>1
    <2>2. ~d.pool.caching => \A b \in Block : d.pool.hash[b] = NoHash
        BY <1>4, <1>5 DEF Sound, SharedHashed
    <2> QED BY <2>1, <2>2 DEF SharedHashed
<1>12. QueueExact(d.pool) /\ EntriesSound(d.pool)
    BY <1>1, <1>3, <1>5 DEF QueueExact
<1> QED BY <1>5, <1>6, <1>8, <1>9, <1>10, <1>11, <1>12 DEF Sound, d

\* The turns of the end of a step.
RegisterTurn(c, k) ==
    IF pos[running[k]] = PromptLen
      THEN RegisterPrefix(c, running[k], Prompt(stream[running[k]]))
      ELSE c

\* The end of a step goes through the running requests one by one.
LEMMA RegisteredTurns ==
    ASSUME Len(running) \in Nat
    PROVE  /\ Registered[0] = kv
           /\ \A k \in 1 .. Len(running) : Registered[k] = RegisterTurn(Registered[k - 1], k)
<1> DEFINE n == Len(running)
           Run(a, m) == a = [i \in 0 .. m |-> IF i = 0 THEN kv ELSE RegisterTurn(a[i - 1], i)]
           T == {m \in Nat : \E a : Run(a, m)}
<1>0. Registered = (CHOOSE a : Run(a, n))
    BY DEF Registered, RegisterTurn
<1>1. 0 \in T
    <2> DEFINE a == [i \in 0 .. 0 |-> kv]
    <2>1. Run(a, 0)
        OBVIOUS
    <2> QED BY <2>1
<1>2. ASSUME NEW m \in Nat, m \in T PROVE m + 1 \in T
    <2>1. PICK a : Run(a, m)
        BY <1>2
    <2> DEFINE b == [i \in 0 .. m + 1 |-> IF i <= m THEN a[i] ELSE RegisterTurn(a[m], i)]
    <2>2. ASSUME NEW i \in 0 .. m + 1 PROVE b[i] = IF i = 0 THEN kv ELSE RegisterTurn(b[i - 1], i)
        <3>1. CASE i = 0
            BY <3>1, <2>1
        <3>2. CASE i # 0 /\ i <= m
            BY <3>2, <2>1
        <3>3. CASE i = m + 1
            BY <3>3
        <3> QED BY <3>1, <3>2, <3>3
    <2>3. Run(b, m + 1)
        BY <2>2
    <2> HIDE DEF b, Run
    <2> QED BY <2>3
<1> HIDE DEF T
<1>3. n \in T
    BY <1>1, <1>2, Induction
<1>4. \E a : Run(a, n)
    BY <1>3 DEF T
<1> DEFINE run == CHOOSE a : Run(a, n)
<1>5. Run(run, n)
    <2> HIDE DEF Run
    <2> QED BY <1>4
<1> HIDE DEF run
<1>6. run[0] = kv /\ \A i \in 1 .. n : run[i] = RegisterTurn(run[i - 1], i)
    BY <1>5
<1>7. Registered = run
    BY <1>0 DEF run
<1> QED BY <1>6, <1>7

-----------------------------------------------------------------------------
(* Decode graphs.                                                           *)

\* The sequences of won that write offset o of block b.
Writers(c, won, p, b, o) == {s \in won : Cell(c, s, p[s]) = <<b, o>>}

\* The record after write_kv_decode.
DecodeWrote(c, d, R, won, p, v) ==
    /\ d = [c EXCEPT !.content = d.content, !.len = d.len]
    /\ d.pool = c.pool /\ d.held = c.held /\ d.table = c.table
    /\ d.dirty = c.dirty /\ d.dummy = c.dummy /\ d.lru = c.lru
    /\ d.content = [b \in Block |-> [o \in Offset |->
                       IF Writers(c, won, p, b, o) = {} THEN c.content[b][o]
                       ELSE v[CHOOSE s \in Writers(c, won, p, b, o) : TRUE]]]
    /\ d.len = [s \in Seqs |-> IF s \in R THEN Max({c.len[s], p[s] + 1}) ELSE c.len[s]]

\* What write_kv_decode changes.
LEMMA WriteKVDecodeFields ==
    ASSUME NEW c \in KVCacheType, NEW R, NEW won, NEW p, NEW v
    PROVE  DecodeWrote(c, WriteKVDecode(c, R, won, p, v), R, won, p, v)
BY DEF WriteKVDecode, KVCacheType, DecodeWrote, Writers

\* Touching the running sequences one after the other keeps the order exact.
LEMMA TouchedInTurnSound ==
    ASSUME NEW c, Sound(c), NEW ss \in Seq(Seqs), IsInjective(ss)
    PROVE  LET d == TouchedInTurn(c, ss) IN
           Sound(d) /\ d.pool = c.pool /\ d.held = c.held /\ d.content = c.content
<1> DEFINE I == {i \in DOMAIN c.lru : c.lru[i] \notin ToSet(ss)}
           J == {i \in DOMAIN ss : c.held[ss[i]] # <<>>}
           a == Subsequence(c.lru, I)
           b == Subsequence(ss, J)
           d == TouchedInTurn(c, ss)
<1>1. c \in KVCacheType /\ c.lru \in Seq(Seqs) /\ IsInjective(c.lru)
    BY Fields DEF Sound, Ordered
<1>2. d = [c EXCEPT !.lru = a \o b]
    BY DEF TouchedInTurn
<1>3. a \in Seq(Seqs) /\ ToSet(a) = {c.lru[i] : i \in I} /\ IsInjective(a)
    <2>1. I \in SUBSET DOMAIN c.lru
        OBVIOUS
    <2> QED BY <1>1, <2>1, SubsequenceProperties
<1>4. b \in Seq(Seqs) /\ ToSet(b) = {ss[i] : i \in J} /\ IsInjective(b)
    <2>1. J \in SUBSET DOMAIN ss
        OBVIOUS
    <2> QED BY <2>1, SubsequenceProperties
<1>5. ToSet(a) = ToSet(c.lru) \ ToSet(ss)
    BY <1>3 DEF ToSet
<1>6. ToSet(b) = {s \in ToSet(ss) : c.held[s] # <<>>}
    BY <1>4 DEF ToSet
<1> HIDE DEF a, b, I, J
<1>7. ToSet(a) \cap ToSet(b) = {}
    BY <1>5, <1>6
<1>8. /\ a \o b \in Seq(Seqs) /\ ToSet(a \o b) = ToSet(a) \cup ToSet(b)
      /\ IsInjective(a \o b)
    BY <1>3, <1>4, <1>7, ConcatKeepsInjective
<1>9. ToSet(a \o b) = {s \in Seqs : c.held[s] # <<>>}
    <2>1. ToSet(c.lru) = {s \in Seqs : c.held[s] # <<>>} /\ ToSet(ss) \subseteq Seqs
        BY ToSetProperties DEF Sound, Ordered
    <2> QED BY <1>5, <1>6, <1>8, <2>1
<1> HIDE DEF d
<1>10. /\ d \in KVCacheType /\ d.pool = c.pool /\ d.held = c.held /\ d.table = c.table
       /\ d.content = c.content /\ d.dirty = c.dirty /\ d.dummy = c.dummy /\ d.lru = a \o b
    BY <1>1, <1>2, <1>8 DEF KVCacheType
<1>11. Ordered(d)
    BY <1>8, <1>9, <1>10 DEF Ordered
<1>12. \A x : HoldersIn(d, x) = HoldersIn(c, x)
    BY <1>10 DEF HoldersIn
<1>13. Counted(d)
    BY <1>10, <1>12 DEF Sound, Counted
<1>14. Listed(d) /\ Tabled(d) /\ SharedHashed(d) /\ FreeZeroed(d)
    BY <1>10 DEF Sound, Listed, Tabled, SharedHashed, FreeZeroed
<1>15. QueueExact(d.pool) /\ EntriesSound(d.pool)
    BY <1>10 DEF Sound
<1> QED BY <1>10, <1>11, <1>13, <1>14, <1>15 DEF Sound, d

\* What write_kv_decode is given, and what it does: it writes to no free block, a
\* missing one is clamped to block 0 (kv_cache.py:421-458).
Writable(R, won, p, v) ==
    /\ R \in SUBSET Seqs /\ won \in SUBSET R /\ p \in [Seqs -> Nat] /\ v \in [R -> Values]
    /\ \A s \in R : IndexOf(p[s]) \in BlockIx

Decoded(c, d, won, p, v) ==
    /\ d.pool = c.pool /\ d.held = c.held
    /\ \A b \in Block, o \in Offset :
         \/ d.content[b][o] = c.content[b][o] /\ \A s \in won : Cell(c, s, p[s]) # <<b, o>>
         \/ \E s \in won : Cell(c, s, p[s]) = <<b, o>> /\ d.content[b][o] = v[s]

\* A decode graph leaves a sound cache, and writes each cell once.
LEMMA DecodeSound ==
    ASSUME NEW c, Sound(c), NEW R, NEW won, NEW p, NEW v, Writable(R, won, p, v)
    PROVE  LET d == WriteKVDecode(c, R, won, p, v) IN
           Sound(d) /\ Decoded(c, d, won, p, v)
<1> DEFINE d == WriteKVDecode(c, R, won, p, v)
<1> USE DEF Writable
<1>1. /\ c \in KVCacheType /\ c.content \in [Block -> [Offset -> Values \cup {Zero}]]
      /\ c.len \in [Seqs -> Nat] /\ c.held \in [Seqs -> Seq(Block)]
    BY Fields DEF Sound
<1>2. DecodeWrote(c, d, R, won, p, v)
    BY <1>1, WriteKVDecodeFields
<1> HIDE DEF d
<1>3. ASSUME NEW b \in Block, NEW o \in Offset
      PROVE  \/ d.content[b][o] = c.content[b][o] /\ \A s \in won : Cell(c, s, p[s]) # <<b, o>>
             \/ \E s \in won : Cell(c, s, p[s]) = <<b, o>> /\ d.content[b][o] = v[s]
    <2>1. d.content[b][o] = IF Writers(c, won, p, b, o) = {} THEN c.content[b][o]
                            ELSE v[CHOOSE s \in Writers(c, won, p, b, o) : TRUE]
        BY <1>2 DEF DecodeWrote
    <2>2. CASE Writers(c, won, p, b, o) = {}
        BY <2>1, <2>2 DEF Writers
    <2>3. CASE Writers(c, won, p, b, o) # {}
        <3> DEFINE w == CHOOSE s \in Writers(c, won, p, b, o) : TRUE
        <3>1. w \in Writers(c, won, p, b, o)
            BY <2>3
        <3>2. d.content[b][o] = v[w]
            BY <2>1, <2>3
        <3> HIDE DEF w
        <3> QED BY <3>1, <3>2 DEF Writers
    <2> QED BY <2>2, <2>3
<1>4. d.content \in [Block -> [Offset -> Values \cup {Zero}]]
    <2>1. \A b \in Block, o \in Offset : d.content[b][o] \in Values \cup {Zero}
        BY <1>1, <1>3
    <2>2. /\ d.content = [b \in Block |-> d.content[b]]
          /\ \A b \in Block : d.content[b] = [o \in Offset |-> d.content[b][o]]
        BY <1>2 DEF DecodeWrote
    <2> QED BY ONLY <2>1, <2>2
<1>5. d.len \in [Seqs -> Nat]
    <2>1. \A m, n \in Nat : Max({m, n}) \in Nat
        BY MaxOf
    <2>2. \A s \in Seqs : c.len[s] \in Nat /\ p[s] + 1 \in Nat
        BY <1>1
    <2>3. \A s \in Seqs : Max({c.len[s], p[s] + 1}) \in Nat
        BY <2>1, <2>2
    <2> QED BY <1>1, <1>2, <2>3 DEF DecodeWrote
<1>6. d \in KVCacheType
    BY <1>1, <1>2, <1>4, <1>5 DEF KVCacheType, DecodeWrote
<1>7. ASSUME NEW s \in R
      PROVE  DecodeBlock(c, s, p[s]) \notin ToSet(c.pool.free)
    <2> DEFINE i == IndexOf(p[s])
    <2>1. c.table[s][i] = IF i < Len(c.held[s]) THEN c.held[s][i + 1] ELSE NoBlock
        BY DEF Sound, Tabled
    <2>2. CASE MissingBlock(c, s, p[s])
        BY <2>2, Referenced DEF DecodeBlock
    <2>3. CASE ~MissingBlock(c, s, p[s])
        <3>1. i < Len(c.held[s]) /\ DecodeBlock(c, s, p[s]) = c.held[s][i + 1]
            BY <2>1, <2>3 DEF DecodeBlock, MissingBlock
        <3>2. i \in Nat
            BY DEF BlockIx
        <3>3. c.held[s][i + 1] \in ToSet(c.held[s])
            BY <1>1, <3>1, <3>2, At
        <3> QED BY <3>1, <3>3, Referenced
    <2> QED BY <2>2, <2>3
<1>8. ASSUME NEW b \in ToSet(c.pool.free) PROVE d.content[b] = c.content[b]
    <2>1. b \in Block
        BY Referenced
    <2>2. ASSUME NEW o \in Offset PROVE d.content[b][o] = c.content[b][o]
        <3>1. \A s \in won : Cell(c, s, p[s]) # <<b, o>>
            BY <1>7 DEF Cell
        <3> QED BY <1>3, <2>1, <3>1
    <2> QED BY <1>1, <1>4, <2>1, <2>2
<1>9. Sound(d)
    BY <1>2, <1>6, <1>8, ContentSound DEF DecodeWrote
<1> QED BY <1>2, <1>3, <1>9 DEF d, DecodeWrote, Decoded

-----------------------------------------------------------------------------
(* The engine.                                                              *)

\* A slot is in one place, and a free slot has no blocks.
SlotsExact ==
    /\ IsInjective(running)
    /\ ToSet(running) \cap waiting = {} /\ ToSet(running) \cap done = {} /\ waiting \cap done = {}
    /\ \A s \in Seqs : stream[s] # NoStream <=> s \in ToSet(running) \cup waiting \cup done
    /\ \A s \in Seqs : stream[s] = NoStream => kv.held[s] = <<>>
    /\ \A s \in Seqs : stream[s] # NoStream => pos[s] <= Len(stream[s])

\* A forward pass is for running sequences, once each, and within their streams.
ForwardExact ==
    /\ phase # "forward" => forward = <<>>
    /\ \A i \in DOMAIN forward :
         /\ forward[i].seq \in ToSet(running)
         /\ pos[forward[i].seq] < forward[i].upto
         /\ forward[i].upto <= Len(stream[forward[i].seq])
    /\ \A i, j \in DOMAIN forward : forward[i].seq = forward[j].seq => i = j

\* The inductive invariant of the engine and its cache.
Inv == TypeOK /\ Sound(kv) /\ SlotsExact /\ ForwardExact

\* A stream fits in the row of a sequence, and its prompt in the stream.
LEMMA StreamFacts ==
    ASSUME NEW c \in Streams
    PROVE  /\ c \in Seq(Values) /\ Len(c) \in Nat /\ DOMAIN c = 1 .. Len(c)
           /\ PromptLen \in Nat \ {0} /\ PromptLen <= Len(c)
           /\ \A i \in 1 .. Len(c) : c[i] \in Values
           /\ \A p \in Nat : p < Len(c) => IndexOf(p) \in BlockIx
<1>1. /\ c \in Seq(Values) /\ PromptLen \in Nat \ {0} /\ PromptLen <= Len(c)
      /\ Len(c) <= BlockSize * MaxBlocks
    BY StreamsAssumption
<1>2. Len(c) \in Nat /\ DOMAIN c = 1 .. Len(c) /\ \A i \in 1 .. Len(c) : c[i] \in Values
    BY <1>1
<1>3. BlockSize * MaxBlocks \in Nat
    BY BlockSizeAssumption
<1>4. ASSUME NEW p \in Nat, p < Len(c) PROVE IndexOf(p) \in BlockIx
    <2>1. p < BlockSize * MaxBlocks
        BY <1>1, <1>2, <1>3, <1>4
    <2> QED BY <2>1, Inside
<1> QED BY <1>1, <1>2, <1>4

\* Running requests have a slot and a stream.
LEMMA RunningFacts ==
    ASSUME Inv
    PROVE  /\ running \in Seq(Seqs) /\ ToSet(running) \subseteq Seqs /\ Len(running) \in Nat
           /\ DOMAIN running = 1 .. Len(running)
           /\ kv \in KVCacheType /\ kv.held \in [Seqs -> Seq(Block)]
           /\ \A s \in Seqs : stream[s] # NoStream => stream[s] \in Streams
           /\ \A s \in ToSet(running) : s \in Seqs /\ stream[s] \in Streams
<1>1. running \in Seq(Seqs) /\ stream \in [Seqs -> Streams \cup {NoStream}] /\ kv \in KVCacheType
    BY DEF Inv, TypeOK
<1>2. ToSet(running) \subseteq Seqs /\ Len(running) \in Nat /\ DOMAIN running = 1 .. Len(running)
    BY <1>1, ToSetProperties
<1>3. kv.held \in [Seqs -> Seq(Block)]
    BY <1>1, Fields
<1>4. \A s \in Seqs : stream[s] # NoStream => stream[s] \in Streams
    BY <1>1
<1>5. \A s \in ToSet(running) : stream[s] # NoStream
    BY <1>2 DEF Inv, SlotsExact
<1> QED BY <1>1, <1>2, <1>3, <1>4, <1>5

\* The engine starts in a sound state.
LEMMA InitInv == Init => Inv
<1> SUFFICES ASSUME Init PROVE Inv
    OBVIOUS
<1>1. Caching \in BOOLEAN /\ Graphs \in BOOLEAN /\ (Graphs => NumBlocks >= 2)
    BY GraphsAssumption
<1>2. Sound(kv) /\ \A s \in Seqs : kv.held[s] = <<>>
    <2>1. CASE Graphs
        <3>1. kv = InitGraphBuffers(InitKV(Caching))
            BY <2>1 DEF Init
        <3> QED BY <1>1, <2>1, <3>1, GraphBuffersSound
    <2>2. CASE ~Graphs
        <3>1. kv = InitKV(Caching)
            BY <2>2 DEF Init
        <3> QED BY <1>1, <3>1, InitSound
    <2> QED BY <2>1, <2>2
<1>3. /\ stream = [s \in Seqs |-> NoStream] /\ pos = [s \in Seqs |-> 0]
      /\ running = <<>> /\ waiting = {} /\ done = {} /\ forward = <<>> /\ phase = "idle" /\ clean = TRUE
    BY DEF Init
<1>4. TypeOK
    BY <1>2, <1>3 DEF TypeOK, Sound
<1>5. SlotsExact
    BY <1>2, <1>3, EmptyIs DEF SlotsExact
<1>6. ForwardExact
    BY <1>3 DEF ForwardExact
<1> QED BY <1>2, <1>4, <1>5, <1>6 DEF Inv

\* The smaller of two naturals.
LEMMA MinOf ==
    ASSUME NEW m \in Nat, NEW n \in Nat
    PROVE  Min({m, n}) \in Nat /\ Min({m, n}) <= m /\ Min({m, n}) <= n
<1>1. {m, n} \in SUBSET Nat /\ {m, n} # {}
    OBVIOUS
<1>2. Min({m, n}) \in {m, n} /\ \A x \in {m, n} : Min({m, n}) <= x
    BY <1>1, MinIs
<1> QED BY <1>2

\* Where a request that is admitted starts.
LEMMA AdmitFacts ==
    ASSUME Inv, NEW s \in Seqs, NEW c \in Streams, Admit(s, c)
    PROVE  LET hs == BlockHashes(Prompt(c)) IN
           /\ Sound(kv') /\ Reusing(kv, kv', s, hs)
           /\ pos' = [pos EXCEPT ![s] = pos'[s]] /\ pos'[s] \in Nat /\ pos'[s] < PromptLen
           /\ pos'[s] <= Len(CachedPrefix(kv.pool, hs)) * BlockSize
           /\ kv.held[s] = <<>>
<1> DEFINE hs == BlockHashes(Prompt(c))
           n  == Len(CachedPrefix(kv.pool, hs)) * BlockSize
<1>1. /\ kv' = ReusePrefix(kv, s, Prompt(c))
      /\ pos' = [pos EXCEPT ![s] = Min({n, PromptLen - 1})]
      /\ stream[s] = NoStream
    BY DEF Admit, Reused
<1>2. Sound(kv) /\ kv.held[s] = <<>> /\ pos \in [Seqs -> Nat]
    BY <1>1 DEF Inv, SlotsExact, TypeOK
<1>3. hs \in Seq(Hash) /\ IsInjective(hs)
    BY HashesIs
<1>4. Sound(kv') /\ Reusing(kv, kv', s, hs)
    BY <1>1, <1>2, <1>3, ReuseSound
<1>5. n \in Nat /\ PromptLen - 1 \in Nat /\ PromptLen \in Nat
    <2>1. kv.pool \in Pool /\ EntriesSound(kv.pool)
        BY <1>2, Fields DEF Sound
    <2>2. Len(CachedPrefix(kv.pool, hs)) \in Nat
        BY <1>3, <2>1, CachedPrefixHashes
    <2> HIDE DEF hs
    <2> QED BY <2>2, StreamFacts, BlockSizeAssumption
<1> HIDE DEF n, hs
<1>6. Min({n, PromptLen - 1}) \in Nat /\ Min({n, PromptLen - 1}) <= n /\ Min({n, PromptLen - 1}) <= PromptLen - 1
    BY <1>5, MinOf
<1>7. pos'[s] = Min({n, PromptLen - 1})
    BY <1>1, <1>2
<1>8. pos' = [pos EXCEPT ![s] = pos'[s]]
    BY <1>1, <1>7
<1> QED BY <1>2, <1>4, <1>5, <1>6, <1>7, <1>8 DEF n, hs

\* add_request keeps the invariant.
LEMMA AdmitInv ==
    ASSUME Inv, NEW s \in Seqs, NEW c \in Streams, Admit(s, c)
    PROVE  Inv'
<1>1. /\ Sound(kv') /\ pos' = [pos EXCEPT ![s] = pos'[s]] /\ pos'[s] \in Nat /\ pos'[s] < PromptLen
      /\ \A r \in Seqs : r # s => kv'.held[r] = kv.held[r]
    BY AdmitFacts DEF Reusing
<1>2. /\ phase = "idle" /\ stream[s] = NoStream
      /\ stream' = [stream EXCEPT ![s] = c] /\ waiting' = waiting \cup {s}
      /\ running' = running /\ done' = done /\ forward' = forward /\ phase' = phase /\ clean' = clean
    BY DEF Admit
<1>3. TypeOK /\ SlotsExact /\ ForwardExact
    BY DEF Inv
<1>4. c # NoStream /\ pos'[s] <= Len(c)
    BY <1>1, StreamFacts, NoStreamAssumption
<1>5. TypeOK'
    <2>1. kv' \in KVCacheType
        BY <1>1 DEF Sound
    <2>2. pos' \in [Seqs -> Nat]
        BY <1>1, <1>3 DEF TypeOK
    <2> QED BY <1>2, <1>3, <2>1, <2>2 DEF TypeOK
<1>6. \A r \in Seqs : /\ stream'[r] = IF r = s THEN c ELSE stream[r]
                      /\ r # s => pos'[r] = pos[r]
    BY <1>1, <1>2, <1>3 DEF TypeOK
<1>7. s \notin ToSet(running) /\ s \notin done
    BY <1>2, <1>3 DEF SlotsExact
<1>8. SlotsExact'
    <2>1. \A r \in Seqs : stream'[r] # NoStream <=> r \in ToSet(running') \cup waiting' \cup done'
        BY <1>2, <1>3, <1>4, <1>6 DEF SlotsExact
    <2>2. \A r \in Seqs : stream'[r] = NoStream => kv'.held[r] = <<>>
        BY <1>1, <1>3, <1>4, <1>6 DEF SlotsExact
    <2>3. \A r \in Seqs : stream'[r] # NoStream => pos'[r] <= Len(stream'[r])
        BY <1>3, <1>4, <1>6 DEF SlotsExact
    <2> QED BY <1>2, <1>3, <1>7, <2>1, <2>2, <2>3 DEF SlotsExact
<1>9. ForwardExact'
    BY <1>2, <1>3 DEF ForwardExact
<1> QED BY <1>1, <1>5, <1>8, <1>9 DEF Inv

\* Between steps a request moves, with its blocks.
LEMMA MoveInv ==
    ASSUME Inv, NEW s \in Seqs, Start(s) \/ Preempt(s) \/ Finish(s)
    PROVE  Inv'
<1>1. TypeOK /\ SlotsExact /\ ForwardExact /\ Sound(kv) /\ running \in Seq(Seqs) /\ IsInjective(running)
    BY DEF Inv, TypeOK, SlotsExact
<1>2. /\ phase = "idle" /\ kv' = kv /\ stream' = stream /\ pos' = pos
      /\ forward' = forward /\ phase' = phase /\ clean' = clean
    BY DEF Start, Preempt, Finish
<1>3. Sound(kv')
    BY <1>1, <1>2
<1>4. ForwardExact'
    BY <1>1, <1>2 DEF ForwardExact
<1>5. /\ running' \in Seq(Seqs) /\ IsInjective(running')
      /\ waiting' \subseteq Seqs /\ done' \subseteq Seqs
      /\ ToSet(running') \cap waiting' = {} /\ ToSet(running') \cap done' = {} /\ waiting' \cap done' = {}
      /\ ToSet(running') \cup waiting' \cup done' = ToSet(running) \cup waiting \cup done
    <2>1. CASE Start(s)
        <3>1. /\ running' = Append(running, s) /\ waiting' = waiting \ {s} /\ done' = done /\ s \in waiting
            BY <2>1 DEF Start
        <3>2. s \notin ToSet(running) /\ s \notin done
            BY <1>1, <3>1 DEF SlotsExact
        <3>3. running' \in Seq(Seqs) /\ ToSet(running') = ToSet(running) \cup {s} /\ IsInjective(running')
            BY <1>1, <3>1, <3>2, AppendedIs
        <3> QED BY <1>1, <3>1, <3>2, <3>3 DEF SlotsExact, TypeOK
    <2>2. CASE Preempt(s) \/ Finish(s)
        <3>1. running' = Without(running, s)
            BY <2>2 DEF Preempt, Finish
        <3>2. running' \in Seq(Seqs) /\ ToSet(running') = ToSet(running) \ {s} /\ IsInjective(running')
            BY <1>1, <3>1, WithoutIs
        <3>3. \/ waiting' = waiting \cup {s} /\ done' = done /\ s \in ToSet(running)
              \/ waiting' = waiting \ {s} /\ done' = done \cup {s} /\ s \in ToSet(running) \cup waiting
            BY <2>2 DEF Preempt, Finish
        <3> QED BY <1>1, <3>2, <3>3 DEF SlotsExact, TypeOK
    <2> QED BY <2>1, <2>2
<1>6. TypeOK'
    BY <1>1, <1>2, <1>5 DEF TypeOK
<1>7. SlotsExact'
    BY <1>1, <1>2, <1>5 DEF SlotsExact
<1> QED BY <1>3, <1>4, <1>6, <1>7 DEF Inv

\* _free_slot keeps the invariant.
LEMMA FreeSlotInv ==
    ASSUME Inv, NEW s \in Seqs, FreeSlot(s)
    PROVE  Inv'
<1>1. /\ TypeOK /\ SlotsExact /\ ForwardExact /\ Sound(kv) /\ running \in Seq(Seqs) /\ IsInjective(running)
      /\ stream \in [Seqs -> Streams \cup {NoStream}] /\ pos \in [Seqs -> Nat]
    BY DEF Inv, TypeOK, SlotsExact
<1>2. /\ phase = "idle" /\ s \in done \cup ToSet(running)
      /\ kv' = FreeSequence(kv, s)
      /\ stream' = [stream EXCEPT ![s] = NoStream] /\ pos' = [pos EXCEPT ![s] = 0]
      /\ running' = Without(running, s) /\ done' = done \ {s}
      /\ waiting' = waiting /\ forward' = forward /\ phase' = phase /\ clean' = clean
    BY DEF FreeSlot
<1>3. Sound(kv') /\ Freed(kv, kv', {s})
    BY <1>1, <1>2, FreeSequenceSound
<1>4. running' \in Seq(Seqs) /\ ToSet(running') = ToSet(running) \ {s} /\ IsInjective(running')
    BY <1>1, <1>2, WithoutIs
<1>5. forward' = <<>>
    BY <1>1, <1>2 DEF ForwardExact
<1>6. ForwardExact'
    BY <1>2, <1>5 DEF ForwardExact
<1>7. TypeOK'
    <2>1. kv' \in KVCacheType
        BY <1>3 DEF Sound
    <2>2. stream' \in [Seqs -> Streams \cup {NoStream}] /\ pos' \in [Seqs -> Nat]
        BY <1>1, <1>2
    <2> QED BY <1>1, <1>2, <1>4, <2>1, <2>2 DEF TypeOK
<1>8. s \notin waiting
    BY <1>1, <1>2 DEF SlotsExact
<1>9. SlotsExact'
    <2>1. \A r \in Seqs : /\ stream'[r] = IF r = s THEN NoStream ELSE stream[r]
                          /\ r # s => pos'[r] = pos[r]
                          /\ kv'.held[r] = IF r = s THEN <<>> ELSE kv.held[r]
        BY <1>1, <1>2, <1>3 DEF Freed
    <2> QED BY <1>1, <1>2, <1>4, <1>8, <2>1 DEF SlotsExact
<1> QED BY <1>3, <1>6, <1>7, <1>9 DEF Inv

\* The entries of a forward pass are running requests with positions to write.
LEMMA BeginForwardInv ==
    ASSUME Inv, BeginForward
    PROVE  Inv'
<1> DEFINE upto(s) == IF Decoding(s) THEN pos[s] + 1 ELSE PromptLen
<1>1. /\ TypeOK /\ SlotsExact /\ ForwardExact /\ Sound(kv)
      /\ running \in Seq(Seqs) /\ DOMAIN running = 1 .. Len(running) /\ Len(running) \in Nat
      /\ pos \in [Seqs -> Nat]
    BY RunningFacts DEF Inv, TypeOK
<1>2. /\ phase = "idle" /\ phase' = "forward"
      /\ \A s \in ToSet(running) : pos[s] < Len(stream[s])
      /\ forward' = [i \in DOMAIN running |-> [seq |-> running[i], upto |-> upto(running[i])]]
      /\ kv' = kv /\ stream' = stream /\ pos' = pos /\ running' = running /\ waiting' = waiting
      /\ done' = done /\ clean' = clean
    BY DEF BeginForward, CanStep, Unfinished
<1>3. ASSUME NEW i \in DOMAIN running
      PROVE  /\ running[i] \in Seqs /\ running[i] \in ToSet(running)
             /\ upto(running[i]) \in Nat
             /\ pos[running[i]] < upto(running[i])
             /\ upto(running[i]) <= Len(stream[running[i]])
    <2>1. running[i] \in ToSet(running)
        BY DEF ToSet
    <2>2. running[i] \in Seqs /\ stream[running[i]] \in Streams
        BY <2>1, RunningFacts
    <2>3. /\ PromptLen \in Nat \ {0} /\ PromptLen <= Len(stream[running[i]])
          /\ Len(stream[running[i]]) \in Nat
        BY <2>2, StreamFacts
    <2>4. pos[running[i]] \in Nat /\ pos[running[i]] < Len(stream[running[i]])
        BY <1>1, <1>2, <2>1, <2>2
    <2> QED BY <2>1, <2>2, <2>3, <2>4 DEF Decoding
<1> HIDE DEF upto
<1>4. forward' \in Seq([seq : Seqs, upto : Nat])
    <2>1. forward' \in [1 .. Len(running) -> [seq : Seqs, upto : Nat]]
        BY <1>1, <1>2, <1>3
    <2> DEFINE E == [seq : Seqs, upto : Nat]
    <2> HIDE DEF E
    <2>2. forward' \in [1 .. Len(running) -> E]
        BY <2>1 DEF E
    <2>3. forward' \in Seq(E)
        BY <1>1, <2>2, SeqDef
    <2> QED BY <2>3 DEF E
<1>5. ForwardExact'
    <2>1. DOMAIN forward' = DOMAIN running
        BY <1>2
    <2>2. \A i \in DOMAIN forward' :
             /\ forward'[i].seq \in ToSet(running')
             /\ pos'[forward'[i].seq] < forward'[i].upto
             /\ forward'[i].upto <= Len(stream'[forward'[i].seq])
        BY <1>2, <1>3, <2>1
    <2>3. \A i, j \in DOMAIN forward' : forward'[i].seq = forward'[j].seq => i = j
        BY <1>1, <1>2, <2>1 DEF SlotsExact, IsInjective
    <2> QED BY <1>2, <2>2, <2>3 DEF ForwardExact
<1>6. TypeOK'
    BY <1>1, <1>2, <1>4 DEF TypeOK
<1>7. SlotsExact' /\ Sound(kv')
    BY <1>1, <1>2 DEF SlotsExact
<1> QED BY <1>5, <1>6, <1>7 DEF Inv

\* The head of a forward pass: a running sequence, and the position it writes.
LEMMA WritingFacts ==
    ASSUME Inv, forward # <<>>
    PROVE  LET s == Writing
               p == pos[s]
           IN  /\ s \in Seqs /\ s \in ToSet(running) /\ stream[s] \in Streams
               /\ p \in Nat /\ p < Head(forward).upto /\ Head(forward).upto <= Len(stream[s])
               /\ Head(forward).upto \in Nat
               /\ p + 1 \in 1 .. Len(stream[s]) /\ stream[s][p + 1] \in Values
               /\ IndexOf(p) \in BlockIx
<1> DEFINE E == [seq : Seqs, upto : Nat]
           e == forward[1]
<1>1. forward \in Seq(E) /\ ForwardExact /\ pos \in [Seqs -> Nat]
    BY DEF Inv, TypeOK
<1>2. 1 \in DOMAIN forward /\ Head(forward) = e /\ e \in E
    <2> HIDE DEF E
    <2> QED BY <1>1
<1>3. /\ e.seq \in ToSet(running) /\ pos[e.seq] < e.upto /\ e.upto <= Len(stream[e.seq])
      /\ e.seq \in Seqs /\ e.upto \in Nat
    BY <1>1, <1>2 DEF ForwardExact
<1>4. Writing = e.seq
    BY <1>2 DEF Writing
<1> HIDE DEF e
<1>5. stream[e.seq] \in Streams
    BY <1>3, RunningFacts
<1>6. pos[e.seq] \in Nat /\ Len(stream[e.seq]) \in Nat
    BY <1>1, <1>3, <1>5, StreamFacts
<1>7. pos[e.seq] < Len(stream[e.seq]) /\ pos[e.seq] + 1 \in 1 .. Len(stream[e.seq])
    BY <1>3, <1>6
<1>8. stream[e.seq][pos[e.seq] + 1] \in Values /\ IndexOf(pos[e.seq]) \in BlockIx
    BY <1>5, <1>6, <1>7, StreamFacts
<1> QED BY <1>2, <1>3, <1>4, <1>5, <1>6, <1>7, <1>8

\* What the next write makes of the cache.
LEMMA WriteFacts ==
    ASSUME Inv, Write
    PROVE  LET s == Writing
               p == pos[s]
           IN  /\ Sound(kv')
               /\ Wrote(kv, kv', s, p, stream[s][p + 1], ToSet(running))
               /\ pos' = [pos EXCEPT ![s] = p + 1]
<1> DEFINE s == Writing
           p == pos[s]
           v == stream[s][p + 1]
<1>1. /\ forward # <<>> /\ Outcome = "ok"
      /\ kv' = WriteKV(kv, s, p, v) /\ pos' = [pos EXCEPT ![s] = @ + 1]
    BY DEF Write
<1>2. s \in Seqs /\ p \in Nat /\ v \in Values /\ IndexOf(p) \in BlockIx /\ Sound(kv)
    BY <1>1, WritingFacts DEF Inv
<1>3. MissingBlock(kv, s, p) => AllocationOutcome(kv, s, 1, ToSet(running)) = "ok"
    BY <1>1 DEF Outcome
<1> HIDE DEF s, p, v
<1>4. Sound(kv') /\ Wrote(kv, kv', s, p, v, ToSet(running))
    <2>1. CASE MissingBlock(kv, s, p)
        BY <1>1, <1>2, <1>3, <2>1, WriteNew
    <2>2. CASE ~MissingBlock(kv, s, p)
        BY <1>1, <1>2, <2>2, WriteOld
    <2> QED BY <2>1, <2>2
<1>5. pos' = [pos EXCEPT ![s] = p + 1]
    BY <1>1 DEF p
<1> QED BY <1>4, <1>5 DEF s, p, v

\* Whoever has nothing and does not write still has nothing.
LEMMA WroteOthers ==
    ASSUME NEW c, NEW d, NEW s, NEW p, NEW v, NEW pinned, Wrote(c, d, s, p, v, pinned)
    PROVE  \A r \in Seqs : r # s /\ c.held[r] = <<>> => d.held[r] = <<>>
BY DEF Wrote, InPlace, InNew, InCopy

\* A write keeps the invariant.
LEMMA WriteInv ==
    ASSUME Inv, Write
    PROVE  Inv'
<1> DEFINE s == Writing
           p == pos[s]
           E == [seq : Seqs, upto : Nat]
<1>1. /\ TypeOK /\ SlotsExact /\ ForwardExact /\ pos \in [Seqs -> Nat] /\ forward \in Seq(E)
      /\ clean \in BOOLEAN
    BY DEF Inv, TypeOK
<1>2. /\ phase = "forward" /\ forward # <<>>
      /\ forward' = IF pos'[s] = Head(forward).upto THEN Tail(forward) ELSE forward
      /\ clean' = (clean /\ KeepsWaiting(kv, kv'))
      /\ stream' = stream /\ running' = running /\ waiting' = waiting /\ done' = done /\ phase' = phase
    BY DEF Write
<1>3. /\ s \in Seqs /\ s \in ToSet(running) /\ stream[s] \in Streams
      /\ p \in Nat /\ p < Head(forward).upto /\ Head(forward).upto <= Len(stream[s])
      /\ Head(forward).upto \in Nat /\ p + 1 \in 1 .. Len(stream[s])
    BY <1>2, WritingFacts
<1>4. /\ Sound(kv') /\ pos' = [pos EXCEPT ![s] = p + 1]
      /\ \A r \in Seqs : r # s /\ kv.held[r] = <<>> => kv'.held[r] = <<>>
    BY WriteFacts, WroteOthers
<1>5. s = Head(forward).seq
    BY DEF Writing
<1> HIDE DEF s, p
<1>6. pos' \in [Seqs -> Nat] /\ \A r \in Seqs : pos'[r] = IF r = s THEN p + 1 ELSE pos[r]
    BY <1>1, <1>3, <1>4
<1>7. forward' \in Seq(E)
    <2> HIDE DEF E
    <2> QED BY <1>1, <1>2
<1>8. TypeOK'
    <2>1. kv' \in KVCacheType
        BY <1>4 DEF Sound
    <2> QED BY <1>1, <1>2, <1>6, <1>7, <2>1 DEF TypeOK
<1>9. SlotsExact'
    <2>1. stream[s] # NoStream /\ Len(stream[s]) \in Nat
        BY <1>3, NoStreamAssumption, StreamFacts
    <2>2. \A r \in Seqs : stream'[r] = NoStream => kv'.held[r] = <<>>
        BY <1>1, <1>2, <1>4, <2>1 DEF SlotsExact
    <2>3. ASSUME NEW r \in Seqs, stream'[r] # NoStream PROVE pos'[r] <= Len(stream'[r])
        <3>1. CASE r = s
            BY <1>2, <1>3, <1>6, <3>1
        <3>2. CASE r # s
            BY <1>1, <1>2, <1>6, <2>3, <3>2 DEF SlotsExact
        <3> QED BY <3>1, <3>2
    <2> QED BY <1>1, <1>2, <2>2, <2>3 DEF SlotsExact
<1>10. ForwardExact'
    <2>1. /\ DOMAIN forward = 1 .. Len(forward) /\ Len(forward) \in Nat /\ 1 \in DOMAIN forward
          /\ Head(forward) = forward[1]
          /\ \A i \in DOMAIN forward : forward[i] \in E
        <3> HIDE DEF E
        <3> QED BY <1>1, <1>2
    <2>2. \A i \in DOMAIN forward :
             /\ forward[i].seq \in ToSet(running) /\ forward[i].seq \in Seqs /\ forward[i].upto \in Nat
             /\ pos[forward[i].seq] < forward[i].upto
             /\ forward[i].upto <= Len(stream[forward[i].seq])
        BY <1>1, <2>1 DEF ForwardExact
    <2>3. \A i, j \in DOMAIN forward : forward[i].seq = forward[j].seq => i = j
        BY <1>1 DEF ForwardExact
    <2>4. \A i \in DOMAIN forward : i # 1 => pos'[forward[i].seq] = pos[forward[i].seq]
        BY <1>5, <1>6, <2>1, <2>2, <2>3
    <2>5. CASE pos'[s] = Head(forward).upto
        <3>1. /\ DOMAIN forward' = 1 .. Len(forward) - 1
              /\ \A i \in 1 .. Len(forward) - 1 : forward'[i] = forward[i + 1]
            <4> HIDE DEF E
            <4>1. forward' = Tail(forward)
                BY <1>2, <2>5
            <4> QED BY <1>1, <1>2, <4>1
        <3>2. \A i \in DOMAIN forward' : /\ i + 1 \in DOMAIN forward /\ i + 1 # 1
                                         /\ forward'[i] = forward[i + 1]
            BY <2>1, <3>1
        <3>3. \A i \in DOMAIN forward' :
                 /\ forward'[i].seq \in ToSet(running')
                 /\ pos'[forward'[i].seq] < forward'[i].upto
                 /\ forward'[i].upto <= Len(stream'[forward'[i].seq])
            BY <1>2, <2>2, <2>4, <3>2
        <3>4. ASSUME NEW i \in DOMAIN forward', NEW j \in DOMAIN forward', forward'[i].seq = forward'[j].seq
              PROVE  i = j
            <4>1. i + 1 = j + 1
                BY <2>3, <3>2, <3>4
            <4> QED BY <2>1, <3>1, <4>1
        <3> QED BY <1>2, <3>3, <3>4 DEF ForwardExact
    <2>6. CASE pos'[s] # Head(forward).upto
        <3>1. forward' = forward
            BY <1>2, <2>6
        <3>2. pos'[s] < Head(forward).upto
            BY <1>3, <1>6, <2>6
        <3>3. \A i \in DOMAIN forward : pos'[forward[i].seq] < forward[i].upto
            BY <1>5, <2>1, <2>2, <2>4, <3>2
        <3> QED BY <1>2, <2>2, <2>3, <3>1, <3>3 DEF ForwardExact
    <2> QED BY <2>5, <2>6
<1> QED BY <1>4, <1>8, <1>9, <1>10 DEF Inv

\* When no block can be had, the sequences in front of the first pinned one are
\* gone, and no running one is among them (kv_cache.py:213-238).
LEMMA AllocationFailsFacts ==
    ASSUME Inv, AllocationFails
    PROVE  /\ Sound(kv')
           /\ \E V \in SUBSET (Seqs \ ToSet(running)) : Freed(kv, kv', V)
<1> DEFINE keep == ToSet(running) \cup {Writing}
           k    == Reach(kv, keep)
           V    == {kv.lru[i] : i \in 1 .. k}
<1>1. Sound(kv) /\ kv \in KVCacheType /\ kv.lru \in Seq(Seqs)
    BY Fields DEF Inv, TypeOK
<1>2. kv' = AfterEvicting(kv)[k]
    BY DEF AllocationFails, AfterVainEviction
<1>3. k \in 0 .. Len(kv.lru) /\ \A i \in 1 .. k : i \in DOMAIN kv.lru /\ kv.lru[i] \notin keep
    BY <1>1, ReachIs
<1> HIDE DEF k
<1>4. V \in SUBSET (Seqs \ ToSet(running))
    BY <1>1, <1>3
<1>5. Sound(kv') /\ Freed(kv, kv', V)
    BY <1>1, <1>2, <1>3, EvictingSound
<1> QED BY <1>4, <1>5

\* So does an allocation that fails.
LEMMA AllocationFailsInv ==
    ASSUME Inv, AllocationFails
    PROVE  Inv'
<1>1. /\ TypeOK /\ SlotsExact /\ ForwardExact
      /\ clean \in BOOLEAN
    BY DEF Inv, TypeOK
<1>2. /\ forward' = <<>>
      /\ clean' = (clean /\ KeepsWaiting(kv, kv'))
      /\ stream' = stream /\ pos' = pos /\ waiting' = waiting
      /\ \/ phase' = "spin" /\ running' = running /\ done' = done
         \/ phase' = "idle" /\ running' = <<>> /\ done' = done \cup ToSet(running)
    BY DEF AllocationFails
<1>3. PICK V \in SUBSET (Seqs \ ToSet(running)) : Freed(kv, kv', V)
    BY AllocationFailsFacts
<1>4. Sound(kv') /\ Freed(kv, kv', V)
    BY <1>3, AllocationFailsFacts
<1>5. ToSet(running) \subseteq Seqs
    BY RunningFacts
<1>6. TypeOK'
    <2>1. kv' \in KVCacheType
        BY <1>4 DEF Sound
    <2>2. forward' \in Seq([seq : Seqs, upto : Nat])
        BY <1>2, EmptyIs
    <2>3. running' \in Seq(Seqs)
        BY <1>2, EmptyIs, RunningFacts
    <2> QED BY <1>1, <1>2, <1>5, <2>1, <2>2, <2>3 DEF TypeOK
<1>7. ForwardExact'
    BY <1>2 DEF ForwardExact
<1>8. SlotsExact'
    <2>1. \A r \in Seqs : stream'[r] = NoStream => kv'.held[r] = <<>>
        BY <1>1, <1>2, <1>4 DEF SlotsExact, Freed
    <2>2. \A r \in Seqs : stream'[r] # NoStream => pos'[r] <= Len(stream'[r])
        BY <1>1, <1>2 DEF SlotsExact
    <2>3. /\ IsInjective(running')
          /\ ToSet(running') \cap waiting' = {} /\ ToSet(running') \cap done' = {} /\ waiting' \cap done' = {}
          /\ ToSet(running') \cup waiting' \cup done' = ToSet(running) \cup waiting \cup done
        BY <1>1, <1>2, EmptyIs DEF SlotsExact
    <2> QED BY <1>1, <1>2, <2>1, <2>2, <2>3 DEF SlotsExact
<1> QED BY <1>4, <1>6, <1>7, <1>8 DEF Inv

\* At the end of a step, blocks without a hash get the one of their place in a
\* prompt that is in the cache now.
RegisteringAll(c, d) ==
    /\ d.held = c.held /\ d.content = c.content /\ d.pool.caching = c.pool.caching
    /\ \A b \in Block :
         \/ d.pool.hash[b] = c.pool.hash[b]
         \/ /\ c.pool.hash[b] = NoHash
            /\ \E s \in ToSet(running) :
                 /\ pos[s] = PromptLen
                 /\ \E i \in DOMAIN c.held[s] \cap DOMAIN BlockHashes(Prompt(stream[s])) :
                      b = c.held[s][i] /\ d.pool.hash[b] = BlockHashes(Prompt(stream[s]))[i]

\* Registering every prompt that has just been computed leaves a sound cache.
LEMMA RegisteredSound ==
    ASSUME Inv
    PROVE  Sound(Registered[Len(running)]) /\ RegisteringAll(kv, Registered[Len(running)])
<1> DEFINE n == Len(running)
           T == {k \in 0 .. n : Sound(Registered[k]) /\ RegisteringAll(kv, Registered[k])}
<1>1. n \in Nat /\ Sound(kv) /\ \A k \in 1 .. n : running[k] \in ToSet(running) /\ running[k] \in Seqs
    BY RunningFacts DEF Inv, ToSet
<1>2. Registered[0] = kv /\ \A k \in 1 .. n : Registered[k] = RegisterTurn(Registered[k - 1], k)
    BY <1>1, RegisteredTurns
<1> HIDE DEF n
<1>3. 0 \in T
    <2>1. RegisteringAll(kv, kv)
        BY DEF RegisteringAll
    <2>2. Sound(Registered[0]) /\ RegisteringAll(kv, Registered[0])
        BY <1>1, <1>2, <2>1
    <2> QED BY <1>1, <2>2
<1>4. ASSUME NEW k \in 1 .. n, k - 1 \in T PROVE k \in T
    <2> DEFINE a  == Registered[k - 1]
               d  == Registered[k]
               s  == running[k]
               hs == BlockHashes(Prompt(stream[s]))
    <2>1. Sound(a) /\ RegisteringAll(kv, a) /\ s \in ToSet(running) /\ s \in Seqs
        BY <1>1, <1>4
    <2>2. stream[s] \in Streams
        BY <2>1, RunningFacts
    <2>3. d = IF pos[s] = PromptLen THEN RegisterPrefix(a, s, Prompt(stream[s])) ELSE a
        BY <1>2 DEF RegisterTurn
    <2>4. hs \in Seq(Hash) /\ IsInjective(hs)
        BY <2>2, HashesIs
    <2> HIDE DEF a, d
    <2>5. CASE pos[s] # PromptLen
        BY <1>1, <2>1, <2>3, <2>5 DEF d
    <2>6. CASE pos[s] = PromptLen
        <3>1. Sound(RegisterPrefix(a, s, Prompt(stream[s]))) /\ Registering(a, RegisterPrefix(a, s, Prompt(stream[s])), s, hs)
            BY <2>1, <2>4, RegisterSound
        <3>2. Sound(d) /\ Registering(a, d, s, hs)
            BY <2>3, <2>6, <3>1
        <3>3. RegisteringAll(kv, d)
            <4>1. d.held = kv.held /\ d.content = kv.content /\ d.pool.caching = kv.pool.caching /\ a.held = kv.held
                BY <2>1, <3>2 DEF Registering, RegisteringAll
            <4>2. ASSUME NEW b \in Block
                  PROVE  \/ d.pool.hash[b] = kv.pool.hash[b]
                         \/ /\ kv.pool.hash[b] = NoHash
                            /\ \E r \in ToSet(running) :
                                 /\ pos[r] = PromptLen
                                 /\ \E i \in DOMAIN kv.held[r] \cap DOMAIN BlockHashes(Prompt(stream[r])) :
                                      b = kv.held[r][i] /\ d.pool.hash[b] = BlockHashes(Prompt(stream[r]))[i]
                <5>1. \/ a.pool.hash[b] = kv.pool.hash[b]
                      \/ /\ kv.pool.hash[b] = NoHash
                         /\ \E r \in ToSet(running) :
                              /\ pos[r] = PromptLen
                              /\ \E i \in DOMAIN kv.held[r] \cap DOMAIN BlockHashes(Prompt(stream[r])) :
                                   b = kv.held[r][i] /\ a.pool.hash[b] = BlockHashes(Prompt(stream[r]))[i]
                    BY <2>1 DEF RegisteringAll
                <5>2. \/ d.pool.hash[b] = a.pool.hash[b]
                      \/ /\ a.pool.hash[b] = NoHash
                         /\ \E i \in DOMAIN kv.held[s] \cap DOMAIN hs :
                              b = kv.held[s][i] /\ d.pool.hash[b] = hs[i]
                    BY <3>2, <4>1 DEF Registering
                <5>3. CASE d.pool.hash[b] = a.pool.hash[b]
                    BY <5>1, <5>3
                <5>4. CASE a.pool.hash[b] = NoHash /\ d.pool.hash[b] # a.pool.hash[b]
                    <6>1. kv.pool.hash[b] = NoHash
                        BY <5>1, <5>4
                    <6>2. \E i \in DOMAIN kv.held[s] \cap DOMAIN hs :
                              b = kv.held[s][i] /\ d.pool.hash[b] = hs[i]
                        BY <5>2, <5>4
                    <6> HIDE DEF s
                    <6> QED BY <2>1, <2>6, <6>1, <6>2
                <5> QED BY <5>2, <5>3, <5>4
            <4> QED BY <4>1, <4>2 DEF RegisteringAll
        <3> QED BY <1>1, <3>2, <3>3 DEF d
    <2> QED BY <2>5, <2>6
<1> HIDE DEF T
<1>5. n \in T
    <2>1. \A k \in 0 .. n : k \in T
        BY <1>1, <1>3, <1>4, LoopInduction
    <2> QED BY <1>1, <2>1
<1> QED BY <1>5 DEF T, n

\* So does the end of a step.
LEMMA EndForwardInv ==
    ASSUME Inv, EndForward
    PROVE  Inv'
<1>1. TypeOK /\ SlotsExact /\ ForwardExact
    BY DEF Inv
<1>2. /\ forward = <<>> /\ kv' = Registered[Len(running)] /\ phase' = "idle"
      /\ stream' = stream /\ pos' = pos /\ running' = running /\ waiting' = waiting
      /\ done' = done /\ forward' = forward /\ clean' = clean
    BY DEF EndForward
<1>3. Sound(kv') /\ kv'.held = kv.held
    BY <1>2, RegisteredSound DEF RegisteringAll
<1>4. TypeOK'
    <2>1. kv' \in KVCacheType
        BY <1>3 DEF Sound
    <2> QED BY <1>1, <1>2, <2>1 DEF TypeOK
<1>5. SlotsExact'
    BY <1>1, <1>2, <1>3 DEF SlotsExact
<1>6. ForwardExact'
    BY <1>1, <1>2 DEF ForwardExact
<1> QED BY <1>3, <1>4, <1>5, <1>6 DEF Inv

\* The values a decode graph writes.
NextValues == [s \in ToSet(running) |-> stream[s][pos[s] + 1]]

\* What a decode graph writes: each cell gets the value of one of its writers.
LEMMA DecodeFacts ==
    ASSUME Inv, DecodeGraph
    PROVE  /\ Sound(kv') /\ kv'.pool = kv.pool /\ kv'.held = kv.held
           /\ \E won \in SUBSET ToSet(running) :
                /\ MayWin(kv, ToSet(running), won, pos)
                /\ \A b \in Block, o \in Offset :
                     \/ /\ kv'.content[b][o] = kv.content[b][o]
                        /\ \A s \in won : Cell(kv, s, pos[s]) # <<b, o>>
                     \/ \E s \in won : /\ Cell(kv, s, pos[s]) = <<b, o>>
                                       /\ kv'.content[b][o] = stream[s][pos[s] + 1]
<1> DEFINE R == ToSet(running)
<1>1. /\ Sound(kv) /\ pos \in [Seqs -> Nat] /\ running \in Seq(Seqs) /\ IsInjective(running)
      /\ R \in SUBSET Seqs
    BY RunningFacts DEF Inv, TypeOK, SlotsExact
<1>2. PICK won \in SUBSET R : /\ MayWin(kv, R, won, pos)
                              /\ kv' = TouchedInTurn(WriteKVDecode(kv, R, won, pos, NextValues), running)
    BY DEF DecodeGraph, NextValues
<1>3. ASSUME NEW s \in R
      PROVE  /\ NextValues[s] = stream[s][pos[s] + 1] /\ NextValues[s] \in Values
             /\ IndexOf(pos[s]) \in BlockIx
    <2>1. s \in Seqs /\ stream[s] \in Streams /\ pos[s] \in Nat
        BY <1>1, RunningFacts
    <2>2. pos[s] < Len(stream[s])
        BY DEF DecodeGraph, CanStep, Unfinished
    <2>3. pos[s] + 1 \in 1 .. Len(stream[s])
        BY <2>1, <2>2, StreamFacts
    <2> QED BY <2>1, <2>2, <2>3, StreamFacts DEF NextValues
<1>4. NextValues \in [R -> Values]
    BY <1>3 DEF NextValues
<1> DEFINE d == WriteKVDecode(kv, R, won, pos, NextValues)
<1>5. Sound(d) /\ Decoded(kv, d, won, pos, NextValues)
    <2>1. Writable(R, won, pos, NextValues)
        BY <1>1, <1>2, <1>3, <1>4 DEF Writable
    <2> QED BY <1>1, <2>1, DecodeSound
<1> HIDE DEF d, R
<1>6. Sound(kv') /\ kv'.pool = d.pool /\ kv'.held = d.held /\ kv'.content = d.content
    BY <1>1, <1>2, <1>5, TouchedInTurnSound DEF d
<1> USE DEF Decoded
<1>7. \A b \in Block, o \in Offset :
         \/ kv'.content[b][o] = kv.content[b][o] /\ \A s \in won : Cell(kv, s, pos[s]) # <<b, o>>
         \/ \E s \in won : /\ Cell(kv, s, pos[s]) = <<b, o>>
                           /\ kv'.content[b][o] = stream[s][pos[s] + 1]
    BY <1>3, <1>5, <1>6
<1> QED BY <1>2, <1>5, <1>6, <1>7 DEF R

\* A decode graph keeps the invariant.
LEMMA DecodeGraphInv ==
    ASSUME Inv, DecodeGraph
    PROVE  Inv'
<1>1. /\ TypeOK /\ SlotsExact /\ ForwardExact
    BY DEF Inv
<1>2. /\ pos' = [s \in Seqs |-> IF s \in ToSet(running) THEN pos[s] + 1 ELSE pos[s]]
      /\ clean' = (clean /\ \A s \in ToSet(running) : ~MissingBlock(kv, s, pos[s]))
      /\ stream' = stream /\ running' = running /\ waiting' = waiting
      /\ done' = done /\ forward' = forward /\ phase' = phase
      /\ phase = "idle" /\ \A s \in ToSet(running) : pos[s] < Len(stream[s])
    BY DEF DecodeGraph, CanStep, Unfinished
<1>3. Sound(kv') /\ kv'.held = kv.held
    BY DecodeFacts
<1>4. TypeOK'
    <2>1. kv' \in KVCacheType
        BY <1>3 DEF Sound
    <2>2. pos' \in [Seqs -> Nat]
        BY <1>1, <1>2 DEF TypeOK
    <2>3. clean' \in BOOLEAN
        BY <1>1, <1>2 DEF TypeOK
    <2> QED BY <1>1, <1>2, <2>1, <2>2, <2>3 DEF TypeOK
<1>5. SlotsExact'
    <2>1. \A s \in Seqs : stream[s] # NoStream => pos'[s] <= Len(stream[s])
        <3> SUFFICES ASSUME NEW s \in Seqs, stream[s] # NoStream PROVE pos'[s] <= Len(stream[s])
            OBVIOUS
        <3>1. pos[s] \in Nat /\ pos[s] <= Len(stream[s])
            BY <1>1 DEF TypeOK, SlotsExact
        <3>2. Len(stream[s]) \in Nat
            BY RunningFacts, StreamFacts
        <3> QED BY <1>2, <3>1, <3>2
    <2> QED BY <1>1, <1>2, <1>3, <2>1 DEF SlotsExact
<1>6. ForwardExact'
    BY <1>1, <1>2, EmptyIs DEF ForwardExact
<1> QED BY <1>3, <1>4, <1>5, <1>6 DEF Inv

\* Every step keeps the invariant.
LEMMA NextInv ==
    ASSUME Inv, [Next]_vars
    PROVE  Inv'
<1>1. ASSUME NEW s \in Seqs, NEW c \in Streams, Admit(s, c) PROVE Inv'
    BY <1>1, AdmitInv
<1>2. ASSUME NEW s \in Seqs, Start(s) \/ Preempt(s) \/ Finish(s) PROVE Inv'
    BY <1>2, MoveInv
<1>3. ASSUME NEW s \in Seqs, FreeSlot(s) PROVE Inv'
    BY <1>3, FreeSlotInv
<1>4. CASE BeginForward
    BY <1>4, BeginForwardInv
<1>5. CASE Write
    BY <1>5, WriteInv
<1>6. CASE AllocationFails
    BY <1>6, AllocationFailsInv
<1>7. CASE EndForward
    BY <1>7, EndForwardInv
<1>8. CASE DecodeGraph
    BY <1>8, DecodeGraphInv
<1>9. CASE UNCHANGED vars
    BY <1>9 DEF Inv, TypeOK, SlotsExact, ForwardExact, vars
<1> QED BY <1>1, <1>2, <1>3, <1>4, <1>5, <1>6, <1>7, <1>8, <1>9 DEF Next, Spin

\* Whatever is allocated, shared, copied, evicted, reused and freed, every
\* structure of the cache stays sound, and every slot is in one place.
THEOREM KVCacheInvariance == Spec => []Inv
<1>1. Init => Inv
    BY InitInv
<1>2. Inv /\ [Next]_vars => Inv'
    BY NextInv
<1> QED BY <1>1, <1>2, PTL DEF Spec

\* In a sound cache the five structures agree.
LEMMA SoundAgrees ==
    ASSUME Inv
    PROVE  StructuresAgree
<1>1. TypeOK /\ Sound(kv)
    BY DEF Inv
<1>2. PoolMatchesSequences
    <2>1. \A s \in Seqs : IsInjective(kv.held[s])
        BY <1>1 DEF Sound, Listed
    <2>2. \A b \in Block : Holders(b) = HoldersIn(kv, b)
        BY DEF Holders, HoldersIn
    <2>3. \A b \in Block : kv.pool.ref[b] = Cardinality(Holders(b)) + (IF b = kv.dummy THEN 1 ELSE 0)
        BY <1>1, <2>2 DEF Sound, Counted
    <2>4. /\ IsInjective(kv.pool.free)
          /\ ToSet(kv.pool.free) = {b \in Block \ {NullBlock} : kv.pool.ref[b] = 0}
        BY <1>1 DEF Sound, QueueExact
    <2> QED BY <2>1, <2>3, <2>4 DEF PoolMatchesSequences
<1>3. TableMatchesBlocks
    BY <1>1 DEF TableMatchesBlocks, Sound, Tabled
<1>4. LRUCoversHolders
    BY <1>1 DEF LRUCoversHolders, Sound, Ordered
<1> QED BY <1>1, <1>2, <1>3, <1>4 DEF StructuresAgree

\* The pool's counts and its queue, the lists of blocks, the rows that attention
\* reads and the LRU order never drift apart (kv_cache.py:195-287, 498-524,
\* 599-704): no block leaks, and none is handed out while somebody has it.
THEOREM StructuresAgreeAlways == Spec => []StructuresAgree
BY KVCacheInvariance, SoundAgrees, PTL

-----------------------------------------------------------------------------
(* While a forward pass runs.                                               *)

\* A write takes no block from a running sequence, and a block it hands out is zero.
LEMMA WriteKeepsBlocks ==
    ASSUME Inv, Write
    PROVE  /\ \A s \in ToSet(running) : Len(kv'.held[s]) >= Len(kv.held[s])
           /\ \A s \in Seqs : Len(kv'.held[s]) = Len(kv.held[s]) + 1 =>
                \A o \in Offset : o # OffsetOf(pos[s]) =>
                    kv'.content[Last(kv'.held[s])][o] = Zero
<1> DEFINE s == Writing
           p == pos[s]
           v == stream[s][p + 1]
<1>1. Wrote(kv, kv', s, p, v, ToSet(running))
    BY WriteFacts
<1>2. s \in Seqs /\ ToSet(running) \subseteq Seqs
    BY WritingFacts, RunningFacts DEF Write
<1>3. IndexOf(p) \in Nat
    BY WritingFacts DEF Write, BlockIx
<1>4. \A r \in Seqs : kv.held[r] \in Seq(Block) /\ Len(kv.held[r]) \in Nat
    BY RunningFacts
<1> HIDE DEF s, v
<1>5. CASE InPlace(kv, kv', s, p, v)
    <2>1. \A r \in Seqs : Len(kv'.held[r]) = Len(kv.held[r])
        BY <1>5 DEF InPlace
    <2> QED BY <1>2, <1>4, <2>1
<1>6. ASSUME NEW V \in SUBSET (ToSet(kv.lru) \ (ToSet(running) \cup {s})), NEW f \in Block,
             InNew(kv, kv', s, p, v, V, f)
      PROVE  /\ \A r \in ToSet(running) : Len(kv'.held[r]) >= Len(kv.held[r])
             /\ \A r \in Seqs : Len(kv'.held[r]) = Len(kv.held[r]) + 1 =>
                  \A o \in Offset : o # OffsetOf(pos[r]) => kv'.content[Last(kv'.held[r])][o] = Zero
    <2>1. \A r \in Seqs : kv'.held[r] = IF r = s THEN Append(kv.held[s], f)
                                         ELSE IF r \in V THEN <<>> ELSE kv.held[r]
        BY <1>6 DEF InNew
    <2>2. Len(Append(kv.held[s], f)) = Len(kv.held[s]) + 1 /\ Last(Append(kv.held[s], f)) = f
        BY <1>2, <1>4 DEF Last
    <2>3. ASSUME NEW r \in ToSet(running) PROVE Len(kv'.held[r]) >= Len(kv.held[r])
        <3>1. r \in Seqs /\ r \notin V
            BY <1>2
        <3>2. CASE r = s
            <4>1. kv'.held[s] = Append(kv.held[s], f) /\ Len(kv.held[s]) \in Nat
                BY <1>2, <1>4, <2>1
            <4>2. Len(kv'.held[s]) = Len(kv.held[s]) + 1
                BY <2>2, <4>1
            <4> QED BY <3>2, <4>1, <4>2
        <3>3. CASE r # s
            <4>1. kv'.held[r] = kv.held[r]
                BY <2>1, <3>1, <3>3
            <4> QED BY <1>4, <3>1, <4>1
        <3> QED BY <3>2, <3>3
    <2>4. ASSUME NEW r \in Seqs, Len(kv'.held[r]) = Len(kv.held[r]) + 1 PROVE r = s
        BY <1>4, <2>1, <2>4, EmptyIs
    <2>5. \A o \in Offset : o # OffsetOf(p) => kv'.content[f][o] = Zero
        BY <1>6 DEF InNew
    <2>6. kv'.held[s] = Append(kv.held[s], f)
        BY <1>2, <2>1
    <2> QED BY <2>2, <2>3, <2>4, <2>5, <2>6
<1>7. ASSUME NEW f \in Block, InCopy(kv, kv', s, p, v, f)
      PROVE  \A r \in Seqs : Len(kv'.held[r]) = Len(kv.held[r])
    <2> DEFINE t == [kv.held[s] EXCEPT ![IndexOf(p) + 1] = f]
    <2>1. /\ IndexOf(p) < Len(kv.held[s])
          /\ \A r \in Seqs : kv'.held[r] = IF r = s THEN t ELSE kv.held[r]
        BY <1>7 DEF InCopy
    <2>2. Len(t) = Len(kv.held[s])
        BY <1>2, <1>3, <1>4, <2>1, ReplacedIs
    <2> HIDE DEF t
    <2> QED BY <2>1, <2>2
<1>8. CASE \E f \in Block : InCopy(kv, kv', s, p, v, f)
    BY <1>2, <1>4, <1>7, <1>8
<1> QED BY <1>1, <1>5, <1>6, <1>8 DEF Wrote

\* So does every step of a forward pass.
LEMMA StepKeepsBlocks ==
    ASSUME Inv, Next, phase = "forward"
    PROVE  /\ \A s \in ToSet(running) : Len(kv'.held[s]) >= Len(kv.held[s])
           /\ \A s \in Seqs : Len(kv'.held[s]) = Len(kv.held[s]) + 1 =>
                \A o \in Offset : o # OffsetOf(pos[s]) =>
                    kv'.content[Last(kv'.held[s])][o] = Zero
<1>1. /\ ToSet(running) \subseteq Seqs
      /\ \A r \in Seqs : kv.held[r] \in Seq(Block) /\ Len(kv.held[r]) \in Nat
    BY RunningFacts
<1>2. Write \/ AllocationFails \/ EndForward
    BY DEF Next, Admit, Start, Preempt, Finish, FreeSlot, BeginForward, CanStep, DecodeGraph, Spin
<1>3. CASE Write
    BY <1>3, WriteKeepsBlocks
<1>4. CASE AllocationFails
    <2>1. PICK V \in SUBSET (Seqs \ ToSet(running)) : Freed(kv, kv', V)
        BY <1>4, AllocationFailsFacts
    <2>2. \A r \in Seqs : kv'.held[r] = IF r \in V THEN <<>> ELSE kv.held[r]
        BY <2>1 DEF Freed
    <2> QED BY <1>1, <2>2, EmptyIs
<1>5. CASE EndForward
    <2>1. kv'.held = kv.held
        BY <1>5, RegisteredSound DEF EndForward, RegisteringAll
    <2> QED BY <1>1, <2>1
<1> QED BY <1>2, <1>3, <1>4, <1>5

\* While a forward pass runs, the pins keep the blocks of every running sequence
\* from eviction (i64_engine.py:907-915), and a block handed out for new tokens
\* holds nothing of its last owner but what has just been written over it
\* (kv_cache.py:131-134, 274-278).
THEOREM ForwardKeepsBlocksAlways == Spec => ForwardKeepsBlocks
<1> DEFINE A == phase = "forward" =>
                  /\ \A s \in ToSet(running) : Len(kv'.held[s]) >= Len(kv.held[s])
                  /\ \A s \in Seqs : Len(kv'.held[s]) = Len(kv.held[s]) + 1 =>
                       \A o \in Offset : o # OffsetOf(pos[s]) =>
                           kv'.content[Last(kv'.held[s])][o] = Zero
<1>1. Inv /\ [Next]_vars => [A]_vars
    BY StepKeepsBlocks
<1> HIDE DEF A
<1>2. Spec => [][A]_vars
    BY <1>1, KVCacheInvariance, PTL DEF Spec
<1> QED BY <1>2 DEF ForwardKeepsBlocks, A

-----------------------------------------------------------------------------
(* What the blocks hold.                                                    *)

\* The hash of a block that a request has is the one of its place in the prompt.
Owned ==
    \A s \in Seqs : stream[s] # NoStream => \A i \in DOMAIN kv.held[s] :
        kv.pool.hash[kv.held[s][i]] # NoHash =>
            /\ i * BlockSize <= PromptLen
            /\ kv.pool.hash[kv.held[s][i]] = stream[s][i * BlockSize]

\* A hash is of a full block of some prompt.
HashKnown ==
    \A b \in Block : kv.pool.hash[b] # NoHash =>
        \E c \in Streams : \E i \in 1 .. IndexOf(PromptLen) : kv.pool.hash[b] = c[i * BlockSize]

\* A block with a hash holds what the hash stands for.
HashContent ==
    clean => \A b \in Block : \A c \in Streams, i \in 1 .. IndexOf(PromptLen) :
        kv.pool.hash[b] = c[i * BlockSize] =>
            \A o \in Offset : kv.content[b][o] = c[BlockSize * (i - 1) + o + 1]

\* The positions a request takes to be cached are in its blocks.
Kept ==
    clean => \A s \in ToSet(running) \cup waiting : \A p \in 0 .. pos[s] - 1 :
        /\ IndexOf(p) < Len(kv.held[s])
        /\ kv.content[kv.held[s][IndexOf(p) + 1]][OffsetOf(p)] = stream[s][p + 1]

\* The inductive invariant of what the blocks hold.
ContentInv == Owned /\ HashKnown /\ HashContent /\ Kept

\* A block and an offset make one position.
LEMMA Position ==
    ASSUME NEW p \in Nat, NEW q \in Nat, IndexOf(p) = IndexOf(q), OffsetOf(p) = OffsetOf(q)
    PROVE  p = q
BY Divided

\* A position is before the end of its block.
LEMMA InBlock ==
    ASSUME NEW p \in Nat
    PROVE  /\ p + 1 \in 1 .. (IndexOf(p) + 1) * BlockSize
           /\ (IndexOf(p) + 1) * BlockSize = BlockSize * (IndexOf(p) + 1)
           /\ IndexOf(p) + 1 \in Nat \ {0}
<1> DEFINE j == IndexOf(p) + 1
<1>1. j \in Nat \ {0} /\ IndexOf(p) < j
    BY Divided
<1>2. j * BlockSize \in Nat /\ j * BlockSize = BlockSize * j
    BY <1>1, BlockSizeAssumption
<1> HIDE DEF j
<1>3. p < BlockSize * j
    BY <1>1, Below
<1>4. p + 1 \in 1 .. j * BlockSize
    BY <1>2, <1>3
<1> QED BY <1>1, <1>2, <1>4 DEF j

\* Streams that agree at the end of a block have the same tokens up to there.
LEMMA SamePrefix ==
    ASSUME NEW c \in Streams, NEW d \in Streams, NEW i \in Nat \ {0}, NEW j \in Nat \ {0},
           i * BlockSize <= PromptLen, j * BlockSize <= PromptLen,
           c[i * BlockSize] = d[j * BlockSize]
    PROVE  i = j /\ \A k \in 1 .. i * BlockSize : c[k] = d[k]
<1> DEFINE m == i * BlockSize
           n == j * BlockSize
<1>1. m \in Nat \ {0} /\ n \in Nat \ {0} /\ m = BlockSize * i + 0 /\ n = BlockSize * j + 0
    BY BlockSizeAssumption
<1>2. 0 \in Offset
    BY BlockSizeAssumption DEF Offset
<1>3. IndexOf(m) = i /\ IndexOf(n) = j
    BY <1>1, <1>2, Composed
<1> HIDE DEF m, n
<1>4. m \in DOMAIN c /\ n \in DOMAIN d
    <2>1. /\ Len(c) \in Nat /\ DOMAIN c = 1 .. Len(c) /\ Len(d) \in Nat /\ DOMAIN d = 1 .. Len(d)
          /\ PromptLen \in Nat /\ PromptLen <= Len(c) /\ PromptLen <= Len(d)
        BY StreamFacts
    <2>2. m <= PromptLen /\ n <= PromptLen
        BY DEF m, n
    <2> QED BY <1>1, <2>1, <2>2
<1>5. c[m] = d[n]
    BY DEF m, n
<1>6. m = n /\ \A k \in 1 .. m : c[k] = d[k]
    BY <1>4, <1>5, PrefixAssumption
<1> QED BY <1>3, <1>6 DEF m

\* The places of a prompt that have a hash.
LEMMA HashPlaces ==
    ASSUME NEW i \in 1 .. IndexOf(PromptLen)
    PROVE  /\ i \in Nat \ {0} /\ i * BlockSize \in Nat \ {0} /\ i * BlockSize = BlockSize * i
           /\ i * BlockSize <= PromptLen
           /\ \A c \in Streams : i * BlockSize \in DOMAIN c /\ c[i * BlockSize] \in Hash
                                 /\ c[i * BlockSize] # NoHash
<1>1. PromptLen \in Nat \ {0} /\ IndexOf(PromptLen) \in Nat
    BY StreamsAssumption, Divided
<1>2. i \in Nat \ {0} /\ ~(IndexOf(PromptLen) < i)
    BY <1>1
<1>3. i * BlockSize \in Nat \ {0} /\ i * BlockSize = BlockSize * i
    BY <1>2, BlockSizeAssumption
<1>4. ~(PromptLen < BlockSize * i)
    BY <1>1, <1>2, Below
<1>5. i * BlockSize <= PromptLen
    BY <1>1, <1>3, <1>4
<1>6. ASSUME NEW c \in Streams
      PROVE  i * BlockSize \in DOMAIN c /\ c[i * BlockSize] \in Hash /\ c[i * BlockSize] # NoHash
    <2>1. Len(c) \in Nat /\ DOMAIN c = 1 .. Len(c) /\ PromptLen <= Len(c)
        BY StreamFacts
    <2> DEFINE m == i * BlockSize
    <2>2. m \in Nat \ {0} /\ m <= PromptLen
        BY <1>3, <1>5
    <2>3. c[m] \in Hash
        BY BlockHashAssumption DEF IndexOf
    <2> HIDE DEF m
    <2>4. m \in DOMAIN c
        BY <1>1, <2>1, <2>2
    <2>5. c[m] # NoHash
        BY <2>3, NoHashAssumption
    <2> QED BY <2>3, <2>4, <2>5 DEF m
<1> QED BY <1>2, <1>3, <1>5, <1>6

\* Block i of what s has.
Has(s, i, b) == i < Len(kv.held[s]) /\ b = kv.held[s][i + 1]

\* A sequence has a block in one place.
LEMMA HasIs ==
    ASSUME Inv, NEW s \in Seqs, NEW i \in Nat, NEW b, Has(s, i, b)
    PROVE  /\ b \in Block /\ b \in ToSet(kv.held[s]) /\ i + 1 \in DOMAIN kv.held[s]
           /\ \A j \in Nat : Has(s, j, b) => i = j
<1>1. kv.held[s] \in Seq(Block) /\ IsInjective(kv.held[s])
    BY RunningFacts DEF Inv, Sound, Listed
<1>2. i + 1 \in DOMAIN kv.held[s] /\ b \in Block /\ b \in ToSet(kv.held[s])
    BY <1>1, At DEF Has
<1>3. ASSUME NEW j \in Nat, Has(s, j, b) PROVE i = j
    <2>1. j + 1 \in DOMAIN kv.held[s] /\ kv.held[s][j + 1] = kv.held[s][i + 1]
        BY <1>1, <1>3, At DEF Has
    <2>2. i + 1 = j + 1
        BY <1>1, <1>2, <2>1 DEF IsInjective
    <2> QED BY <2>2
<1> QED BY <1>2, <1>3

\* A hashed block that s has is full of its prompt.
LEMMA OwnedAt ==
    ASSUME Inv, Owned, NEW s \in Seqs, stream[s] # NoStream, NEW i \in Nat, NEW b,
           Has(s, i, b), kv.pool.hash[b] # NoHash
    PROVE  (i + 1) * BlockSize <= PromptLen /\ kv.pool.hash[b] = stream[s][(i + 1) * BlockSize]
BY HasIs DEF Owned, Has

\* Two requests that have a block have it at the same place, and the same tokens
\* up to its end.
LEMMA SharedCell ==
    ASSUME Inv, Owned, NEW s \in Seqs, NEW r \in Seqs, r # s,
           stream[s] # NoStream, stream[r] # NoStream,
           NEW p \in Nat, NEW q \in Nat, NEW b, Has(s, IndexOf(p), b), Has(r, IndexOf(q), b),
           OffsetOf(p) = OffsetOf(q)
    PROVE  p = q /\ stream[s][p + 1] = stream[r][q + 1]
<1> DEFINE i == IndexOf(p)
           j == IndexOf(q)
<1>1. i \in Nat /\ j \in Nat
    BY Divided
<1>2. b \in ToSet(kv.held[s]) \cap ToSet(kv.held[r])
    BY <1>1, HasIs
<1>3. kv.pool.hash[b] # NoHash
    BY <1>2 DEF Inv, Sound, SharedHashed
<1>4. /\ stream[s] \in Streams /\ stream[r] \in Streams
    BY RunningFacts
<1> HIDE DEF i, j
<1>5. /\ (i + 1) * BlockSize <= PromptLen /\ kv.pool.hash[b] = stream[s][(i + 1) * BlockSize]
      /\ (j + 1) * BlockSize <= PromptLen /\ kv.pool.hash[b] = stream[r][(j + 1) * BlockSize]
    BY <1>1, <1>3, OwnedAt DEF i, j
<1>6. i + 1 \in Nat \ {0} /\ j + 1 \in Nat \ {0} /\ p + 1 \in 1 .. (i + 1) * BlockSize
    BY <1>1, InBlock DEF i
<1>7. i + 1 = j + 1 /\ \A k \in 1 .. (i + 1) * BlockSize : stream[s][k] = stream[r][k]
    <2> DEFINE m == i + 1
               n == j + 1
    <2>1. /\ m \in Nat \ {0} /\ n \in Nat \ {0} /\ m * BlockSize <= PromptLen /\ n * BlockSize <= PromptLen
          /\ stream[s][m * BlockSize] = stream[r][n * BlockSize]
        BY <1>5, <1>6
    <2> HIDE DEF m, n
    <2>2. m = n /\ \A k \in 1 .. m * BlockSize : stream[s][k] = stream[r][k]
        BY <1>4, <2>1, SamePrefix
    <2> QED BY <2>2 DEF m, n
<1>8. i = j
    BY <1>1, <1>7
<1>9. p = q
    BY <1>8, Position DEF i, j
<1> QED BY <1>6, <1>7, <1>9

\* A step that takes no hash to another block or place.
LosesHashes(c, d) ==
    /\ \A b \in Block : d.pool.hash[b] # NoHash => d.pool.hash[b] = c.pool.hash[b]
    /\ \A s \in Seqs : \A i \in DOMAIN d.held[s] :
         d.pool.hash[d.held[s][i]] # NoHash => i \in DOMAIN c.held[s] /\ d.held[s][i] = c.held[s][i]

\* Such a step keeps every hash where it belongs.
LEMMA HashesLost ==
    ASSUME Inv, Inv', Owned, HashKnown, LosesHashes(kv, kv'),
           \A s \in Seqs : stream'[s] # NoStream => stream'[s] = stream[s]
    PROVE  Owned' /\ HashKnown'
<1>1. HashKnown'
    BY DEF HashKnown, LosesHashes
<1>2. ASSUME NEW s \in Seqs, stream'[s] # NoStream, NEW i \in DOMAIN kv'.held[s],
             kv'.pool.hash[kv'.held[s][i]] # NoHash
      PROVE  /\ i * BlockSize <= PromptLen
             /\ kv'.pool.hash[kv'.held[s][i]] = stream'[s][i * BlockSize]
    <2>1. i \in DOMAIN kv.held[s] /\ kv'.held[s][i] = kv.held[s][i]
        BY <1>2 DEF LosesHashes
    <2>2. kv.held[s][i] \in Block
        BY <2>1, RunningFacts
    <2>3. kv'.pool.hash[kv'.held[s][i]] = kv.pool.hash[kv.held[s][i]]
        BY <1>2, <2>1, <2>2 DEF LosesHashes
    <2> QED BY <1>2, <2>1, <2>3 DEF Owned
<1> QED BY <1>1, <1>2 DEF Owned

-----------------------------------------------------------------------------
(* A write keeps what the blocks hold.                                      *)

\* A write gives no hash to a block.
LEMMA WriteLosesHashes ==
    ASSUME Inv, Write
    PROVE  LosesHashes(kv, kv')
<1> DEFINE s == Writing
           p == pos[s]
           v == stream[s][p + 1]
<1>1. Wrote(kv, kv', s, p, v, ToSet(running)) /\ s \in Seqs /\ IndexOf(p) \in Nat
    BY WriteFacts, WritingFacts, Divided DEF Write
<1>2. \A r \in Seqs : kv.held[r] \in Seq(Block) /\ Len(kv.held[r]) \in Nat
    BY RunningFacts
<1> HIDE DEF s, p, v
<1>3. CASE InPlace(kv, kv', s, p, v)
    BY <1>2, <1>3, RunningFacts DEF InPlace, LosesHashes
<1>4. ASSUME NEW V \in SUBSET (ToSet(kv.lru) \ (ToSet(running) \cup {s})), NEW f \in Block,
             InNew(kv, kv', s, p, v, V, f)
      PROVE  LosesHashes(kv, kv')
    <2>1. \A x \in Block : kv'.pool.hash[x] = IF x = f THEN NoHash ELSE kv.pool.hash[x]
        BY <1>4 DEF InNew
    <2>2. ASSUME NEW r \in Seqs, NEW i \in DOMAIN kv'.held[r], kv'.pool.hash[kv'.held[r][i]] # NoHash
          PROVE  i \in DOMAIN kv.held[r] /\ kv'.held[r][i] = kv.held[r][i]
        <3>1. kv'.held[r] = IF r = s THEN Append(kv.held[s], f)
                            ELSE IF r \in V THEN <<>> ELSE kv.held[r]
            BY <1>4 DEF InNew
        <3>2. CASE r = s
            <4>1. kv'.held[r] = Append(kv.held[r], f) /\ kv'.held[r][i] # f
                BY <2>1, <2>2, <3>1, <3>2
            <4> QED BY <1>2, <2>2, <4>1
        <3>3. CASE r # s /\ r \in V
            BY <2>2, <3>1, <3>3
        <3>4. CASE r # s /\ r \notin V
            BY <2>2, <3>1, <3>4
        <3> QED BY <3>2, <3>3, <3>4
    <2> QED BY <2>1, <2>2 DEF LosesHashes
<1>5. ASSUME NEW f \in Block, InCopy(kv, kv', s, p, v, f)
      PROVE  LosesHashes(kv, kv')
    <2> DEFINE t == [kv.held[s] EXCEPT ![IndexOf(p) + 1] = f]
    <2>1. /\ IndexOf(p) < Len(kv.held[s])
          /\ \A x \in Block : kv'.pool.hash[x] = IF x = f THEN NoHash ELSE kv.pool.hash[x]
          /\ \A r \in Seqs : kv'.held[r] = IF r = s THEN t ELSE kv.held[r]
        BY <1>5 DEF InCopy
    <2>2. DOMAIN t = DOMAIN kv.held[s] /\ \A i \in DOMAIN t : t[i] = f \/ t[i] = kv.held[s][i]
        OBVIOUS
    <2> HIDE DEF t
    <2>3. ASSUME NEW r \in Seqs, NEW i \in DOMAIN kv'.held[r], kv'.pool.hash[kv'.held[r][i]] # NoHash
          PROVE  i \in DOMAIN kv.held[r] /\ kv'.held[r][i] = kv.held[r][i]
        BY <2>1, <2>2, <2>3
    <2> QED BY <2>1, <2>3 DEF LosesHashes
<1> QED BY <1>1, <1>3, <1>4, <1>5 DEF Wrote

\* A write in place into a hashed block writes what is there.
LEMMA WriteKeepsContent ==
    ASSUME Inv, Owned, HashContent, Write
    PROVE  HashContent'
<1> DEFINE s == Writing
           p == pos[s]
           v == stream[s][p + 1]
           i0 == IndexOf(p)
<1>1. /\ Wrote(kv, kv', s, p, v, ToSet(running)) /\ s \in Seqs /\ p \in Nat /\ i0 \in Nat
      /\ stream[s] \in Streams /\ stream[s] # NoStream
    BY WriteFacts, WritingFacts, Divided, NoStreamAssumption DEF Write
<1>2. clean' => clean
    BY DEF Write
<1> SUFFICES ASSUME clean', NEW b \in Block, NEW c \in Streams, NEW i \in 1 .. IndexOf(PromptLen),
                    kv'.pool.hash[b] = c[i * BlockSize], NEW o \in Offset
             PROVE  kv'.content[b][o] = c[BlockSize * (i - 1) + o + 1]
    BY DEF HashContent
<1>3. kv'.pool.hash[b] # NoHash
    BY HashPlaces
<1>4. kv.pool.hash[b] = c[i * BlockSize] /\ kv.pool.hash[b] # NoHash
    BY <1>3, WriteLosesHashes DEF LosesHashes
<1>5. kv.content[b][o] = c[BlockSize * (i - 1) + o + 1]
    BY <1>2, <1>4 DEF HashContent
<1> HIDE DEF s, p, v, i0
<1>6. CASE InPlace(kv, kv', s, p, v)
    <2> DEFINE b0 == kv.held[s][i0 + 1]
    <2>1. /\ Has(s, i0, b0)
          /\ kv'.content[b][o] = IF b = b0 /\ o = OffsetOf(p) THEN v ELSE kv.content[b][o]
        BY <1>6 DEF InPlace, Has, i0
    <2>2. CASE b = b0 /\ o = OffsetOf(p)
        <3>1. (i0 + 1) * BlockSize <= PromptLen /\ kv.pool.hash[b] = stream[s][(i0 + 1) * BlockSize]
            BY <1>1, <1>4, <2>1, <2>2, OwnedAt
        <3>2. p + 1 \in 1 .. (i0 + 1) * BlockSize /\ i0 + 1 \in Nat \ {0}
            BY <1>1, InBlock DEF i0
        <3>3. i \in Nat \ {0} /\ i * BlockSize <= PromptLen
            BY HashPlaces
        <3> DEFINE m == i0 + 1
        <3>4. stream[s][m * BlockSize] = c[i * BlockSize] /\ m \in Nat \ {0} /\ m * BlockSize <= PromptLen
            BY <1>4, <3>1, <3>2
        <3> HIDE DEF m
        <3>5. m = i /\ \A k \in 1 .. m * BlockSize : stream[s][k] = c[k]
            BY <1>1, <3>3, <3>4, SamePrefix
        <3>6. stream[s][p + 1] = c[p + 1] /\ i0 = i - 1
            BY <1>1, <3>2, <3>5 DEF m
        <3>7. p = BlockSize * (i - 1) + o
            BY <1>1, <2>2, <3>6, Divided DEF i0
        <3>8. kv'.content[b][o] = v /\ v = stream[s][p + 1]
            BY <2>1, <2>2 DEF v
        <3> QED BY <3>6, <3>7, <3>8
    <2>3. CASE ~(b = b0 /\ o = OffsetOf(p))
        BY <1>5, <2>1, <2>3
    <2> QED BY <2>2, <2>3
<1>7. ASSUME NEW V \in SUBSET (ToSet(kv.lru) \ (ToSet(running) \cup {s})), NEW f \in Block,
             InNew(kv, kv', s, p, v, V, f)
      PROVE  kv'.content[b][o] = kv.content[b][o]
    BY <1>3, <1>7 DEF InNew
<1>8. ASSUME NEW f \in Block, InCopy(kv, kv', s, p, v, f)
      PROVE  kv'.content[b][o] = kv.content[b][o]
    BY <1>3, <1>8 DEF InCopy
<1> QED BY <1>1, <1>5, <1>6, <1>7, <1>8 DEF Wrote

\* A position is cached in what the cache is after the step.
KeptIn(d, s, p, v) ==
    /\ IndexOf(p) < Len(d.held[s])
    /\ d.content[d.held[s][IndexOf(p) + 1]][OffsetOf(p)] = v

\* A write loses no cached position, neither of its own sequence nor of another.
LEMMA WriteKeepsPositions ==
    ASSUME Inv, Owned, Kept, Write
    PROVE  Kept'
<1> DEFINE s  == Writing
           p  == pos[s]
           v  == stream[s][p + 1]
           i0 == IndexOf(p)
<1>1. /\ Wrote(kv, kv', s, p, v, ToSet(running)) /\ s \in Seqs /\ p \in Nat /\ i0 \in Nat
      /\ s \in ToSet(running) /\ stream[s] # NoStream /\ pos' = [pos EXCEPT ![s] = p + 1]
    BY WriteFacts, WritingFacts, Divided, NoStreamAssumption DEF Write
<1>2. /\ clean' => clean /\ KeepsWaiting(kv, kv')
      /\ stream' = stream /\ running' = running /\ waiting' = waiting
    BY DEF Write
<1>3. /\ pos \in [Seqs -> Nat] /\ ToSet(running) \cup waiting \subseteq Seqs
      /\ \A r \in ToSet(running) \cup waiting : stream[r] # NoStream
      /\ \A r \in Seqs : kv.held[r] \in Seq(Block) /\ Len(kv.held[r]) \in Nat
    BY RunningFacts DEF Inv, TypeOK, SlotsExact
<1> SUFFICES ASSUME clean', NEW r \in ToSet(running) \cup waiting, NEW q \in 0 .. pos'[r] - 1
             PROVE  KeptIn(kv', r, q, stream[r][q + 1])
    BY <1>2 DEF Kept, KeptIn
<1> DEFINE j == IndexOf(q)
           x == kv.held[r][j + 1]
<1>4. q \in Nat /\ j \in Nat /\ r \in Seqs /\ OffsetOf(q) \in Offset
    <2>1. q \in Nat
        OBVIOUS
    <2> QED BY <1>3, <2>1, Divided
<1>5. q < pos[r] \/ (r = s /\ q = p)
    BY <1>1, <1>3, <1>4
<1>6. \A t \in Nat : t < pos[r] => IndexOf(t) < Len(kv.held[r])
    BY <1>2, <1>3 DEF Kept
<1>7. q < pos[r] => Has(r, j, x) /\ x \in Block /\ kv.content[x][OffsetOf(q)] = stream[r][q + 1]
    <2> SUFFICES ASSUME q < pos[r]
                 PROVE  Has(r, j, x) /\ x \in Block /\ kv.content[x][OffsetOf(q)] = stream[r][q + 1]
        OBVIOUS
    <2>1. q \in 0 .. pos[r] - 1
        BY <1>3, <1>4
    <2>2. j < Len(kv.held[r]) /\ kv.content[x][OffsetOf(q)] = stream[r][q + 1]
        BY <1>2, <2>1 DEF Kept
    <2> QED BY <1>4, <2>2, HasIs DEF Has
<1>8. v = stream[s][p + 1]
    OBVIOUS
<1> HIDE DEF s, p, v, i0, j, x
<1>9. CASE InPlace(kv, kv', s, p, v)
    <2> DEFINE b0 == kv.held[s][i0 + 1]
    <2>1. /\ Has(s, i0, b0) /\ b0 \in Block
          /\ \A t \in Seqs : kv'.held[t] = kv.held[t]
          /\ \A y \in Block, o \in Offset :
               kv'.content[y][o] = IF y = b0 /\ o = OffsetOf(p) THEN v ELSE kv.content[y][o]
        BY <1>9 DEF InPlace, Has, i0
    <2> HIDE DEF b0
    <2>2. CASE r = s /\ q = p
        <3>1. j = i0 /\ kv.held[r][j + 1] = b0 /\ j < Len(kv.held[r])
            BY <2>1, <2>2 DEF j, i0, Has
        <3>2. kv'.content[b0][OffsetOf(q)] = v
            BY <1>4, <2>1, <2>2
        <3> QED BY <1>4, <1>8, <2>1, <2>2, <3>1, <3>2 DEF KeptIn, j
    <2>3. CASE q < pos[r]
        <3>1. Has(r, j, x) /\ x \in Block /\ kv.content[x][OffsetOf(q)] = stream[r][q + 1]
            BY <1>7, <2>3
        <3>2. kv'.content[x][OffsetOf(q)] = stream[r][q + 1]
            <4>1. CASE ~(x = b0 /\ OffsetOf(q) = OffsetOf(p))
                BY <1>4, <2>1, <3>1, <4>1
            <4>2. CASE x = b0 /\ OffsetOf(q) = OffsetOf(p) /\ r = s
                <5>1. i0 = j
                    BY <1>1, <1>4, <2>1, <3>1, <4>2, HasIs
                <5>2. p = q
                    BY <1>1, <1>4, <4>2, <5>1, Position DEF i0, j
                <5> QED BY <1>4, <1>8, <2>1, <4>2, <5>2
            <4>3. CASE x = b0 /\ OffsetOf(q) = OffsetOf(p) /\ r # s
                <5>1. p = q /\ stream[s][p + 1] = stream[r][q + 1]
                    BY <1>1, <1>3, <1>4, <2>1, <3>1, <4>3, SharedCell DEF i0, j
                <5> QED BY <1>4, <1>8, <2>1, <4>3, <5>1
            <4> QED BY <4>1, <4>2, <4>3
        <3>3. kv'.held[r] = kv.held[r]
            BY <1>4, <2>1
        <3> QED BY <3>1, <3>2, <3>3 DEF KeptIn, Has, j
    <2> QED BY <1>5, <2>2, <2>3
<1>10. ASSUME NEW V \in SUBSET (ToSet(kv.lru) \ (ToSet(running) \cup {s})), NEW f \in Block,
              InNew(kv, kv', s, p, v, V, f)
       PROVE  KeptIn(kv', r, q, stream[r][q + 1])
    <2>1. /\ Len(kv.held[s]) <= i0
          /\ \A t \in Seqs \ V : f \notin ToSet(kv.held[t])
          /\ \A t \in Seqs : kv'.held[t] = IF t = s THEN Append(kv.held[s], f)
                                           ELSE IF t \in V THEN <<>> ELSE kv.held[t]
          /\ \A y \in Block, o \in Offset :
               kv'.content[y][o] = IF y = f THEN IF o = OffsetOf(p) THEN v ELSE Zero ELSE kv.content[y][o]
        BY <1>10 DEF InNew, i0
    <2>2. Len(Append(kv.held[s], f)) = Len(kv.held[s]) + 1
          /\ Append(kv.held[s], f)[Len(kv.held[s]) + 1] = f
          /\ \A k \in 1 .. Len(kv.held[s]) : Append(kv.held[s], f)[k] = kv.held[s][k]
        BY <1>1, <1>3
    <2>3. s \notin V /\ Len(kv.held[s]) \in Nat
        BY <1>1, <1>3
    <2>4. CASE r = s /\ q = p
        <3>1. i0 <= Len(kv.held[s])
            <4>1. CASE p = 0
                <5>1. IndexOf(0) = 0
                    BY BlockSizeAssumption DEF IndexOf
                <5> QED BY <2>3, <4>1, <5>1 DEF i0
            <4>2. CASE p # 0
                <5> DEFINE t == p - 1
                <5>1. t \in Nat /\ t < pos[r] /\ p = t + 1
                    BY <1>1, <2>4, <4>2 DEF p
                <5> HIDE DEF t
                <5>2. IndexOf(t) < Len(kv.held[s])
                    BY <1>6, <2>4, <5>1
                <5>3. IndexOf(t) \in Nat /\ IndexOf(p) <= IndexOf(t) + 1
                    BY <5>1, Following, Divided
                <5> QED BY <1>1, <2>3, <5>2, <5>3 DEF i0
            <4> QED BY <4>1, <4>2
        <3>2. i0 = Len(kv.held[s]) /\ j = i0
            BY <1>1, <2>1, <2>3, <2>4, <3>1 DEF i0, j
        <3>3. kv'.held[r] = Append(kv.held[s], f)
            BY <1>1, <2>1, <2>4
        <3>4. j < Len(kv'.held[r]) /\ kv'.held[r][j + 1] = f
            BY <2>2, <2>3, <3>2, <3>3
        <3>5. kv'.content[f][OffsetOf(q)] = v
            BY <1>4, <2>1, <2>4
        <3> QED BY <1>8, <2>4, <3>4, <3>5 DEF KeptIn, j
    <2>5. CASE q < pos[r]
        <3>1. Has(r, j, x) /\ x \in Block /\ kv.content[x][OffsetOf(q)] = stream[r][q + 1]
            BY <1>7, <2>5
        <3>2. r \notin V
            <4> SUFFICES ASSUME r \in V PROVE FALSE
                OBVIOUS
            <4>1. r \in waiting /\ r # s
                BY <2>3
            <4>2. kv.held[r] # <<>>
                BY <1>4, <3>1, EmptyIs DEF Has
            <4>3. kv'.held[r] # <<>>
                BY <1>2, <4>1, <4>2 DEF KeepsWaiting
            <4> QED BY <1>4, <2>1, <4>1, <4>3
        <3>3. x \in ToSet(kv.held[r]) /\ x # f
            <4>1. x \in ToSet(kv.held[r])
                BY <1>4, <3>1, HasIs
            <4> QED BY <1>4, <2>1, <3>2, <4>1
        <3>4. kv'.content[x][OffsetOf(q)] = stream[r][q + 1]
            BY <1>4, <2>1, <3>1, <3>3
        <3>5. j < Len(kv'.held[r]) /\ kv'.held[r][j + 1] = x
            <4>1. j < Len(kv.held[r]) /\ kv.held[r][j + 1] = x /\ j + 1 \in 1 .. Len(kv.held[r])
                BY <1>3, <1>4, <3>1 DEF Has
            <4>2. CASE r = s
                <5>1. kv'.held[r] = Append(kv.held[s], f)
                    BY <1>1, <2>1, <4>2
                <5> QED BY <1>4, <2>2, <2>3, <4>1, <4>2, <5>1
            <4>3. CASE r # s
                <5>1. kv'.held[r] = kv.held[r]
                    BY <1>4, <2>1, <3>2, <4>3
                <5> QED BY <4>1, <5>1
            <4> QED BY <4>2, <4>3
        <3> QED BY <3>4, <3>5 DEF KeptIn, j
    <2> QED BY <1>5, <2>4, <2>5
<1>11. ASSUME NEW f \in Block, InCopy(kv, kv', s, p, v, f)
       PROVE  KeptIn(kv', r, q, stream[r][q + 1])
    <2> DEFINE b0 == kv.held[s][i0 + 1]
               t  == [kv.held[s] EXCEPT ![i0 + 1] = f]
    <2>1. /\ i0 < Len(kv.held[s]) /\ b0 \in Block
          /\ \A y \in Seqs : f \notin ToSet(kv.held[y])
          /\ \A y \in Seqs : kv'.held[y] = IF y = s THEN t ELSE kv.held[y]
          /\ \A y \in Block, o \in Offset :
               kv'.content[y][o] = IF y = f THEN IF o = OffsetOf(p) THEN v ELSE kv.content[b0][o]
                                            ELSE kv.content[y][o]
        BY <1>11 DEF InCopy, i0
    <2>2. /\ Len(t) = Len(kv.held[s])
          /\ \A k \in 1 .. Len(kv.held[s]) : t[k] = IF k = i0 + 1 THEN f ELSE kv.held[s][k]
        BY <1>1, <1>3, <2>1, ReplacedIs
    <2> HIDE DEF b0, t
    <2>3. CASE r = s
        <3>1. j < Len(kv.held[s]) /\ j + 1 \in 1 .. Len(kv.held[s])
            <4>1. j < Len(kv.held[s])
                BY <1>4, <1>5, <1>6, <2>1, <2>3 DEF i0, j
            <4> QED BY <1>1, <1>3, <1>4, <4>1
        <3>2. kv'.held[r] = t /\ Len(t) = Len(kv.held[s])
              /\ t[j + 1] = IF j = i0 THEN f ELSE kv.held[s][j + 1]
            BY <1>1, <1>4, <2>1, <2>2, <2>3, <3>1
        <3>3. CASE j = i0
            <4>1. kv'.content[f][OffsetOf(q)] = IF OffsetOf(q) = OffsetOf(p) THEN v ELSE kv.content[b0][OffsetOf(q)]
                BY <1>4, <2>1
            <4>2. CASE OffsetOf(q) = OffsetOf(p)
                <5>1. p = q
                    BY <1>1, <1>4, <3>3, <4>2, Position DEF i0, j
                <5> QED BY <1>8, <2>3, <3>1, <3>2, <3>3, <4>1, <4>2, <5>1 DEF KeptIn, j
            <4>3. CASE OffsetOf(q) # OffsetOf(p)
                <5>1. q < pos[r]
                    BY <1>5, <4>3
                <5>2. kv.content[x][OffsetOf(q)] = stream[r][q + 1] /\ x = b0
                    BY <1>7, <2>3, <3>3, <5>1 DEF x, b0
                <5> QED BY <3>1, <3>2, <3>3, <4>1, <4>3, <5>2 DEF KeptIn, j
            <4> QED BY <4>2, <4>3
        <3>4. CASE j # i0
            <4>1. q < pos[r]
                BY <1>5, <3>4 DEF i0, j
            <4>2. Has(r, j, x) /\ x \in Block /\ kv.content[x][OffsetOf(q)] = stream[r][q + 1]
                BY <1>7, <4>1
            <4>3. x # f
                BY <1>4, <2>1, <4>2, HasIs
            <4>4. kv'.content[x][OffsetOf(q)] = stream[r][q + 1]
                BY <1>4, <2>1, <4>2, <4>3
            <4>5. kv'.held[r][j + 1] = x
                BY <2>3, <3>2, <3>4 DEF x
            <4> QED BY <3>1, <3>2, <4>4, <4>5 DEF KeptIn, j
        <3> QED BY <3>3, <3>4
    <2>4. CASE r # s
        <3>1. Has(r, j, x) /\ x \in Block /\ kv.content[x][OffsetOf(q)] = stream[r][q + 1]
            BY <1>5, <1>7, <2>4
        <3>2. x # f
            BY <1>4, <2>1, <3>1, HasIs
        <3>3. kv'.content[x][OffsetOf(q)] = stream[r][q + 1]
            BY <1>4, <2>1, <3>1, <3>2
        <3>4. kv'.held[r] = kv.held[r]
            BY <1>4, <2>1, <2>4
        <3> QED BY <3>1, <3>3, <3>4 DEF KeptIn, Has, j
    <2> QED BY <2>3, <2>4
<1> QED BY <1>1, <1>9, <1>10, <1>11 DEF Wrote

-----------------------------------------------------------------------------
(* So does every other action.                                              *)

\* Nothing is cached at the start.
LEMMA InitContent ==
    ASSUME Init
    PROVE  ContentInv
<1>1. /\ \A s \in Seqs : stream[s] = NoStream
      /\ running = <<>> /\ waiting = {}
      /\ \A b \in Block : kv.pool.hash[b] = NoHash
    <2>1. Caching \in BOOLEAN /\ (Graphs => NumBlocks >= 2)
        BY GraphsAssumption
    <2> QED BY <2>1, InitSound, GraphBuffersSound DEF Init
<1>2. ToSet(running) \cup waiting = {}
    BY <1>1, EmptyIs
<1>3. HashContent
    BY <1>1, HashPlaces DEF HashContent
<1> QED BY <1>1, <1>2, <1>3 DEF ContentInv, Owned, HashKnown, Kept

\* A request that is admitted has the blocks of its own prefix.
LEMMA AdmitContent ==
    ASSUME Inv, ContentInv, NEW s \in Seqs, NEW c \in Streams, Admit(s, c)
    PROVE  ContentInv'
<1> DEFINE hs == BlockHashes(Prompt(c))
<1>1. /\ Reusing(kv, kv', s, hs) /\ pos' = [pos EXCEPT ![s] = pos'[s]] /\ pos'[s] \in Nat
      /\ pos'[s] <= Len(CachedPrefix(kv.pool, hs)) * BlockSize
    BY AdmitFacts
<1>2. /\ stream[s] = NoStream /\ stream' = [stream EXCEPT ![s] = c] /\ waiting' = waiting \cup {s}
      /\ running' = running /\ clean' = clean
    BY DEF Admit
<1>3. /\ Len(hs) = IndexOf(PromptLen)
      /\ \A i \in 1 .. Len(hs) : i * BlockSize \in 1 .. PromptLen /\ hs[i] = c[i * BlockSize]
    BY HashesIs
<1> HIDE DEF hs
<1>4. PICK bs \in Seq(Block) :
        /\ bs = CachedPrefix(kv.pool, hs) /\ Len(bs) <= Len(hs)
        /\ \A r \in Seqs : kv'.held[r] = IF r = s THEN bs ELSE kv.held[r]
        /\ \A i \in 1 .. Len(bs) : kv.pool.hash[bs[i]] = hs[i]
        /\ kv'.content = kv.content /\ kv'.pool.hash = kv.pool.hash
    BY <1>1 DEF Reusing
<1>5. /\ pos \in [Seqs -> Nat] /\ stream \in [Seqs -> Streams \cup {NoStream}]
      /\ ToSet(running) \cup waiting \subseteq Seqs
      /\ \A r \in ToSet(running) \cup waiting : stream[r] # NoStream
    BY RunningFacts DEF Inv, TypeOK, SlotsExact
<1>6. /\ \A r \in Seqs : r # s => /\ kv'.held[r] = kv.held[r] /\ stream'[r] = stream[r]
                                  /\ pos'[r] = pos[r]
      /\ kv'.held[s] = bs /\ stream'[s] = c
      /\ Len(bs) \in Nat /\ DOMAIN bs = 1 .. Len(bs) /\ Len(bs) <= IndexOf(PromptLen)
      /\ IndexOf(PromptLen) \in Nat /\ PromptLen \in Nat
    <2>1. \A r \in Seqs : r # s => pos'[r] = pos[r]
        BY <1>1, <1>5
    <2>2. \A r \in Seqs : stream'[r] = IF r = s THEN c ELSE stream[r]
        BY <1>2, <1>5
    <2>3. PromptLen \in Nat /\ IndexOf(PromptLen) \in Nat
        BY StreamsAssumption, Divided
    <2>4. Len(bs) \in Nat /\ DOMAIN bs = 1 .. Len(bs) /\ Len(bs) <= IndexOf(PromptLen)
        BY <1>3, <1>4
    <2>5. \A r \in Seqs : kv'.held[r] = IF r = s THEN bs ELSE kv.held[r]
        BY <1>4
    <2> QED BY <2>1, <2>2, <2>3, <2>4, <2>5
<1>7. \A i \in 1 .. Len(bs) :
         /\ i \in 1 .. IndexOf(PromptLen) /\ i * BlockSize <= PromptLen /\ bs[i] \in Block
         /\ kv.pool.hash[bs[i]] = c[i * BlockSize]
    BY <1>3, <1>4, <1>6
<1>8. Owned'
    <2>1. ASSUME NEW r \in Seqs, stream'[r] # NoStream, NEW i \in DOMAIN kv'.held[r],
                 kv'.pool.hash[kv'.held[r][i]] # NoHash
          PROVE  i * BlockSize <= PromptLen /\ kv'.pool.hash[kv'.held[r][i]] = stream'[r][i * BlockSize]
        <3>1. CASE r = s
            BY <1>4, <1>6, <1>7, <2>1, <3>1
        <3>2. CASE r # s
            BY <1>4, <1>6, <2>1, <3>2 DEF ContentInv, Owned
        <3> QED BY <3>1, <3>2
    <2> QED BY <2>1 DEF Owned
<1>9. HashKnown' /\ HashContent'
    BY <1>2, <1>4 DEF ContentInv, HashKnown, HashContent
<1>10. Kept'
    <2> SUFFICES ASSUME clean', NEW r \in ToSet(running) \cup waiting \cup {s}, NEW q \in 0 .. pos'[r] - 1
                 PROVE  KeptIn(kv', r, q, stream'[r][q + 1])
        BY <1>2 DEF Kept, KeptIn
    <2>1. CASE r # s
        <3>1. r \in ToSet(running) \cup waiting /\ r \in Seqs /\ q \in 0 .. pos[r] - 1
            BY <1>5, <1>6, <2>1
        <3>2. /\ IndexOf(q) < Len(kv.held[r])
              /\ kv.content[kv.held[r][IndexOf(q) + 1]][OffsetOf(q)] = stream[r][q + 1]
            BY <1>2, <3>1 DEF ContentInv, Kept
        <3> QED BY <1>4, <1>6, <2>1, <3>1, <3>2 DEF KeptIn
    <2>2. CASE r = s
        <3> DEFINE j == IndexOf(q)
                   i == j + 1
        <3>1. q \in Nat /\ q < Len(bs) * BlockSize
            <4>1. q \in Nat /\ q < pos'[s]
                BY <1>1, <2>2
            <4>2. Len(bs) * BlockSize \in Nat
                BY <1>6, BlockSizeAssumption
            <4> QED BY <1>1, <1>4, <4>1, <4>2
        <3>2. q < BlockSize * Len(bs)
            BY <1>6, <3>1, BlockSizeAssumption
        <3>3. j \in Nat /\ j < Len(bs) /\ OffsetOf(q) \in Offset /\ q = BlockSize * j + OffsetOf(q)
            BY <1>6, <3>1, <3>2, Below, Divided
        <3> HIDE DEF j
        <3>4. i \in 1 .. Len(bs) /\ i - 1 = j
            BY <1>6, <3>3
        <3> HIDE DEF i
        <3>5. kv.content[bs[i]][OffsetOf(q)] = c[BlockSize * (i - 1) + OffsetOf(q) + 1]
            BY <1>2, <1>7, <3>3, <3>4 DEF ContentInv, HashContent
        <3>6. BlockSize * (i - 1) + OffsetOf(q) + 1 = q + 1
            BY <3>3, <3>4
        <3> QED BY <1>4, <1>6, <2>2, <3>3, <3>5, <3>6 DEF KeptIn, i, j
    <2> QED BY <2>1, <2>2
<1> QED BY <1>8, <1>9, <1>10 DEF ContentInv

\* Blocks that are freed keep what they hold, and the sequences that lose them
\* have no position to read.
Frees(V) ==
    /\ Freed(kv, kv', V)
    /\ \A s \in Seqs : stream'[s] # NoStream => stream'[s] = stream[s]
    /\ ToSet(running') \cup waiting' \subseteq ToSet(running) \cup waiting
    /\ clean' => /\ clean
                 /\ \A s \in ToSet(running') \cup waiting' :
                      /\ stream'[s] = stream[s] /\ pos'[s] = pos[s]
                      /\ s \in V => kv.held[s] = <<>>

\* Such a step keeps what the remaining blocks hold.
LEMMA FreedContent ==
    ASSUME Inv, Inv', ContentInv, NEW V \in SUBSET Seqs, Frees(V)
    PROVE  ContentInv'
<1> USE DEF Frees
<1>1. /\ \A r \in Seqs : kv'.held[r] = IF r \in V THEN <<>> ELSE kv.held[r]
      /\ kv'.content = kv.content /\ kv'.pool.hash = kv.pool.hash
    BY DEF Freed
<1>2. LosesHashes(kv, kv')
    BY <1>1 DEF LosesHashes
<1>3. Owned' /\ HashKnown'
    BY <1>2, HashesLost DEF ContentInv
<1>4. HashContent'
    BY <1>1 DEF ContentInv, HashContent
<1>5. Kept'
    <2> SUFFICES ASSUME clean', NEW s \in ToSet(running') \cup waiting', NEW q \in 0 .. pos'[s] - 1
                 PROVE  KeptIn(kv', s, q, stream'[s][q + 1])
        BY DEF Kept, KeptIn
    <2>1. /\ s \in ToSet(running) \cup waiting /\ s \in Seqs /\ stream'[s] = stream[s] /\ pos'[s] = pos[s]
          /\ s \in V => kv.held[s] = <<>>
        BY RunningFacts DEF Inv, TypeOK
    <2>2. /\ IndexOf(q) < Len(kv.held[s])
          /\ kv.content[kv.held[s][IndexOf(q) + 1]][OffsetOf(q)] = stream[s][q + 1]
        BY <2>1 DEF ContentInv, Kept
    <2>3. kv'.held[s] = kv.held[s]
        BY <1>1, <2>1
    <2> QED BY <1>1, <2>1, <2>2, <2>3 DEF KeptIn
<1> QED BY <1>3, <1>4, <1>5 DEF ContentInv

\* A request that moves keeps what it has.
LEMMA MoveContent ==
    ASSUME Inv, Inv', ContentInv,
           BeginForward \/ UNCHANGED vars \/ \E s \in Seqs : Start(s) \/ Preempt(s) \/ Finish(s)
    PROVE  ContentInv'
<1>1. /\ kv' = kv /\ stream' = stream /\ pos' = pos /\ clean' = clean
    BY DEF BeginForward, vars, Start, Preempt, Finish
<1>2. running \in Seq(Seqs)
    BY RunningFacts
<1>3. ToSet(running') \cup waiting' \subseteq ToSet(running) \cup waiting
    <2>1. CASE BeginForward \/ UNCHANGED vars
        BY <2>1 DEF BeginForward, vars
    <2>2. ASSUME NEW s \in Seqs, Start(s)
          PROVE  ToSet(running') \cup waiting' \subseteq ToSet(running) \cup waiting
        <3>1. ToSet(Append(running, s)) = ToSet(running) \cup {s}
            BY <1>2, AppendedIs
        <3> QED BY <2>2, <3>1 DEF Start
    <2>3. ASSUME NEW s \in Seqs, Preempt(s) \/ Finish(s)
          PROVE  ToSet(running') \cup waiting' \subseteq ToSet(running) \cup waiting
        <3>1. ToSet(Without(running, s)) = ToSet(running) \ {s}
            BY <1>2, WithoutIs
        <3> QED BY <2>3, <3>1 DEF Preempt, Finish
    <2> QED BY <2>1, <2>2, <2>3
<1>4. Freed(kv, kv', {})
    BY <1>1 DEF Freed
<1>5. Frees({})
    BY <1>1, <1>3, <1>4 DEF Frees
<1> QED BY <1>5, FreedContent

\* A slot that is freed loses its own blocks only.
LEMMA FreeSlotContent ==
    ASSUME Inv, Inv', ContentInv, NEW s \in Seqs, FreeSlot(s)
    PROVE  ContentInv'
<1>1. /\ kv' = FreeSequence(kv, s) /\ stream' = [stream EXCEPT ![s] = NoStream]
      /\ pos' = [pos EXCEPT ![s] = 0] /\ running' = Without(running, s)
      /\ waiting' = waiting /\ clean' = clean /\ s \in done \cup ToSet(running)
    BY DEF FreeSlot
<1>2. /\ stream \in [Seqs -> Streams \cup {NoStream}] /\ pos \in [Seqs -> Nat] /\ Sound(kv)
      /\ running \in Seq(Seqs) /\ ToSet(running) \cup waiting \subseteq Seqs
    BY RunningFacts DEF Inv, TypeOK
<1>3. ToSet(running') = ToSet(running) \ {s}
    BY <1>1, <1>2, WithoutIs
<1>4. s \notin waiting
    BY <1>1 DEF Inv, SlotsExact
<1>5. Freed(kv, kv', {s})
    BY <1>1, <1>2, FreeSequenceSound
<1>6. \A r \in Seqs : /\ stream'[r] = IF r = s THEN NoStream ELSE stream[r]
                      /\ pos'[r] = IF r = s THEN 0 ELSE pos[r]
    BY <1>1, <1>2
<1>7. Frees({s})
    BY <1>1, <1>2, <1>3, <1>4, <1>5, <1>6 DEF Frees
<1> QED BY <1>7, FreedContent

\* An allocation that fails takes blocks only from waiting requests.
LEMMA AllocationFailsContent ==
    ASSUME Inv, Inv', ContentInv, AllocationFails
    PROVE  ContentInv'
<1>1. PICK V \in SUBSET (Seqs \ ToSet(running)) : Freed(kv, kv', V)
    BY AllocationFailsFacts
<1>2. /\ clean' => clean /\ KeepsWaiting(kv, kv')
      /\ stream' = stream /\ pos' = pos /\ waiting' = waiting
      /\ running' = running \/ running' = <<>>
    BY DEF AllocationFails
<1>3. ToSet(running') \subseteq ToSet(running)
    BY <1>2, EmptyIs
<1>4. ASSUME clean', NEW s \in ToSet(running') \cup waiting', s \in V PROVE kv.held[s] = <<>>
    <2>1. s \in waiting /\ s \in Seqs
        BY <1>1, <1>2, <1>3, <1>4
    <2>2. kv'.held[s] = <<>>
        BY <1>1, <1>4, <2>1 DEF Freed
    <2> QED BY <1>2, <1>4, <2>1, <2>2 DEF KeepsWaiting
<1>5. Frees(V)
    BY <1>1, <1>2, <1>3, <1>4 DEF Frees
<1> QED BY <1>5, FreedContent

\* A block is registered under the hash of what its owner has computed in it.
LEMMA EndForwardContent ==
    ASSUME Inv, ContentInv, EndForward
    PROVE  ContentInv'
<1>1. /\ RegisteringAll(kv, kv') /\ stream' = stream /\ pos' = pos
      /\ running' = running /\ waiting' = waiting /\ clean' = clean
    BY RegisteredSound DEF EndForward
<1>2. kv'.held = kv.held /\ kv'.content = kv.content
    BY <1>1 DEF RegisteringAll
<1>3. PromptLen \in Nat \ {0} /\ IndexOf(PromptLen) \in Nat
    BY StreamsAssumption, Divided
\* Who gave b its new hash.
<1>4. ASSUME NEW b \in Block, kv'.pool.hash[b] # NoHash, kv'.pool.hash[b] # kv.pool.hash[b]
      PROVE  \E s \in ToSet(running) : \E i \in 1 .. IndexOf(PromptLen) :
               /\ s \in Seqs /\ stream[s] \in Streams /\ pos[s] = PromptLen
               /\ kv.pool.hash[b] = NoHash /\ Has(s, i - 1, b)
               /\ kv'.pool.hash[b] = stream[s][i * BlockSize]
    <2>1. /\ kv.pool.hash[b] = NoHash
          /\ \E s \in ToSet(running) :
               /\ pos[s] = PromptLen
               /\ \E i \in DOMAIN kv.held[s] \cap DOMAIN BlockHashes(Prompt(stream[s])) :
                    b = kv.held[s][i] /\ kv'.pool.hash[b] = BlockHashes(Prompt(stream[s]))[i]
        BY <1>1, <1>4 DEF RegisteringAll
    <2>2. PICK s \in ToSet(running) :
               /\ pos[s] = PromptLen
               /\ \E i \in DOMAIN kv.held[s] \cap DOMAIN BlockHashes(Prompt(stream[s])) :
                    b = kv.held[s][i] /\ kv'.pool.hash[b] = BlockHashes(Prompt(stream[s]))[i]
        BY <2>1
    <2> DEFINE hs == BlockHashes(Prompt(stream[s]))
    <2>3. s \in Seqs /\ stream[s] \in Streams /\ kv.held[s] \in Seq(Block)
        BY RunningFacts
    <2>4. hs \in Seq(Hash) /\ Len(hs) = IndexOf(PromptLen) /\ \A i \in 1 .. Len(hs) : hs[i] = stream[s][i * BlockSize]
        BY <2>3, HashesIs
    <2> HIDE DEF hs
    <2>5. PICK i \in DOMAIN kv.held[s] \cap DOMAIN hs : b = kv.held[s][i] /\ kv'.pool.hash[b] = hs[i]
        BY <2>2 DEF hs
    <2>6. i \in 1 .. IndexOf(PromptLen) /\ kv'.pool.hash[b] = stream[s][i * BlockSize]
        BY <2>4, <2>5
    <2>7. Has(s, i - 1, b)
        BY <2>3, <2>5 DEF Has
    <2> QED BY <2>1, <2>2, <2>3, <2>6, <2>7
<1>5. Owned'
    <2> SUFFICES ASSUME NEW r \in Seqs, stream[r] # NoStream, NEW k \in DOMAIN kv.held[r],
                        kv'.pool.hash[kv.held[r][k]] # NoHash
                 PROVE  k * BlockSize <= PromptLen /\ kv'.pool.hash[kv.held[r][k]] = stream[r][k * BlockSize]
        BY <1>1, <1>2 DEF Owned
    <2> DEFINE b == kv.held[r][k]
    <2>1. b \in Block /\ k \in Nat /\ k - 1 \in Nat /\ Has(r, k - 1, b)
        BY RunningFacts DEF Has
    <2>2. CASE kv'.pool.hash[b] = kv.pool.hash[b]
        BY <2>2 DEF ContentInv, Owned
    <2>3. CASE kv'.pool.hash[b] # kv.pool.hash[b]
        <3> HIDE DEF b
        <3>1. PICK s \in ToSet(running), i \in 1 .. IndexOf(PromptLen) :
                 /\ s \in Seqs /\ kv.pool.hash[b] = NoHash /\ Has(s, i - 1, b)
                 /\ kv'.pool.hash[b] = stream[s][i * BlockSize]
            BY <1>4, <2>1, <2>3 DEF b
        <3>2. i - 1 \in Nat /\ i * BlockSize <= PromptLen
            BY HashPlaces
        <3>3. b \in ToSet(kv.held[r]) /\ b \in ToSet(kv.held[s])
            BY <2>1, <3>1, <3>2, HasIs
        <3>4. r = s
            BY <3>1, <3>3 DEF Inv, Sound, SharedHashed
        <3>5. k - 1 = i - 1
            BY <2>1, <3>1, <3>2, <3>4, HasIs
        <3>6. k = i
            BY <3>2, <3>5, <2>1
        <3> QED BY <3>1, <3>2, <3>4, <3>6 DEF b
    <2> QED BY <2>2, <2>3
<1>6. HashKnown'
    BY <1>4 DEF ContentInv, HashKnown
<1>7. HashContent'
    <2> SUFFICES ASSUME clean, NEW b \in Block, NEW c \in Streams, NEW i \in 1 .. IndexOf(PromptLen),
                        kv'.pool.hash[b] = c[i * BlockSize], NEW o \in Offset
                 PROVE  kv.content[b][o] = c[BlockSize * (i - 1) + o + 1]
        BY <1>1, <1>2 DEF HashContent
    <2>1. CASE kv'.pool.hash[b] = kv.pool.hash[b]
        BY <2>1 DEF ContentInv, HashContent
    <2>2. CASE kv'.pool.hash[b] # kv.pool.hash[b]
        <3>1. kv'.pool.hash[b] # NoHash
            BY HashPlaces
        <3>2. PICK s \in ToSet(running), m \in 1 .. IndexOf(PromptLen) :
                 /\ s \in Seqs /\ stream[s] \in Streams /\ pos[s] = PromptLen
                 /\ Has(s, m - 1, b) /\ kv'.pool.hash[b] = stream[s][m * BlockSize]
            BY <1>4, <2>2, <3>1
        <3>3. /\ m \in Nat \ {0} /\ m * BlockSize <= PromptLen /\ m * BlockSize = BlockSize * m
              /\ i \in Nat \ {0} /\ i * BlockSize <= PromptLen
            BY HashPlaces
        <3>4. stream[s][m * BlockSize] = c[i * BlockSize]
            BY <3>2
        <3>5. m = i /\ \A k \in 1 .. m * BlockSize : stream[s][k] = c[k]
            <4>1. m \in Nat \ {0} /\ m * BlockSize <= PromptLen /\ i \in Nat \ {0} /\ i * BlockSize <= PromptLen
                BY <3>3
            <4> QED BY ONLY <4>1, <3>2, <3>4, SamePrefix, c \in Streams
        <3> DEFINE j == m - 1
                   q == BlockSize * j + o
        <3>6. j \in Nat /\ m = j + 1
            BY <3>3
        <3> HIDE DEF j
        <3>7. q \in Nat /\ IndexOf(q) = j /\ OffsetOf(q) = o
            BY <3>6, Composed
        <3> HIDE DEF q
        <3>8. q + 1 \in 1 .. m * BlockSize
            BY <3>6, <3>7, InBlock
        <3>9. q \in 0 .. pos[s] - 1
            <4>1. m * BlockSize \in Nat
                BY HashPlaces, <3>3
            <4> QED BY <1>3, <3>2, <3>3, <3>7, <3>8, <4>1
        <3>10. kv.content[kv.held[s][j + 1]][o] = stream[s][q + 1]
            BY <3>2, <3>7, <3>9 DEF ContentInv, Kept
        <3>11. kv.held[s][j + 1] = b /\ stream[s][q + 1] = c[q + 1]
            BY <3>2, <3>5, <3>6, <3>8 DEF Has, j
        <3>12. BlockSize * (i - 1) + o + 1 = q + 1
            BY <3>5 DEF j, q
        <3> QED BY <3>10, <3>11, <3>12
    <2> QED BY <2>1, <2>2
<1>8. Kept'
    BY <1>1, <1>2 DEF ContentInv, Kept
<1> QED BY <1>5, <1>6, <1>7, <1>8 DEF ContentInv

\* A decode graph whose sequences have their blocks writes each of them into a
\* block that nobody else has: what is shared is in a prompt, and they are past it.
LEMMA DecodeCells ==
    ASSUME Inv, Owned, DecodeGraph, clean', NEW s \in ToSet(running)
    PROVE  /\ s \in Seqs /\ stream[s] # NoStream /\ pos[s] \in Nat /\ IndexOf(pos[s]) \in Nat
           /\ OffsetOf(pos[s]) \in Offset
           /\ \E b \in Block : /\ Has(s, IndexOf(pos[s]), b) /\ Cell(kv, s, pos[s]) = <<b, OffsetOf(pos[s])>>
                               /\ kv.pool.hash[b] = NoHash
<1> DEFINE p == pos[s]
           i == IndexOf(p)
           b == kv.held[s][i + 1]
<1>1. /\ s \in Seqs /\ stream[s] \in Streams /\ stream[s] # NoStream /\ p \in Nat
    BY RunningFacts, NoStreamAssumption DEF Inv, TypeOK
<1>2. ~MissingBlock(kv, s, p) /\ p < Len(stream[s]) /\ p >= PromptLen
    BY DEF DecodeGraph, CanStep, Unfinished, ByGraph, Decoding
<1>3. i \in BlockIx /\ i \in Nat /\ OffsetOf(p) \in Offset
    BY <1>1, <1>2, StreamFacts, Divided
<1>4. kv.table[s][i] = IF i < Len(kv.held[s]) THEN b ELSE NoBlock
    BY <1>1, <1>3 DEF Inv, Sound, Tabled
<1>5. Has(s, i, b) /\ Cell(kv, s, p) = <<b, OffsetOf(p)>>
    BY <1>2, <1>4 DEF MissingBlock, Has, Cell, DecodeBlock
<1> HIDE DEF p, i, b
<1>6. b \in Block
    BY <1>1, <1>3, <1>5, HasIs
<1>7. kv.pool.hash[b] = NoHash
    <2> SUFFICES ASSUME kv.pool.hash[b] # NoHash PROVE FALSE
        OBVIOUS
    <2>1. (i + 1) * BlockSize <= PromptLen
        BY <1>1, <1>3, <1>5, OwnedAt
    <2>2. p + 1 \in 1 .. (i + 1) * BlockSize
        BY <1>1, InBlock DEF i
    <2>3. (i + 1) * BlockSize \in Nat /\ PromptLen \in Nat
        BY <1>3, BlockSizeAssumption, StreamsAssumption
    <2> QED BY <1>1, <1>2, <2>1, <2>2, <2>3
<1> QED BY <1>1, <1>3, <1>5, <1>6, <1>7 DEF p, i

\* A decode graph loses no cached position.
LEMMA DecodeContent ==
    ASSUME Inv, ContentInv, DecodeGraph
    PROVE  ContentInv'
<1> DEFINE R == ToSet(running)
<1>1. /\ pos' = [s \in Seqs |-> IF s \in R THEN pos[s] + 1 ELSE pos[s]]
      /\ stream' = stream /\ running' = running /\ waiting' = waiting /\ (clean' => clean)
    BY DEF DecodeGraph
<1>2. kv'.pool = kv.pool /\ kv'.held = kv.held
    BY DecodeFacts
<1>3. /\ pos \in [Seqs -> Nat] /\ R \cup waiting \subseteq Seqs
      /\ \A s \in R \cup waiting : stream[s] # NoStream
    BY RunningFacts DEF Inv, TypeOK, SlotsExact
<1>4. PICK won \in SUBSET R :
        /\ MayWin(kv, R, won, pos)
        /\ \A b \in Block, o \in Offset :
             \/ kv'.content[b][o] = kv.content[b][o] /\ \A s \in won : Cell(kv, s, pos[s]) # <<b, o>>
             \/ \E s \in won : Cell(kv, s, pos[s]) = <<b, o>> /\ kv'.content[b][o] = stream[s][pos[s] + 1]
    BY DecodeFacts
<1> HIDE DEF R
<1>5. Owned' /\ HashKnown'
    BY <1>1, <1>2 DEF ContentInv, Owned, HashKnown
<1>6. ASSUME clean', NEW b \in Block, NEW o \in Offset, kv.pool.hash[b] # NoHash
      PROVE  kv'.content[b][o] = kv.content[b][o]
    <2>1. ASSUME NEW s \in won PROVE Cell(kv, s, pos[s]) # <<b, o>>
        <3>1. PICK x \in Block : Cell(kv, s, pos[s]) = <<x, OffsetOf(pos[s])>> /\ kv.pool.hash[x] = NoHash
            BY <1>6, DecodeCells DEF ContentInv, R
        <3> QED BY <1>6, <3>1
    <2> QED BY <1>4, <2>1
<1>7. HashContent'
    <2> SUFFICES ASSUME clean', NEW b \in Block, NEW c \in Streams, NEW i \in 1 .. IndexOf(PromptLen),
                        kv.pool.hash[b] = c[i * BlockSize], NEW o \in Offset
                 PROVE  kv'.content[b][o] = c[BlockSize * (i - 1) + o + 1]
        BY <1>2 DEF HashContent
    <2>1. kv.pool.hash[b] # NoHash
        BY HashPlaces
    <2>2. kv.content[b][o] = c[BlockSize * (i - 1) + o + 1]
        BY <1>1 DEF ContentInv, HashContent
    <2> QED BY <1>6, <2>1, <2>2
<1>8. Kept'
    <2> SUFFICES ASSUME clean', NEW r \in R \cup waiting, NEW q \in 0 .. pos'[r] - 1
                 PROVE  KeptIn(kv', r, q, stream[r][q + 1])
        BY <1>1 DEF Kept, KeptIn, R
    <2> DEFINE j == IndexOf(q)
               x == kv.held[r][j + 1]
    <2>1. q \in Nat /\ r \in Seqs /\ j \in Nat /\ OffsetOf(q) \in Offset /\ stream[r] # NoStream
        <3>1. q \in Nat
            OBVIOUS
        <3> QED BY <1>3, <3>1, Divided
    <2>2. q < pos[r] \/ (r \in R /\ q = pos[r])
        BY <1>1, <1>3, <2>1
    <2> HIDE DEF j
    <2>3. CASE q < pos[r]
        <3>1. q \in 0 .. pos[r] - 1
            BY <1>3, <2>1, <2>3
        <3>2. j < Len(kv.held[r]) /\ kv.content[x][OffsetOf(q)] = stream[r][q + 1]
            BY <1>1, <3>1 DEF ContentInv, Kept, R, j
        <3>3. Has(r, j, x) /\ x \in Block
            BY <2>1, <3>2, HasIs DEF Has
        <3> HIDE DEF x
        <3>4. ASSUME NEW s \in won PROVE Cell(kv, s, pos[s]) # <<x, OffsetOf(q)>>
            <4> SUFFICES ASSUME Cell(kv, s, pos[s]) = <<x, OffsetOf(q)>> PROVE FALSE
                OBVIOUS
            <4>1. /\ s \in Seqs /\ pos[s] \in Nat /\ IndexOf(pos[s]) \in Nat
                  /\ \E b \in Block : /\ Has(s, IndexOf(pos[s]), b)
                                      /\ Cell(kv, s, pos[s]) = <<b, OffsetOf(pos[s])>>
                                      /\ kv.pool.hash[b] = NoHash
                BY DecodeCells DEF ContentInv, R
            <4>2. /\ Has(s, IndexOf(pos[s]), x) /\ OffsetOf(pos[s]) = OffsetOf(q)
                  /\ kv.pool.hash[x] = NoHash
                BY <4>1
            <4>3. x \in ToSet(kv.held[s]) /\ x \in ToSet(kv.held[r])
                BY <2>1, <3>3, <4>1, <4>2, HasIs
            <4>4. r = s
                BY <2>1, <4>1, <4>2, <4>3 DEF Inv, Sound, SharedHashed
            <4>5. j = IndexOf(pos[s])
                BY <2>1, <3>3, <4>1, <4>2, <4>4, HasIs
            <4>6. q = pos[s]
                BY <2>1, <4>1, <4>2, <4>5, Position DEF j
            <4> QED BY <2>1, <2>3, <4>4, <4>6
        <3>5. kv'.content[x][OffsetOf(q)] = kv.content[x][OffsetOf(q)]
            BY <1>4, <2>1, <3>3, <3>4
        <3> QED BY <1>2, <3>2, <3>5 DEF KeptIn, j, x
    <2>4. CASE r \in R /\ q = pos[r]
        <3>1. PICK b \in Block : /\ Has(r, j, b) /\ Cell(kv, r, q) = <<b, OffsetOf(q)>>
                                 /\ kv.pool.hash[b] = NoHash
            BY <2>4, DecodeCells DEF ContentInv, R, j
        <3>2. PICK w \in won : Cell(kv, w, pos[w]) = <<b, OffsetOf(q)>>
            BY <1>4, <2>4, <3>1 DEF MayWin
        <3>3. PICK s \in won : /\ Cell(kv, s, pos[s]) = <<b, OffsetOf(q)>>
                               /\ kv'.content[b][OffsetOf(q)] = stream[s][pos[s] + 1]
            BY <1>4, <2>1, <3>2
        <3>4. /\ s \in Seqs /\ pos[s] \in Nat /\ IndexOf(pos[s]) \in Nat
              /\ \E y \in Block : /\ Has(s, IndexOf(pos[s]), y)
                                  /\ Cell(kv, s, pos[s]) = <<y, OffsetOf(pos[s])>>
            BY DecodeCells DEF ContentInv, R
        <3>5. Has(s, IndexOf(pos[s]), b)
            BY <3>3, <3>4
        <3>6. b \in ToSet(kv.held[s]) /\ b \in ToSet(kv.held[r])
            BY <2>1, <3>1, <3>4, <3>5, HasIs
        <3>7. r = s
            BY <2>1, <3>1, <3>4, <3>6 DEF Inv, Sound, SharedHashed
        <3> QED BY <1>2, <2>4, <3>1, <3>3, <3>7 DEF KeptIn, Has, j
    <2> QED BY <2>2, <2>3, <2>4
<1> QED BY <1>5, <1>7, <1>8 DEF ContentInv

\* Every step keeps what the blocks hold.
LEMMA NextContent ==
    ASSUME Inv, Inv', ContentInv, [Next]_vars
    PROVE  ContentInv'
<1>1. ASSUME NEW s \in Seqs, NEW c \in Streams, Admit(s, c) PROVE ContentInv'
    BY <1>1, AdmitContent
<1>2. ASSUME NEW s \in Seqs, Start(s) \/ Preempt(s) \/ Finish(s) PROVE ContentInv'
    BY <1>2, MoveContent
<1>3. ASSUME NEW s \in Seqs, FreeSlot(s) PROVE ContentInv'
    BY <1>3, FreeSlotContent
<1>4. CASE BeginForward \/ UNCHANGED vars
    BY <1>4, MoveContent
<1>5. CASE Write
    <2>1. LosesHashes(kv, kv') /\ stream' = stream
        BY <1>5, WriteLosesHashes DEF Write
    <2>2. Owned' /\ HashKnown'
        BY <2>1, HashesLost DEF ContentInv
    <2>3. HashContent' /\ Kept'
        BY <1>5, WriteKeepsContent, WriteKeepsPositions DEF ContentInv
    <2> QED BY <2>2, <2>3 DEF ContentInv
<1>6. CASE AllocationFails
    BY <1>6, AllocationFailsContent
<1>7. CASE EndForward
    BY <1>7, EndForwardContent
<1>8. CASE DecodeGraph
    BY <1>8, DecodeContent
<1> QED BY <1>1, <1>2, <1>3, <1>4, <1>5, <1>6, <1>7, <1>8 DEF Next, Spin

\* What a cached block holds and what a request has computed stay what their
\* hashes and their tokens say, across sharing, copy on write, eviction and reuse.
THEOREM ContentInvariance == Spec => [](Inv /\ ContentInv)
<1>1. Init => Inv /\ ContentInv
    BY InitInv, InitContent
<1>2. Inv /\ ContentInv /\ [Next]_vars => Inv' /\ ContentInv'
    BY NextInv, NextContent
<1> QED BY <1>1, <1>2, PTL DEF Spec

\* What is cached is what is read.
LEMMA KeptReads ==
    ASSUME Inv, ContentInv
    PROVE  ReadsOwnKV
<1> SUFFICES ASSUME clean, NEW s \in ToSet(running), NEW p \in 0 .. pos[s] - 1
             PROVE  ReadKV(kv, s, p) = stream[s][p + 1]
    BY DEF ReadsOwnKV
<1> DEFINE i == IndexOf(p)
           b == kv.held[s][i + 1]
<1>1. s \in Seqs /\ stream[s] \in Streams /\ p \in Nat /\ p < Len(stream[s])
    <2>1. s \in Seqs /\ stream[s] \in Streams /\ stream[s] # NoStream /\ pos[s] \in Nat
        BY RunningFacts, NoStreamAssumption DEF Inv, TypeOK
    <2>2. pos[s] <= Len(stream[s]) /\ Len(stream[s]) \in Nat
        BY <2>1, StreamFacts DEF Inv, SlotsExact
    <2> QED BY <2>1, <2>2
<1>2. i \in BlockIx /\ i \in Nat
    BY <1>1, StreamFacts, Divided
<1>3. i < Len(kv.held[s]) /\ kv.content[b][OffsetOf(p)] = stream[s][p + 1]
    BY DEF ContentInv, Kept
<1>4. kv.table[s][i] = b
    BY <1>1, <1>2, <1>3 DEF Inv, Sound, Tabled
<1>5. b # NoBlock
    <2>1. b \in Block
        BY <1>1, <1>2, <1>3, HasIs DEF Has
    <2> QED BY <2>1 DEF NoBlock, Block
<1> QED BY <1>3, <1>4, <1>5 DEF ReadKV

\* What is registered is what is reused.
LEMMA ContentCached ==
    ASSUME Inv, ContentInv
    PROVE  CachedContentExact
<1> SUFFICES ASSUME clean, NEW h \in Hash, kv.pool.map[h] # NoBlock
             PROVE  \E c \in Streams : \E i \in DOMAIN BlockHashes(c) :
                      /\ BlockHashes(c)[i] = h
                      /\ kv.content[kv.pool.map[h]] = [o \in Offset |-> c[(i - 1) * BlockSize + o + 1]]
    BY DEF CachedContentExact
<1> DEFINE b == kv.pool.map[h]
<1>1. kv.pool.hash[b] = h /\ b \in Block /\ h # NoHash
    <2>1. kv.pool.map \in [Hash -> Block \cup {NoBlock}]
        BY Fields, PoolFields DEF Inv, Sound
    <2> QED BY <2>1, NoHashAssumption DEF Inv, Sound, EntriesSound
<1> HIDE DEF b
<1>2. PICK c \in Streams, i \in 1 .. IndexOf(PromptLen) : h = c[i * BlockSize]
    BY <1>1 DEF ContentInv, HashKnown
<1>3. i \in Nat \ {0} /\ i * BlockSize \in Nat /\ i * BlockSize = BlockSize * i /\ i * BlockSize <= PromptLen
    BY HashPlaces
<1>4. Len(c) \in Nat /\ PromptLen \in Nat /\ PromptLen <= Len(c)
    BY StreamFacts
<1>5. i \in 1 .. Len(c) \div BlockSize
    <2>1. ~(Len(c) < BlockSize * i)
        BY <1>3, <1>4
    <2>2. IndexOf(Len(c)) \in Nat /\ ~(IndexOf(Len(c)) < i)
        BY <1>3, <1>4, <2>1, Below, Divided
    <2> QED BY <1>3, <2>2 DEF IndexOf
<1>6. i \in DOMAIN BlockHashes(c) /\ BlockHashes(c)[i] = h
    BY <1>2, <1>5 DEF BlockHashes
<1>7. \A o \in Offset : kv.content[b][o] = c[BlockSize * (i - 1) + o + 1]
    BY <1>1, <1>2 DEF ContentInv, HashContent
<1>8. kv.content[b] \in [Offset -> Values \cup {Zero}]
    BY <1>1, Fields DEF Inv, Sound
<1>9. BlockSize * (i - 1) = (i - 1) * BlockSize
    BY <1>3, BlockSizeAssumption
<1>10. kv.content[b] = [o \in Offset |-> c[(i - 1) * BlockSize + o + 1]]
    BY <1>7, <1>8, <1>9
<1> QED BY <1>6, <1>10 DEF b

\* What a request reads for the positions it takes to be cached was computed from
\* its own tokens, across sharing, copy on write, eviction and reuse, as long as
\* no waiting request was evicted and no graph wrote without a block
\* (kv_cache.py:293-365; i64_engine.py:907-915).
THEOREM ReadsOwnKVAlways == Spec => []ReadsOwnKV
BY ContentInvariance, KeptReads, PTL

\* A cached block holds the K/V its hash stands for, so that a request that reuses
\* it reads what it would have computed (kv_cache.py:599-670).
THEOREM CachedContentExactAlways == Spec => []CachedContentExact
BY ContentInvariance, ContentCached, PTL
=============================================================================
