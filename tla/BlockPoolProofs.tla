-------------------------- MODULE BlockPoolProofs --------------------------
(***************************************************************************)
(* The invariants of BlockPool, for every number of blocks, every set of   *)
(* slots and every set of prompts.                                         *)
(***************************************************************************)
EXTENDS LinkedPool, BlockPoolOpsProofs

\* No sequence holds the null block.
NullBlockUnowned == \A s \in Seqs : NullBlock \notin ToSet(held[s])

\* A free slot holds no block.
IdleSlotsEmpty == \A s \in Seqs : prompt[s] = NoPrompt => held[s] = <<>>

\* The inductive invariant.  RefCountExact and FreeQueueExact need each other: a
\* popped block is nobody's because its count is 0 and the counts are exact, and
\* the counts stay exact because a popped block is nobody's.
Inv == /\ TypeOK
       /\ RefCountExact
       /\ FreeQueueExact
       /\ CacheEntriesSound
       /\ NullBlockUnowned
       /\ IdleSlotsEmpty

-----------------------------------------------------------------------------
(* Counting the holders of a block. *)

\* The holders of a block are finitely many, and none only if nobody holds it.
LEMMA HoldersCount ==
    ASSUME NEW b
    PROVE  /\ IsFiniteSet(Holders(b))
           /\ Cardinality(Holders(b)) \in Nat
           /\ Cardinality(Holders(b)) = 0 <=> Holders(b) = {}
<1>1. Holders(b) \in SUBSET Seqs
    BY DEF Holders
<1>2. IsFiniteSet(Holders(b))
    BY <1>1, SeqsAssumption, FS_Subset
<1> QED BY <1>2, FS_CardinalityType, FS_EmptySet

\* How the number of holders moves when one sequence gets another list of blocks.
LEMMA HoldersStep ==
    ASSUME TypeOK, NEW s \in Seqs, NEW t, held' = [held EXCEPT ![s] = t], NEW b
    PROVE  Cardinality(Holders(b)') =
             IF b \in ToSet(t)
               THEN IF b \in ToSet(held[s]) THEN Cardinality(Holders(b))
                                            ELSE Cardinality(Holders(b)) + 1
               ELSE IF b \in ToSet(held[s]) THEN Cardinality(Holders(b)) - 1
                                            ELSE Cardinality(Holders(b))
<1>1. \A r \in Seqs : held'[r] = IF r = s THEN t ELSE held[r]
    BY DEF TypeOK
<1>2. Holders(b)' = IF b \in ToSet(t) THEN Holders(b) \cup {s} ELSE Holders(b) \ {s}
    BY <1>1 DEF Holders
<1>3. s \in Holders(b) <=> b \in ToSet(held[s])
    BY DEF Holders
<1>4. IsFiniteSet(Holders(b))
    BY HoldersCount
<1>5. Cardinality(Holders(b) \cup {s})
        = IF s \in Holders(b) THEN Cardinality(Holders(b)) ELSE Cardinality(Holders(b)) + 1
    BY <1>4, FS_AddElement
<1>6. Cardinality(Holders(b) \ {s})
        = IF s \in Holders(b) THEN Cardinality(Holders(b)) - 1 ELSE Cardinality(Holders(b))
    BY <1>4, FS_RemoveElement
<1> QED BY <1>2, <1>3, <1>5, <1>6

\* A block is referenced exactly if a sequence holds it.
LEMMA HeldIsReferenced ==
    ASSUME Inv, NEW b \in Block
    PROVE  /\ pool.ref[b] \in Nat
           /\ pool.ref[b] > 0 <=> \E s \in Seqs : b \in ToSet(held[s])
<1>1. pool.ref[b] = Cardinality(Holders(b))
    BY DEF Inv, RefCountExact
<1>2. /\ Cardinality(Holders(b)) \in Nat
      /\ Cardinality(Holders(b)) = 0 <=> Holders(b) = {}
    BY HoldersCount
<1>3. Holders(b) # {} <=> \E s \in Seqs : b \in ToSet(held[s])
    BY DEF Holders
<1> QED BY <1>1, <1>2, <1>3

\* What a step has to show of the list t that slot s gets, the rest being alike
\* for the steps that change one list.
LEMMA StepKeepsInv ==
    ASSUME Inv, NEW s \in Seqs, NEW t \in Seq(Block),
           held' = [held EXCEPT ![s] = t],
           IsInjective(t),
           NullBlock \notin ToSet(t),
           prompt' \in [Seqs -> Prompts \cup {NoPrompt}],
           \A r \in Seqs : prompt'[r] = NoPrompt =>
               IF r = s THEN t = <<>> ELSE prompt[r] = NoPrompt,
           pool' \in Pool,
           QueueExact(pool'),
           EntriesSound(pool'),
           \A b \in Block : pool'.ref[b] =
               IF b \in ToSet(t)
                 THEN IF b \in ToSet(held[s]) THEN pool.ref[b] ELSE pool.ref[b] + 1
                 ELSE IF b \in ToSet(held[s]) THEN pool.ref[b] - 1 ELSE pool.ref[b]
    PROVE  Inv'
<1>1. /\ TypeOK
      /\ \A r \in Seqs : held'[r] = IF r = s THEN t ELSE held[r]
    BY DEF Inv, TypeOK
<1>2. TypeOK'
    BY <1>1 DEF TypeOK
<1>3. RefCountExact'
    <2>1. \A r \in Seqs : IsInjective(held'[r])
        BY <1>1 DEF Inv, RefCountExact
    <2>2. ASSUME NEW b \in Block PROVE pool'.ref[b] = Cardinality(Holders(b)')
        <3>1. pool.ref[b] = Cardinality(Holders(b))
            BY DEF Inv, RefCountExact
        <3> QED BY <1>1, <3>1, HoldersStep
    <2> QED BY <2>1, <2>2 DEF RefCountExact
<1>4. FreeQueueExact' /\ CacheEntriesSound'
    BY DEF FreeQueueExact, QueueExact, CacheEntriesSound, EntriesSound
<1>5. NullBlockUnowned'
    BY <1>1 DEF Inv, NullBlockUnowned
<1>6. IdleSlotsEmpty'
    BY <1>1 DEF Inv, IdleSlotsEmpty
<1> QED BY <1>2, <1>3, <1>4, <1>5, <1>6 DEF Inv

-----------------------------------------------------------------------------
(* Every step keeps the invariant. *)

\* The invariant holds of the pool as BlockPool.__init__ leaves it.
LEMMA InitInv == Init => Inv
<1> SUFFICES ASSUME Init PROVE Inv
    OBVIOUS
<1>1. /\ pool = InitPool(FALSE)
      /\ \A s \in Seqs : held[s] = <<>>
    BY DEF Init
<1>2. TypeOK
    <2>1. pool \in Pool
        BY <1>1, InitPoolSound
    <2>2. <<>> \in Seq(Block)
        BY EmptySeq
    <2>3. held \in [Seqs -> Seq(Block)] /\ prompt \in [Seqs -> Prompts \cup {NoPrompt}]
        BY <2>2 DEF Init
    <2> QED BY <2>1, <2>3 DEF TypeOK
<1>3. ToSet(<<>>) = {} /\ IsInjective(<<>>)
    BY DEF ToSet, IsInjective
<1>4. RefCountExact
    <2>1. ASSUME NEW b \in Block PROVE pool.ref[b] = Cardinality(Holders(b))
        <3>1. Holders(b) = {}
            BY <1>1, <1>3 DEF Holders
        <3>2. pool.ref[b] = 0
            BY <1>1 DEF InitPool
        <3> QED BY <3>1, <3>2, HoldersCount
    <2> QED BY <1>1, <1>3, <2>1 DEF RefCountExact
<1>5. FreeQueueExact /\ CacheEntriesSound
    BY <1>1, InitPoolSound DEF FreeQueueExact, QueueExact, CacheEntriesSound, EntriesSound
<1>6. NullBlockUnowned /\ IdleSlotsEmpty
    BY <1>1, <1>3 DEF NullBlockUnowned, IdleSlotsEmpty
<1> QED BY <1>2, <1>4, <1>5, <1>6 DEF Inv

\* What the invariant says of the pool and of one slot.
LEMMA InvFacts ==
    ASSUME Inv, NEW s \in Seqs
    PROVE  /\ pool \in Pool
           /\ QueueExact(pool)
           /\ EntriesSound(pool)
           /\ held[s] \in Seq(Block)
           /\ IsInjective(held[s])
           /\ \A b \in ToSet(held[s]) : b \in Block /\ b # NullBlock /\ pool.ref[b] > 0
           /\ prompt \in [Seqs -> Prompts \cup {NoPrompt}]
<1>1. /\ pool \in Pool
      /\ held[s] \in Seq(Block)
      /\ prompt \in [Seqs -> Prompts \cup {NoPrompt}]
    BY DEF Inv, TypeOK
<1>2. QueueExact(pool) /\ EntriesSound(pool)
    BY DEF Inv, FreeQueueExact, QueueExact, CacheEntriesSound, EntriesSound
<1>3. IsInjective(held[s])
    BY DEF Inv, RefCountExact
<1>4. \A b \in ToSet(held[s]) : b \in Block /\ b # NullBlock
    BY <1>1, ToSetProperties DEF Inv, NullBlockUnowned
<1>5. \A b \in ToSet(held[s]) : pool.ref[b] > 0
    BY <1>4, HeldIsReferenced
<1> QED BY <1>1, <1>2, <1>3, <1>4, <1>5

\* try_reuse_prefix keeps the invariant: each reused block gains one holder.
LEMMA AdmitInv ==
    ASSUME Inv, NEW s \in Seqs, NEW c \in Prompts, Admit(s, c)
    PROVE  Inv'
<1> DEFINE t == CachedPrefix(pool, c)
<1>1. /\ prompt[s] = NoPrompt
      /\ pool' = Touch(pool, ToSet(t))
      /\ held' = [held EXCEPT ![s] = t]
      /\ prompt' = [prompt EXCEPT ![s] = c]
    BY DEF Admit
<1>2. held[s] = <<>>
    BY <1>1 DEF Inv, IdleSlotsEmpty
<1>3. ToSet(held[s]) = {}
    BY <1>2 DEF ToSet
<1>4. /\ c \in Seq(Hash) /\ IsInjective(c)
      /\ c # NoPrompt
    BY PromptsAssumption, NoPromptAssumption
<1>5. t \in Seq(Block) /\ IsInjective(t) /\ NullBlock \notin ToSet(t)
    BY <1>4, InvFacts, CachedPrefixSound
<1> HIDE DEF t
<1>6. ToSet(t) \in SUBSET Block
    BY <1>5, ToSetProperties
<1>7. /\ pool' \in Pool
      /\ QueueExact(pool')
      /\ EntriesSound(pool')
      /\ \A b \in Block : pool'.ref[b] = IF b \in ToSet(t) THEN pool.ref[b] + 1 ELSE pool.ref[b]
    <2>1. /\ Touch(pool, ToSet(t)) \in Pool
          /\ Touch(pool, ToSet(t)).ref
                = [b \in Block |-> IF b \in ToSet(t) THEN pool.ref[b] + 1 ELSE pool.ref[b]]
          /\ QueueExact(Touch(pool, ToSet(t)))
          /\ EntriesSound(Touch(pool, ToSet(t)))
        BY <1>6, InvFacts, TouchSound
    <2> QED BY <1>1, <2>1
<1>8. /\ prompt' \in [Seqs -> Prompts \cup {NoPrompt}]
      /\ \A r \in Seqs : prompt'[r] = NoPrompt => r # s /\ prompt[r] = NoPrompt
    BY <1>1, <1>4, InvFacts
<1> QED BY <1>1, <1>3, <1>5, <1>7, <1>8, StepKeepsInv

\* allocate_blocks keeps the invariant: the fresh blocks have one holder.
LEMMA AllocateInv ==
    ASSUME Inv, NEW s \in Seqs, NEW n \in 1 .. NumBlocks, Allocate(s, n)
    PROVE  Inv'
<1> DEFINE new == Popped(pool, n)
           t   == held[s] \o new
<1>1. /\ prompt[s] # NoPrompt
      /\ n <= NumFree(pool)
      /\ pool' = GetNewBlocks(pool, n)
      /\ held' = [held EXCEPT ![s] = t]
      /\ prompt' = prompt
    BY DEF Allocate, CanGet, Inv, TypeOK
<1>2. n \in 0 .. NumFree(pool)
    BY <1>1, InvFacts, PoolFields, ToSetProperties DEF NumFree
<1>3. /\ new \in Seq(Block)
      /\ IsInjective(new)
      /\ \A b \in ToSet(new) : b \in Block /\ b # NullBlock /\ pool.ref[b] = 0
      /\ pool' \in Pool
      /\ QueueExact(pool')
      /\ EntriesSound(pool')
      /\ \A b \in Block : pool'.ref[b] = IF b \in ToSet(new) THEN 1 ELSE pool.ref[b]
    <2>1. pool \in Pool /\ QueueExact(pool) /\ EntriesSound(pool)
        BY InvFacts
    <2>2. /\ new \in Seq(Block)
          /\ IsInjective(new)
          /\ \A b \in ToSet(new) : b \in Block /\ b # NullBlock /\ pool.ref[b] = 0
          /\ GetNewBlocks(pool, n) \in Pool
          /\ QueueExact(GetNewBlocks(pool, n))
          /\ EntriesSound(GetNewBlocks(pool, n))
          /\ GetNewBlocks(pool, n).ref
                = [b \in Block |-> IF b \in ToSet(new) THEN 1 ELSE pool.ref[b]]
        BY <1>2, <2>1, GetNewBlocksSound
    <2> HIDE DEF new
    <2> QED BY <1>1, <2>2
<1> HIDE DEF new
<1>4. ToSet(held[s]) \cap ToSet(new) = {}
    BY <1>3, InvFacts
<1>5. t \in Seq(Block) /\ ToSet(t) = ToSet(held[s]) \cup ToSet(new) /\ IsInjective(t)
    BY <1>3, <1>4, InvFacts, ConcatKeepsInjective
<1> HIDE DEF t
<1>6. NullBlock \notin ToSet(t)
    BY <1>3, <1>5, InvFacts
<1>7. \A b \in Block : pool'.ref[b] =
         IF b \in ToSet(t)
           THEN IF b \in ToSet(held[s]) THEN pool.ref[b] ELSE pool.ref[b] + 1
           ELSE IF b \in ToSet(held[s]) THEN pool.ref[b] - 1 ELSE pool.ref[b]
    BY <1>3, <1>4, <1>5
<1>8. /\ prompt' \in [Seqs -> Prompts \cup {NoPrompt}]
      /\ \A r \in Seqs : prompt'[r] = NoPrompt => r # s /\ prompt[r] = NoPrompt
    BY <1>1, InvFacts
<1> QED BY <1>1, <1>3, <1>5, <1>6, <1>7, <1>8, StepKeepsInv

\* A step that moves no list and no reference.
LEMMA PoolOnlyStepInv ==
    ASSUME Inv, held' = held, prompt' = prompt,
           pool' \in Pool, pool'.ref = pool.ref,
           QueueExact(pool'), EntriesSound(pool')
    PROVE  Inv'
<1>1. \A b : Holders(b)' = Holders(b)
    BY DEF Holders
<1> QED BY <1>1 DEF Inv, TypeOK, RefCountExact, FreeQueueExact, QueueExact,
                    CacheEntriesSound, EntriesSound, NullBlockUnowned, IdleSlotsEmpty

\* register_prefix_blocks keeps the invariant: no count and no list moves.
LEMMA RegisterInv ==
    ASSUME Inv, NEW s \in Seqs, Register(s)
    PROVE  Inv'
<1> DEFINE c == prompt[s]
<1>1. /\ c # NoPrompt
      /\ pool' = CacheBlocks(pool, held[s], c)
      /\ held' = held /\ prompt' = prompt
    BY DEF Register
<1>2. c \in Seq(Hash) /\ IsInjective(c)
    BY <1>1, InvFacts, PromptsAssumption
<1> HIDE DEF c
<1>3. /\ pool' \in Pool
      /\ pool'.ref = pool.ref /\ pool'.free = pool.free
      /\ EntriesSound(pool')
    BY <1>1, <1>2, InvFacts, CacheBlocksSound
<1>4. QueueExact(pool')
    BY <1>3, InvFacts DEF QueueExact
<1> QED BY <1>1, <1>3, <1>4, PoolOnlyStepInv

\* _cow_if_shared keeps the invariant: the shared block loses one holder, which
\* leaves it at least one, and the fresh one has one.
LEMMA CopyOnWriteInv ==
    ASSUME Inv, NEW s \in Seqs, NEW i \in 1 .. NumBlocks, CopyOnWrite(s, i)
    PROVE  Inv'
<1> DEFINE old   == held[s][i]
           fresh == Head(pool.free)
           got   == GetNewBlocks(pool, 1)
           t     == [held[s] EXCEPT ![i] = fresh]
<1>1. /\ i \in DOMAIN held[s]
      /\ pool.ref[old] > 1
      /\ 1 <= NumFree(pool)
      /\ pool' = [got EXCEPT !.ref[old] = @ - 1]
      /\ held' = [held EXCEPT ![s] = t]
      /\ prompt' = prompt
    BY DEF CopyOnWrite, CanGet, Shared
<1>2. 1 \in 0 .. NumFree(pool)
    BY <1>1, InvFacts, PoolFields, ToSetProperties DEF NumFree
<1>3. /\ pool.free \in Seq(Block) /\ pool.free # <<>> /\ fresh = pool.free[1]
      /\ fresh \in Block
    <2>1. pool.free \in Seq(Block) /\ Len(pool.free) >= 1
        BY <1>1, InvFacts, PoolFields DEF NumFree
    <2> QED BY <2>1, HeadTailProperties
<1>4. ToSet(Popped(pool, 1)) = {fresh}
    <2>1. Popped(pool, 1) \in Seq(Block) /\ Len(Popped(pool, 1)) = 1
        BY <1>2, InvFacts, GetNewBlocksSound
    <2>2. Popped(pool, 1)[1] = pool.free[1]
        BY <1>3, ToSetProperties, SubSeqProperties DEF Popped, NumFree
    <2> QED BY <1>3, <2>1, <2>2, ToSetProperties
<1>5. /\ fresh # NullBlock /\ pool.ref[fresh] = 0
      /\ got \in Pool
      /\ got.ref = [b \in Block |-> IF b = fresh THEN 1 ELSE pool.ref[b]]
      /\ QueueExact(got)
      /\ EntriesSound(got)
    <2>1. pool \in Pool /\ QueueExact(pool) /\ EntriesSound(pool)
        BY InvFacts
    <2>2. /\ \A b \in ToSet(Popped(pool, 1)) : b \in Block /\ b # NullBlock /\ pool.ref[b] = 0
          /\ got \in Pool
          /\ got.ref = [b \in Block |-> IF b \in ToSet(Popped(pool, 1)) THEN 1 ELSE pool.ref[b]]
          /\ QueueExact(got)
          /\ EntriesSound(got)
        BY <1>2, <2>1, GetNewBlocksSound
    <2> HIDE DEF fresh, got
    <2>3. fresh # NullBlock /\ pool.ref[fresh] = 0
        BY <1>4, <2>2
    <2>4. got.ref = [b \in Block |-> IF b = fresh THEN 1 ELSE pool.ref[b]]
        BY <1>4, <2>2
    <2> QED BY <2>2, <2>3, <2>4
<1> HIDE DEF fresh, got
<1>6. /\ held[s] \in Seq(Block)
      /\ i \in 1 .. Len(held[s])
      /\ DOMAIN held[s] = 1 .. Len(held[s])
      /\ old \in ToSet(held[s])
    BY <1>1, InvFacts, ToSetProperties
<1>7. /\ old \in Block /\ old # NullBlock /\ old # fresh
      /\ fresh \notin ToSet(held[s])
    BY <1>5, <1>6, InvFacts
<1>8. /\ t \in Seq(Block)
      /\ DOMAIN t = 1 .. Len(held[s])
      /\ \A j \in 1 .. Len(held[s]) : t[j] = IF j = i THEN fresh ELSE held[s][j]
    <2>1. /\ t \in Seq(Block)
          /\ Len(t) = Len(held[s])
          /\ \A j \in 1 .. Len(held[s]) : t[j] = IF j = i THEN fresh ELSE held[s][j]
        BY <1>3, <1>6, ExceptSeq
    <2> QED BY <2>1, ToSetProperties
<1> HIDE DEF t
<1>9. IsInjective(t)
    <2>1. IsInjective(held[s]) /\ \A j \in 1 .. Len(held[s]) : held[s][j] # fresh
        BY <1>6, <1>7, InvFacts, ToSetProperties
    <2> QED BY <1>6, <1>8, <2>1 DEF IsInjective
<1>10. ToSet(t) = (ToSet(held[s]) \ {old}) \cup {fresh}
    <2>1. ASSUME NEW j \in 1 .. Len(held[s])
          PROVE  t[j] \in (ToSet(held[s]) \ {old}) \cup {fresh}
        BY <1>6, <1>8, InvFacts DEF ToSet, IsInjective
    <2>2. ASSUME NEW j \in 1 .. Len(held[s]), held[s][j] # old
          PROVE  t[j] = held[s][j]
        BY <1>8, <2>2
    <2>3. t[i] = fresh
        BY <1>6, <1>8
    <2> QED BY <1>6, <1>8, <2>1, <2>2, <2>3 DEF ToSet
<1>11. /\ pool' \in Pool
       /\ pool'.free = got.free /\ pool'.hash = got.hash /\ pool'.map = got.map
       /\ pool'.ref = [got.ref EXCEPT ![old] = @ - 1]
    <2>1. /\ got.ref \in [Block -> Nat]
          /\ got.ref[old] - 1 \in Nat
        BY <1>1, <1>5, <1>7, HeldIsReferenced, PoolFields
    <2>2. [got.ref EXCEPT ![old] = @ - 1] \in [Block -> Nat]
        BY <2>1
    <2> QED BY <1>1, <1>5, <2>2 DEF Pool
<1>12. \A b \in Block :
          pool'.ref[b] = IF b = fresh THEN pool.ref[b] + 1
                         ELSE IF b = old THEN pool.ref[b] - 1 ELSE pool.ref[b]
    BY <1>5, <1>7, <1>11
<1>13. QueueExact(pool') /\ EntriesSound(pool')
    <2>1. \A b \in Block : pool'.ref[b] = 0 <=> got.ref[b] = 0
        BY <1>1, <1>5, <1>7, <1>12, HeldIsReferenced
    <2> QED BY <1>5, <1>11, <2>1 DEF QueueExact, EntriesSound
<1>14. NullBlock \notin ToSet(t)
    BY <1>5, <1>10, InvFacts
<1>15. \A b \in Block : pool'.ref[b] =
         IF b \in ToSet(t)
           THEN IF b \in ToSet(held[s]) THEN pool.ref[b] ELSE pool.ref[b] + 1
           ELSE IF b \in ToSet(held[s]) THEN pool.ref[b] - 1 ELSE pool.ref[b]
    BY <1>6, <1>7, <1>10, <1>12
<1>16. /\ prompt' \in [Seqs -> Prompts \cup {NoPrompt}]
       /\ \A r \in Seqs : prompt'[r] = NoPrompt =>
             IF r = s THEN t = <<>> ELSE prompt[r] = NoPrompt
    <2>1. prompt[s] # NoPrompt
        BY <1>6 DEF Inv, IdleSlotsEmpty, ToSet
    <2> QED BY <1>1, <2>1, InvFacts
<1> QED BY <1>1, <1>8, <1>9, <1>11, <1>13, <1>14, <1>15, <1>16, StepKeepsInv

\* free_sequence keeps the invariant: each block of the slot loses one holder.
LEMMA FreeInv ==
    ASSUME Inv, NEW s \in Seqs, Free(s)
    PROVE  Inv'
<1> DEFINE bs == Reverse(held[s])
<1>1. /\ pool' = FreeBlocks(pool, bs)
      /\ held' = [held EXCEPT ![s] = <<>>]
      /\ prompt' = [prompt EXCEPT ![s] = NoPrompt]
    BY DEF Free
<1>2. bs \in Seq(Block) /\ ToSet(bs) = ToSet(held[s]) /\ IsInjective(bs)
    BY InvFacts, ReverseProperties
<1> HIDE DEF bs
<1>3. /\ pool' \in Pool
      /\ QueueExact(pool')
      /\ EntriesSound(pool')
      /\ \A b \in Block : pool'.ref[b] = IF b \in ToSet(held[s]) THEN pool.ref[b] - 1 ELSE pool.ref[b]
    <2>1. \A b \in ToSet(bs) : pool.ref[b] > 0
        BY <1>2, InvFacts
    <2>2. pool \in Pool /\ QueueExact(pool) /\ EntriesSound(pool)
        BY InvFacts
    <2>3. /\ FreeBlocks(pool, bs) \in Pool
          /\ QueueExact(FreeBlocks(pool, bs))
          /\ EntriesSound(FreeBlocks(pool, bs))
          /\ FreeBlocks(pool, bs).ref
                = [b \in Block |-> IF b \in ToSet(bs) THEN pool.ref[b] - 1 ELSE pool.ref[b]]
        BY <1>2, <2>1, <2>2, FreeBlocksSound
    <2> QED BY <1>1, <1>2, <2>3
<1>4. /\ <<>> \in Seq(Block)
      /\ ToSet(<<>>) = {}
      /\ IsInjective(<<>>)
    BY EmptySeq DEF ToSet, IsInjective
<1>5. /\ prompt' \in [Seqs -> Prompts \cup {NoPrompt}]
      /\ \A r \in Seqs : r # s => prompt'[r] = prompt[r]
    BY <1>1, InvFacts
<1> QED BY <1>1, <1>3, <1>4, <1>5, StepKeepsInv

\* enable_prefix_caching and the purge endpoint keep the invariant.
LEMMA EnableOrPurgeInv ==
    ASSUME Inv, Enable \/ Purge
    PROVE  Inv'
<1>1. /\ pool' \in {EnableCaching(pool), PurgeCache(pool)}
      /\ held' = held /\ prompt' = prompt
    BY DEF Enable, Purge
<1>2. pool \in Pool /\ QueueExact(pool) /\ EntriesSound(pool)
    BY DEF Inv, TypeOK, FreeQueueExact, QueueExact, CacheEntriesSound, EntriesSound
<1>3. /\ pool' \in Pool
      /\ pool'.ref = pool.ref
      /\ QueueExact(pool')
      /\ EntriesSound(pool')
    BY <1>1, <1>2, SwitchesSound
<1> QED BY <1>1, <1>3, PoolOnlyStepInv

\* Every step keeps the invariant.
LEMMA NextInv == Inv /\ [Next]_vars => Inv'
<1> SUFFICES ASSUME Inv, [Next]_vars PROVE Inv'
    OBVIOUS
<1>1. ASSUME NEW s \in Seqs, NEW c \in Prompts, Admit(s, c) PROVE Inv'
    BY <1>1, AdmitInv
<1>2. ASSUME NEW s \in Seqs, NEW n \in 1 .. NumBlocks, Allocate(s, n) PROVE Inv'
    BY <1>2, AllocateInv
<1>3. ASSUME NEW s \in Seqs, Register(s) PROVE Inv'
    BY <1>3, RegisterInv
<1>4. ASSUME NEW s \in Seqs, Free(s) PROVE Inv'
    BY <1>4, FreeInv
<1>5. ASSUME NEW s \in Seqs, NEW i \in 1 .. NumBlocks, CopyOnWrite(s, i) PROVE Inv'
    BY <1>5, CopyOnWriteInv
<1>6. CASE Enable \/ Purge
    BY <1>6, EnableOrPurgeInv
<1>7. CASE UNCHANGED vars
    <2>1. \A b : Holders(b)' = Holders(b)
        BY <1>7 DEF vars, Holders
    <2> QED BY <1>7, <2>1 DEF vars, Inv, TypeOK, RefCountExact, FreeQueueExact,
                              CacheEntriesSound, NullBlockUnowned, IdleSlotsEmpty
<1> QED BY <1>1, <1>2, <1>3, <1>4, <1>5, <1>6, <1>7 DEF Next

-----------------------------------------------------------------------------
(* The theorems. *)

\* The inductive invariant holds of every state the pool can reach.
THEOREM InvHolds == Spec => []Inv
<1>1. Init => Inv
    BY InitInv
<1>2. Inv /\ [Next]_vars => Inv'
    BY NextInv
<1> QED BY <1>1, <1>2, PTL DEF Spec

\* Every reachable state is well typed: in particular no reference count goes
\* below 0 (block_pool.py:226-238).
THEOREM TypeCorrect == Spec => []TypeOK
<1>1. Inv => TypeOK
    BY DEF Inv
<1> QED BY <1>1, InvHolds, PTL

\* The reference count of a block is the number of sequences that hold it, for
\* any number of sequences and blocks (block_pool.py:219-238).
THEOREM RefCountsExact == Spec => []RefCountExact
<1>1. Inv => RefCountExact
    BY DEF Inv
<1> QED BY <1>1, InvHolds, PTL

\* The free queue holds exactly the unreferenced blocks, so the double-allocation
\* error of get_new_blocks cannot be raised (block_pool.py:211-215).
THEOREM FreeQueueIsExact == Spec => []FreeQueueExact
<1>1. Inv => FreeQueueExact
    BY DEF Inv
<1> QED BY <1>1, InvHolds, PTL

\* A prefix-cache hit is a block that still has the hash it was cached under
\* (block_pool.py:270-288).
THEOREM CacheIsSound == Spec => []CacheEntriesSound
<1>1. Inv => CacheEntriesSound
    BY DEF Inv
<1> QED BY <1>1, InvHolds, PTL

\* The null block, the free queue and the sequences divide the blocks of the pool
\* (block_pool.py:189-191, 297-302).
THEOREM NoBlockIsLost == Spec => []BlocksConserved
<1>1. ASSUME Inv PROVE BlocksConserved
    <2> DEFINE taken == UNION {ToSet(held[s]) : s \in Seqs}
               free  == ToSet(pool.free)
    <2>1. free = {b \in Block \ {NullBlock} : pool.ref[b] = 0}
        BY <1>1 DEF Inv, FreeQueueExact
    <2>2. NullBlock \in Block
        BY NumBlocksAssumption DEF NullBlock, Block
    <2>3. \A b \in taken : b \in Block /\ b # NullBlock /\ pool.ref[b] > 0
        BY <1>1, InvFacts
    <2>4. \A b \in Block : pool.ref[b] \in Nat /\ (pool.ref[b] > 0 => b \in taken)
        BY <1>1, HeldIsReferenced
    <2> HIDE DEF taken, free
    <2>5. Block = {NullBlock} \cup free \cup taken
        BY <2>1, <2>2, <2>3, <2>4
    <2>6. NullBlock \notin free \cup taken
        BY <2>1, <2>3
    <2>7. free \cap taken = {}
        BY <2>1, <2>3
    <2> QED BY <2>5, <2>6, <2>7 DEF BlocksConserved, free, taken
<1>2. Inv => BlocksConserved
    BY <1>1
<1> QED BY <1>2, InvHolds, PTL

-----------------------------------------------------------------------------
(* The order in which a sequence's blocks go back. *)

\* The blocks that free_blocks(Reverse(t)) gives back stand in the free queue
\* last block first.
LEMMA TailFirst ==
    ASSUME NEW p \in Pool, QueueExact(p), NEW t \in Seq(Block), IsInjective(t),
           NEW i \in DOMAIN t, NEW j \in DOMAIN t, i < j, p.ref[t[i]] > 0, p.ref[t[j]] > 0,
           NEW free, free = FreeBlocks(p, Reverse(t)).free,
           NEW m \in DOMAIN free, NEW n \in DOMAIN free, free[m] = t[i], free[n] = t[j]
    PROVE  n < m
<1> DEFINE bs      == Reverse(t)
           dropped == {k \in DOMAIN bs : p.ref[bs[k]] = 1 /\ bs[k] # NullBlock}
           back    == Subsequence(bs, dropped)
           was     == Len(p.free)
           len     == Len(t)
<1>1. /\ p.free \in Seq(Block) /\ was \in Nat
      /\ DOMAIN p.free = 1 .. was
      /\ \A b \in ToSet(p.free) : p.ref[b] = 0
    BY PoolFields, ToSetProperties DEF QueueExact
<1>2. bs \in Seq(Block) /\ IsInjective(bs)
    BY ReverseProperties
<1>3. /\ DOMAIN t = 1 .. len /\ len \in Nat
      /\ DOMAIN bs = 1 .. len
      /\ \A k \in 1 .. len : bs[k] = t[(len - k) + 1]
    BY ToSetProperties DEF Reverse
<1>4. /\ (len - i) + 1 \in DOMAIN bs /\ bs[(len - i) + 1] = t[i]
      /\ (len - j) + 1 \in DOMAIN bs /\ bs[(len - j) + 1] = t[j]
      /\ (len - j) + 1 < (len - i) + 1
    <2>1. \A k \in 1 .. len : (len - k) + 1 \in 1 .. len /\ (len - ((len - k) + 1)) + 1 = k
        BY <1>3
    <2>2. \A k \in 1 .. len : bs[(len - k) + 1] = t[k]
        BY <1>3, <2>1
    <2>3. (len - j) + 1 < (len - i) + 1
        BY <1>3
    <2> QED BY <1>3, <2>1, <2>2, <2>3
<1>5. free = p.free \o back
    BY DEF FreeBlocks, Pool
<1>6. back \in Seq(Block) /\ dropped \in SUBSET DOMAIN bs
    BY <1>2, SubsequenceProperties
<1> HIDE DEF bs, dropped, len
<1> DEFINE got == Len(back)
<1>7. DOMAIN back = 1 .. got /\ got \in Nat
    BY <1>6, ToSetProperties
<1>8. /\ free \in Seq(Block)
      /\ Len(free) = was + got
      /\ \A k \in 1 .. was + got : free[k] = IF k <= was THEN p.free[k] ELSE back[k - was]
    BY <1>1, <1>5, <1>6, ConcatProperties
<1>9. DOMAIN free = 1 .. was + got
    BY <1>8, ToSetProperties
<1> HIDE DEF back, was, got
<1>10. ASSUME NEW k \in DOMAIN free, p.ref[free[k]] > 0
       PROVE  k - was \in DOMAIN back /\ back[k - was] = free[k]
    <2>1. CASE k <= was
        <3>1. k \in 1 .. was /\ free[k] = p.free[k]
            BY <1>1, <1>7, <1>8, <1>9, <2>1
        <3>2. free[k] \in ToSet(p.free)
            BY <1>1, <3>1 DEF ToSet
        <3>3. p.ref[free[k]] = 0
            BY <1>1, <3>2
        <3> QED BY <1>10, <3>3
    <2>2. CASE ~(k <= was)
        <3>1. k \in 1 .. was + got /\ k - was \in 1 .. got
            BY ONLY <1>1, <1>7, <1>9, <1>10, <2>2
        <3>2. free[k] = back[k - was]
            BY ONLY <1>8, <2>2, <3>1
        <3> QED BY ONLY <1>7, <3>1, <3>2
    <2> QED BY <2>1, <2>2
<1>11. /\ m - was \in DOMAIN back /\ back[m - was] = t[i]
       /\ n - was \in DOMAIN back /\ back[n - was] = t[j]
    BY <1>10
<1>12. n - was < m - was
    BY <1>2, <1>4, <1>6, <1>11, SubsequenceKeepsOrder DEF back
<1> QED BY <1>1, <1>7, <1>9, <1>12

\* Whenever a sequence lets its blocks go, its first blocks stand in the free
\* queue behind its last ones, so that a cached chain is evicted from its end
\* (kv_cache.py:498-524, block_pool.py:226-238).
THEOREM ChainsAreFreedTailFirst == Spec => ChainsFreedTailFirst
<1> DEFINE InOrder(s) ==
             held'[s] = <<>> =>
               \A i, j \in DOMAIN held[s] : \A m, n \in DOMAIN pool'.free :
                  /\ i < j
                  /\ pool.ref[held[s][i]] > 0 /\ pool'.free[m] = held[s][i]
                  /\ pool.ref[held[s][j]] > 0 /\ pool'.free[n] = held[s][j]
                  => n < m
<1>1. ASSUME Inv, [Next]_vars, NEW s \in Seqs PROVE InOrder(s)
    <2> SUFFICES ASSUME held'[s] = <<>>, NEW i \in DOMAIN held[s], NEW j \in DOMAIN held[s],
                        NEW m \in DOMAIN pool'.free, NEW n \in DOMAIN pool'.free,
                        i < j,
                        pool.ref[held[s][i]] > 0, pool'.free[m] = held[s][i],
                        pool.ref[held[s][j]] > 0, pool'.free[n] = held[s][j]
                 PROVE  n < m
        OBVIOUS
    <2>1. /\ pool \in Pool /\ QueueExact(pool)
          /\ held[s] \in Seq(Block) /\ IsInjective(held[s])
          /\ held \in [Seqs -> Seq(Block)]
        BY <1>1, InvFacts DEF Inv, TypeOK
    <2>2. held[s] # <<>>
        OBVIOUS
    <2>3. CASE Free(s)
        <3>1. pool'.free = FreeBlocks(pool, Reverse(held[s])).free
            BY <2>3 DEF Free
        <3> QED BY <2>1, <3>1, TailFirst
    <2>4. CASE held' = held
        BY <2>2, <2>4
    <2>5. ASSUME NEW r \in Seqs, NEW t, held' = [held EXCEPT ![r] = t], t # <<>> \/ r # s
          PROVE  FALSE
        BY <2>1, <2>2, <2>5
    <2>6. ASSUME NEW r \in Seqs, NEW c \in Prompts, Admit(r, c) PROVE FALSE
        <3>1. held[r] = <<>> /\ held' = [held EXCEPT ![r] = CachedPrefix(pool, c)]
            BY <1>1, <2>6 DEF Admit, Inv, IdleSlotsEmpty
        <3> QED BY <2>2, <2>5, <3>1
    <2>7. ASSUME NEW r \in Seqs, NEW k \in 1 .. NumBlocks, Allocate(r, k) PROVE FALSE
        <3> DEFINE t == held[r] \o Popped(pool, k)
        <3>1. held' = [held EXCEPT ![r] = t] /\ k <= NumFree(pool)
            BY <2>7 DEF Allocate, CanGet
        <3>2. NumFree(pool) \in Nat
            BY <2>1, PoolFields, ToSetProperties DEF NumFree
        <3>3. k \in 0 .. NumFree(pool)
            BY <3>1, <3>2
        <3>4. Popped(pool, k) \in Seq(Block) /\ Len(Popped(pool, k)) = k
            BY <2>1, <3>3, GetNewBlocksSound
        <3>5. held[r] \in Seq(Block)
            BY <2>1
        <3>6. Len(t) = Len(held[r]) + Len(Popped(pool, k)) /\ Len(held[r]) \in Nat
            <4>1. Len(held[r]) \in Nat
                BY <3>5, ToSetProperties
            <4>2. \A x, y \in Seq(Block) : Len(x \o y) = Len(x) + Len(y)
                BY ONLY ConcatProperties
            <4>3. Len(t) = Len(held[r]) + Len(Popped(pool, k))
                BY ONLY <3>4, <3>5, <4>2
            <4> QED BY <4>1, <4>3
        <3>7. t # <<>>
            <4>1. Len(t) # 0
                BY ONLY <3>3, <3>4, <3>6, <2>7
            <4> QED BY <4>1
        <3> HIDE DEF t
        <3> QED BY <2>5, <3>1, <3>7
    <2>8. ASSUME NEW r \in Seqs, NEW k \in 1 .. NumBlocks, CopyOnWrite(r, k) PROVE FALSE
        <3> DEFINE t == [held[r] EXCEPT ![k] = Head(pool.free)]
        <3>1. held' = [held EXCEPT ![r] = t] /\ k \in DOMAIN held[r]
            BY <2>8 DEF CopyOnWrite
        <3>2. k \in DOMAIN t
            BY <3>1
        <3>3. t # <<>>
            BY <3>2
        <3> HIDE DEF t
        <3> QED BY <2>5, <3>1, <3>3
    <2>9. ASSUME NEW r \in Seqs, Free(r), r # s PROVE FALSE
        BY <2>5, <2>9 DEF Free
    <2> QED BY <1>1, <2>3, <2>4, <2>6, <2>7, <2>8, <2>9 DEF Next, Register, Enable, Purge, vars
<1>2. (Inv /\ [Next]_vars) => [\A s \in Seqs : InOrder(s)]_vars
    <2> HIDE DEF InOrder
    <2> QED BY <1>1
<1> QED BY <1>2, InvHolds, PTL DEF Spec, ChainsFreedTailFirst

-----------------------------------------------------------------------------
(* BlockPool implements BlockOwnership: reference counts, the free queue    *)
(* and the hash map realise the ownership of blocks.                        *)

\* Until caching is enabled, the prefix cache is empty.
NoEntriesWithoutCaching == ~pool.caching => \A h \in Hash : pool.map[h] = NoBlock

\* The invariant the refinement needs.
RInv == Inv /\ NoEntriesWithoutCaching

Owners == [b \in Block |-> Holders(b)]

-----------------------------------------------------------------------------
(* How the mapped variables move. *)

\* Nobody owns an unreferenced block.
LEMMA UnreferencedIsNobodys ==
    ASSUME Inv, NEW b \in Block, pool.ref[b] = 0
    PROVE  Owners[b] = {}
BY HoldersCount DEF Inv, RefCountExact, Owners

\* The owners of every block after slot s gets the list t.
LEMMA OwnersStep ==
    ASSUME Inv, NEW s \in Seqs, NEW t, held' = [held EXCEPT ![s] = t]
    PROVE  Owners' = [b \in Block |-> IF b \in ToSet(t) THEN Owners[b] \cup {s}
                                                        ELSE Owners[b] \ {s}]
<1>1. \A r \in Seqs : held'[r] = IF r = s THEN t ELSE held[r]
    BY DEF Inv, TypeOK
<1>2. \A b : Holders(b)' = IF b \in ToSet(t) THEN Holders(b) \cup {s} ELSE Holders(b) \ {s}
    BY <1>1 DEF Holders
<1> QED BY <1>2 DEF Owners

\* A slot owns the blocks of its list.
LEMMA OwnedIsHeld ==
    ASSUME NEW s \in Seqs, NEW b \in Block
    PROVE  s \in Owners[b] <=> b \in ToSet(held[s])
BY DEF Owners, Holders

\* What the queue hands out are blocks of the pool.
LEMMA PoppedInBlock ==
    ASSUME RInv, NEW n \in 1 .. NumBlocks, CanGet(pool, n)
    PROVE  ToSet(Popped(pool, n)) \in SUBSET Block
<1>1. pool \in Pool /\ QueueExact(pool)
    BY DEF RInv, Inv, TypeOK, FreeQueueExact, QueueExact
<1>2. n \in 0 .. NumFree(pool)
    BY <1>1, PoolFields, ToSetProperties DEF CanGet, NumFree
<1>3. Popped(pool, n) \in Seq(Block)
    BY <1>1, <1>2, GetNewBlocksSound
<1> QED BY <1>3, ToSetProperties

\* The blocks of get_new_blocks leave the prefix cache.
LEMMA FreshIsUncached ==
    ASSUME RInv, NEW n \in 0 .. NumFree(pool),
           pool'.map = GetNewBlocks(pool, n).map
    PROVE  Cached' \subseteq Cached \ ToSet(Popped(pool, n))
<1> DEFINE B == ToSet(Popped(pool, n))
<1>1. /\ pool \in Pool
      /\ EntriesSound(pool)
      /\ pool.caching \in BOOLEAN
    BY PoolFields DEF RInv, Inv, TypeOK, CacheEntriesSound, EntriesSound
<1>2. GetNewBlocks(pool, n).map
        = IF pool.caching THEN MapWithout(pool, Evicted(pool, B)) ELSE pool.map
    BY <1>1 DEF GetNewBlocks, Pool
<1> HIDE DEF B
<1>3. ASSUME NEW h \in Hash, pool'.map[h] # NoBlock
      PROVE  pool'.map[h] = pool.map[h] /\ pool.map[h] \notin B
    <2>1. pool.caching
        BY <1>2, <1>3 DEF RInv, NoEntriesWithoutCaching
    <2>2. h \notin Evicted(pool, B) /\ pool'.map[h] = pool.map[h]
        BY <1>2, <1>3, <2>1 DEF MapWithout
    <2>3. pool.hash[pool.map[h]] = h
        BY <1>1, <1>3, <2>2 DEF EntriesSound
    <2>4. h # NoHash
        BY NoHashAssumption
    <2> QED BY <2>2, <2>3, <2>4 DEF Evicted
<1> QED BY <1>3 DEF Cached, B

\* What the cache can hand out depends on its entries only.
LEMMA SameMapSameCached ==
    ASSUME pool'.map = pool.map
    PROVE  Cached' = Cached
BY DEF Cached

-----------------------------------------------------------------------------
(* Every step of the pool is a step of the ownership, or none. *)

\* A new pool belongs to nobody.
LEMMA InitOwns == Init => Ownership!Init
<1> SUFFICES ASSUME Init PROVE Ownership!Init
    OBVIOUS
<1>1. \A b : Holders(b) = {}
    BY DEF Init, Holders, ToSet
<1>2. Cached = {}
    BY DEF Init, InitPool, Cached
<1> QED BY <1>1, <1>2 DEF Ownership!Init

\* try_reuse_prefix shares cached blocks with a slot that had none of them.
LEMMA AdmitShares ==
    ASSUME RInv, NEW s \in Seqs, NEW c \in Prompts, Admit(s, c)
    PROVE  Ownership!Share(s, ToSet(CachedPrefix(pool, c)))
<1> DEFINE t == CachedPrefix(pool, c)
<1>1. /\ prompt[s] = NoPrompt
      /\ pool' = Touch(pool, ToSet(t))
      /\ held' = [held EXCEPT ![s] = t]
    BY DEF Admit
<1>2. Inv /\ pool \in Pool
    BY DEF RInv, Inv, TypeOK
<1>3. pool'.map = pool.map
    BY <1>1, <1>2 DEF Touch, Pool
<1>4. ToSet(t) \subseteq Cached
    <2> DEFINE hit == {i \in DOMAIN c : \A j \in 1 .. i : CachedBlock(pool, c[j]) # NoBlock}
    <2>1. c \in Seq(Hash)
        BY PromptsAssumption
    <2>2. /\ DOMAIN c = 1 .. Len(c)
          /\ Len(c) \in Nat
          /\ \A i \in DOMAIN c : c[i] \in Hash
        BY <2>1, ToSetProperties
    <2>3. hit \in SUBSET (1 .. Len(c)) /\ \A i \in hit : \A j \in 1 .. i : j \in hit
        BY <2>2
    <2>4. t = [i \in 1 .. Cardinality(hit) |-> CachedBlock(pool, c[i])]
        BY DEF CachedPrefix
    <2>5. \A i \in hit : i \in DOMAIN c /\ i \in 1 .. i /\ CachedBlock(pool, c[i]) # NoBlock
        BY <2>2
    <2> HIDE DEF hit, t
    <2>6. hit = 1 .. Cardinality(hit)
        BY <2>2, <2>3, InitialSegment
    <2>7. \A i \in hit : CachedBlock(pool, c[i]) \in Cached
        BY <2>2, <2>5 DEF CachedBlock, Cached
    <2> QED BY <2>4, <2>6, <2>7 DEF ToSet
<1>5. held[s] = <<>>
    BY <1>1, <1>2 DEF Inv, IdleSlotsEmpty
<1>6. \A b \in Block : s \notin Owners[b]
    BY <1>5, OwnedIsHeld DEF ToSet
<1> HIDE DEF t
<1>7. Owners' = [b \in Block |-> IF b \in ToSet(t) THEN Owners[b] \cup {s} ELSE Owners[b]]
    <2>1. \A b \in Block : Owners[b] \ {s} = Owners[b]
        BY <1>6
    <2>2. Owners' = [b \in Block |-> IF b \in ToSet(t) THEN Owners[b] \cup {s}
                                                      ELSE Owners[b] \ {s}]
        BY <1>1, <1>2, OwnersStep
    <2> QED BY <2>1, <2>2
<1>8. ToSet(t) \subseteq Block
    BY <1>2, <1>4, PoolFields DEF Cached
<1>9. Cached' = Cached
    BY <1>3, SameMapSameCached
<1>10. \A b \in ToSet(t) : s \notin Owners[b]
    BY <1>6, <1>8
<1> QED BY <1>4, <1>7, <1>9, <1>10 DEF Ownership!Share, Owners, t

\* allocate_blocks gives a slot blocks that nobody has.
LEMMA AllocateReplaces ==
    ASSUME RInv, NEW s \in Seqs, NEW n \in 1 .. NumBlocks, Allocate(s, n)
    PROVE  Ownership!Replace(s, {}, ToSet(Popped(pool, n)))
<1> DEFINE new == Popped(pool, n)
           B   == ToSet(new)
           t   == held[s] \o new
<1>1. /\ n <= NumFree(pool)
      /\ pool' = GetNewBlocks(pool, n)
      /\ held' = [held EXCEPT ![s] = t]
    BY DEF Allocate, CanGet, RInv, Inv, TypeOK
<1>2. /\ Inv
      /\ pool \in Pool /\ QueueExact(pool)
      /\ held[s] \in Seq(Block)
    BY InvFacts DEF RInv
<1>3. n \in 0 .. NumFree(pool)
    BY <1>1, <1>2, PoolFields, ToSetProperties DEF NumFree
<1>4. new \in Seq(Block) /\ \A b \in B : b \in Block /\ pool.ref[b] = 0
    BY <1>2, <1>3, GetNewBlocksSound
<1>5. Cached' \subseteq Cached \ B
    BY <1>1, <1>3, FreshIsUncached
<1>6. ToSet(t) = ToSet(held[s]) \cup B
    BY <1>2, <1>4, ConcatKeepsInjective
<1> HIDE DEF new, B, t
<1>7. \A b \in B : Owners[b] = {}
    BY <1>2, <1>4, UnreferencedIsNobodys
<1>8. Owners' = [b \in Block |-> IF b \in ToSet(t) THEN Owners[b] \cup {s} ELSE Owners[b] \ {s}]
    BY <1>1, <1>2, OwnersStep
<1>9. Owners' = [b \in Block |-> CASE b \in B -> {s}
                                   [] b \in {} -> Owners[b] \ {s}
                                   [] OTHER -> Owners[b]]
    <2>1. ASSUME NEW b \in Block
          PROVE  (IF b \in ToSet(t) THEN Owners[b] \cup {s} ELSE Owners[b] \ {s})
                   = IF b \in B THEN {s} ELSE Owners[b]
        <3>1. CASE b \in B
            BY <1>6, <1>7, <3>1
        <3>2. CASE b \notin B /\ b \in ToSet(held[s])
            <4>1. s \in Owners[b]
                BY <3>2, OwnedIsHeld
            <4>2. Owners[b] \cup {s} = Owners[b]
                BY <4>1
            <4> QED BY <1>6, <3>2, <4>2
        <3>3. CASE b \notin B /\ b \notin ToSet(held[s])
            <4>1. s \notin Owners[b]
                BY <3>3, OwnedIsHeld
            <4>2. Owners[b] \ {s} = Owners[b]
                BY <4>1
            <4> QED BY <1>6, <3>3, <4>2
        <3> QED BY <3>1, <3>2, <3>3
    <2> QED BY <1>8, <2>1
<1>10. \A b \in {} : s \in Owners[b]
    OBVIOUS
<1> QED BY <1>5, <1>7, <1>9, <1>10 DEF Ownership!Replace, Owners, B, new

\* _cow_if_shared replaces one block of a slot by one that nobody has.
LEMMA CopyOnWriteReplaces ==
    ASSUME RInv, NEW s \in Seqs, NEW i \in 1 .. NumBlocks, CopyOnWrite(s, i)
    PROVE  Ownership!Replace(s, {held[s][i]}, ToSet(Popped(pool, 1)))
<1> DEFINE old == held[s][i]
           B   == ToSet(Popped(pool, 1))
           got == GetNewBlocks(pool, 1)
           t   == [held[s] EXCEPT ![i] = Head(pool.free)]
<1>1. /\ i \in DOMAIN held[s]
      /\ 1 <= NumFree(pool)
      /\ pool' = [got EXCEPT !.ref[old] = @ - 1]
      /\ held' = [held EXCEPT ![s] = t]
    BY DEF CopyOnWrite, CanGet
<1>2. /\ Inv
      /\ pool \in Pool /\ QueueExact(pool)
      /\ pool.free \in Seq(Block)
      /\ held[s] \in Seq(Block)
      /\ IsInjective(held[s])
    BY InvFacts, PoolFields DEF RInv
<1>3. 1 \in 0 .. NumFree(pool)
    BY <1>1, <1>2, ToSetProperties DEF NumFree
<1>4. /\ Popped(pool, 1) \in Seq(Block)
      /\ Len(Popped(pool, 1)) = 1
      /\ \A b \in B : b \in Block /\ pool.ref[b] = 0
      /\ got \in Pool
    BY <1>2, <1>3, GetNewBlocksSound
<1>5. B = {Head(pool.free)}
    <2>1. pool.free # <<>> /\ Head(pool.free) = pool.free[1] /\ pool.free[1] \in Block
        BY <1>1, <1>2, ToSetProperties, HeadTailProperties DEF NumFree
    <2>2. Popped(pool, 1)[1] = pool.free[1]
        BY <2>1, SubSeqProperties, ToSetProperties, <1>1, <1>2 DEF Popped, NumFree
    <2> QED BY <1>4, <2>1, <2>2, ToSetProperties
<1>6. pool'.map = got.map
    <2> HIDE DEF got
    <2> QED BY <1>1, <1>4 DEF Pool
<1>7. Cached' \subseteq Cached \ B
    BY <1>3, <1>6, FreshIsUncached
<1>8. /\ \A j \in DOMAIN held[s] : t[j] = IF j = i THEN Head(pool.free) ELSE held[s][j]
      /\ DOMAIN t = DOMAIN held[s]
    OBVIOUS
<1>9. ToSet(t) = (ToSet(held[s]) \ {old}) \cup B
    <2>1. \A j \in DOMAIN held[s] : held[s][j] = old => j = i
        BY <1>1, <1>2 DEF IsInjective
    <2> HIDE DEF t, B
    <2> QED BY <1>1, <1>5, <1>8, <2>1 DEF ToSet
<1>10. old \in ToSet(held[s]) /\ old \in Block
    BY <1>1, <1>2, ToSetProperties DEF ToSet
<1> HIDE DEF B, t, old, got
<1>11. \A b \in B : Owners[b] = {}
    BY <1>2, <1>4, UnreferencedIsNobodys
<1>12. s \in Owners[old]
    BY <1>10, OwnedIsHeld
<1>13. Owners' = [b \in Block |-> CASE b \in B -> {s}
                                    [] b \in {old} -> Owners[b] \ {s}
                                    [] OTHER -> Owners[b]]
    <2>1. Owners' = [b \in Block |-> IF b \in ToSet(t) THEN Owners[b] \cup {s} ELSE Owners[b] \ {s}]
        BY <1>1, <1>2, OwnersStep
    <2>2. ASSUME NEW b \in Block
          PROVE  (IF b \in ToSet(t) THEN Owners[b] \cup {s} ELSE Owners[b] \ {s})
                   = IF b \in B THEN {s} ELSE IF b = old THEN Owners[b] \ {s} ELSE Owners[b]
        <3>1. CASE b \in B
            BY <1>9, <1>11, <3>1
        <3>2. CASE b \notin B /\ b = old
            BY <1>9, <3>2
        <3>3. CASE b \notin B /\ b # old /\ b \in ToSet(held[s])
            <4>1. s \in Owners[b]
                BY <3>3, OwnedIsHeld
            <4>2. Owners[b] \cup {s} = Owners[b]
                BY <4>1
            <4> QED BY <1>9, <3>3, <4>2
        <3>4. CASE b \notin B /\ b # old /\ b \notin ToSet(held[s])
            <4>1. s \notin Owners[b]
                BY <3>4, OwnedIsHeld
            <4>2. Owners[b] \ {s} = Owners[b]
                BY <4>1
            <4> QED BY <1>9, <3>4, <4>2
        <3> QED BY <3>1, <3>2, <3>3, <3>4
    <2>3. Owners' = [b \in Block |-> IF b \in B THEN {s}
                                    ELSE IF b = old THEN Owners[b] \ {s} ELSE Owners[b]]
        BY <2>1, <2>2, Zenon
    <2>4. old \notin B
        BY <1>11, <1>12
    <2> QED BY <2>3, <2>4
<1>14. \A b \in {old} : s \in Owners[b]
    BY <1>12
<1> QED BY <1>7, <1>11, <1>13, <1>14 DEF Ownership!Replace, Owners, B, old

\* free_sequence takes from a slot the blocks it owns and gives it none.
LEMMA FreeReplaces ==
    ASSUME RInv, NEW s \in Seqs, Free(s)
    PROVE  Ownership!Replace(s, ToSet(held[s]), {})
<1>1. /\ pool' = FreeBlocks(pool, Reverse(held[s]))
      /\ held' = [held EXCEPT ![s] = <<>>]
    BY DEF Free
<1>2. Inv /\ pool \in Pool /\ held[s] \in Seq(Block)
    BY InvFacts DEF RInv
<1>3. pool'.map = pool.map
    BY <1>1, <1>2 DEF FreeBlocks, Pool
<1>4. Cached' = Cached
    BY <1>3, SameMapSameCached
<1>5. ToSet(<<>>) = {}
    BY DEF ToSet
<1>6. Owners' = [b \in Block |-> Owners[b] \ {s}]
    <2>1. Owners' = [b \in Block |-> IF b \in ToSet(<<>>) THEN Owners[b] \cup {s}
                                                         ELSE Owners[b] \ {s}]
        BY <1>1, <1>2, OwnersStep
    <2> QED BY <1>5, <2>1
<1>7. \A b \in ToSet(held[s]) : b \in Block /\ s \in Owners[b]
    BY <1>2, ToSetProperties, OwnedIsHeld
<1>8. Owners' = [b \in Block |-> CASE b \in {} -> {s}
                                   [] b \in ToSet(held[s]) -> Owners[b] \ {s}
                                   [] OTHER -> Owners[b]]
    <2>1. ASSUME NEW b \in Block
          PROVE  Owners[b] \ {s} = IF b \in ToSet(held[s]) THEN Owners[b] \ {s} ELSE Owners[b]
        BY OwnedIsHeld
    <2> QED BY <1>6, <2>1
<1>9. \A b \in {} : Owners[b] = {}
    OBVIOUS
<1>10. Cached' \subseteq Cached \ {}
    BY <1>4
<1> QED BY <1>7, <1>8, <1>9, <1>10 DEF Ownership!Replace, Owners

\* register_prefix_blocks adds blocks of the slot to the cache.
LEMMA RegisterPublishes ==
    ASSUME RInv, NEW s \in Seqs, Register(s)
    PROVE  Ownership!Publish(s, ToSet(held[s]))
<1> DEFINE c   == prompt[s]
           new == {i \in DOMAIN held[s] \cap DOMAIN c : Cacheable(pool, held[s][i])}
<1>1. /\ pool' = CacheBlocks(pool, held[s], c)
      /\ held' = held
    BY DEF Register
<1>2. /\ pool \in Pool
      /\ held[s] \in Seq(Block)
    BY InvFacts DEF RInv
<1>3. Owners' = Owners
    BY <1>1 DEF Owners, Holders
<1>4. pool'.map = [h \in Hash |-> IF \E i \in new : c[i] = h
                                    THEN held[s][CHOOSE i \in new : c[i] = h] ELSE pool.map[h]]
    BY <1>1, <1>2 DEF CacheBlocks, Pool
<1>5. ASSUME NEW h \in Hash
      PROVE  pool'.map[h] = pool.map[h] \/ pool'.map[h] \in ToSet(held[s])
    <2>1. CASE \E i \in new : c[i] = h
        <3> DEFINE k == CHOOSE i \in new : c[i] = h
        <3>1. k \in new
            BY <2>1
        <3>2. pool'.map[h] = held[s][k]
            BY <1>4, <2>1
        <3> HIDE DEF k
        <3> QED BY <3>1, <3>2 DEF ToSet
    <2>2. CASE ~ \E i \in new : c[i] = h
        BY <1>4, <2>2
    <2> QED BY <2>1, <2>2
<1>6. Cached' \subseteq Cached \cup ToSet(held[s])
    BY <1>5 DEF Cached
<1>7. \A b \in ToSet(held[s]) : s \in Owners[b]
    BY <1>2, ToSetProperties, OwnedIsHeld
<1> QED BY <1>3, <1>6, <1>7 DEF Ownership!Publish, Owners

\* enable_prefix_caching moves neither ownership nor cache.
LEMMA EnableStutters ==
    ASSUME RInv, Enable
    PROVE  UNCHANGED Ownership!vars
<1>1. pool' = EnableCaching(pool) /\ held' = held /\ pool \in Pool
    BY DEF Enable, RInv, Inv, TypeOK
<1>2. pool'.map = pool.map
    BY <1>1 DEF EnableCaching, Pool
<1> QED BY <1>1, <1>2 DEF Ownership!vars, Cached, Holders

\* The purge empties the cache and moves no ownership.
LEMMA PurgeEmpties ==
    ASSUME RInv, Purge
    PROVE  Cached' = {} /\ Owners' = Owners
<1>1. pool' = PurgeCache(pool) /\ held' = held /\ pool \in Pool
    BY DEF Purge, RInv, Inv, TypeOK
<1>2. pool'.map = [h \in Hash |-> NoBlock]
    BY <1>1 DEF PurgeCache, Pool
<1> QED BY <1>1, <1>2 DEF Cached, Owners, Holders

-----------------------------------------------------------------------------
(* The cache is empty until it is enabled. *)

\* No entry appears while caching is off.
LEMMA NoEntriesStep ==
    ASSUME RInv, [Next]_vars
    PROVE  NoEntriesWithoutCaching'
<1>1. pool \in Pool /\ pool.caching \in BOOLEAN
    BY PoolFields DEF RInv, Inv, TypeOK
<1>2. ASSUME NEW h \in Hash, ~pool'.caching
      PROVE  pool'.map[h] = NoBlock
    <2>1. CASE pool'.caching = pool.caching /\ pool'.map = pool.map
        BY <1>2, <2>1 DEF RInv, NoEntriesWithoutCaching
    <2>2. ASSUME NEW s \in Seqs, NEW c \in Prompts, Admit(s, c) PROVE pool'.map[h] = NoBlock
        BY <1>1, <2>1, <2>2 DEF Admit, Touch, Pool
    <2>3. ASSUME NEW s \in Seqs, Free(s) PROVE pool'.map[h] = NoBlock
        BY <1>1, <2>1, <2>3 DEF Free, FreeBlocks, Pool
    <2>4. ASSUME NEW s \in Seqs, NEW n \in 1 .. NumBlocks, Allocate(s, n)
          PROVE  pool'.map[h] = NoBlock
        <3>1. pool'.caching = pool.caching
            BY <1>1, <2>4 DEF Allocate, GetNewBlocks, Pool
        <3>2. pool'.map = pool.map
            BY <1>1, <1>2, <2>4, <3>1 DEF Allocate, GetNewBlocks, Pool
        <3> QED BY <2>1, <3>1, <3>2
    <2>5. ASSUME NEW s \in Seqs, NEW i \in 1 .. NumBlocks, CopyOnWrite(s, i)
          PROVE  pool'.map[h] = NoBlock
        <3> DEFINE got == GetNewBlocks(pool, 1)
        <3>1. pool' = [got EXCEPT !.ref[held[s][i]] = @ - 1] /\ pool.caching
            BY <2>5 DEF CopyOnWrite, Shared
        <3>2. got.caching = pool.caching
            BY <1>1 DEF GetNewBlocks, Pool
        <3>3. pool'.caching = got.caching
            BY <3>1 DEF GetNewBlocks
        <3> QED BY <1>2, <3>1, <3>2, <3>3
    <2>6. ASSUME NEW s \in Seqs, Register(s) PROVE pool'.map[h] = NoBlock
        <3>1. pool'.caching = pool.caching
            BY <1>1, <2>6 DEF Register, CacheBlocks, Pool
        <3>2. pool'.map[h] = pool.map[h]
            BY <1>1, <1>2, <2>6, <3>1 DEF Register, CacheBlocks, Cacheable, Pool
        <3> QED BY <1>2, <3>1, <3>2 DEF RInv, NoEntriesWithoutCaching
    <2>7. CASE Enable
        BY <1>1, <1>2, <2>7 DEF Enable, EnableCaching, Pool
    <2>8. CASE Purge
        BY <1>1, <2>8 DEF Purge, PurgeCache, Pool
    <2>9. CASE UNCHANGED vars
        BY <2>1, <2>9 DEF vars
    <2> QED BY <2>2, <2>3, <2>4, <2>5, <2>6, <2>7, <2>8, <2>9 DEF Next
<1> QED BY <1>2 DEF NoEntriesWithoutCaching

\* The invariant of the refinement holds of every reachable state.
LEMMA RInvHolds == Spec => []RInv
<1>1. Init => RInv
    <2> SUFFICES ASSUME Init PROVE RInv
        OBVIOUS
    <2>1. NoEntriesWithoutCaching
        BY DEF Init, InitPool, NoEntriesWithoutCaching
    <2> QED BY <2>1, InitInv DEF RInv
<1>2. RInv /\ [Next]_vars => RInv'
    BY NextInv, NoEntriesStep DEF RInv
<1> QED BY <1>1, <1>2, PTL DEF Spec

-----------------------------------------------------------------------------
\* Each step of the pool is one of the ownership specification, or leaves
\* ownership and cache as they are.
LEMMA StepOwns ==
    ASSUME RInv, [Next]_vars
    PROVE  [Ownership!Next]_(Ownership!vars)
<1>1. ASSUME NEW s \in Seqs, NEW c \in Prompts, Admit(s, c)
      PROVE  Ownership!Next
    <2>1. Ownership!Share(s, ToSet(CachedPrefix(pool, c)))
        BY <1>1, AdmitShares
    <2>2. ToSet(CachedPrefix(pool, c)) \in SUBSET Block
        <3>1. pool \in Pool /\ EntriesSound(pool)
            BY DEF RInv, Inv, TypeOK, CacheEntriesSound, EntriesSound
        <3>2. CachedPrefix(pool, c) \in Seq(Block)
            BY <3>1, PromptsAssumption, CachedPrefixSound
        <3> QED BY <3>2, ToSetProperties
    <2> QED BY <2>1, <2>2 DEF Ownership!Next
<1>2. ASSUME NEW s \in Seqs, NEW n \in 1 .. NumBlocks, Allocate(s, n)
      PROVE  Ownership!Next
    <2>1. Ownership!Replace(s, {}, ToSet(Popped(pool, n)))
        BY <1>2, AllocateReplaces
    <2>2. ToSet(Popped(pool, n)) \in SUBSET Block
        BY <1>2, PoppedInBlock DEF Allocate
    <2> QED BY <2>1, <2>2 DEF Ownership!Next
<1>3. ASSUME NEW s \in Seqs, NEW i \in 1 .. NumBlocks, CopyOnWrite(s, i)
      PROVE  Ownership!Next
    <2>1. Ownership!Replace(s, {held[s][i]}, ToSet(Popped(pool, 1)))
        BY <1>3, CopyOnWriteReplaces
    <2>2. ToSet(Popped(pool, 1)) \in SUBSET Block
        BY <1>3, PoppedInBlock, NumBlocksAssumption DEF CopyOnWrite
    <2>3. {held[s][i]} \in SUBSET Block
        BY <1>3, InvFacts, ToSetProperties DEF CopyOnWrite, RInv
    <2> QED BY <2>1, <2>2, <2>3 DEF Ownership!Next
<1>4. ASSUME NEW s \in Seqs, Free(s) \/ Register(s)
      PROVE  Ownership!Next
    <2>1. ToSet(held[s]) \in SUBSET Block
        BY InvFacts, ToSetProperties DEF RInv
    <2>2. CASE Free(s)
        BY <2>1, <2>2, FreeReplaces DEF Ownership!Next
    <2>3. CASE Register(s)
        BY <2>1, <2>3, RegisterPublishes DEF Ownership!Next
    <2> QED BY <1>4, <2>2, <2>3
<1>5. CASE Enable
    BY <1>5, EnableStutters
<1>6. CASE Purge
    BY <1>6, PurgeEmpties DEF Ownership!Next, Owners
<1>7. CASE UNCHANGED vars
    BY <1>7 DEF vars, Ownership!vars, Holders, Cached
<1> QED BY <1>1, <1>2, <1>3, <1>4, <1>5, <1>6, <1>7 DEF Next

\* The pool implements the ownership of blocks: fresh blocks belong to nobody,
\* and a block gets a second owner only through the prefix cache
\* (block_pool.py:197-238, kv_cache.py:599-704).
THEOREM PoolImplementsOwnership == Spec => ImplementsOwnership
<1>1. Init => Ownership!Init
    BY InitOwns
<1>2. RInv /\ [Next]_vars => [Ownership!Next]_(Ownership!vars)
    BY StepOwns
<1> QED BY <1>1, <1>2, RInvHolds, PTL DEF Spec, ImplementsOwnership, Ownership!Spec

-----------------------------------------------------------------------------
(* The linked list. *)

\* The node at place i of a list with the blocks f: the head, a block, the tail.
Place(f, i) == IF i = 0 THEN HeadNode ELSE IF i = Len(f) + 1 THEN TailNode ELSE f[i]

\* The list q links the blocks f, in this order, and nothing else.
Linked(q, f) ==
    /\ q \in Links
    /\ q.ok
    /\ q.num = Len(f)
    /\ \A i \in 0 .. Len(f) : /\ q.next[Place(f, i)] = Place(f, i + 1)
                              /\ q.prev[Place(f, i + 1)] = Place(f, i)
    /\ q.next[TailNode] = None /\ q.prev[HeadNode] = None
    /\ \A b \in Block \ ToSet(f) : q.next[b] = None /\ q.prev[b] = None

\* The places of a list are different nodes.
LEMMA Places ==
    ASSUME NEW f \in Seq(Block), IsInjective(f)
    PROVE  /\ Len(f) \in Nat
           /\ \A i \in 0 .. Len(f) + 1 : Place(f, i) \in Node /\ Place(f, i) # None
           /\ \A i, j \in 0 .. Len(f) + 1 : Place(f, i) = Place(f, j) => i = j
           /\ \A i \in 1 .. Len(f) : Place(f, i) = f[i] /\ f[i] \in Block
           /\ Place(f, 0) = HeadNode /\ Place(f, Len(f) + 1) = TailNode
           /\ \A x \in Node : x \in Block \ ToSet(f) \/ \E i \in 0 .. Len(f) + 1 : x = Place(f, i)
<1>1. Len(f) \in Nat /\ DOMAIN f = 1 .. Len(f) /\ \A i \in 1 .. Len(f) : f[i] \in Block
    BY ToSetProperties
<1>2. Block \subseteq Nat /\ HeadNode \notin Nat /\ TailNode \notin Nat /\ None \notin Nat
      /\ HeadNode # TailNode /\ HeadNode # None /\ TailNode # None
    BY NumBlocksAssumption DEF Block, HeadNode, TailNode, None
<1>3. ToSet(f) = {f[i] : i \in 1 .. Len(f)}
    BY <1>1 DEF ToSet
<1> HIDE DEF HeadNode, TailNode, None, Block
<1>4. \A i \in 1 .. Len(f) : Place(f, i) = f[i]
    BY <1>1 DEF Place
<1>5. Place(f, 0) = HeadNode /\ Place(f, Len(f) + 1) = TailNode
    BY <1>1 DEF Place
<1>6. \A i \in 0 .. Len(f) + 1 : i = 0 \/ i = Len(f) + 1 \/ i \in 1 .. Len(f)
    BY <1>1
<1>7. \A i, j \in 0 .. Len(f) + 1 : Place(f, i) = Place(f, j) => i = j
    <2>1. \A i, j \in 1 .. Len(f) : f[i] = f[j] => i = j
        BY <1>1 DEF IsInjective
    <2>2. SUFFICES ASSUME NEW i \in 0 .. Len(f) + 1, NEW j \in 0 .. Len(f) + 1, Place(f, i) = Place(f, j)
                   PROVE  i = j
        OBVIOUS
    <2>3. \A m \in 0 .. Len(f) + 1 :
            \/ m = 0 /\ Place(f, m) = HeadNode
            \/ m = Len(f) + 1 /\ Place(f, m) = TailNode
            \/ m \in 1 .. Len(f) /\ Place(f, m) = f[m] /\ f[m] \in Nat
        BY <1>1, <1>2, <1>4, <1>5, <1>6
    <2> QED BY <1>2, <2>1, <2>2, <2>3
<1>8. \A i \in 0 .. Len(f) + 1 : Place(f, i) \in Node /\ Place(f, i) # None
    BY <1>1, <1>2, <1>4, <1>5, <1>6 DEF Node
<1>9. ASSUME NEW x \in Node, x \notin Block \ ToSet(f) PROVE \E i \in 0 .. Len(f) + 1 : x = Place(f, i)
    <2>1. CASE x \in ToSet(f)
        <3>1. PICK i \in 1 .. Len(f) : x = f[i]
            BY <2>1, <1>3
        <3>2. i \in 0 .. Len(f) + 1
            BY <1>1
        <3> QED BY <3>1, <3>2, <1>4
    <2>2. CASE x = HeadNode \/ x = TailNode
        <3>1. 0 \in 0 .. Len(f) + 1 /\ Len(f) + 1 \in 0 .. Len(f) + 1
            BY <1>1
        <3> QED BY <3>1, <2>2, <1>5
    <2> QED BY <1>9, <2>1, <2>2 DEF Node
<1> QED BY <1>1, <1>4, <1>5, <1>7, <1>8, <1>9

\* _remove takes the block at one place out, and what is behind it moves up
\* (block_pool.py:131-143).
LEMMA UnlinkLinked ==
    ASSUME NEW q, NEW f \in Seq(Block), IsInjective(f), Linked(q, f),
           NEW k \in 1 .. Len(f), NEW h \in Seq(Block), Len(h) = Len(f) - 1,
           \A i \in 1 .. Len(h) : h[i] = IF i < k THEN f[i] ELSE f[i + 1]
    PROVE  /\ Linked(Unlink(q, f[k]), h)
           /\ IsInjective(h)
           /\ ToSet(h) = ToSet(f) \ {f[k]}
<1> DEFINE n == Len(f)
           b == f[k]
           u == Unlink(q, b)
<1>1. /\ n \in Nat /\ k \in 1 .. n /\ DOMAIN f = 1 .. n /\ Len(h) = n - 1 /\ DOMAIN h = 1 .. n - 1
      /\ \A i \in 1 .. n - 1 : h[i] = IF i < k THEN f[i] ELSE f[i + 1]
    BY ToSetProperties
<1>2. /\ \A i \in 0 .. n + 1 : Place(f, i) \in Node /\ Place(f, i) # None
      /\ \A i, j \in 0 .. n + 1 : Place(f, i) = Place(f, j) => i = j
      /\ \A i \in 1 .. n : Place(f, i) = f[i] /\ f[i] \in Block
      /\ Place(f, 0) = HeadNode /\ Place(f, n + 1) = TailNode
    BY Places
<1>3. /\ q.next \in [Node -> Node \cup {None}] /\ q.prev \in [Node -> Node \cup {None}]
      /\ q.num \in Int /\ q.ok = TRUE /\ q.num = n
      /\ \A i \in 0 .. n : q.next[Place(f, i)] = Place(f, i + 1) /\ q.prev[Place(f, i + 1)] = Place(f, i)
      /\ q.next[TailNode] = None /\ q.prev[HeadNode] = None
      /\ \A x \in Block \ ToSet(f) : q.next[x] = None /\ q.prev[x] = None
    BY DEF Linked, Links
<1>4. b = Place(f, k) /\ q.prev[b] = Place(f, k - 1) /\ q.next[b] = Place(f, k + 1)
      /\ k - 1 \in 0 .. n + 1 /\ k + 1 \in 0 .. n + 1 /\ k \in 0 .. n + 1
    <2>1. k - 1 \in 0 .. n /\ (k - 1) + 1 = k /\ k \in 0 .. n
        BY <1>1
    <2> QED BY <1>1, <1>2, <1>3, <2>1
<1> DEFINE p == Place(f, k - 1)
           m == Place(f, k + 1)
<1>5. p \in Node /\ m \in Node /\ b \in Node /\ p # b /\ m # b /\ p # None /\ m # None
    BY <1>1, <1>2, <1>4
<1>6. u = [ next |-> [q.next EXCEPT ![p] = m, ![b] = None],
            prev |-> [q.prev EXCEPT ![m] = p, ![b] = None],
            num  |-> q.num - 1, ok |-> q.ok ]
    BY <1>4, <1>5 DEF Unlink
<1> HIDE DEF u, b, p, m, n
<1>7. /\ u \in Links /\ u.ok = TRUE /\ u.num = n - 1
      /\ \A x \in Node : u.next[x] = IF x = b THEN None ELSE IF x = p THEN m ELSE q.next[x]
      /\ \A x \in Node : u.prev[x] = IF x = b THEN None ELSE IF x = m THEN p ELSE q.prev[x]
    <2>1. [q.next EXCEPT ![p] = m, ![b] = None] \in [Node -> Node \cup {None}]
        BY <1>3, <1>5
    <2>2. [q.prev EXCEPT ![m] = p, ![b] = None] \in [Node -> Node \cup {None}]
        BY <1>3, <1>5
    <2>3. u \in Links
        <3>1. q.num - 1 \in Int
            BY <1>3
        <3>2. q.ok \in BOOLEAN
            BY DEF Linked, Links
        <3> QED BY <1>6, <2>1, <2>2, <3>1, <3>2 DEF Links
    <2>4. u.next = [q.next EXCEPT ![p] = m, ![b] = None] /\ u.prev = [q.prev EXCEPT ![m] = p, ![b] = None]
        BY <1>6
    <2>5. \A x \in Node : u.next[x] = IF x = b THEN None ELSE IF x = p THEN m ELSE q.next[x]
        BY <1>3, <1>5, <2>4
    <2>6. \A x \in Node : u.prev[x] = IF x = b THEN None ELSE IF x = m THEN p ELSE q.prev[x]
        BY <1>3, <1>5, <2>4
    <2> QED BY <1>3, <1>6, <2>3, <2>5, <2>6
<1>8. \A i \in 0 .. n : Place(h, i) = IF i < k THEN Place(f, i) ELSE Place(f, i + 1)
    <2>1. ASSUME NEW i \in 0 .. n PROVE Place(h, i) = IF i < k THEN Place(f, i) ELSE Place(f, i + 1)
        <3>1. CASE i = 0
            BY <1>1, <1>2, <3>1 DEF Place
        <3>2. CASE i = n
            BY <1>1, <1>2, <3>2 DEF Place
        <3>3. CASE i \in 1 .. n - 1
            <4>1. Place(h, i) = h[i] /\ i \in 1 .. n /\ i + 1 \in 1 .. n
                BY <1>1, <3>3 DEF Place
            <4> QED BY <1>1, <1>2, <3>3, <4>1
        <3> QED BY <1>1, <3>1, <3>2, <3>3
    <2> QED BY <2>1
<1>9. ASSUME NEW i \in 0 .. n - 1
      PROVE  u.next[Place(h, i)] = Place(h, i + 1) /\ u.prev[Place(h, i + 1)] = Place(h, i)
    <2>1. i \in 0 .. n /\ i + 1 \in 0 .. n /\ i + 2 \in 0 .. n + 1 /\ i \in 0 .. n + 1 /\ i + 1 \in 0 .. n + 1
        BY <1>1
    <2>2. CASE i + 1 < k
        <3>1. Place(h, i) = Place(f, i) /\ Place(h, i + 1) = Place(f, i + 1)
            BY <1>1, <1>8, <2>1, <2>2
        <3>2. Place(f, i) # b /\ Place(f, i) # p /\ Place(f, i + 1) # b /\ Place(f, i + 1) # m
            BY <1>1, <1>2, <1>4, <2>1, <2>2 DEF p, m
        <3> QED BY <1>2, <1>3, <1>7, <2>1, <3>1, <3>2
    <2>3. CASE i + 1 = k
        <3>1. Place(h, i) = p /\ Place(h, i + 1) = m
            BY <1>1, <1>8, <2>1, <2>3 DEF p, m
        <3> QED BY <1>5, <1>7, <3>1
    <2>4. CASE k < i + 1
        <3>1. Place(h, i) = Place(f, i + 1) /\ Place(h, i + 1) = Place(f, (i + 1) + 1)
            BY <1>1, <1>8, <2>1, <2>4
        <3>2. /\ Place(f, i + 1) # b /\ Place(f, i + 1) # p
              /\ Place(f, (i + 1) + 1) # b /\ Place(f, (i + 1) + 1) # m
            BY <1>1, <1>2, <1>4, <2>1, <2>4 DEF p, m
        <3>3. (i + 1) + 1 \in 0 .. n + 1
            BY <1>1
        <3> QED BY <1>2, <1>3, <1>7, <2>1, <3>1, <3>2, <3>3
    <2> QED BY <1>1, <2>2, <2>3, <2>4
<1>10. IsInjective(h) /\ ToSet(h) = ToSet(f) \ {b}
    <2>1. \A i, j \in 1 .. n : f[i] = f[j] => i = j
        BY <1>1 DEF IsInjective
    <2>2. \A i, j \in 1 .. n - 1 : h[i] = h[j] => i = j
        <3>1. SUFFICES ASSUME NEW i \in 1 .. n - 1, NEW j \in 1 .. n - 1, h[i] = h[j] PROVE i = j
            OBVIOUS
        <3> DEFINE at(z) == IF z < k THEN z ELSE z + 1
        <3>2. at(i) \in 1 .. n /\ at(j) \in 1 .. n /\ h[i] = f[at(i)] /\ h[j] = f[at(j)]
            BY <1>1
        <3>3. at(i) = at(j)
            BY <2>1, <3>1, <3>2
        <3> QED BY <1>1, <3>3
    <2>3. ToSet(h) = {h[i] : i \in 1 .. n - 1} /\ ToSet(f) = {f[i] : i \in 1 .. n}
        BY <1>1 DEF ToSet
    <2>4. ASSUME NEW i \in 1 .. n - 1 PROVE h[i] \in ToSet(f) /\ h[i] # b
        <3> DEFINE z == IF i < k THEN i ELSE i + 1
        <3>1. z \in 1 .. n /\ h[i] = f[z] /\ z # k
            BY <1>1
        <3> QED BY <1>1, <2>1, <2>3, <3>1 DEF b
    <2>5. ASSUME NEW i \in 1 .. n, f[i] # b PROVE f[i] \in ToSet(h)
        <3> DEFINE z == IF i < k THEN i ELSE i - 1
        <3>1. i # k
            BY <2>5 DEF b
        <3>2. z \in 1 .. n - 1 /\ h[z] = f[i]
            BY <1>1, <3>1
        <3> QED BY <2>3, <3>2
    <2> QED BY <1>1, <2>2, <2>3, <2>4, <2>5 DEF IsInjective
<1>11. u.next[TailNode] = None /\ u.prev[HeadNode] = None
    <2>1. 0 \in 0 .. n + 1 /\ n + 1 \in 0 .. n + 1 /\ k - 1 # n + 1 /\ k + 1 # 0
        BY <1>1
    <2>2. p # TailNode /\ m # HeadNode /\ TailNode \in Node /\ HeadNode \in Node
        BY <1>2, <1>4, <2>1 DEF p, m
    <2> QED BY <1>3, <1>7, <2>2
<1>12. ASSUME NEW x \in Block \ ToSet(h) PROVE u.next[x] = None /\ u.prev[x] = None
    <2>1. x \in Node
        BY DEF Node
    <2>2. CASE x = b
        BY <1>7, <2>1, <2>2
    <2>3. CASE x # b
        <3>1. x \in Block \ ToSet(f)
            BY <1>10, <2>3
        <3>2. q.next[x] = None /\ q.prev[x] = None
            BY <1>3, <3>1
        <3>3. q.next[p] = b /\ q.prev[m] = b
            <4>1. k - 1 \in 0 .. n /\ (k - 1) + 1 = k /\ k \in 0 .. n
                BY <1>1
            <4> QED BY <1>3, <1>4, <4>1 DEF p, m
        <3>4. b # None
            BY <1>2, <1>4
        <3> QED BY <1>7, <2>1, <2>3, <3>2, <3>3, <3>4
    <2> QED BY <2>2, <2>3
<1>13. Linked(u, h)
    <2>1. Len(h) = n - 1
        BY <1>1
    <2> QED BY <1>7, <1>9, <1>11, <1>12, <2>1 DEF Linked
<1> QED BY <1>10, <1>13 DEF u, b

\* append puts a block that is not in the list before the tail (block_pool.py:111-120).
LEMMA AppendLinked ==
    ASSUME NEW q, NEW f \in Seq(Block), IsInjective(f), Linked(q, f), NEW b \in Block \ ToSet(f)
    PROVE  /\ Linked(AppendBlock(q, b), Append(f, b))
           /\ Append(f, b) \in Seq(Block)
           /\ IsInjective(Append(f, b))
           /\ ToSet(Append(f, b)) = ToSet(f) \cup {b}
<1> DEFINE n == Len(f)
           h == Append(f, b)
           u == AppendBlock(q, b)
           last == Place(f, n)
<1>1. /\ n \in Nat /\ DOMAIN f = 1 .. n /\ \A i \in 1 .. n : f[i] \in Block
      /\ h \in Seq(Block) /\ Len(h) = n + 1 /\ DOMAIN h = 1 .. n + 1
      /\ (\A i \in 1 .. n : h[i] = f[i]) /\ h[n + 1] = b
    BY ToSetProperties
<1>2. /\ \A i \in 0 .. n + 1 : Place(f, i) \in Node /\ Place(f, i) # None
      /\ \A i, j \in 0 .. n + 1 : Place(f, i) = Place(f, j) => i = j
      /\ \A i \in 1 .. n : Place(f, i) = f[i]
      /\ Place(f, 0) = HeadNode /\ Place(f, n + 1) = TailNode
    BY Places
<1>3. /\ q.next \in [Node -> Node \cup {None}] /\ q.prev \in [Node -> Node \cup {None}]
      /\ q.num \in Int /\ q.ok = TRUE /\ q.num = n
      /\ \A i \in 0 .. n : q.next[Place(f, i)] = Place(f, i + 1) /\ q.prev[Place(f, i + 1)] = Place(f, i)
      /\ q.next[TailNode] = None /\ q.prev[HeadNode] = None
      /\ \A x \in Block \ ToSet(f) : q.next[x] = None /\ q.prev[x] = None
    BY DEF Linked, Links
<1>4. ToSet(f) = {f[i] : i \in 1 .. n} /\ ToSet(h) = {h[i] : i \in 1 .. n + 1}
    BY <1>1 DEF ToSet
<1>5. IsInjective(h) /\ ToSet(h) = ToSet(f) \cup {b}
    <2>1. \A i, j \in 1 .. n : f[i] = f[j] => i = j
        BY <1>1 DEF IsInjective
    <2>2. \A i \in 1 .. n : h[i] # b
        BY <1>1, <1>4
    <2>3. \A i \in 1 .. n + 1 : i \in 1 .. n \/ i = n + 1
        BY <1>1
    <2>4. \A i, j \in 1 .. n + 1 : h[i] = h[j] => i = j
        BY <1>1, <2>1, <2>2, <2>3
    <2>5. n + 1 \in 1 .. n + 1 /\ \A i \in 1 .. n : i \in 1 .. n + 1
        BY <1>1
    <2>6. ToSet(h) = ToSet(f) \cup {b}
        BY <1>1, <1>4, <2>3, <2>5
    <2> QED BY <1>1, <2>4, <2>6 DEF IsInjective
<1>6. last \in Node /\ last # None /\ q.prev[TailNode] = last /\ last # TailNode /\ b # last /\ b # TailNode
      /\ b # HeadNode /\ b \in Node /\ TailNode \in Node /\ HeadNode \in Node /\ b # None
    <2>1. n \in 0 .. n + 1 /\ n + 1 \in 0 .. n + 1 /\ n \in 0 .. n /\ 0 \in 0 .. n + 1
        BY <1>1
    <2>2. last \in Node /\ last # None /\ q.prev[TailNode] = last /\ last # TailNode
        <3>1. n \in Nat
            BY <1>1
        <3> HIDE DEF n
        <3>2. n # n + 1
            BY <3>1
        <3> QED BY <1>2, <1>3, <2>1, <3>2
    <2>3. b \in Node /\ TailNode \in Node /\ HeadNode \in Node
        BY DEF Node
    <2>4. b # TailNode /\ b # HeadNode /\ b # None
        BY NumBlocksAssumption DEF Block, TailNode, HeadNode, None
    <2>5. b # last
        <3>1. CASE n = 0
            BY <1>2, <2>4, <3>1
        <3>2. CASE n # 0
            <4>1. n \in 1 .. n
                BY <1>1, <3>2
            <4> QED BY <1>2, <1>4, <4>1
        <3> QED BY <3>1, <3>2
    <2> QED BY <2>2, <2>3, <2>4, <2>5
<1>7. u = [ next |-> [q.next EXCEPT ![last] = b, ![b] = TailNode],
            prev |-> [q.prev EXCEPT ![b] = last, ![TailNode] = b],
            num  |-> q.num + 1, ok |-> q.ok ]
    BY <1>6 DEF AppendBlock
<1> HIDE DEF u, last, n, h
<1>8. /\ u \in Links /\ u.ok = TRUE /\ u.num = n + 1
      /\ \A x \in Node : u.next[x] = IF x = b THEN TailNode ELSE IF x = last THEN b ELSE q.next[x]
      /\ \A x \in Node : u.prev[x] = IF x = TailNode THEN b ELSE IF x = b THEN last ELSE q.prev[x]
    <2>1. [q.next EXCEPT ![last] = b, ![b] = TailNode] \in [Node -> Node \cup {None}]
        BY <1>3, <1>6
    <2>2. [q.prev EXCEPT ![b] = last, ![TailNode] = b] \in [Node -> Node \cup {None}]
        BY <1>3, <1>6
    <2>3. u \in Links
        <3>1. q.num + 1 \in Int
            BY <1>3
        <3>2. q.ok \in BOOLEAN
            BY DEF Linked, Links
        <3> QED BY <1>7, <2>1, <2>2, <3>1, <3>2 DEF Links
    <2>4. u.next = [q.next EXCEPT ![last] = b, ![b] = TailNode] /\ u.prev = [q.prev EXCEPT ![b] = last, ![TailNode] = b]
        BY <1>7
    <2>5. \A x \in Node : u.next[x] = IF x = b THEN TailNode ELSE IF x = last THEN b ELSE q.next[x]
        BY <1>3, <1>6, <2>4
    <2>6. \A x \in Node : u.prev[x] = IF x = TailNode THEN b ELSE IF x = b THEN last ELSE q.prev[x]
        BY <1>3, <1>6, <2>4
    <2> QED BY <1>3, <1>7, <2>3, <2>5, <2>6
<1>9. /\ \A i \in 0 .. n : Place(h, i) = Place(f, i)
      /\ Place(h, n + 1) = b /\ Place(h, n + 2) = TailNode
    <2>1. ASSUME NEW i \in 0 .. n PROVE Place(h, i) = Place(f, i)
        BY <1>1 DEF Place
    <2> QED BY <1>1, <2>1 DEF Place
<1>10. ASSUME NEW i \in 0 .. n + 1
       PROVE  u.next[Place(h, i)] = Place(h, i + 1) /\ u.prev[Place(h, i + 1)] = Place(h, i)
    <2>1. CASE i < n
        <3>1. i \in 0 .. n /\ i + 1 \in 0 .. n /\ i \in 0 .. n + 1 /\ i + 1 \in 0 .. n + 1
              /\ n \in 0 .. n + 1 /\ n + 1 \in 0 .. n + 1 /\ i # n /\ i + 1 # n + 1
            BY <1>1, <2>1
        <3>2. \A j \in 0 .. n : Place(f, j) # b
            <4>1. \A j \in 0 .. n : j = 0 \/ j \in 1 .. n
                BY <1>1
            <4> QED BY <1>2, <1>4, <1>6, <4>1
        <3>3. Place(f, i) # last /\ Place(f, i + 1) # TailNode
            BY <1>2, <3>1 DEF last
        <3> QED BY <1>2, <1>3, <1>8, <1>9, <3>1, <3>2, <3>3
    <2>2. CASE i = n
        <3>1. Place(h, i) = last /\ Place(h, i + 1) = b
            BY <1>1, <1>9, <2>2 DEF last
        <3> QED BY <1>6, <1>8, <3>1
    <2>3. CASE i = n + 1
        <3>1. Place(h, i) = b /\ Place(h, i + 1) = TailNode
            BY <1>1, <1>9, <2>3
        <3> QED BY <1>6, <1>8, <3>1
    <2> QED BY <1>1, <2>1, <2>2, <2>3
<1>11. u.next[TailNode] = None /\ u.prev[HeadNode] = None
    <2>1. HeadNode # TailNode
        BY DEF HeadNode, TailNode
    <2> QED BY <1>3, <1>6, <1>8, <2>1
<1>12. ASSUME NEW x \in Block \ ToSet(h) PROVE u.next[x] = None /\ u.prev[x] = None
    <2>1. x \in Node /\ x # TailNode
        BY NumBlocksAssumption DEF Node, Block, TailNode
    <2>2. x # b /\ x \in Block \ ToSet(f)
        BY <1>5
    <2>3. q.next[x] = None /\ q.prev[x] = None
        BY <1>3, <2>2
    <2>4. q.next[last] = TailNode
        <3>1. n \in 0 .. n
            BY <1>1
        <3> QED BY <1>2, <1>3, <3>1 DEF last
    <2>5. x # last
        BY <1>6, <2>3, <2>4 DEF TailNode, None
    <2> QED BY <1>8, <2>1, <2>2, <2>3, <2>5
<1>13. Linked(u, h)
    <2>1. Len(h) = n + 1
        BY <1>1
    <2> QED BY <1>8, <1>10, <1>11, <1>12, <2>1 DEF Linked
<1> QED BY <1>1, <1>5, <1>13 DEF u, h

\* popleft takes the first block out of a list that has one (block_pool.py:93-101).
LEMMA PopLeftLinked ==
    ASSUME NEW q, NEW f \in Seq(Block), IsInjective(f), Linked(q, f), Len(f) > 0
    PROVE  Linked(PopLeft(q), SubSeq(f, 2, Len(f))) /\ IsInjective(SubSeq(f, 2, Len(f)))
<1> DEFINE h == SubSeq(f, 2, Len(f))
<1>1. Len(f) \in Nat /\ 1 \in 1 .. Len(f) /\ f[1] \in Block
    BY ToSetProperties
<1>2. h \in Seq(Block) /\ Len(h) = Len(f) - 1 /\ \A i \in 1 .. Len(h) : h[i] = f[i + 1]
    <2>1. 2 \in 1 .. Len(f) + 1 /\ Len(f) \in 2 - 1 .. Len(f)
        BY <1>1
    <2>2. /\ h \in Seq(Block)
          /\ Len(h) = IF 2 <= Len(f) THEN Len(f) - 2 + 1 ELSE 0
          /\ \A i \in 1 .. Len(f) - 2 + 1 : h[i] = f[2 + i - 1]
        BY <2>1, SubSeqProperties
    <2> HIDE DEF h
    <2>3. Len(h) = Len(f) - 1 /\ 1 .. Len(h) \subseteq 1 .. Len(f) - 2 + 1
        <3> DEFINE n == Len(f)
                   m == Len(h)
        <3>1. n \in Nat /\ n > 0 /\ m = IF 2 <= n THEN n - 2 + 1 ELSE 0
            BY <1>1, <2>2
        <3> HIDE DEF n, m
        <3>2. m = n - 1 /\ 1 .. m \subseteq 1 .. n - 2 + 1
            BY <3>1
        <3> QED BY <3>2 DEF n, m
    <2>4. ASSUME NEW i \in 1 .. Len(h) PROVE h[i] = f[i + 1]
        <3>1. h[i] = f[2 + i - 1]
            BY <2>2, <2>3
        <3>2. 2 + i - 1 = i + 1
            OBVIOUS
        <3> QED BY <3>1, <3>2
    <2> QED BY <2>2, <2>3, <2>4
<1>3. \A i \in 1 .. Len(h) : h[i] = IF i < 1 THEN f[i] ELSE f[i + 1]
    BY <1>2
<1>4. q.next[HeadNode] = f[1] /\ q.num # 0
    <2>1. Place(f, 0) = HeadNode /\ Place(f, 1) = f[1] /\ 0 \in 0 .. Len(f) /\ 0 + 1 = 1
        BY <1>1, Places
    <2>2. q.num = Len(f) /\ \A i \in 0 .. Len(f) : q.next[Place(f, i)] = Place(f, i + 1)
        BY DEF Linked
    <2>3. q.next[HeadNode] = f[1]
        BY <2>1, <2>2
    <2> QED BY <1>1, <2>2, <2>3
<1>5. PopLeft(q) = Unlink(q, f[1])
    BY <1>1, <1>4 DEF PopLeft
<1> HIDE DEF h
<1>6. Linked(Unlink(q, f[1]), h) /\ IsInjective(h)
    BY <1>1, <1>2, <1>3, UnlinkLinked
<1> QED BY <1>5, <1>6 DEF h

\* The list after each of the pops of popleft_n (block_pool.py:103-109).
LEMMA PoppingTurns ==
    ASSUME NEW q, NEW n \in Nat
    PROVE  /\ Popping(q, n)[0] = q
           /\ \A i \in 1 .. n : Popping(q, n)[i] = PopLeft(Popping(q, n)[i - 1])
<1> DEFINE Turn(x, i) == PopLeft(x)
           Run(a, m) == a = [i \in 0 .. m |-> IF i = 0 THEN q ELSE Turn(a[i - 1], i)]
           T == {m \in Nat : \E a : Run(a, m)}
<1>0. Popping(q, n) = (CHOOSE a : Run(a, n))
    BY DEF Popping
<1> HIDE DEF Turn
<1>1. 0 \in T
    <2> DEFINE a == [i \in 0 .. 0 |-> q]
    <2>1. Run(a, 0)
        OBVIOUS
    <2> QED BY <2>1
<1>2. ASSUME NEW m \in Nat, m \in T PROVE m + 1 \in T
    <2>1. PICK a : Run(a, m)
        BY <1>2
    <2> DEFINE b == [i \in 0 .. m + 1 |-> IF i <= m THEN a[i] ELSE Turn(a[m], i)]
    <2>2. ASSUME NEW i \in 0 .. m + 1 PROVE b[i] = IF i = 0 THEN q ELSE Turn(b[i - 1], i)
        <3>1. CASE i = 0
            BY <3>1, <2>1
        <3>2. CASE i # 0 /\ i <= m
            BY <3>2, <2>1
        <3>3. CASE i = m + 1
            BY <3>3
        <3> QED BY <3>1, <3>2, <3>3
    <2>3. Run(b, m + 1)
        BY <2>2
    <2> HIDE DEF b, Run
    <2> QED BY <2>3
<1> HIDE DEF T
<1>3. n \in T
    BY <1>1, <1>2, Induction
<1>4. \E a : Run(a, n)
    BY <1>3 DEF T
<1> DEFINE run == CHOOSE a : Run(a, n)
<1>5. Run(run, n)
    <2> HIDE DEF Run
    <2> QED BY <1>4
<1> HIDE DEF run
<1>6. run[0] = q /\ \A i \in 1 .. n : run[i] = Turn(run[i - 1], i)
    BY <1>5
<1>7. Popping(q, n) = run
    BY <1>0 DEF run
<1> QED BY <1>6, <1>7 DEF Turn

\* The list after each block that append_n appends (block_pool.py:122-124).
LEMMA AppendingTurns ==
    ASSUME NEW q, NEW bs, Len(bs) \in Nat
    PROVE  /\ Appending(q, bs)[0] = q
           /\ \A i \in 1 .. Len(bs) : Appending(q, bs)[i] = AppendBlock(Appending(q, bs)[i - 1], bs[i])
<1> DEFINE Turn(x, i) == AppendBlock(x, bs[i])
           Run(a, m) == a = [i \in 0 .. m |-> IF i = 0 THEN q ELSE Turn(a[i - 1], i)]
           T == {m \in Nat : \E a : Run(a, m)}
<1>0. Appending(q, bs) = (CHOOSE a : Run(a, Len(bs)))
    BY DEF Appending
<1> HIDE DEF Turn
<1>1. 0 \in T
    <2> DEFINE a == [i \in 0 .. 0 |-> q]
    <2>1. Run(a, 0)
        OBVIOUS
    <2> QED BY <2>1
<1>2. ASSUME NEW m \in Nat, m \in T PROVE m + 1 \in T
    <2>1. PICK a : Run(a, m)
        BY <1>2
    <2> DEFINE b == [i \in 0 .. m + 1 |-> IF i <= m THEN a[i] ELSE Turn(a[m], i)]
    <2>2. ASSUME NEW i \in 0 .. m + 1 PROVE b[i] = IF i = 0 THEN q ELSE Turn(b[i - 1], i)
        <3>1. CASE i = 0
            BY <3>1, <2>1
        <3>2. CASE i # 0 /\ i <= m
            BY <3>2, <2>1
        <3>3. CASE i = m + 1
            BY <3>3
        <3> QED BY <3>1, <3>2, <3>3
    <2>3. Run(b, m + 1)
        BY <2>2
    <2> HIDE DEF b, Run
    <2> QED BY <2>3
<1> HIDE DEF T
<1>3. Len(bs) \in T
    BY <1>1, <1>2, Induction
<1>4. \E a : Run(a, Len(bs))
    BY <1>3 DEF T
<1> DEFINE run == CHOOSE a : Run(a, Len(bs))
<1>5. Run(run, Len(bs))
    <2> HIDE DEF Run
    <2> QED BY <1>4
<1> HIDE DEF run
<1>6. run[0] = q /\ \A i \in 1 .. Len(bs) : run[i] = Turn(run[i - 1], i)
    BY <1>5
<1>7. Appending(q, bs) = run
    BY <1>0 DEF run
<1> QED BY <1>6, <1>7 DEF Turn

\* The list after each block that is removed (block_pool.py:126-128, 219-224).
LEMMA RemovingTurns ==
    ASSUME NEW q, NEW bs, Len(bs) \in Nat
    PROVE  /\ Removing(q, bs)[0] = q
           /\ \A i \in 1 .. Len(bs) : Removing(q, bs)[i] = Unlink(Removing(q, bs)[i - 1], bs[i])
<1> DEFINE Turn(x, i) == Unlink(x, bs[i])
           Run(a, m) == a = [i \in 0 .. m |-> IF i = 0 THEN q ELSE Turn(a[i - 1], i)]
           T == {m \in Nat : \E a : Run(a, m)}
<1>0. Removing(q, bs) = (CHOOSE a : Run(a, Len(bs)))
    BY DEF Removing
<1> HIDE DEF Turn
<1>1. 0 \in T
    <2> DEFINE a == [i \in 0 .. 0 |-> q]
    <2>1. Run(a, 0)
        OBVIOUS
    <2> QED BY <2>1
<1>2. ASSUME NEW m \in Nat, m \in T PROVE m + 1 \in T
    <2>1. PICK a : Run(a, m)
        BY <1>2
    <2> DEFINE b == [i \in 0 .. m + 1 |-> IF i <= m THEN a[i] ELSE Turn(a[m], i)]
    <2>2. ASSUME NEW i \in 0 .. m + 1 PROVE b[i] = IF i = 0 THEN q ELSE Turn(b[i - 1], i)
        <3>1. CASE i = 0
            BY <3>1, <2>1
        <3>2. CASE i # 0 /\ i <= m
            BY <3>2, <2>1
        <3>3. CASE i = m + 1
            BY <3>3
        <3> QED BY <3>1, <3>2, <3>3
    <2>3. Run(b, m + 1)
        BY <2>2
    <2> HIDE DEF b, Run
    <2> QED BY <2>3
<1> HIDE DEF T
<1>3. Len(bs) \in T
    BY <1>1, <1>2, Induction
<1>4. \E a : Run(a, Len(bs))
    BY <1>3 DEF T
<1> DEFINE run == CHOOSE a : Run(a, Len(bs))
<1>5. Run(run, Len(bs))
    <2> HIDE DEF Run
    <2> QED BY <1>4
<1> HIDE DEF run
<1>6. run[0] = q /\ \A i \in 1 .. Len(bs) : run[i] = Turn(run[i - 1], i)
    BY <1>5
<1>7. Removing(q, bs) = run
    BY <1>0 DEF run
<1> QED BY <1>6, <1>7 DEF Turn

\* popleft_n takes the first n blocks out of a list that has as many
\* (block_pool.py:103-109).
LEMMA PopLeftNLinked ==
    ASSUME NEW q, NEW f \in Seq(Block), IsInjective(f), Linked(q, f), NEW n \in 0 .. Len(f)
    PROVE  Linked(PopLeftN(q, n), SubSeq(f, n + 1, Len(f)))
<1> DEFINE a == Popping(q, n)
           g(k) == SubSeq(f, k + 1, Len(f))
           S == {k \in 0 .. n : Linked(a[k], g(k)) /\ IsInjective(g(k))}
<1>1. Len(f) \in Nat /\ n \in Nat /\ \A i \in 1 .. Len(f) : f[i] \in Block
    BY ToSetProperties
<1>2. /\ a[0] = q
      /\ \A k \in 1 .. n : a[k] = PopLeft(a[k - 1])
    BY <1>1, PoppingTurns
<1>3. ASSUME NEW k \in 0 .. n
      PROVE  /\ g(k) \in Seq(Block) /\ Len(g(k)) = Len(f) - k
             /\ \A i \in 1 .. Len(f) - k : g(k)[i] = f[k + i]
    <2>1. k + 1 \in Int /\ Len(f) \in Int /\ \A i \in k + 1 .. Len(f) : f[i] \in Block
        BY <1>1
    <2>2. /\ g(k) \in Seq(Block)
          /\ Len(g(k)) = IF k + 1 <= Len(f) THEN Len(f) - (k + 1) + 1 ELSE 0
          /\ \A i \in 1 .. Len(f) - (k + 1) + 1 : g(k)[i] = f[(k + 1) + i - 1]
        BY <2>1, SubSeqProperties
    <2> HIDE DEF g
    <2>3. \A i \in Int : (k + 1) + i - 1 = k + i
        OBVIOUS
    <2>4. Len(f) - (k + 1) + 1 = Len(f) - k /\ Len(g(k)) = Len(f) - k
        BY <1>1, <2>2
    <2>5. ASSUME NEW i \in 1 .. Len(f) - k PROVE g(k)[i] = f[k + i]
        <3>1. g(k)[i] = f[(k + 1) + i - 1]
            BY <2>2, <2>4
        <3>2. (k + 1) + i - 1 = k + i
            BY <2>3
        <3> QED BY <3>1, <3>2
    <2> QED BY <2>2, <2>4, <2>5
<1>4. g(0) = f
    BY SubSeqFull
<1> HIDE DEF g
<1>5. 0 \in S
    BY <1>1, <1>2, <1>4
<1>6. ASSUME NEW k \in 1 .. n, k - 1 \in S PROVE k \in S
    <2>1. k - 1 \in 0 .. n /\ k \in 0 .. n /\ Linked(a[k - 1], g(k - 1)) /\ IsInjective(g(k - 1))
        BY <1>6
    <2>2. g(k - 1) \in Seq(Block) /\ Len(g(k - 1)) = Len(f) - (k - 1) /\ Len(g(k - 1)) > 0
        <3>1. g(k - 1) \in Seq(Block) /\ Len(g(k - 1)) = Len(f) - (k - 1)
            BY <1>3, <2>1
        <3>2. Len(f) - (k - 1) > 0
            BY <1>1
        <3> QED BY <3>1, <3>2
    <2> DEFINE h == SubSeq(g(k - 1), 2, Len(g(k - 1)))
    <2>3. Linked(a[k], h) /\ IsInjective(h)
        BY <1>2, <2>1, <2>2, PopLeftLinked
    <2>4. /\ h \in Seq(Block) /\ Len(h) = Len(f) - k
          /\ \A i \in 1 .. Len(f) - k : h[i] = g(k - 1)[i + 1]
        <3>1. 2 \in Int /\ Len(g(k - 1)) \in Int /\ \A i \in 2 .. Len(g(k - 1)) : g(k - 1)[i] \in Block
            BY <1>1, <2>2, ToSetProperties
        <3>2. /\ h \in Seq(Block)
              /\ Len(h) = IF 2 <= Len(g(k - 1)) THEN Len(g(k - 1)) - 2 + 1 ELSE 0
              /\ \A i \in 1 .. Len(g(k - 1)) - 2 + 1 : h[i] = g(k - 1)[2 + i - 1]
            BY <3>1, SubSeqProperties
        <3> HIDE DEF h
        <3>3. \A i \in Int : 2 + i - 1 = i + 1
            OBVIOUS
        <3>4. Len(g(k - 1)) - 2 + 1 = Len(f) - k
            BY <1>1, <2>2
        <3> QED BY <1>1, <2>2, <3>2, <3>3, <3>4
    <2>5. h = g(k)
        <3>1. g(k) \in Seq(Block) /\ Len(g(k)) = Len(f) - k /\ \A i \in 1 .. Len(f) - k : g(k)[i] = f[k + i]
            BY <1>3, <2>1
        <3>2. \A i \in 1 .. Len(f) - (k - 1) : g(k - 1)[i] = f[(k - 1) + i]
            BY <1>3, <2>1
        <3>3. ASSUME NEW i \in 1 .. Len(f) - k PROVE h[i] = g(k)[i]
            <4>1. i + 1 \in 1 .. Len(f) - (k - 1) /\ (k - 1) + (i + 1) = k + i
                BY <1>1
            <4> HIDE DEF h
            <4> QED BY <2>4, <3>1, <3>2, <4>1
        <3> HIDE DEF h
        <3> QED BY <2>4, <3>1, <3>3, SeqEqual
    <2> QED BY <2>1, <2>3, <2>5
<1> HIDE DEF S
<1>7. \A k \in 0 .. n : k \in S
    BY <1>1, <1>5, <1>6, LoopInduction
<1>8. Linked(a[n], g(n))
    BY <1>1, <1>7 DEF S
<1>9. PopLeftN(q, n) = a[n]
    <2>1. q.num = Len(f)
        BY DEF Linked
    <2> QED BY <1>1, <2>1 DEF PopLeftN
<1> QED BY <1>8, <1>9 DEF g

\* append_n puts blocks that are not in the list behind those that are, in their
\* order (block_pool.py:122-124).
LEMMA AppendNLinked ==
    ASSUME NEW q, NEW f \in Seq(Block), IsInjective(f), Linked(q, f),
           NEW bs \in Seq(Block), IsInjective(bs), ToSet(bs) \cap ToSet(f) = {}
    PROVE  Linked(AppendN(q, bs), f \o bs)
<1> DEFINE n == Len(bs)
           a == Appending(q, bs)
           Came(g, k) == /\ g \in Seq(Block) /\ IsInjective(g) /\ Len(g) = Len(f) + k
                         /\ ToSet(g) = ToSet(f) \cup {bs[i] : i \in 1 .. k}
                         /\ \A i \in 1 .. Len(f) : g[i] = f[i]
                         /\ \A i \in 1 .. k : g[Len(f) + i] = bs[i]
           S == {k \in 0 .. n : \E g : Linked(a[k], g) /\ Came(g, k)}
<1>1. Len(f) \in Nat /\ n \in Nat /\ DOMAIN bs = 1 .. n /\ \A i \in 1 .. n : bs[i] \in Block
    BY ToSetProperties
<1>2. /\ a[0] = q
      /\ \A k \in 1 .. n : a[k] = AppendBlock(a[k - 1], bs[k])
    BY <1>1, AppendingTurns
<1>3. 0 \in S
    <2>1. Came(f, 0)
        <3>1. {bs[i] : i \in 1 .. 0} = {}
            OBVIOUS
        <3> QED BY <1>1, <3>1
    <2> HIDE DEF Came
    <2> QED BY <1>1, <1>2, <2>1
<1>4. ASSUME NEW k \in 1 .. n, k - 1 \in S PROVE k \in S
    <2>1. PICK g : Linked(a[k - 1], g) /\ Came(g, k - 1)
        BY <1>4
    <2>2. bs[k] \in Block \ ToSet(g)
        <3>1. bs[k] \in ToSet(bs) /\ \A i \in 1 .. k - 1 : bs[i] # bs[k]
            <4>1. \A i \in 1 .. k - 1 : i \in DOMAIN bs /\ i # k
                BY <1>1
            <4> QED BY <1>1, <4>1 DEF ToSet, IsInjective
        <3> QED BY <1>1, <2>1, <3>1
    <2> DEFINE h == Append(g, bs[k])
    <2>3. /\ Linked(a[k], h) /\ h \in Seq(Block) /\ IsInjective(h)
          /\ ToSet(h) = ToSet(g) \cup {bs[k]}
        <3>1. g \in Seq(Block) /\ IsInjective(g) /\ Linked(a[k - 1], g) /\ a[k] = AppendBlock(a[k - 1], bs[k])
            BY <1>2, <2>1
        <3> HIDE DEF a, Came
        <3> QED BY <2>2, <3>1, AppendLinked
    <2>4. Len(h) = Len(g) + 1 /\ h[Len(g) + 1] = bs[k] /\ \A i \in 1 .. Len(g) : h[i] = g[i]
        BY <1>1, <2>1, AppendProperties
    <2>5. \A i \in 1 .. k : i \in 1 .. k - 1 \/ i = k
        BY <1>1
    <2> HIDE DEF h
    <2>6. Len(h) = Len(f) + k /\ \A i \in 1 .. Len(f) : h[i] = f[i]
        BY <1>1, <2>1, <2>4
    <2>7. ASSUME NEW i \in 1 .. k PROVE h[Len(f) + i] = bs[i]
        <3>1. CASE i = k
            <4>1. Len(g) + 1 = Len(f) + k
                BY <1>1, <2>1
            <4> QED BY <2>4, <3>1, <4>1
        <3>2. CASE i \in 1 .. k - 1
            <4>1. Len(f) + i \in 1 .. Len(g)
                BY <1>1, <2>1, <3>2
            <4> QED BY <2>1, <2>4, <3>2, <4>1
        <3> QED BY <2>5, <3>1, <3>2
    <2>8. ToSet(h) = ToSet(f) \cup {bs[i] : i \in 1 .. k}
        <3>1. {bs[i] : i \in 1 .. k} = {bs[i] : i \in 1 .. k - 1} \cup {bs[k]}
            BY <2>5
        <3> QED BY <2>1, <2>3, <3>1
    <2>9. Came(h, k)
        BY <2>3, <2>6, <2>7, <2>8
    <2> HIDE DEF Came
    <2>10. k \in 0 .. n
        BY <1>1
    <2> QED BY <2>3, <2>9, <2>10
<1> HIDE DEF S
<1>5. \A k \in 0 .. n : k \in S
    BY <1>1, <1>3, <1>4, LoopInduction
<1>6. PICK g : Linked(a[n], g) /\ Came(g, n)
    <2>1. n \in 0 .. n
        BY <1>1
    <2>2. n \in S
        BY <1>5, <2>1
    <2> HIDE DEF Came, a
    <2> QED BY <2>2 DEF S
<1>7. g = f \o bs
    <2>1. /\ f \o bs \in Seq(Block) /\ Len(f \o bs) = Len(f) + n
          /\ \A i \in 1 .. Len(f) + n : (f \o bs)[i] = IF i <= Len(f) THEN f[i] ELSE bs[i - Len(f)]
        BY <1>1, ConcatProperties
    <2>2. ASSUME NEW i \in 1 .. Len(f) + n PROVE g[i] = (f \o bs)[i]
        <3>1. CASE i <= Len(f)
            BY <1>1, <1>6, <2>1, <3>1
        <3>2. CASE ~(i <= Len(f))
            <4>1. i - Len(f) \in 1 .. n /\ Len(f) + (i - Len(f)) = i
                BY <1>1, <3>2
            <4>2. \A j \in 1 .. n : g[Len(f) + j] = bs[j]
                BY <1>6
            <4> QED BY <2>1, <3>2, <4>1, <4>2
        <3> QED BY <3>1, <3>2
    <2> QED BY <1>6, <2>1, <2>2, SeqEqual
<1> QED BY <1>6, <1>7 DEF AppendN

\* Blocks of the list that are removed one by one leave the others in their order
\* (block_pool.py:126-128, 219-224).
LEMMA RemoveAllLinked ==
    ASSUME NEW q, NEW f \in Seq(Block), IsInjective(f), Linked(q, f),
           NEW bs \in Seq(Block), IsInjective(bs), ToSet(bs) \subseteq ToSet(f)
    PROVE  Linked(RemoveAll(q, bs), Subsequence(f, {i \in DOMAIN f : f[i] \notin ToSet(bs)}))
<1> DEFINE n == Len(bs)
           a == Removing(q, bs)
           left(k) == {i \in DOMAIN f : f[i] \notin {bs[j] : j \in 1 .. k}}
           S == {k \in 0 .. n : Linked(a[k], Subsequence(f, left(k)))}
<1>1. n \in Nat /\ DOMAIN bs = 1 .. n /\ \A i \in 1 .. n : bs[i] \in Block
    BY ToSetProperties
<1>2. /\ a[0] = q
      /\ \A k \in 1 .. n : a[k] = Unlink(a[k - 1], bs[k])
    BY <1>1, RemovingTurns
<1>3. 0 \in S
    <2>1. left(0) = DOMAIN f
        <3>1. {bs[j] : j \in 1 .. 0} = {}
            OBVIOUS
        <3> QED BY <3>1
    <2> HIDE DEF left
    <2> QED BY <1>1, <1>2, <2>1, SubsequenceAll
<1>4. ASSUME NEW k \in 1 .. n, k - 1 \in S PROVE k \in S
    <2>1. PICK i \in DOMAIN f : f[i] = bs[k]
        BY <1>1 DEF ToSet
    <2>2. \A j \in 1 .. k - 1 : bs[j] # bs[k]
        <3>1. \A j \in 1 .. k - 1 : j \in DOMAIN bs /\ j # k
            BY <1>1
        <3> QED BY <1>1, <3>1 DEF IsInjective
    <2>3. i \in left(k - 1) /\ left(k) = left(k - 1) \ {i}
        <3>1. \A j \in 1 .. k : j \in 1 .. k - 1 \/ j = k
            BY <1>1
        <3>2. {bs[j] : j \in 1 .. k} = {bs[j] : j \in 1 .. k - 1} \cup {bs[k]}
            BY <3>1
        <3>3. \A j \in DOMAIN f : f[j] = f[i] => j = i
            BY DEF IsInjective
        <3> QED BY <2>1, <2>2, <3>2, <3>3
    <2>4. left(k - 1) \in SUBSET DOMAIN f
        OBVIOUS
    <2> HIDE DEF left
    <2> DEFINE g == Subsequence(f, left(k - 1))
               h == Subsequence(f, left(k))
               r == Rank(left(k - 1), i)
    <2>5. /\ g \in Seq(Block) /\ IsInjective(g)
          /\ h \in Seq(Block) /\ r \in 1 .. Len(g) /\ g[r] = bs[k] /\ Len(h) = Len(g) - 1
          /\ \A j \in 1 .. Len(h) : h[j] = IF j < r THEN g[j] ELSE g[j + 1]
        <3>1. g \in Seq(Block) /\ IsInjective(g)
            BY <2>4, SubsequenceProperties
        <3> DEFINE e == Subsequence(f, left(k - 1) \ {i})
        <3>2. /\ e \in Seq(Block) /\ r \in 1 .. Len(g) /\ g[r] = f[i] /\ Len(e) = Len(g) - 1
              /\ \A j \in 1 .. Len(e) : e[j] = IF j < r THEN g[j] ELSE g[j + 1]
            <4> HIDE DEF a
            <4>1. \A I : left(k - 1) = I => I \in SUBSET DOMAIN f /\ i \in I
                BY <2>3, <2>4
            <4> QED BY <4>1, SubsequenceWithout
        <3>3. e = h
            BY <2>3
        <3> HIDE DEF e, g, h, r
        <3> QED BY <2>1, <3>1, <3>2, <3>3
    <2>6. Linked(a[k - 1], g)
        BY <1>4
    <2> HIDE DEF g, h, r
    <2>7. Linked(Unlink(a[k - 1], bs[k]), h)
        <3> HIDE DEF a
        <3>1. Linked(Unlink(a[k - 1], g[r]), h)
            BY <2>5, <2>6, UnlinkLinked
        <3> QED BY <2>5, <3>1
    <2>8. a[k] = Unlink(a[k - 1], bs[k]) /\ k \in 0 .. n
        BY <1>1, <1>2
    <2> QED BY <2>7, <2>8 DEF h
<1> HIDE DEF S
<1>5. \A k \in 0 .. n : k \in S
    BY <1>1, <1>3, <1>4, LoopInduction
<1>6. Linked(a[n], Subsequence(f, left(n)))
    BY <1>1, <1>5 DEF S
<1>7. left(n) = {i \in DOMAIN f : f[i] \notin ToSet(bs)}
    BY <1>1 DEF ToSet
<1> QED BY <1>6, <1>7 DEF RemoveAll

\* The constructor's list has every block, and without the null block it is the
\* free queue of a new pool (block_pool.py:69-90, 165-191).
LEMMA InitLinked ==
    ASSUME NEW caching \in BOOLEAN
    PROVE  Linked(PopLeft(InitLinks), InitPool(caching).free)
<1> DEFINE f == [i \in 1 .. NumBlocks |-> i - 1]
           q == InitLinks
<1>1. /\ f \in Seq(Block) /\ Len(f) = NumBlocks /\ DOMAIN f = 1 .. NumBlocks
      /\ \A i \in 1 .. NumBlocks : f[i] = i - 1
    <2>1. f \in [1 .. NumBlocks -> Block]
        BY NumBlocksAssumption DEF Block
    <2>2. f \in Seq(Block)
        BY <2>1, NumBlocksAssumption, SeqDef
    <2>3. Len(f) = NumBlocks
        BY <2>2, NumBlocksAssumption, LenProperties
    <2> QED BY <2>2, <2>3
<1> HIDE DEF f
<1>2. IsInjective(f) /\ ToSet(f) = Block
    <2>1. ASSUME NEW b \in Block PROVE b \in ToSet(f)
        <3>1. b + 1 \in 1 .. NumBlocks /\ (b + 1) - 1 = b
            BY NumBlocksAssumption DEF Block
        <3> QED BY <1>1, <3>1 DEF ToSet
    <2>2. ToSet(f) \subseteq Block
        BY <1>1, ToSetProperties
    <2>3. \A i, j \in 1 .. NumBlocks : f[i] = f[j] => i = j
        BY <1>1, NumBlocksAssumption
    <2> QED BY <1>1, <2>1, <2>2, <2>3 DEF IsInjective
<1>3. Block \cup {HeadNode, TailNode} = Node /\ \A x \in Node : x \in Int
    BY NumBlocksAssumption DEF Node, Block, HeadNode, TailNode
<1>4. /\ q.next = [x \in Node |-> IF x = TailNode THEN None ELSE IF x = NumBlocks - 1 THEN TailNode ELSE x + 1]
      /\ q.prev = [x \in Node |-> IF x = HeadNode THEN None ELSE IF x = TailNode THEN NumBlocks - 1 ELSE x - 1]
      /\ q.num = NumBlocks /\ q.ok = TRUE
    <2>1. NumBlocks - 1 # TailNode /\ TailNode # HeadNode /\ NumBlocks - 1 # HeadNode
        BY NumBlocksAssumption DEF TailNode, HeadNode
    <2>2. ASSUME NEW x \in Node
          PROVE  q.next[x] = IF x = TailNode THEN None ELSE IF x = NumBlocks - 1 THEN TailNode ELSE x + 1
        <3>1. CASE x = TailNode
            BY <2>1, <3>1 DEF InitLinks
        <3>2. CASE x = NumBlocks - 1
            BY <2>1, <3>2 DEF InitLinks
        <3>3. CASE x # TailNode /\ x # NumBlocks - 1
            BY <3>3 DEF InitLinks
        <3> QED BY <3>1, <3>2, <3>3
    <2>3. ASSUME NEW x \in Node
          PROVE  q.prev[x] = IF x = HeadNode THEN None ELSE IF x = TailNode THEN NumBlocks - 1 ELSE x - 1
        <3>1. CASE x = HeadNode
            BY <2>1, <3>1 DEF InitLinks
        <3>2. CASE x = TailNode
            BY <2>1, <3>2 DEF InitLinks
        <3>3. CASE x # TailNode /\ x # HeadNode
            BY <3>3 DEF InitLinks
        <3> QED BY <3>1, <3>2, <3>3
    <2>4. q.next = [x \in Node |-> q.next[x]] /\ q.prev = [x \in Node |-> q.prev[x]]
        BY DEF InitLinks
    <2>5. q.num = NumBlocks /\ q.ok = TRUE
        BY DEF InitLinks
    <2> HIDE DEF q
    <2>6. [x \in Node |-> q.next[x]] =
              [x \in Node |-> IF x = TailNode THEN None ELSE IF x = NumBlocks - 1 THEN TailNode ELSE x + 1]
        BY <2>2
    <2>7. [x \in Node |-> q.prev[x]] =
              [x \in Node |-> IF x = HeadNode THEN None ELSE IF x = TailNode THEN NumBlocks - 1 ELSE x - 1]
        BY <2>3
    <2> QED BY <2>4, <2>5, <2>6, <2>7
<1>5. q \in Links
    <2>1. \A x \in Node : q.next[x] \in Node \cup {None} /\ q.prev[x] \in Node \cup {None}
        BY <1>4, NumBlocksAssumption DEF Node, Block, HeadNode, TailNode, None
    <2>2. q.next \in [Node -> Node \cup {None}] /\ q.prev \in [Node -> Node \cup {None}]
        BY <1>4, <2>1
    <2>3. q.num \in Int /\ q.ok \in BOOLEAN
        BY NumBlocksAssumption DEF InitLinks
    <2>4. q = [next |-> q.next, prev |-> q.prev, num |-> q.num, ok |-> q.ok]
        BY DEF InitLinks
    <2> HIDE DEF q
    <2> QED BY <2>2, <2>3, <2>4 DEF Links
<1>6. ASSUME NEW i \in 0 .. NumBlocks
      PROVE  q.next[Place(f, i)] = Place(f, i + 1) /\ q.prev[Place(f, i + 1)] = Place(f, i)
    <2>1. Place(f, i) = IF i = 0 THEN HeadNode ELSE i - 1
        BY <1>1, NumBlocksAssumption DEF Place
    <2>2. Place(f, i + 1) = IF i = NumBlocks THEN TailNode ELSE i
        BY <1>1, NumBlocksAssumption DEF Place
    <2>3. Place(f, i) \in Node /\ Place(f, i + 1) \in Node
        BY <2>1, <2>2, NumBlocksAssumption DEF Node, Block
    <2> QED BY <1>4, <2>1, <2>2, <2>3, NumBlocksAssumption DEF HeadNode, TailNode
<1>7. q.next[TailNode] = None /\ q.prev[HeadNode] = None
    <2>1. TailNode \in Node /\ HeadNode \in Node
        BY DEF Node
    <2> QED BY <1>4, <2>1
<1>8. Linked(q, f)
    <2>1. q.ok
        BY <1>4
    <2> HIDE DEF q
    <2> QED BY <1>1, <1>2, <1>4, <1>5, <1>6, <1>7, <2>1 DEF Linked
<1> HIDE DEF q
<1>9. Linked(PopLeft(q), SubSeq(f, 2, Len(f)))
    BY <1>1, <1>2, <1>8, NumBlocksAssumption, PopLeftLinked
<1> DEFINE g == [i \in 1 .. NumBlocks - 1 |-> i]
           h == SubSeq(f, 2, Len(f))
<1>10. /\ h \in Seq(Block)
       /\ Len(h) = IF 2 <= NumBlocks THEN NumBlocks - 2 + 1 ELSE 0
       /\ \A i \in 1 .. NumBlocks - 2 + 1 : h[i] = f[2 + i - 1]
    <2>1. 2 \in Int /\ Len(f) \in Int /\ \A i \in 2 .. Len(f) : f[i] \in Block
        BY <1>1, NumBlocksAssumption, ToSetProperties
    <2> QED BY <1>1, <2>1, SubSeqProperties
<1>11. g \in Seq(Block) /\ Len(g) = NumBlocks - 1
    <2>1. g \in [1 .. NumBlocks - 1 -> Block] /\ NumBlocks - 1 \in Nat
        BY NumBlocksAssumption DEF Block
    <2>2. g \in Seq(Block)
        BY <2>1, SeqDef
    <2> QED BY <2>1, <2>2, LenProperties
<1> HIDE DEF h
<1>12. Len(h) = NumBlocks - 1 /\ \A i \in 1 .. NumBlocks - 1 : h[i] = i
    <2>1. Len(h) = NumBlocks - 1
        BY <1>10, NumBlocksAssumption
    <2>2. ASSUME NEW i \in 1 .. NumBlocks - 1 PROVE h[i] = i
        <3>1. i \in 1 .. NumBlocks - 2 + 1 /\ 2 + i - 1 = i + 1 /\ i + 1 \in 1 .. NumBlocks
            BY NumBlocksAssumption
        <3> QED BY <1>1, <1>10, <3>1
    <2> QED BY <2>1, <2>2
<1>13. h = g
    <2>1. \A i \in 1 .. NumBlocks - 1 : g[i] = i
        OBVIOUS
    <2> HIDE DEF g
    <2> QED BY <1>10, <1>11, <1>12, <2>1, SeqEqual
<1>14. InitPool(caching).free = g
    BY DEF InitPool
<1> QED BY <1>9, <1>13, <1>14 DEF h, q

-----------------------------------------------------------------------------
(* The list beside the pool. *)

\* The list links the free queue.
QueueLinked == Linked(links, pool.free)

\* What the invariant says of the free queue and of the blocks of a sequence.
LEMMA QueueFacts ==
    ASSUME Inv
    PROVE  /\ pool \in Pool /\ QueueExact(pool) /\ EntriesSound(pool)
           /\ pool.free \in Seq(Block) /\ IsInjective(pool.free)
           /\ \A b \in Block : b \in ToSet(pool.free) <=> b # NullBlock /\ pool.ref[b] = 0
           /\ \A s \in Seqs : held[s] \in Seq(Block) /\ IsInjective(held[s])
<1>1. TypeOK /\ RefCountExact /\ FreeQueueExact /\ CacheEntriesSound
    BY DEF Inv
<1>2. pool \in Pool /\ \A s \in Seqs : held[s] \in Seq(Block)
    BY <1>1 DEF TypeOK
<1>3. QueueExact(pool) /\ EntriesSound(pool)
    BY <1>1 DEF FreeQueueExact, CacheEntriesSound, QueueExact, EntriesSound
<1>4. pool.free \in Seq(Block)
    BY <1>2, PoolFields
<1> QED BY <1>1, <1>2, <1>3, <1>4 DEF RefCountExact, QueueExact

\* The blocks of a sequence that count n holders, in its order.
LEMMA CountingIs ==
    ASSUME NEW bs \in Seq(Block), IsInjective(bs), NEW n
    PROVE  /\ Counting(bs, n) \in Seq(Block) /\ IsInjective(Counting(bs, n))
           /\ ToSet(Counting(bs, n)) = {b \in ToSet(bs) : pool.ref[b] = n /\ b # NullBlock}
<1> DEFINE I == {i \in DOMAIN bs : pool.ref[bs[i]] = n /\ bs[i] # NullBlock}
<1>1. I \in SUBSET DOMAIN bs
    OBVIOUS
<1>2. ToSet(bs) = {bs[i] : i \in DOMAIN bs}
    BY DEF ToSet
<1>3. {bs[i] : i \in I} = {b \in ToSet(bs) : pool.ref[b] = n /\ b # NullBlock}
    BY <1>2
<1>4. Counting(bs, n) = Subsequence(bs, I)
    BY DEF Counting
<1> HIDE DEF I
<1>5. /\ Subsequence(bs, I) \in Seq(Block)
      /\ ToSet(Subsequence(bs, I)) = {bs[i] : i \in I}
      /\ IsInjective(Subsequence(bs, I))
    BY <1>1, SubsequenceProperties
<1> QED BY <1>3, <1>4, <1>5

\* The blocks that touch wakes leave the list as they leave the queue
\* (block_pool.py:219-224).
LEMMA AdmitLinked ==
    ASSUME Inv, QueueLinked, NEW s \in Seqs, NEW c \in Prompts, LAdmit(s, c)
    PROVE  QueueLinked'
<1> DEFINE bs == CachedPrefix(pool, c)
           woken == {b \in ToSet(bs) : pool.ref[b] = 0 /\ b # NullBlock}
<1>1. c \in Seq(Hash) /\ IsInjective(c)
    BY PromptsAssumption
<1>2. /\ bs \in Seq(Block) /\ IsInjective(bs)
    BY <1>1, QueueFacts, CachedPrefixSound
<1>3. pool' = Touch(pool, ToSet(bs)) /\ links' = RemoveAll(links, Counting(bs, 0))
    BY DEF LAdmit, Admit
<1>4. pool'.free = Subsequence(pool.free, {i \in DOMAIN pool.free : pool.free[i] \notin woken})
    BY <1>3, QueueFacts DEF Touch, Pool
<1> HIDE DEF bs
<1>5. /\ Counting(bs, 0) \in Seq(Block) /\ IsInjective(Counting(bs, 0))
      /\ ToSet(Counting(bs, 0)) = woken
    BY <1>2, CountingIs
<1>6. woken \subseteq ToSet(pool.free)
    <2>1. ToSet(bs) \subseteq Block
        BY <1>2, ToSetProperties
    <2> QED BY <2>1, QueueFacts
<1> HIDE DEF woken
<1>7. Linked(links', pool'.free)
    BY <1>3, <1>4, <1>5, <1>6, QueueFacts, RemoveAllLinked DEF QueueLinked
<1> QED BY <1>7 DEF QueueLinked

\* get_new_blocks pops the blocks that leave the queue (block_pool.py:197-217).
LEMMA AllocateLinked ==
    ASSUME Inv, QueueLinked, NEW s \in Seqs, NEW n \in 1 .. NumBlocks, LAllocate(s, n)
    PROVE  QueueLinked'
<1>1. n <= Len(pool.free) /\ pool' = GetNewBlocks(pool, n) /\ links' = PopLeftN(links, n)
    BY DEF LAllocate, Allocate, CanGet, NumFree
<1>2. pool'.free = SubSeq(pool.free, n + 1, Len(pool.free))
    BY <1>1, QueueFacts DEF GetNewBlocks, Pool
<1>3. n \in 0 .. Len(pool.free)
    BY <1>1, QueueFacts, NumBlocksAssumption, ToSetProperties
<1>4. Linked(links', pool'.free)
    BY <1>1, <1>2, <1>3, QueueFacts, PopLeftNLinked DEF QueueLinked
<1> QED BY <1>4 DEF QueueLinked

\* So does the copy, with one block (kv_cache.py:672-704).
LEMMA CopyOnWriteLinked ==
    ASSUME Inv, QueueLinked, NEW s \in Seqs, NEW i \in 1 .. NumBlocks, LCopyOnWrite(s, i)
    PROVE  QueueLinked'
<1>1. /\ 1 <= Len(pool.free) /\ links' = PopLeftN(links, 1)
      /\ pool' = [GetNewBlocks(pool, 1) EXCEPT !.ref[held[s][i]] = @ - 1]
    BY DEF LCopyOnWrite, CopyOnWrite, CanGet, NumFree
<1>2. pool'.free = SubSeq(pool.free, 1 + 1, Len(pool.free))
    BY <1>1, QueueFacts DEF GetNewBlocks, Pool
<1>3. 1 \in 0 .. Len(pool.free)
    BY <1>1, QueueFacts, ToSetProperties
<1>4. \A n \in 0 .. Len(pool.free) : Linked(PopLeftN(links, n), SubSeq(pool.free, n + 1, Len(pool.free)))
    BY QueueFacts, PopLeftNLinked DEF QueueLinked
<1>5. Linked(links', pool'.free)
    BY <1>1, <1>2, <1>3, <1>4
<1> QED BY <1>5 DEF QueueLinked

\* free_blocks appends the blocks it released, none of which was in the list
\* (block_pool.py:226-238).
LEMMA FreeLinked ==
    ASSUME Inv, QueueLinked, NEW s \in Seqs, LFree(s)
    PROVE  QueueLinked'
<1> DEFINE bs == Reverse(held[s])
           back == Counting(bs, 1)
<1>1. pool' = FreeBlocks(pool, bs) /\ links' = AppendN(links, back)
    BY DEF LFree, Free
<1>2. bs \in Seq(Block) /\ IsInjective(bs)
    BY QueueFacts, ReverseProperties
<1>3. pool'.free = pool.free \o back
    BY <1>1, QueueFacts DEF FreeBlocks, Counting, Pool
<1> HIDE DEF bs
<1>4. back \in Seq(Block) /\ IsInjective(back) /\ ToSet(back) = {b \in ToSet(bs) : pool.ref[b] = 1 /\ b # NullBlock}
    BY <1>2, CountingIs
<1>5. ToSet(back) \cap ToSet(pool.free) = {}
    <2>1. ToSet(bs) \subseteq Block
        BY <1>2, ToSetProperties
    <2> HIDE DEF back
    <2> QED BY <1>4, <2>1, QueueFacts
<1> HIDE DEF back
<1>6. pool.free \in Seq(Block) /\ IsInjective(pool.free) /\ Linked(links, pool.free)
    BY QueueFacts DEF QueueLinked
<1>7. Linked(AppendN(links, back), pool.free \o back)
    BY <1>4, <1>5, <1>6, AppendNLinked
<1>8. Linked(links', pool'.free)
    <2>1. links' = AppendN(links, back)
        BY <1>1
    <2> QED BY <1>3, <1>7, <2>1
<1> QED BY <1>8 DEF QueueLinked

\* Every step keeps list and queue together, and is a step of the pool.
LEMMA StepLinked ==
    ASSUME Inv, QueueLinked, [LNext]_lvars
    PROVE  QueueLinked' /\ [Next]_vars
<1>1. ASSUME NEW s \in Seqs, NEW c \in Prompts, LAdmit(s, c) PROVE QueueLinked' /\ Next
    BY <1>1, AdmitLinked DEF LAdmit, Next
<1>2. ASSUME NEW s \in Seqs, NEW n \in 1 .. NumBlocks, LAllocate(s, n) PROVE QueueLinked' /\ Next
    BY <1>2, AllocateLinked DEF LAllocate, Next
<1>3. ASSUME NEW s \in Seqs, NEW i \in 1 .. NumBlocks, LCopyOnWrite(s, i) PROVE QueueLinked' /\ Next
    BY <1>3, CopyOnWriteLinked DEF LCopyOnWrite, Next
<1>4. ASSUME NEW s \in Seqs, LFree(s) PROVE QueueLinked' /\ Next
    BY <1>4, FreeLinked DEF LFree, Next
<1>5. CASE (Enable \/ Purge \/ \E s \in Seqs : Register(s)) /\ UNCHANGED links
    <2>1. pool \in Pool
        BY QueueFacts
    <2>2. pool'.free = pool.free
        BY <1>5, <2>1 DEF Enable, Purge, Register, EnableCaching, PurgeCache, CacheBlocks, Pool
    <2>3. links' = links
        BY <1>5
    <2> QED BY <1>5, <2>2, <2>3 DEF QueueLinked, Next
<1>6. CASE UNCHANGED lvars
    BY <1>6 DEF QueueLinked, lvars, vars
<1> QED BY <1>1, <1>2, <1>3, <1>4, <1>5, <1>6 DEF LNext

\* The walk from the head meets the places of the list in turn.
LEMMA WalkTurns ==
    ASSUME NEW q
    PROVE  /\ Walk(q)[0] = HeadNode
           /\ \A i \in 1 .. NumBlocks + 1 :
                 Walk(q)[i] = IF Walk(q)[i - 1] \in Block \cup {HeadNode}
                                THEN q.next[Walk(q)[i - 1]] ELSE TailNode
<1> DEFINE n == NumBlocks + 1
           Turn(x) == IF x \in Block \cup {HeadNode} THEN q.next[x] ELSE TailNode
           Run(a, m) == a = [i \in 0 .. m |-> IF i = 0 THEN HeadNode ELSE Turn(a[i - 1])]
           T == {m \in Nat : \E a : Run(a, m)}
<1>0. Walk(q) = (CHOOSE a : Run(a, n))
    BY DEF Walk
<1> HIDE DEF Turn
<1>1. 0 \in T
    <2> DEFINE a == [i \in 0 .. 0 |-> HeadNode]
    <2>1. Run(a, 0)
        OBVIOUS
    <2> QED BY <2>1
<1>2. ASSUME NEW m \in Nat, m \in T PROVE m + 1 \in T
    <2>1. PICK a : Run(a, m)
        BY <1>2
    <2> DEFINE b == [i \in 0 .. m + 1 |-> IF i <= m THEN a[i] ELSE Turn(a[m])]
    <2>2. ASSUME NEW i \in 0 .. m + 1 PROVE b[i] = IF i = 0 THEN HeadNode ELSE Turn(b[i - 1])
        <3>1. CASE i = 0
            BY <3>1, <2>1
        <3>2. CASE i # 0 /\ i <= m
            BY <3>2, <2>1
        <3>3. CASE i = m + 1
            BY <3>3
        <3> QED BY <3>1, <3>2, <3>3
    <2>3. Run(b, m + 1)
        BY <2>2
    <2> HIDE DEF b, Run
    <2> QED BY <2>3
<1> HIDE DEF T
<1>3. n \in T
    BY <1>1, <1>2, Induction, NumBlocksAssumption
<1>4. \E a : Run(a, n)
    BY <1>3 DEF T
<1> DEFINE run == CHOOSE a : Run(a, n)
<1>5. Run(run, n)
    <2> HIDE DEF Run
    <2> QED BY <1>4
<1> HIDE DEF run
<1>6. run[0] = HeadNode /\ \A i \in 1 .. n : run[i] = Turn(run[i - 1])
    BY <1>5, NumBlocksAssumption
<1>7. Walk(q) = run
    BY <1>0 DEF run
<1> QED BY <1>6, <1>7 DEF Turn

\* A sequence of blocks without repetition is no longer than there are blocks.
LEMMA FewBlocks ==
    ASSUME NEW f \in Seq(Block), IsInjective(f)
    PROVE  Len(f) \in 0 .. NumBlocks
<1>1. Len(f) \in Nat /\ DOMAIN f = 1 .. Len(f) /\ f \in [1 .. Len(f) -> Block]
    BY ToSetProperties
<1>2. IsFiniteSet(Block) /\ Cardinality(Block) = NumBlocks
    BY NumBlocksAssumption, FS_Interval DEF Block
<1>3. IsFiniteSet(1 .. Len(f)) /\ Cardinality(1 .. Len(f)) = Len(f)
    BY <1>1, FS_Interval
<1>4. f \in Injection(1 .. Len(f), Block)
    BY <1>1 DEF Injection, IsInjective
<1>5. Cardinality(1 .. Len(f)) <= Cardinality(Block)
    BY <1>2, <1>3, <1>4, FS_Injection
<1> QED BY <1>1, <1>2, <1>3, <1>5, NumBlocksAssumption

\* Following the pointers gives the blocks that are linked.
LEMMA QueuedIs ==
    ASSUME NEW q, NEW f \in Seq(Block), IsInjective(f), Linked(q, f)
    PROVE  Queued(q) = f
<1> DEFINE n == Len(f)
           w == Walk(q)
           S == {k \in 0 .. n + 1 : w[k] = Place(f, k)}
           met == {k \in 1 .. NumBlocks + 1 : w[k] \in Block}
<1>1. n \in Nat /\ n \in 0 .. NumBlocks /\ NumBlocks \in Nat
    BY FewBlocks, NumBlocksAssumption, ToSetProperties
<1>2. /\ w[0] = HeadNode
      /\ \A i \in 1 .. NumBlocks + 1 :
            w[i] = IF w[i - 1] \in Block \cup {HeadNode} THEN q.next[w[i - 1]] ELSE TailNode
    BY WalkTurns
<1>3. /\ \A i \in 1 .. n : Place(f, i) = f[i] /\ f[i] \in Block
      /\ Place(f, 0) = HeadNode /\ Place(f, n + 1) = TailNode
    BY Places
<1>4. \A i \in 0 .. n : q.next[Place(f, i)] = Place(f, i + 1)
    BY DEF Linked
<1> HIDE DEF w
<1>5. 0 \in S
    BY <1>1, <1>2, <1>3
<1>6. ASSUME NEW k \in 1 .. n + 1, k - 1 \in S PROVE k \in S
    <2>1. k - 1 \in 0 .. n /\ (k - 1) + 1 = k /\ k \in 0 .. n + 1 /\ k \in 1 .. NumBlocks + 1
        BY <1>1
    <2>2. w[k - 1] = Place(f, k - 1)
        BY <1>6
    <2>3. Place(f, k - 1) \in Block \cup {HeadNode}
        <3>1. k - 1 = 0 \/ k - 1 \in 1 .. n
            BY <1>1
        <3> QED BY <1>3, <3>1
    <2>4. w[k] = Place(f, (k - 1) + 1)
        BY <1>2, <1>4, <2>1, <2>2, <2>3
    <2> QED BY <2>1, <2>4
<1> HIDE DEF S
<1>7. \A k \in 0 .. n + 1 : k \in S
    <2>1. n + 1 \in Nat
        BY <1>1
    <2> QED BY <1>5, <1>6, <2>1, LoopInduction
<1>8. (\A k \in 1 .. n : w[k] = f[k]) /\ w[n + 1] = TailNode
    <2>1. \A k \in 0 .. n + 1 : w[k] = Place(f, k)
        BY <1>7 DEF S
    <2> QED BY <1>1, <1>3, <2>1
<1>9. TailNode \notin Block \cup {HeadNode}
    BY NumBlocksAssumption DEF TailNode, HeadNode, Block
<1> DEFINE U == {k \in 0 .. NumBlocks - n : w[n + 1 + k] = TailNode}
<1>10. \A k \in 0 .. NumBlocks - n : w[n + 1 + k] = TailNode
    <2>1. NumBlocks - n \in Nat
        BY <1>1
    <2>2. 0 \in U
        BY <1>1, <1>8
    <2>3. ASSUME NEW k \in 1 .. NumBlocks - n, k - 1 \in U PROVE k \in U
        <3>1. n + 1 + k \in 1 .. NumBlocks + 1 /\ (n + 1 + k) - 1 = n + 1 + (k - 1) /\ k \in 0 .. NumBlocks - n
            BY <1>1
        <3> QED BY <1>2, <1>9, <2>3, <3>1
    <2> HIDE DEF U
    <2>4. \A k \in 0 .. NumBlocks - n : k \in U
        BY <2>1, <2>2, <2>3, LoopInduction
    <2> QED BY <2>4 DEF U
<1>11. met = 1 .. n
    <2>1. ASSUME NEW k \in 1 .. NumBlocks + 1, ~(k <= n) PROVE w[k] \notin Block
        <3>1. k - (n + 1) \in 0 .. NumBlocks - n /\ n + 1 + (k - (n + 1)) = k
            BY <1>1, <2>1
        <3>2. w[k] = TailNode
            BY <1>10, <3>1
        <3> QED BY <1>9, <3>2
    <2>2. \A k \in 1 .. n : k \in 1 .. NumBlocks + 1 /\ w[k] \in Block
        BY <1>1, <1>3, <1>8
    <2>3. \A k \in 1 .. NumBlocks + 1 : k <= n => k \in 1 .. n
        BY <1>1
    <2> QED BY <2>1, <2>2, <2>3
<1>12. Cardinality(met) = n
    <2>1. n \in Nat
        BY <1>1
    <2> HIDE DEF met, n
    <2>2. Cardinality(1 .. n) = n
        BY <2>1, FS_Interval
    <2> QED BY <1>11, <2>2
<1>13. Queued(q) = [k \in 1 .. n |-> w[k]]
    BY <1>12 DEF Queued, w
<1>14. [k \in 1 .. n |-> w[k]] = [k \in 1 .. n |-> f[k]]
    BY <1>8
<1>15. f = [k \in 1 .. n |-> f[k]]
    BY ToSetProperties
<1> QED BY <1>13, <1>14, <1>15

\* What the invariant says is what the property says.
LEMMA LinkedIsExact ==
    ASSUME Inv, QueueLinked
    PROVE  LinksExact
<1> DEFINE f == pool.free
<1>1. f \in Seq(Block) /\ IsInjective(f)
    BY QueueFacts
<1>2. /\ links \in Links /\ links.ok /\ links.num = Len(f)
      /\ \A i \in 0 .. Len(f) : links.prev[Place(f, i + 1)] = Place(f, i)
                                /\ links.next[Place(f, i)] = Place(f, i + 1)
      /\ links.next[TailNode] = None
      /\ \A b \in Block \ ToSet(f) : links.next[b] = None /\ links.prev[b] = None
    BY DEF QueueLinked, Linked
<1>3. Queued(links) = f
    BY <1>1, QueuedIs DEF QueueLinked
<1> HIDE DEF f
<1>4. ASSUME NEW x \in Node, links.next[x] # None PROVE links.prev[links.next[x]] = x
    <2>1. x \notin Block \ ToSet(f) /\ x # TailNode
        BY <1>2, <1>4
    <2>2. PICK i \in 0 .. Len(f) + 1 : x = Place(f, i)
        BY <1>1, <2>1, Places
    <2>3. i \in 0 .. Len(f)
        <3>1. Len(f) \in Nat /\ Place(f, Len(f) + 1) = TailNode
            BY <1>1, Places
        <3> QED BY <2>1, <2>2, <3>1
    <2> QED BY <1>2, <2>2, <2>3
<1> QED BY <1>2, <1>3, <1>4 DEF LinksExact, NumFree, f

\* The pointers of the free queue are those of a list of exactly the free blocks,
\* and no call of the pool meets a broken one (block_pool.py:60-143).
THEOREM LinksAreExact == LSpec => []LinksExact
<1>1. LInit => Inv /\ QueueLinked
    <2> SUFFICES ASSUME LInit PROVE Inv /\ QueueLinked
        OBVIOUS
    <2>1. Init /\ links = PopLeft(InitLinks) /\ pool = InitPool(FALSE)
        BY DEF LInit, Init
    <2> QED BY <2>1, InitInv, InitLinked DEF QueueLinked
<1>2. Inv /\ QueueLinked /\ [LNext]_lvars => Inv' /\ QueueLinked'
    BY StepLinked, NextInv
<1>3. Inv /\ QueueLinked => LinksExact
    BY LinkedIsExact
<1> QED BY <1>1, <1>2, <1>3, PTL DEF LSpec
=============================================================================
