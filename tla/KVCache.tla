------------------------------ MODULE KVCache ------------------------------
(***************************************************************************)
(* PagedKVCache as the engine drives it.  A request gets a slot and reuses *)
(* the cached prefix of its prompt (add_request), waits until the          *)
(* scheduler runs it, and has its K/V written by the forward passes        *)
(* (_cached_attention), all running slots being pinned meanwhile; when its *)
(* prompt is in the cache its blocks are registered.  A preempted request  *)
(* waits again, with its slot, its blocks and its progress.  A slot is     *)
(* freed one step after its request finished.                              *)
(*                                                                         *)
(* The engine is single threaded here: nothing comes between the writes of *)
(* one forward pass.                                                       *)
(***************************************************************************)
EXTENDS KVCacheOps

CONSTANTS
    Streams,        \* what a sequence can be: its values, prompt first
    PromptLen,      \* num_prompt_tokens of every stream
    NoStream,       \* the slot is in _slot_pool
    Caching,        \* enable_prefix_caching
    Graphs,         \* decode batches run as captured graphs
    Preemption      \* requests may wait while others run

ASSUME StreamsAssumption ==
    /\ PromptLen \in Nat \ {0}
    /\ \A c \in Streams : c \in Seq(Values) /\ Len(c) <= BlockSize * MaxBlocks /\ PromptLen <= Len(c)
\* A value stands for the prefix it ends, and at the end of a block for its hash.
ASSUME PrefixAssumption ==
    \A c, d \in Streams : \A i \in DOMAIN c, j \in DOMAIN d :
        c[i] = d[j] => i = j /\ \A k \in 1 .. i : c[k] = d[k]
ASSUME BlockHashAssumption ==
    \A c \in Streams : \A i \in 1 .. PromptLen \div BlockSize : c[i * BlockSize] \in Hash
ASSUME GraphsAssumption ==
    {Caching, Graphs, Preemption} \subseteq BOOLEAN /\ (Graphs => NumBlocks >= 2)
ASSUME NoStreamAssumption == NoStream \notin Streams

VARIABLES
    kv,         \* the cache
    stream,     \* what each slot's request is about
    pos,        \* how many positions the engine takes to be cached
    running,    \* scheduler.running, in order
    waiting,    \* slots of pending and preempted requests
    done,       \* slots of finished requests, not freed yet
    forward,    \* what is left of the forward pass: a slot, the position to reach
    phase,      \* "idle", "forward", or "spin" inside _evict_lru for ever
    clean       \* history: no cached position of a live request was lost yet

vars == <<kv, stream, pos, running, waiting, done, forward, phase, clean>>

TypeOK ==
    /\ kv \in KVCacheType
    /\ stream \in [Seqs -> Streams \cup {NoStream}]
    /\ pos \in [Seqs -> Nat]
    /\ running \in Seq(Seqs)
    /\ waiting \subseteq Seqs
    /\ done \subseteq Seqs
    /\ forward \in Seq([seq : Seqs, upto : Nat])
    /\ phase \in {"idle", "forward", "spin"}
    /\ clean \in BOOLEAN

Init ==
    /\ kv = IF Graphs THEN InitGraphBuffers(InitKV(Caching)) ELSE InitKV(Caching)
    /\ stream = [s \in Seqs |-> NoStream]
    /\ pos = [s \in Seqs |-> 0]
    /\ running = <<>> /\ waiting = {} /\ done = {}
    /\ forward = <<>> /\ phase = "idle"
    /\ clean = TRUE

-----------------------------------------------------------------------------
(* Between steps. *)

Prompt(c) == SubSeq(c, 1, PromptLen)

\* add_request: prefill starts after the reused blocks; a prompt that is cached
\* in full goes straight to decode, which writes its last position again.
Admit(s, c) ==
    /\ phase = "idle" /\ stream[s] = NoStream
    /\ kv' = ReusePrefix(kv, s, Prompt(c))
    /\ pos' = [pos EXCEPT ![s] = Min({Len(Reused(kv, Prompt(c))) * BlockSize, PromptLen - 1})]
    /\ stream' = [stream EXCEPT ![s] = c]
    /\ waiting' = waiting \cup {s}
    /\ UNCHANGED <<running, done, forward, phase, clean>>

Start(s) ==
    /\ phase = "idle" /\ s \in waiting
    /\ running' = Append(running, s)
    /\ waiting' = waiting \ {s}
    /\ UNCHANGED <<kv, stream, pos, done, forward, phase, clean>>

\* _try_preempt: the request keeps its slot, its K/V and its progress.
Preempt(s) ==
    /\ Preemption
    /\ phase = "idle" /\ s \in ToSet(running)
    /\ running' = Without(running, s)
    /\ waiting' = waiting \cup {s}
    /\ UNCHANGED <<kv, stream, pos, done, forward, phase, clean>>

\* schedule() moves a finished request out; a cancelled one that waits too.
Finish(s) ==
    /\ phase = "idle"
    /\ s \in waiting \/ (s \in ToSet(running) /\ pos[s] >= PromptLen)
    /\ running' = Without(running, s)
    /\ waiting' = waiting \ {s}
    /\ done' = done \cup {s}
    /\ UNCHANGED <<kv, stream, pos, forward, phase, clean>>

\* _free_slot, for a request that finished or that is cancelled while running.
FreeSlot(s) ==
    /\ phase = "idle" /\ s \in done \cup ToSet(running)
    /\ kv' = FreeSequence(kv, s)
    /\ stream' = [stream EXCEPT ![s] = NoStream]
    /\ pos' = [pos EXCEPT ![s] = 0]
    /\ running' = Without(running, s)
    /\ done' = done \ {s}
    /\ UNCHANGED <<waiting, forward, phase, clean>>

-----------------------------------------------------------------------------
(* A forward pass. *)

Decoding(s) == pos[s] >= PromptLen
Unfinished  == \A s \in ToSet(running) : pos[s] < Len(stream[s])
ByGraph     == Graphs /\ \A s \in ToSet(running) : Decoding(s)
CanStep     == /\ phase = "idle" /\ running # <<>> /\ Unfinished
               /\ Preemption \/ waiting = {}

\* The eager path: prefill writes the rest of the prompt, decode one position.
BeginForward ==
    /\ CanStep /\ ~ByGraph
    /\ forward' = [i \in DOMAIN running |->
                     [ seq  |-> running[i],
                       upto |-> IF Decoding(running[i]) THEN pos[running[i]] + 1 ELSE PromptLen ]]
    /\ phase' = "forward"
    /\ UNCHANGED <<kv, stream, pos, running, waiting, done, clean>>

Writing == Head(forward).seq
Outcome == IF MissingBlock(kv, Writing, pos[Writing])
             THEN AllocationOutcome(kv, Writing, 1, ToSet(running)) ELSE "ok"

\* A waiting request whose blocks are evicted goes on from progress it no longer has.
KeepsWaiting(before, after) ==
    \A s \in waiting : before.held[s] # <<>> => after.held[s] # <<>>

\* write_kv of the next position; the last one of a sequence is followed by its read_kv.
Write ==
    /\ phase = "forward" /\ forward # <<>> /\ Outcome = "ok"
    /\ kv' = WriteKV(kv, Writing, pos[Writing], stream[Writing][pos[Writing] + 1])
    /\ pos' = [pos EXCEPT ![Writing] = @ + 1]
    /\ forward' = IF pos'[Writing] = Head(forward).upto THEN Tail(forward) ELSE forward
    /\ clean' = (clean /\ KeepsWaiting(kv, kv'))
    /\ UNCHANGED <<stream, running, waiting, done, phase>>

\* allocate_blocks raises: the engine gives up every running request.
\* It spins: the step never ends.
AllocationFails ==
    /\ phase = "forward" /\ forward # <<>> /\ Outcome # "ok"
    /\ kv' = AfterVainEviction(kv, Writing, ToSet(running))
    /\ clean' = (clean /\ KeepsWaiting(kv, kv'))
    /\ forward' = <<>>
    /\ IF Outcome = "spin"
         THEN phase' = "spin" /\ UNCHANGED <<running, done>>
         ELSE phase' = "idle" /\ running' = <<>> /\ done' = done \cup ToSet(running)
    /\ UNCHANGED <<stream, pos, waiting>>

\* The cache when the first k running requests are through the end of a step.
Registered ==
    LET after[k \in 0 .. Len(running)] ==
            IF k = 0 THEN kv
            ELSE LET s == running[k] IN
                 IF pos[s] = PromptLen THEN RegisterPrefix(after[k - 1], s, Prompt(stream[s]))
                                       ELSE after[k - 1]
    IN  after

\* The end of the step: requests that have just sampled their first token
\* register the blocks of their prompt.
EndForward ==
    /\ phase = "forward" /\ forward = <<>>
    /\ kv' = Registered[Len(running)]
    /\ phase' = "idle"
    /\ UNCHANGED <<stream, pos, running, waiting, done, forward, clean>>

\* A captured decode graph: every running sequence writes its next position at
\* once through write_kv_decode, then the lengths are synced and the LRU touched.
DecodeGraph ==
    /\ CanStep /\ ByGraph
    /\ LET next == [s \in ToSet(running) |-> stream[s][pos[s] + 1]] IN
       \E won \in SUBSET ToSet(running) :
         /\ MayWin(kv, ToSet(running), won, pos)
         /\ kv' = TouchedInTurn(WriteKVDecode(kv, ToSet(running), won, pos, next), running)
    /\ clean' = (clean /\ \A s \in ToSet(running) : ~MissingBlock(kv, s, pos[s]))
    /\ pos' = [s \in Seqs |-> IF s \in ToSet(running) THEN pos[s] + 1 ELSE pos[s]]
    /\ UNCHANGED <<stream, running, waiting, done, forward, phase>>

\* Popping and pushing back the same heap entry.
Spin == phase = "spin" /\ UNCHANGED vars

Next == \/ \E s \in Seqs, c \in Streams : Admit(s, c)
        \/ \E s \in Seqs : Start(s) \/ Preempt(s) \/ Finish(s) \/ FreeSlot(s)
        \/ BeginForward \/ Write \/ AllocationFails \/ EndForward
        \/ DecodeGraph
        \/ Spin

Spec == Init /\ [][Next]_vars

-----------------------------------------------------------------------------
(* Properties. *)

Holders(b) == {s \in Seqs : b \in ToSet(kv.held[s])}

\* However blocks came to a sequence - allocated, reused, copied on write - and
\* left it - freed, evicted - the counts and the free queue agree with
\* _seq_blocks: no block leaks, none is handed out while somebody has it
\* (kv_cache.py:213-287, 498-524, 599-704).
PoolMatchesSequences ==
    /\ \A s \in Seqs : IsInjective(kv.held[s])
    /\ \A b \in Block : kv.pool.ref[b] = Cardinality(Holders(b)) + (IF b = kv.dummy THEN 1 ELSE 0)
    /\ IsInjective(kv.pool.free)
    /\ ToSet(kv.pool.free) = {b \in Block \ {NullBlock} : kv.pool.ref[b] = 0}

\* The row of a sequence in block_table is its list of blocks followed by -1:
\* what attention reads through is what the pool accounts for, and
\* free_sequence, which clears as many entries as there are blocks, clears all
\* of them (kv_cache.py:280-284, 519-521, 631-634, 698-703).
TableMatchesBlocks ==
    \A s \in Seqs, i \in BlockIx :
        kv.table[s][i] = IF i < Len(kv.held[s]) THEN kv.held[s][i + 1] ELSE NoBlock

\* The LRU order knows exactly the sequences that hold blocks, so eviction can
\* reach each of them (kv_cache.py:195-238).
LRUCoversHolders ==
    /\ IsInjective(kv.lru)
    /\ ToSet(kv.lru) = {s \in Seqs : kv.held[s] # <<>>}

\* The five structures that say who has which block - the pool's counts and its
\* queue, the lists, the rows and the LRU order - never drift apart, whatever
\* sequence of allocations, sharings, copies, evictions and releases
\* (kv_cache.py:195-287, 498-524, 599-704).
StructuresAgree == TypeOK /\ PoolMatchesSequences /\ TableMatchesBlocks /\ LRUCoversHolders

\* What a request reads for the positions it takes to be cached was computed
\* from its own tokens, across sharing, copy on write, eviction and reuse, as
\* long as no waiting request was evicted and no graph wrote without a block
\* (kv_cache.py:293-365; i64_engine.py:907-915).
ReadsOwnKV ==
    clean => \A s \in ToSet(running) : \A p \in 0 .. pos[s] - 1 :
                 ReadKV(kv, s, p) = stream[s][p + 1]

\* A cached block holds the K/V its hash stands for (kv_cache.py:645-670).
CachedContentExact ==
    clean => \A h \in Hash : kv.pool.map[h] # NoBlock =>
        \E c \in Streams : \E i \in DOMAIN BlockHashes(c) :
            /\ BlockHashes(c)[i] = h
            /\ kv.content[kv.pool.map[h]] = [o \in Offset |-> c[(i - 1) * BlockSize + o + 1]]

\* While a forward pass runs, no running sequence loses a block to eviction
\* (i64_engine.py:907-915: the pins), and a block handed out for new tokens holds
\* nothing of the sequence that had it before but the token just written
\* (kv_cache.py:131-134, 274-278).
ForwardKeepsBlocks ==
    [][phase = "forward" =>
         /\ \A s \in ToSet(running) : Len(kv'.held[s]) >= Len(kv.held[s])
         /\ \A s \in Seqs : Len(kv'.held[s]) = Len(kv.held[s]) + 1 =>
              \A o \in Offset : o # OffsetOf(pos[s]) =>
                  kv'.content[Last(kv'.held[s])][o] = Zero]_vars

\* What the class docstring says of a full pool (kv_cache.py:38-39:
\* "Sequence-level LRU eviction: when the pool is full, the least recently
\* used sequence is freed to make room - no RuntimeError, no dropped
\* requests."): an allocation returns.
AllocationReturns == phase # "spin"

\* What the docstring of write_kv_decode asks of its callers
\* (kv_cache.py:431: "Blocks must already be allocated."): when a decode batch
\* runs as a graph, each of its sequences has the block it writes to.
GraphBlocksAllocated ==
    CanStep /\ ByGraph => \A s \in ToSet(running) : ~MissingBlock(kv, s, pos[s])
=============================================================================
