# A verification of TR-Hash-i64

TR-Hash-i64 is an inference server for language models: an HTTP interface, an
asynchronous engine that batches requests continuously, a scheduler that works
with integers only, a paged K/V cache with prefix sharing, a decoder whose
experts are chosen by token id, and around them disaggregated workers, service
supervision and an agent framework. This directory holds TLA+ models of the
parts that decide something, the TLC configurations that check them, and TLAPS
proofs about the block pool, the paged cache, the scheduler, the asynchronous
engine, merged requests, the service and the middleware. Everything is
translated from the source under `src/tr_hash_i64/`; `PROJECT.json` says, for every definition, which lines it
stands for, lists the hazards of the code, and pairs each property with a
plausible bug that breaks it (the *mutant* definitions in the modules; the
specifications never use them).

## 1. Inventory

| component | state | operations | modelled in |
|---|---|---|---|
| `FreeKVCacheBlockQueue` (core/block_pool.py) | pointers of a linked list, `num_free_blocks` | popleft, popleft_n, append, append_n, remove | `FreeBlockQueue`, `LinkedPool` |
| `BlockPool` (core/block_pool.py) | `ref_cnt`, `block_hash`, free queue, `_hash_to_block` | get_new_blocks, touch, free_blocks, cache_block, get_cached_block | `BlockPoolOps`, `BlockPool` |
| `PagedKVCache` (core/kv_cache.py) | `_seq_blocks`, `block_table`, `seq_lens`, the K/V tensors, dirty blocks, LRU heap, pins | allocate_blocks, _evict_lru, write_kv, write_kv_decode, read_kv, free_sequence, try_reuse_prefix, register_prefix_blocks, _cow_if_shared | `KVCacheOps`, `KVCache` |
| `I64Scheduler` (engine/i64_scheduler.py) | pending heap, running, finished, preempted, `free_blocks`, the requests | add_request, remove_request, schedule, _try_preempt, update_after_step | `SchedulerOps`, `Scheduler` |
| `I64Engine` (engine/i64_engine.py) | slots, cancelled ids, deadlines, merged requests, processors of a request | add_request, cancel_request, step, _free_slot | by the state they change, in `Scheduler`, `KVCache`, `AsyncEngine`, `MergedRequests`, `Generation` |
| `AsyncI64Engine` (engine/i64_engine.py) | `_pending_futures`, `active_requests`, the loop task | generate, generate_stream, _engine_loop, start, stop | `AsyncEngine` |
| disaggregated prefill/decode (parallel/disaggregated.py) | requests and statuses, prefill queue, slots, block tables, running list of the decode worker | add_request, the prefill and receive threads, decode step, collection, shutdown | `Disaggregated` |
| service supervision (service.py, service_ops.py, cli.py) | configuration file, programs, watchdog, releases | install, remove, start, stop, restart, upgrade, autotune, tick | `Service` |
| middleware and request cache (api/middleware.py, api/tracking.py) | token buckets, cached answers | allow, cleanup, get, put | `HttpServer` |
| chat endpoint (api/_completions.py, api/_helpers.py, core/tool_parser.py) | none between calls | two-pass thinking answers, streaming, tool calls | `ChatAnswer` |
| context manager (core/context_manager.py) | none | fit, summaries, cutting | `ContextManager` |
| samplers, logits processors, speculation (core/) | state of the JSON and stop processors | sampling, processing, generate_step | `Sampling`, `Generation` |
| agents (agentics/) | tasks, queue, results, histories | submit, run, the workers, an agent's loop, parallel tools | `Agents` |
| expert layers and kernels (layers/, kernels/) | route tables, weights | routing, dispatch paths, attention paths | `TokenRouting`, `AttentionPaths` |
| loading and quantisation (core/loader.py, core/quantization.py, core/awq_gptq.py) | parameters of the model | resolving, reading, sharding, fusing, quantising, unpacking | `ModelWeights`, `PackedWeights` |

How they interact. An HTTP handler passes the limiter and the load shedder,
looks into the cache of answers, and awaits `generate` or iterates over
`generate_stream`. These call `I64Engine.add_request`, which enters the request
in the scheduler's pending heap (or behind a primary with the same prompt),
takes a KV slot, and lets `PagedKVCache.try_reuse_prefix` attach cached blocks
to it. The engine loop, an asyncio task, calls `step()` as long as something is
pending or running; on CPU it does so in an executor thread. A step forgets the
requests that finished before, sweeps cancelled and late ones, calls
`schedule()`, pins the running slots, runs the model - which writes and reads
the K/V cache and sends each token through its experts - applies the
processors, samples (or speculates), calls `update_after_step()`, and registers
the blocks of finished prefills. The loop then answers finished requests. The
scheduler's own `kv_block_ids` are accounting: the attention goes through the
`block_table` of the K/V cache, and the two are not kept in step. The
disaggregated coordinator replaces engine and loop by its threads. Agents and
the service commands are other processes that use the HTTP interface.

What is hard in this code: the two block accounts; a request that is in the
wrong list for one step; lists that are changed while they are walked over;
eviction and preemption of requests that keep their progress; steps that fail
in the middle; clients that come, cancel, disconnect or wait while a step runs;
three threads and two ends of a channel that share a request; operations on a
service that are killed between two commands; answers that are cached, merged,
cut or streamed; the many paths that must compute the same sum. The `hazards`
of `PROJECT.json` list these at their lines, each with the properties that
watch it.

What makes each part correct: *pool* - counts, queue, its list and the cache
agree and blocks belong to who holds them; *cache* - a sequence reads what was
computed from its own tokens; *scheduler* - every request is in one queue,
blocks are conserved, work survives preemption, everybody comes to an end;
*asynchronous engine*, *merged requests*, *disaggregation* - every client that
waits is counted and answered once, with all of its tokens; *service* - what
runs is complete and watched; *middleware* - rates hold and a cached answer is
one for its key; *generation* - the ways to draw a token agree, and nothing
follows an end; *chat and agents* - prompts fit, thoughts stay out, each task
and each call has its result; *weights* - what a batch computes is what the
checkpoint says, whichever path it takes.

## 2. Modules

| module | what it is |
|---|---|
| `BlockPoolOps` | the operations of the pool over a record, so that a caller that makes several pool calls in one handler is one step |
| `BlockPool` | those operations driven by the calls the K/V cache makes |
| `BlockOwnership` | abstract: a block belongs to nobody when handed out, and is shared only through the cache |
| `FreeBlockQueue`, `LinkedPool` | the linked list pointer by pointer; and `BlockPool` beside it, each call of the pool making its calls on the list |
| `KVCacheOps`, `KVCache` | the K/V cache over `BlockPoolOps`, and the engine around it |
| `SchedulerOps`, `Scheduler` | the scheduler over a record, and the engine steps that drive it |
| `AsyncEngine` | clients, engine loop, stop |
| `MergedRequests` | the engine with merging enabled: primaries, secondaries, and both ways to collect results |
| `Disaggregated` | coordinator, prefill thread, receive thread, decode loop, the channel between them |
| `Service` | the commands of one service as programs of steps, the supervisor's two processes, failures and kills |
| `HttpServer` | handlers between their awaits, the limiter, the shedder, the cache, a clock |
| `Sampling`, `Generation` | which tokens a sampler can draw; a whole answer with processors, stop sequences and speculation |
| `ContextManager`, `ChatAnswer`, `Agents` | the two pure parts of the chat endpoint, and the orchestrator, agents and a terminal that use them |
| `TokenRouting`, `AttentionPaths`, `PackedWeights`, `ModelWeights` | experts, attention and packed formats as operators; and a model from its checkpoint through loading to the batches it computes |
| `MC*` | constants of the runs |
| `BlockPoolOpsProofs`, `BlockPoolProofs`, `KVCacheProofs`, `SchedulerProofs`, `ClientsProofs`, `AnswersProofs`, `ServiceProofs`, `ServingProofs` | proofs |

How they are composed. `KVCacheOps` uses the pool through `BlockPoolOps`, so
what `BlockPool` shows of the operations holds of the very definitions the
cache calls; `LinkedPool` conjoins to every action of `BlockPool` the pointer
operations, so that the sequence used everywhere else is known to be what the
list holds. `Agents` extends `ChatAnswer`, which extends `ContextManager`: an
agent's call of the server is the composition of fitting, generation and
splitting. `Generation` extends `Sampling`; `ModelWeights` extends
`TokenRouting` and `AttentionPaths`, so the weights a batch meets are those the
loader left.

Correspondence. State variables keep the names of the code where they can:
`held` is `_seq_blocks`, `table` is `block_table`, `heap` is `_pending_heap`,
`blocks` is `kv_block_ids`, `saved` is what `_try_preempt` puts aside,
`futures` is `_pending_futures`, `active` is `active_requests`, `buckets` is
`_buckets`, `results` is `_results`. Each action is one handler with everything
it calls, cut only where another actor may come between: at an await
(`HttpServer`, `Agents`, `AsyncEngine`), at a lock or a blocking call of a
thread (`Disaggregated`), at a command to the supervisor or the disk
(`Service`), at a written position (`KVCache`, because an allocation may evict
in the middle of a forward pass), and at the forward pass (`Scheduler`,
`AsyncEngine`).

What is abstracted. In the engine modules tokens only matter by whether they
end the request. The K/V of a position is a value that stands for the whole
prefix up to it, so two prompts share a value exactly if they share the prefix;
block hashes are model values, and blake2b is taken to be free of collisions,
per cache namespace. One layer stands for all. Which of the free scheduler
blocks is taken is not told apart. Deadlines are a choice: any running request
may be late at any sweep. In `AsyncEngine`, `MergedRequests` and
`Disaggregated` the scheduler is reduced to what these can reach of it;
`Scheduler` has the full one. `KVCache` prefills what is left of a prompt at
once and lets the engine start, preempt and finish requests in any order, which
covers whatever the scheduler decides. In `Sampling` a probability is an
integer weight and a sampler is the set of tokens it may draw. In `ChatAnswer`
text is a sequence of words and markers, and half a character is a token of
its own. In `TokenRouting` a weight column is a name of where it comes from and
a sum is a bag, so that a column that is lost, doubled or paired with another
expert's is seen; in `PackedWeights` weights are integers and the arithmetic of
four and eight bits is done in full, two's complement included. In
`AttentionPaths` an output is the set of keys with weight, and positions are
rounded as the float type of the mask rounds them.

External parts, modelled from how `src/` uses them: the supervisor, the
transformer (rows given by the last two tokens), the language of the model
(speeches), the tokenizer's decoding, and the packers of AWQ and GPTQ files.

## 3. Runs

Runs that pass:

| run | instance | distinct states | properties |
|---|---|---|---|
| `block_pool` | 3 slots, 3 usable blocks, prompts `h1 h2` and `h1 h3` | 29446 | `RefCountExact`, `FreeQueueExact`, `CacheEntriesSound`, `LinksExact`, `ChainsFreedTailFirst`, `ImplementsOwnership` |
| `kv_cache` | 2 slots, 4 usable blocks, blocks of 2, sequences of 3 blocks | 1027551 | `StructuresAgree`, `ReadsOwnKV`, `CachedContentExact`, `ForwardKeepsBlocks` |
| `scheduler` | 3 requests of priorities 5, 0, 2; 4 blocks of 2; batch of 2; prefill budget 2 | 19467 | `OneQueue`, `BlocksExact`, `SteadyStops`, `WorkKept`, `Finishes` |
| `async_engine` | 3 requests, one streamed; 2 slots, batch 2, queue depth 2, loop ends after 2 errors | 87793 | `CountsExact`, `NoAnswerLost`, `Answered` |
| `disaggregated` | 3 requests, 2 slots, 2 tokens each, failing prefills, shutdown | 144725 | `TransfersExact`, `AnswerWhole`, `Served` |
| `merged_requests` | 4 requests with one prompt, one sampled; limits 2 and 3, batch of 1 | 18319 | `GroupsExact`, `KeepsPace`, `EveryoneAnswered` |
| `service` | 2 releases, 2 tuning options, 4 operations, 1 fault, 2 hangs | 180487 | `ReleasesWhole`, `OperationsEndClean`, `HungRecovers` |
| `http_server` | 2 clients, 2 handlers, 3 keys, 1 bucket, cache of 2, clock to 3 | 719083 | `RateHolds`, `CacheSound` |
| `generation` | 6 tokens, answers of up to 6, drafts of 2; 7 kinds of requests | 72075 | `StopExcluded`, `JsonEnds`, `DrawsAgree` |
| `agents` | 2 workers, 2 tasks, a terminal with 3 messages, window of 34 | 79660 | `TasksAccounted`, `ContextFits`, `SpeechExact`, `RunEnds` |
| `model_weights` | 22 commands and sources, 6 batches, 3 kernel batches, 144 rows | 6655 | `RoutesVerbatim`, `ForwardExact`, `AttendsOwnPast`, `PackedExact` |

Why the bounds are enough. *block_pool*: two prompts with a common first block
are the least for a block to be computed twice, shared, copied and registered
under a hash that is taken; a pool that two sequences exhaust makes cached
blocks be recycled while they are still in the queue, and a list of three is
the least with a block in the middle; caching can be switched on and the cache
purged at any point. What does not depend on the bounds is proved (section 5).
*kv_cache*: two sequences fill the pool, so that every allocation of a third
block evicts or fails; the streams agree on one block and differ in the next.
*scheduler*: two requests fill the pool and the batch, need a further block
while they run, and are larger than the prefill budget, alone and together.
*async_engine*: one request waits while others run, one is refused for want of
a slot or of room in the queue, one comes while `stop` drains.
*disaggregated*: with three requests and two slots, one is refused a slot while
two decode; `SchedBlocks` is 1, so that the block a second token needs may be
missing. *merged_requests*: a primary may have two secondaries with other
limits than its own, a fourth request takes its place at any point, and one
batch place makes primaries wait;
clients are answered by the engine loop. *service*: two releases, so
that an upgrade has a release in use to spare; two failures of a probe make the
watchdog act; four operations, one fault and two hangs are enough for an
operation to start on what a killed one left. *http_server*: buckets for one
client, so that the second evicts; a cache of two for three keys; times beyond
expiry. *generation*: five or six tokens close a nested JSON value and pass
overlapping stop sequences; the JSON processor's end token ends the request
in one case and not in another; the drafts are of two. *agents*: the window takes
the instructions and two turns, so that a third is summarized and a long tool
result is cut; budgets that end inside a thought and inside a character;
a stop sequence that reaches over the end of a thought.
*model_weights*: four experts on one and two ranks, three routes per token, two
versions of every tensor in the files, batches on both sides of each threshold,
histories that end inside, at and after a block, every row of four weights from
a grid. The bounds themselves are the constants commented as such in the
modules (`NumRequests`, `MaxNew`, `MaxOps`, `MaxFaults`, `MaxHangs`,
`MaxGrants`, `MaxTime`, `MaxTasks`, `MaxAsks`, ...).

Deadlock is checked in `block_pool` and `kv_cache`. In the others it is not:
after the last request, operation, tick or batch the system is at rest.

Symmetry: slots are interchangeable in `block_pool` and `kv_cache`, clients,
handlers and unsampled keys in `http_server`; their properties are invariants
and properties of steps.

Conditions on properties. Some hold only as long as a thing the code does not
prevent has not happened; each such thing is a history variable, a named
formula or a choice of constants:

* `clean` (no waiting request lost its blocks to eviction, no graph wrote
  without a block), `steady` (`update_after_step` preempted nobody), `intact`
  (no step failed that had just finished a request), `Stranded` (a failed step
  left only preempted requests, which `has_work` does not count), `LoopAlive`
  (the loop did not give up after its last error);
* `Unanswerable` in `Disaggregated` lists the ends at which a request is left
  without its callback; `JoinLate` that the join of shutdown times out;
* `Unwatched` in `Service`: nobody watches, because a rollback that did not
  become ready, or a killed operation, left it so; operations do not overlap,
  though no lock keeps two tools apart;
* `evicted` in `HttpServer`: clients whose bucket was dropped for want of room;
* run `generation` lets only greedy requests speculate, with a target that is
  decided by its last token;
* in `Agents` no speech begins with a second opening marker (the stream would
  show it twice, `PlainSpeech`); `SpeechExact` is about the text, not the finish
  reason; stream and answer are compared where no stop sequence ended a pass
  (`stopped`), and the engine of the agents has no draft model;
* `LeftOver` in `MergedRequests`: secondaries the engine loop leaves behind, as
  they outlive a primary that finished, was cancelled before it ran, or lost
  its place;
* `JsonEnds` says what follows a closed value by the processor's own end token
  (`JsonEos`), which need not be the model's;
* `DrawsAgree` excludes typical sampling of a row in which top-k or min-p has
  masked a token from "a most likely token can be drawn";
* `RunEnds` excludes workers that wait for ever for a tool;
* `TablesWhole` in `ModelWeights`: a packed checkpoint has both tables of
  routes or none, as its loaders derive nothing;
* in `ModelWeights` the number of ranks divides the columns of an expert,
  incomplete checkpoints are only required not to be answered wrongly where
  loading refuses them, and batches of `model_weights` are shorter than the
  float type counts; zero points are those a file can represent, and a group
  of int4 has weights on both sides of zero.

The run that shows a disagreement between the code and what it says of itself:
`attention_causal`. `naive_cached_attention` compares positions in the type of
the queries; past 2048 positions in float16, or 256 in bfloat16, a prefill
chunk attends to tokens that come later in it, which its docstring excludes
("causal masking"). `AttendsOwnPast` is violated as soon as a batch is longer
than `ExactUpTo`, two to the number of its significant bits; below, it holds on all paths (`model_weights`).

Five more are recorded as findings beside the property of a passing run that
states, or has to exclude, what the code does:

* `block_pool`, `ChainsFreedTailFirst`: blocks of a sequence are recycled from
  its tail on. The docstrings of `free_blocks` (block_pool.py:230: the block
  "closest to the prompt tail goes back last (= stays longest in cache)") and
  `free_sequence` (kv_cache.py:502) say the opposite. The code's order is the
  useful one: a cached chain is found from its first block.
* `merged_requests`, `EveryoneAnswered`: the loop empties `scheduler.finished`
  before the next `step()` looks there for primaries that ended, so that their
  secondaries are not "finished" as i64_engine.py:808 says, and wait for ever.
* `generation`, `JsonEnds`: the engine builds the JSON processor without a
  tokenizer (i64_engine.py:650), so it closes with token 2
  (logits_processor.py:56) whatever the model's end token is; where that does
  not end the request, an answer with a closed value is filled up with it
  (`ClosedGoesOn`), against "Force valid JSON output" (line 30).
* `generation`, `DrawsAgree`: typical sampling keeps the most probable tokens,
  which its docstring (sampling.py:172) says it does not, and after a mask its
  order is that of a sort of NaNs, so that it may drop the most likely one.
* `agents`, `SpeechExact`: "Truncate stop sequence tokens from output"
  (i64_engine.py:1669) is done for the client that waits, while one that streams
  has been sent them, and the token after (lines 1641-1652). With a draft model
  a stream gets one token of each speculative step (line 778).

More such disagreements are kept as configurations beside the project, with
the properties they violate, or as an invariant to put into the configuration
of a run; they are checked by hand, one at a time (`tlc -config X.cfg M`):

| configuration | module | property | what the code does |
|---|---|---|---|
| `KVCacheSpin.cfg` | `MCKVCache` | `AllocationReturns` | `_evict_lru` pops and pushes back a pinned entry for ever |
| `KVCacheGraph.cfg` | `MCKVCache` | `GraphBlocksAllocated` | nobody allocates the block a captured decode graph writes to |
| `SchedulerDivergences.cfg` | `MCScheduler` | `NoTokenAfterStop` | a request that has ended is preempted, resumed, and generates on |
| `SchedulerDivergences.cfg` | `MCScheduler` | `ProgressIsScheduled` | prefill progress grows by another amount than was computed |
| `SchedulerDivergences.cfg` | `MCScheduler` | `AllFreedAtEnd` | a request that preempts itself loses blocks |
| `AsyncEngineLost.cfg` | `AsyncEngine` | `StuckRequestsFail` | a request that finished in a step that fails is never answered |
| `MergedLeftOver.cfg` | `MCMergedRequests` | `EndTogether` | under the engine loop a secondary outlives the primary that finished ("finish all remaining secondaries") and is never answered |
| `MergedLeftOver.cfg` with `Async = FALSE` | `MCMergedRequests` | `EndTogether` | a sampled request takes the entry of a primary with the same prompt, whose secondaries then do not end with it |
| `Disaggregated.cfg` with `INVARIANT ReadsOwnKV` | `Disaggregated` | `ReadsOwnKV` | the transfer and the worker choose a slot each, and they differ |
| `HttpServerAsked.cfg` | `MCHttpServer` | `AnsweredAsAsked` | an answer cached for other stop sequences or response formats is returned |
| `GenerationStops.cfg` | `MCGeneration` | `StopExcluded` | a speculative step passes over a stop sequence |
| `GenerationStops.cfg` with `Case <- MCLooksBack`, `INVARIANT SpeculativeGreedy` | `MCGeneration` | `SpeculativeGreedy` | with a target that looks further back, speculation changes a greedy answer |
| `MCModelWeights.cfg` with `INVARIANT RoutesDerived` | `MCModelWeights` | `RoutesDerived` | the AWQ and GPTQ loaders copy a table of first routes and derive no others, which `token_routed_mlp.py:89` says of every checkpoint |
| `MCModelWeights.cfg` with `INVARIANT QuantizationsLoad` | `MCModelWeights` | `QuantizationsLoad` | int4, and int8 off the CPU, import a module that does not exist |

## 4. Fairness

`Scheduler`: weak fairness of the two halves of a step. The loop calls `step()`
whenever there is work, and a forward pass ends; a pass that fails for ever is
excluded by neither, but then its requests are given up, which is an end.
Fairness is written with the condition of each half spelled out, because TLC
would otherwise evaluate ENABLED of a large action in every state. `Add`,
cancellation and failures are not fair. `AsyncEngine`: weak fairness of the
loop's actions, for the same reason, and of a stream that has its final item,
because asyncio runs what is ready. Clients, `stop` and failures are not fair.

`MergedRequests`: the engine loop goes on stepping while the scheduler has
pending or running requests, which is all `_engine_loop` looks at (`HasWork`);
with `Async = FALSE`, the last caller of `generate()` goes on until its own
result is there (`InGenerate`). The run is that of the loop. That a request is
late, and that clients cancel, is not fair. `Disaggregated`: each thread goes
on, and so does the loop that calls `step()` while there is work; failing,
adding and shutting down are not fair. `Service`: a command goes on to its next
step (it may fail there), a server that loads becomes ready or hangs, and the
watchdog wakes up, since `run_watchdog` sleeps a fixed interval; operations,
faults and hangs are not fair, and hangs are bounded by `MaxHangs`, without
which no watchdog helps. `Agents`: each worker of a run goes on, because
asyncio schedules it and the client gives up on a call of the server after its
timeout. Tools are not assumed to return: `shell` and `execute_code` run their
command with a timeout, but the tools that read, write, list and search files,
and `execute_tools_parallel` itself, have none, and a FIFO or a device blocks
them for ever. So fairness is of a worker's own steps only (`GoesOn`), which
need all of its tools back, and `RunEnds` says of a worker that waits for ever
for a tool which tasks it may hold up. The terminal and submissions are not
fair.

`active_requests` is counted down by whoever answers. A caller that cancels
`generate` while it waits would leave the count up; the handlers in `api/`
await it plainly, and aiohttp does not cancel handlers of lost connections by
default, so this is not an action. A stream does get closed (`StreamLeaves`).

## 5. Proofs

TLC checks the instances above; the theorems below hold for every value of the
constants under the assumptions named in the modules.

**Block pool.** From `NumBlocksAssumption`, `NoHashAssumption`,
`SeqsAssumption` (the slots are finitely many), `PromptsAssumption` (the blocks
of a prompt have distinct hashes, which the chaining of hashes gives) and
`NoPromptAssumption`:

* `TypeCorrect`, `RefCountsExact`, `FreeQueueIsExact`, `CacheIsSound`,
  `NoBlockIsLost`: no count goes below 0, counts are the numbers of holders,
  the queue holds exactly what nobody holds, entries of the cache lead to
  blocks that carry their hash, no block is lost;
* `PoolImplementsOwnership`: `Spec => Ownership!Spec`;
* `ChainsAreFreedTailFirst`: the action property `ChainsFreedTailFirst`;
* `LinksAreExact`: `LSpec => []LinksExact`, for the linked list beside the pool.

`RefCountExact` is not inductive alone: that `free_blocks` appends a block
once, and that a fresh block has no holder, need the queue to hold exactly the
unreferenced blocks; that reuse does not give a sequence the same block twice
needs cache entries to carry their own hash, hence different blocks for
different hashes; and a slot that is free must hold nothing. So the inductive
invariant is the conjunction of `TypeOK`, `RefCountExact`, `FreeQueueExact`,
`CacheEntriesSound`, `NullBlockUnowned` and `IdleSlotsEmpty`.
`BlockPoolOpsProofs` states what each operation does to a pool that is sound
(`QueueExact`, `EntriesSound`), over lemmas about ranks, subsequences,
concatenation and reversal; `BlockPoolProofs` counts holders (`HoldersStep`:
how the number of holders of a block moves when one slot gets another list) and
has a lemma per action. The refinement adds that a pool without caching has no
entries and maps each action to `Replace`, `Share`, `Publish`, the purge, or a
stutter. For the order in which blocks go back, `free_blocks` appends the blocks
it drops behind the queue, none of which was in it, and a subsequence keeps the
order of what it is taken from (`SubsequenceKeepsOrder`). The pool walks sequences in closed form (`Subsequence`); that this
is the filtering of a sequence is evaluated by TLC on bounded sequences
(`SubsequenceIsFilter` in `MCBlockPool`) and used in no proof.

For the linked list, `Linked` says which blocks a list links, place by place
(`Place`: the head, the blocks, the tail), and that every other block has no
pointers; the invariant is that the list links the free queue (`QueueLinked`).
`_remove`, `append` and `popleft` each have a lemma, and so have the loops over
them. Removing blocks one by one leaves the subsequence of the others because
the elements behind the removed one move up (`SubsequenceWithout`). No call
raises, as the pool appends only blocks that nobody linked and removes only
linked ones, which is `FreeQueueExact`.

**Paged cache.** From `BlockSizeAssumption`, `HashAssumption`, `SeqsAssumption`,
`StreamsAssumption` (a request fits in the row of its slot: `validate` bounds
prompt plus `max_tokens` by `max_seq_len`, from which rows are sized), `PrefixAssumption` (K/V values of
two requests agree only at the same position after the same tokens: a value
stands for the prefix it ends), `BlockHashAssumption` (at the end of a block it
stands for the block's chained hash) and `GraphsAssumption` (graph buffers need a
block to spare): `StructuresAgreeAlways` (`StructuresAgree`),
`ForwardKeepsBlocksAlways` (the action property `ForwardKeepsBlocks`),
`ReadsOwnKVAlways` (`ReadsOwnKV`), `CachedContentExactAlways`
(`CachedContentExact`), with and without caching, graphs and preemption.

`Sound` is what each operation of `KVCacheOps` keeps, whoever calls it. Beyond
the agreement of the structures it says that a block two sequences have carries a
hash (`SharedHashed`) and that a free block is zero or marked dirty
(`FreeZeroed`). There is one lemma per operation, which also says what the
operation did (`Freed`, `Grown`, `Copied`, `Reusing`, `Registering`, `Decoded`);
they come down to `OneSequence`, about one sequence that gets another list, and
to the pool's own lemmas of `BlockPoolOpsProofs`. `write_kv` is then one of three
things: a write in place, into a new block after some sequences that are not
pinned were evicted, or into a private copy (`Wrote`: `InPlace`, `InNew`,
`InCopy`). A write in place into a shared block is what remains when no block is
free for the copy. `_evict_lru` and the registration at the end of a step are
recursive functions over their turns, treated like the loops of the scheduler.

The engine adds that a slot is in one place (`SlotsExact`) and that what is left
of a forward pass is of running requests, once each, and within their streams
(`ForwardExact`): hence a position that is written is in the row, and the block
for it may be taken from nobody who runs.

What the blocks hold needs four facts at once (`ContentInv`). `Kept`: the
positions a request takes to be cached are in its blocks. `Owned`: the hash of a
block a request has is the one of its place in that request's prompt; so two
requests that share a block share the prefix up to its end, and a write in place
into a shared block writes what is there. `HashKnown` and `HashContent`: a hash is
one of some prompt, and the block holds what it stands for; `Kept` gives this when
a prompt is registered, and it gives `Kept` back to who reuses the block. A decode
graph writes past the prompt, where a block has no hash and hence one owner, as
long as the block is there at all; the last clause, and that no waiting request
was evicted, are the history `clean`, without which the two properties are false
(`KVCacheGraph.cfg` shows the former happen).

**Scheduler.** From `SchedulerAssumption` (sizes are positive, every request has
a prompt and may generate a token; priorities are any integers): `Invariance`,
`OneQueueAlways` (`OneQueue`), `BlocksExactAlways` (`BlocksExact`),
`SteadyStopsAlways` (`SteadyStops`), `WorkIsKept` (the action property
`WorkKept`). The invariant `Inv` is inductive in these parts. `Queues`: no list
has a request twice, no request is in two of them, statuses agree with them, and
a request has saved work exactly while it waits to be resumed (so that restoring
it loses nothing). `Disjoint` and `Suffice` are the two halves of block
accounting, and need each other's neighbours: a preempted request must have given
up its blocks before it is in the heap. `Steadily` is what holds until
`update_after_step` has preempted somebody: every block is free or some running
request's (`Conserved`), who waits has not ended, nobody is past its end. While a
batch is out, nobody who runs has ended; this is what makes one more token
harmless, and it holds because `schedule` takes the ended out before it admits,
and admits only such as had not ended.

The loops of the scheduler are recursive functions over their turns (`Turns`).
That the function exists, and what it computes, is by induction on the number of
turns. `Induction` and `LoopInduction` derive that from a least counterexample
(`Least`), which needs no operator as a parameter; `FirstExists`, by induction on
cardinality, gives a first element in every total order, hence the next victim of
`_try_preempt` and the head of the heap. Then one relation between the scheduler
before and after is kept by every turn of a loop: `Preempts` (some running requests
move to `preempted` with their work; nothing else changes), `Keeps` (the first
half of a step: no work is lost, nobody comes to life), `Makes` and `Grew` (tokens
of `update_after_step`: outputs grow at their end, and by one token where nobody
was preempted), `Arrives`. `Grew` is stated for the list that the loop walks over
while `_try_preempt` removes requests from it, which is why it says nothing more of
steps that preempt.

**Asynchronous engine.** From `AsyncEngineAssumption`: `EngineInvariant`,
`CountsAreExact` (`CountsExact`), `NoAnswerIsLost` (`NoAnswerLost`). The count
of active requests moves in six places of the code, mostly with
`_pending_futures`; so it is exact only because a target is kept for waiting
clients alone (`TargetsExact`), or a client would be counted down twice. An
answer is coming because what finished in a step is delivered before the next
step forgets it (`NothingUndelivered`); that is where a failing step breaks the
chain, and why the property has the condition `intact`. For a step to finish
somebody, whoever runs must have a token left (`StepHasTokens`), which needs new
requests to be whole (`FreshWhole`); and for `stop` to answer the rest, it must
not have counted anyone away who waits (`StoppedIsOff`), and the loop must have
an error left when it handles one (`LoopErrors`). The lemma `Answering` is the
delivery of any set of results, and serves the loop, the error path and `stop`.

**Merged requests.** From `MergedAssumption`: `MergedInvariant`,
`GroupsAreExact` (`GroupsExact`), `SecondariesKeepPace` (`KeepsPace`), for both
ways to collect results and with sampled requests. A step is six parts in a row,
each of which makes one record of another; so the invariant is about such a
record (`Grouped`, `Paced`), and each part is shown to keep it and to bring
nobody in (`After`), one lemma per part. `Shrinks` is the case most of them come
down to: secondaries end and groups are dissolved, and the lists that stay are
what is left of them. That a joining request is found in one place needs that
nobody knew it before (`Unborn`), and that an ended secondary is told its result
and not its primary's needs that who has a result is no secondary any more.
`KeepsPace` is proved in the form of a suffix (`Suffix`), which one token for
both keeps (`SuffixGrows`); that needs that a primary is no secondary itself.

**Service.** From `ServiceAssumption`: `ServiceInvariant`, `NoHalfBuiltRelease`
(`ReleasesWhole`). A configuration reaches a server over the disk and the
supervisor, from what an operation wants, began with, or found best; so all of
these must be whole, and the wanted one whenever its release is not still being
built. That the operation that builds is an upgrade, and builds first, is a
statement about the rest of its program (`PlanOK`), kept by `Tail` and by the
handlers that replace it (`HandlerPlan`, `RestOK`, `RaisedOK`). An autotune
counts its candidates: what it tried and what is left of its program stay
together within what it has (`5 * opt + Len(plan)`), or the choice at the end
would leave the type. The watchdog acts as soon as it counted to its threshold
(`DogCounts`).

`EndsClean` (`OperationsEndClean`) speaks of the end of an operation only; the
inductive form, `Ending`, of every moment before it. Whatever is still to come,
a plan is the rest of a sequence that ends with known steps (`EndSteps`,
`EndsAs`), and a step among these that is behind the operation (`Done`) has made
something true of the file, of Supervisor, the server or the watchdog
(`Promised`). No step that can still follow undoes it (`Follows`): only one of
them writes the file and none after the update, the watchdog stops before the
server, and nothing starts after a stop. The candidates of an autotune lie
before these steps and promise nothing. An exception replaces the rest by the
handler, whose promises are other ones, all to be made; a failed or killed
operation promises nothing. The watchdog can start the server at any moment, so
that `stop` ends with the server down rests on the watchdog being off by then
(`StopDone`).

**Limiter and cache.** From `HttpServerAssumption`: `HttpInvariant`,
`LimiterIsExact` (`RateHolds`), `CacheIsSound` (`CacheSound`). `RateHolds`
speaks of the whole past of a client; the inductive form is what it may still
ask for (`Earned`): after a pass, and after any wait, the passes since each
earlier one and those still in its bucket fit the capacity and the time since.
A client without a bucket counts as one with a full bucket (`Credit`), so that
forgetting a stale bucket, which has refilled by then, gives nothing away, while
dropping one for want of room does (`evicted`). For the cache, entries keep
different keys under removal, appending and eviction (`Removed`, `Appended`,
`Roomed`, `PutIn`), and each carries an answer for its key.

**Disaggregated prefill and decode.** From `DisaggregatedAssumption` (sizes are
positive; prefills may fail, `shutdown` may be called and its join may time out,
or not): `DisaggregatedInvariance`, `TransfersExactAlways` (`TransfersExact`),
`AnswerWholeAlways` (`AnswerWhole`). The properties speak of the decode worker,
but what they need is that a request comes to it once. So the invariant follows a
request on its way (`Journey`): new, queued, in the hands of the prefill thread,
on the wire, in the hands of the receive thread, at one of these places only, and
once there; no step takes it back (`NoNearer`). While it is coming (`Coming`) the
decode worker does not know it and nobody was called (`Unknown`), so that the
receive thread may append it to `running` at any moment: the lists that the loop
is rebuilding meanwhile (`Lists`) have no place for it, which is how it can be
lost, but not how anybody is answered twice. A token is appended only to requests
that have not ended, and a result is of one that has ended and is in no list
(`Answers`). `SlotsApart` is the exactness of slots without counting. For the
frames, `Whole` relates a wire to the body its sender still owes and the one its
receiver waits for; the four lemmas `HeaderSent`, `BodySent`, `HeaderRead`,
`BodyRead` are about any such wire. `shutdown` writes the buffer that the prefill
thread packs headers in, and only the join keeps it from doing so between packing
and sending; hence the condition `~JoinLate`. That the lists of requests and the
growth of their blocks are what the loops compute is proved as for the scheduler,
by induction on their turns (`ChosenIs`, `GrownIs`).

**What is generated.** From `GenerationAssumption` (a finite vocabulary of
natural numbers, a prompt of more than one token, a positive budget and draft)
and `CaseAssumption` (what validation lets a request ask for, and a target that
gives a row for every window): `GenerationInvariance` (`TypeOK` and `Budget`),
`StopExcludedAlways` (`StopExcluded`), `JsonEndsAlways` (`JsonEnds`),
`DrawsAgreeAlways` (`DrawsAgree`). The last three have a hypothesis each, about
requests the engine speculates on, because a speculative step does not consult
the processors: they have no stop sequences or logprobs (`PlainRequests`), no
JSON mode (`PlainJson`), a target that looks at the last token only
(`LastTokenTargets`). An engine that does not speculate meets all three, and the
configurations of `GenerationStops.cfg` below show that the first and the last
are needed.

*Stop sequences.* The processor looks at the end of the output only, one step
late. So the invariant (`Cutting`) says where no stop sequence ends (`EndsAt`):
before the last token as long as none was seen, up to the cut after that. An
occurrence in the answer would end somewhere in it (`OccursWithin`).

*JSON.* `JsonEnds` is two statements. `NothingAfterEnd` says what may follow a
closed value (the processor's own end token) and a token that ends the request
(nothing); `ClosedGoesOn`, that an answer with a closed value goes on to its
budget where the processor's token does not end it. They read a whole answer,
with counts of brackets, quotes and backslashes; the processor keeps four fields. `Reads` relates them, `ReadsNext`
is one more token, case by case as in `JsonNext`; that a character is escaped
by an odd number of backslashes becomes a rule for one step in `EscapedNext`;
and a reading is about the tokens read only (`ReadingIsOfPrefix`).

*Draws.* `SamplersAgree` is about one row, any row of integers and any
parameters. Tokens are in one order (`Before`), a filter keeps some tokens and
the first of them (`Sifts`), and whatever is sifted in turn keeps the first
(`SiftsTwice`); penalties and temperature keep the tokens, and the first after
scaling is a most likely one (`ScaledIs`). Typical sampling of a row that has
masked tokens is not a filter of that kind: it keeps some tokens
(`KeptInSomeOrder`), and only that they are not none is proved. That a nucleus is the least set of
most likely tokens above `top_p` (`NucleusIs`) needs sums that grow with the
set and a last token to leave out. Powers of two are a recursive function and a
sum is a fold of the library over a set, so both are shown to exist and to be
unique first (`PowerOfTwoDef`, `SummingExists`, `SummingAgree`, `MassIs`). For
speculation, `SpeculationIs` says that each accepted token is the target's
choice after a context that ends like the output.

**Agents and chat.** From `AgentsAssumption` and `ContextAssumption` (sizes,
numbers of workers, steps and tokens; what is said is a sequence): `AgentsHold`
(the inductive invariant `AgentsInv`), `TasksAlwaysAccounted`
(`TasksAccounted`), `ContextAlwaysFits` (`ContextFits`), and, for a model whose
speech is plain, `SpeechStaysExact` (`SpeechExact`).

*Tasks.* The queue holds the pending tasks of the run once (`Queued`), so that
two workers never take the same; a task that is done has one result
(`Recorded`), a running one has one worker and a busy worker a running task
(`Staffed`). That each call in a history is followed by its result has to be
said while tools run as well, of the history with the results that will come
(`Fine`). What a plan and an answer are is proved of the operators
themselves: `FitTyped`, `CompletionTyped`, over lemmas about sums, subsequences
and folds (`Folds` are recursive functions of the library, so each is shown to
exist and to be what its equations say, by induction on the length).

*Speech.* The streaming half: text that is decoded token by token only ever
grows at its end, except that a half character there is replaced, and the
stable part of it never shrinks (`Emit`'s relation in `Stream`); so the chunks
put together are the whole text. The other half: a word of a thought stands
behind an opening mark and before the next closing one (`Tidy`), which the
budget's cut keeps (`Decode` of a prefix), which the closing that the server
adds keeps, and which `Sanitize` removes on each of its three ways, twice; a
summary and a cut message have only words of the messages they were made from.
`PlainSpeech` is about the model, which is external: its words of thoughts stand
in open thoughts, and what is shown never begins with the template's opening
mark again, because the waiting answer then drops one of the two
(`_completions.py:683`), while the stream has sent its own already (line 302).
TLC evaluates `PlainSpeech` for the constants of run `agents`.

*Context.* A history is led by the instructions, nobody but the user speaks as
one, and it asks for the task when it is sent (`Heard`); the server puts its own
message in front and normalizes, which keeps that (`Led`, `SentLed`). So what is
fitted is two messages of the system and the turns of the rest (`LedParts`): the
turns put together are the messages again and the last one begins with the user
(`TurnsAre`, a fold whose invariant is `Grouped`). A plan with a summary ends with
that turn as it is (`NewestRecent`); one whose messages were cut has, place by
place, the role and the first word of what it was cut from (`Likewise`), as the cut
keeps a head of at least one token (`HeadTail`). The sizes are `FitTyped`'s, which
holds because `fit` returns nothing it has not measured; the second pass fits as
its budget is what the first one left.

**Model.** From `RoutesAssumption` (tables map the vocabulary to experts),
`ConfsAssumption` (a source's files hold tensors of one version of the
checkpoint, and `table` says which tables of routes are among them) and
`BatchesAssumption` (a batch fits in the blocks of its sequences):
`RoutesAreVerbatim` (`RoutesVerbatim`) and, for batches whose positions the
mask's type tells apart (`ShortBatches`, which the run `attention_causal` shows to
be needed), `QueriesAttendToTheirPast` (`AttendsOwnPast`). With
`RowsAssumption` (a row is whole groups and whole bytes, as `quantize_int4` demands)
and `LayersAssumption` (the tensors of a quantised layer have the shapes of their
format and hold words its packers make) also `PackedIsExact` (`PackedExact`).

*Routes.* While the state dict is read, the buffers are what the entries behind
say (`RoutesRead`): the full table if it was read, or else what the primary column
gives, or else the initial routes; and `topkRead` is exactly that the full table
was read, which is what keeps a primary column that comes later from deriving
routes over it. That the primary column is the first of the full table although
it comes from another entry, maybe another file, needs that whatever the files,
their merging and the renaming of a framework checkpoint, entries are of one
version (`FileIs`, `ConvertedIs`).

*Attention.* The batch, its parts and the answers are flattened sequences of
sequences. `FlattenSeq` and `compute_cu_seqlens` are recursive functions, whose
turns are found as in the scheduler; `FlattenPlaces` says where an element of a
part is in the whole, `FlattenCovers` that there is nothing else. Hence cutting
the flat batch at `cu_seqlens` gives the sequences again (`SegmentIs`), and in
the one call for equal widths division by the width finds a row's sequence
(`Divided`, `EvenBegins`). In a decode step, the number of a block gives back whose
it is and which (`BlocksAre`); the walk block by block ends with the block of the
last position and cuts it (`PagedDecodeIs`), the gather takes all and masks by
length (`TensorDecodeIs`); both see each position of the past once and nothing
that was left in the cache. Over the history, positions are their own float below
`ExactUpTo` (`RoundedIs`).

*Packed weights.* The invariant only says where a row and a layer come from
(`PackedInv`); the rest is about the operators. `RoundDiv` is off by half a divisor
(`RoundIs`), and clipping does nothing to a quotient that lies in the range
(`RoundWithin`): so both the value and the zero point of a group are off by half a
step, hence their difference by a step (`QuantisedIs`), if zero lies in the group's
range, since else the zero point is clipped. What is put in bytes comes out again
(`UnpackedIs`). A word's nibbles are those it was made of, the top one with its sign
(`NibblesAre`): each place is one more digit of what is above the last
(`NextDigit`, `Above`). Words put together are the whole tensor (`EightsAre`, over
`EvenFlatten`), so an unpacked layer has the weights and zero points of the file
(`WeightsAre`, `ZerosAre`), and its rows mean what the format says
(`ConvertedLayerIs`), unless adding one to the stored zero point was clipped.

Left to TLC. All liveness under fairness, and ENABLED, which the prover does not
reach; and what the expert layers compute (`ForwardExact`), whose sums are bags
folded over whole layers on each of the dispatch paths: what such a fold computes is
induction over data.
## 6. Not modelled

Left out because nothing is decided there, or because no other part reads it:

* swap to CPU and FP8 in `core/kv_cache.py`: nothing in the engine calls
  `swap_out` and `swap_in`, and FP8 changes how a value is stored, not whose it
  is;
* `AdaptiveBatchSizer` (it sizes batches from measured times), LoRA (the step
  does not read the registry of adapters), embeddings, `cpu/engine.py` (one
  request at a time over the same cache and sampler);
* regex and choice processors and beam search, which no request reaches; of the
  rejection sampling of warm requests only which tokens can come, not how often;
* normalisation, activations, rotary angles, vision, the Triton and C++ kernels:
  arithmetic without choices. The models say which rows, weights and keys reach
  them;
* pipeline stages, worker processes and the launcher: calls of
  `torch.distributed`, which decide nothing themselves;
* tokenizer, chat templates, formatting of responses, health, metrics, usage
  counters, events, `doctor` and `status`: reading, counting and writing;
* what tools, the sandbox and retrieval compute, the agent's terminal loop and
  the WebSocket endpoint, which are other front ends to `generate_stream`.

Below the grain of the models: races inside the first and last part of a step
that runs in a thread, on the lists and the heap themselves; a crash of the
server process, which persists nothing and starts empty; and two tools that
operate on one service at the same time, which no lock of the code excludes.

Hazards that are listed without a property: the endless eviction of a pinned
entry (`KVCacheSpin.cfg`) and the progress of a shared prefill
(`SchedulerDivergences.cfg`): the statements one would want are false, and
weaker ones say nothing.

What would come next: the scheduler composed with the K/V cache, to state which
of its decisions depend on blocks it only accounts for; an abstract life cycle
of a request (submitted, computed, answered once) that `AsyncEngine` and
`Disaggregated` implement.
