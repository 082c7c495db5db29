----------------------------- MODULE ModelWeights -----------------------------
(* A model from its checkpoint to its answers: load_model_by_name finds the     *)
(* files, reads the tensors in the order the state dict has them, takes each    *)
(* rank's share, fuses projections and quantises; then batches run through one  *)
(* decoder layer. The layers of a model are alike and share nothing, so there   *)
(* is one.                                                                      *)
(*                                                                              *)
(* A tensor of the file is a name with the version of the checkpoint it belongs *)
(* to; names are the part after "layers.N.mlp." or "model.". conf is the        *)
(* command: number of ranks, device, quantisation asked for, the source, the    *)
(* method its config.json states, and whether the kernels are run beside it.    *)
EXTENDS TokenRouting, AttentionPaths
Packing == INSTANCE PackedWeights

CONSTANTS Confs,
          Routes,               \* per version, the table of the checkpoint
          Inter, SharedInter,   \* columns of an expert, of the shared expert
          Batches,              \* [lens, past, tokens]: new tokens per sequence
          KernelBatches, Rows, GroupSize

VARIABLES conf, phase, todo, staged, topkRead, weights, layers, output
modelVars == <<conf, phase, todo, staged, topkRead, weights, layers, output>>

Random == <<0, "random">>
None == [kind |-> "none"]
Missing == [absent |-> 0]

(****************************** contents ******************************)
Columns(v, part, n) == [j \in 1..n |-> IF v = 0 THEN Random ELSE <<v, part, j>>]
ExpertColumns(v, part) == [e \in Experts |-> Columns(v, <<part, e>>, Inter)]
\* The tag of a part that is no expert's.
Whole(part) == <<part, NumExperts>>
Shared(v) == [gate |-> Columns(v, Whole("gate"), SharedInter),
              up |-> Columns(v, Whole("up"), SharedInter),
              down |-> Columns(v, Whole("down"), SharedInter), packed |-> FALSE]
Attention(v) == [q |-> Columns(v, Whole("q"), NumHeads),
                 k |-> Columns(v, Whole("k"), NumKvHeads),
                 v |-> Columns(v, Whole("v"), NumKvHeads)]
Freed == [freed |-> TRUE]

\* load_full_weights: a rank's columns of each expert.
LoadFullWeights(gate, up, down, ranks, rank) ==
    LET per == Inter \div ranks
        share(part) == [e \in Experts |-> SubSeq(part[e], (rank - 1) * per + 1, rank * per)]
    IN [gate |-> share(gate), up |-> share(up), down |-> share(down), packed |-> FALSE]
LayersFrom(versions, ranks) ==
    [rank \in 1..ranks |->
       LoadFullWeights(ExpertColumns(versions.gate, "gate"), ExpertColumns(versions.up, "up"),
                       ExpertColumns(versions.down, "down"), ranks, rank)]
Untrained == [gate |-> 0, up |-> 0, down |-> 0]

(****************************** the files ******************************)
\* A repository with a model.safetensors is taken whole; one with a file per
\* training step gives its latest.
Resolved(source) ==
    IF source.files # <<>> THEN source
    ELSE IF source.packs = <<>> THEN source
    ELSE [source EXCEPT !.files =
            <<[name |-> "model", safe |-> TRUE,
               entries |-> source.packs[Max(DOMAIN source.packs)]]>>]

EmptyDict == [n \in {} |-> 0]
\* The files of an index; without one model.safetensors, else all safetensors,
\* else all PyTorch files.
FilesRead(source) ==
    LET files == ToSet(source.files)
        safe == {f \in files : f.safe}
        single == {f \in safe : f.name = "model"}
    IN IF source.index # {} THEN {f \in safe : f.name \in source.index}
       ELSE IF single # {} THEN single
       ELSE IF safe # {} THEN safe ELSE files
\* dict.update, file by file: the last file that has a name gives its tensor.
Merged(files, read) ==
    [n \in UNION {DOMAIN f.entries : f \in read} |->
       LET having == {i \in DOMAIN files : files[i] \in read /\ n \in DOMAIN files[i].entries}
       IN files[Max(having)].entries[n]]
StateDict(source) ==
    LET read == FilesRead(source)
    IN IF read = {} \/ ~(source.index \subseteq {f.name : f \in read}) THEN Missing
       ELSE Merged(source.files, read)

\* complexity-framework names; one route table gives both of the native ones.
EngineNames == [expert_gate |-> {"gate"}, expert_up |-> {"up"}, expert_down |-> {"down"},
                engine_shared |-> {"shared"}, route_table |-> {"topk", "primary"},
                fused_route_codes |-> {}]
NativeNames(n) == IF n \in DOMAIN EngineNames THEN EngineNames[n] ELSE {n}
Converted(dict) ==
    [n \in UNION {NativeNames(m) : m \in DOMAIN dict} |->
       dict[CHOOSE m \in DOMAIN dict : n \in NativeNames(m)]]

Quantised(c) == IF c.quant = "none" THEN c.method ELSE c.quant
PreQuantised(c) == Quantised(c) \in {"awq", "gptq"}
FileOf(c) == StateDict(Resolved(c.source))

\* What a command says of its source: all entries of the files that are read
\* belong to one version of the checkpoint, and they hold this table of routes.
NamesRead(c) == UNION {DOMAIN f.entries : f \in FilesRead(Resolved(c.source))}
TableIn(names) == IF names \cap {"topk", "route_table"} # {} THEN "topk"
                  ELSE IF "primary" \in names THEN "primary" ELSE "none"

ASSUME RoutesAssumption ==
    /\ {NumExperts, VocabSize, NumRoutes} \subseteq Nat \ {0}
    /\ \A v \in DOMAIN Routes :
          Routes[v] \in [1..NumRoutes -> [0..(VocabSize - 1) -> Experts]]
ASSUME ConfsAssumption ==
    \A c \in Confs :
       LET source == Resolved(c.source)
       IN /\ source.files \in Seq(ToSet(source.files))
          /\ \A f \in FilesRead(source) : \A n \in DOMAIN f.entries : f.entries[n] = c.version
          /\ c.version \in DOMAIN Routes /\ c.table = TableIn(NamesRead(c))

\* A batch has its places in the blocks of the cache.
ASSUME BatchesAssumption ==
    /\ {BlockSize, MaxBlocks, ExactUpTo} \subseteq Nat \ {0}
    /\ \A batch \in Batches :
          /\ batch.lens \in Seq(Nat \ {0}) /\ batch.past \in Nat
          /\ \A s \in DOMAIN batch.lens : batch.past + batch.lens[s] <= MaxBlocks * BlockSize

\* Rows to quantise are whole groups, two weights to a byte.
ASSUME RowsAssumption ==
    /\ GroupSize \in Nat \ {0}
    /\ \A row \in Rows : row \in Seq(Int) /\ Len(row) % GroupSize = 0 /\ Len(row) % 2 = 0

\* The files of a quantised layer: q and z are the weights and the stored zero
\* points, inputs by outputs and groups by outputs, as the packers were given them.
PackedLayer(file) ==
    LET words == Len(file.qweight)
        outs == Len(file.q[1])
        groups == Len(file.scales)
    IN /\ {words, outs, groups} \subseteq Nat \ {0}
       /\ (Packing!PerWord * words) % groups = 0
       /\ file.q \in [1..(Packing!PerWord * words) -> [1..outs -> 0..Packing!Levels]]
       /\ file.qweight = [r \in 1..words |-> [o \in 1..outs |->
             Packing!WordOf([k \in 1..Packing!PerWord |-> file.q[Packing!PerWord * (r - 1) + k][o]])]]
       /\ file.scales \in [1..groups -> [1..outs -> Int]]
       /\ "qzeros" \in DOMAIN file =>
             /\ outs % Packing!PerWord = 0
             /\ file.z \in [1..groups -> [1..outs -> 0..Packing!Levels]]
             /\ file.qzeros = [g \in 1..groups |-> [w \in 1..(outs \div Packing!PerWord) |->
                  Packing!WordOf([k \in 1..Packing!PerWord |-> file.z[g][Packing!PerWord * (w - 1) + k]])]]
ASSUME LayersAssumption ==
    \A c \in Confs : PreQuantised(c) /\ "scales" \in DOMAIN c.quantised => PackedLayer(c.quantised)

(****************************** loading ******************************)
ModelInit ==
    /\ conf \in Confs
    /\ phase = "closed"
    /\ todo = EmptyDict /\ staged = EmptyDict /\ topkRead = FALSE
    /\ weights = [topk |-> InitialRoutes, primary |-> InitialRoutes[1], embed |-> 0,
                  shared |-> Shared(0), attn |-> Attention(0), int4 |-> None]
    /\ layers = LayersFrom(Untrained, conf.tp)
    /\ output = None

\* AWQ and GPTQ loaders check the config.json for themselves.
Open ==
    /\ phase = "closed"
    /\ LET file == FileOf(conf)
       IN IF \/ file = Missing
             \/ PreQuantised(conf) /\ Quantised(conf) # conf.method
          THEN phase' = "failed" /\ UNCHANGED todo
          ELSE /\ phase' = IF PreQuantised(conf) THEN "packed" ELSE "reading"
               /\ todo' = IF PreQuantised(conf) THEN file ELSE Converted(file)
    /\ UNCHANGED <<conf, staged, topkRead, weights, layers, output>>

\* The next entry of the state dict. A framework table is converted to its two
\* names side by side, the full one first.
Take(n) ==
    /\ phase = "reading" /\ n \in DOMAIN todo
    /\ ~(n = "primary" /\ "topk" \in DOMAIN todo /\ "route_table" \in DOMAIN FileOf(conf))
    /\ todo' = [m \in DOMAIN todo \ {n} |-> todo[m]]
    /\ UNCHANGED <<conf, phase, layers, output>>

ReadTopk ==
    /\ Take("topk")
    /\ weights' = [weights EXCEPT !.topk = Routes[todo["topk"]],
                                  !.primary = Routes[todo["topk"]][1]]
    /\ topkRead' = TRUE
    /\ UNCHANGED staged

DerivesAlways(read) == TRUE       \* mutant: routes derived over a table already read
\* A primary table alone gives the other routes cyclically.
Derives(read) == ~read
ReadPrimary ==
    /\ Take("primary")
    /\ LET primary == Routes[todo["primary"]][1]
       IN weights' = [weights EXCEPT !.primary = primary,
                                     !.topk = IF Derives(topkRead) THEN Cyclic(primary) ELSE @]
    /\ UNCHANGED <<staged, topkRead>>

ReadExpertPart(n) ==
    /\ n \in {"gate", "up", "down"} /\ Take(n)
    /\ staged' = [m \in DOMAIN staged \cup {n} |-> IF m = n THEN todo[n] ELSE staged[m]]
    /\ UNCHANGED <<topkRead, weights>>

\* Tied embeddings: lm_head is copied over embed_tokens, which is not read again.
ReadHead ==
    /\ Take("lm_head")
    /\ weights' = [weights EXCEPT !.embed = todo["lm_head"]]
    /\ UNCHANGED <<staged, topkRead>>
ReadEmbedding ==
    /\ Take("embed")
    /\ LET headRead == "lm_head" \in DOMAIN FileOf(conf) /\ "lm_head" \notin DOMAIN todo
       IN weights' = IF headRead THEN weights ELSE [weights EXCEPT !.embed = todo["embed"]]
    /\ UNCHANGED <<staged, topkRead>>

ReadParameter ==
    /\ \/ /\ Take("shared")
          /\ weights' = [weights EXCEPT !.shared = Shared(todo["shared"])]
       \/ /\ Take("attn")
          /\ weights' = [weights EXCEPT !.attn = Attention(todo["attn"])]
    /\ UNCHANGED <<staged, topkRead>>

\* rotary_emb.inv_freq, and names the model does not have.
SkipEntry ==
    /\ \E n \in {"inv_freq", "qweight"} : Take(n)
    /\ UNCHANGED <<staged, topkRead, weights>>

\* All three parts of the experts, or none of them.
Assemble ==
    /\ phase = "reading" /\ DOMAIN todo = {}
    /\ IF DOMAIN staged \notin {{}, DOMAIN Untrained}
       THEN phase' = "failed" /\ UNCHANGED layers
       ELSE /\ phase' = "loaded"
            /\ layers' = IF DOMAIN staged = {} THEN layers ELSE LayersFrom(staged, conf.tp)
    /\ UNCHANGED <<conf, todo, staged, topkRead, weights, output>>

(* Checkpoints that are quantised already: the linear layers are converted to   *)
(* int4 buffers and their float weight is dropped; everything else is copied    *)
(* whole, so that expert tensors fit one rank only.                             *)
PackedOrder == IF conf.descAct /\ "g_idx" \in DOMAIN conf.quantised
               THEN Packing!Reorderings(conf.quantised.g_idx) ELSE {<<>>}
LoadPacked ==
    /\ phase = "packed"
    /\ LET names == DOMAIN todo
           Version(n) == IF n \in names THEN todo[n] ELSE 0
           parts == [p \in DOMAIN Untrained |-> Version(p)]
       IN IF conf.tp > 1 /\ names \cap DOMAIN Untrained # {}
          THEN phase' = "failed" /\ UNCHANGED <<weights, layers>>
          ELSE /\ phase' = "loaded"
               /\ layers' = LayersFrom(parts, conf.tp)
               /\ \E order \in PackedOrder :
                    weights' =
                      [topk |-> IF "topk" \in names THEN Routes[todo["topk"]] ELSE weights.topk,
                       primary |-> IF "primary" \in names THEN Routes[todo["primary"]][1]
                                   ELSE weights.primary,
                       embed |-> Version("embed"), shared |-> Shared(Version("shared")),
                       attn |-> IF "qweight" \in names /\ "scales" \in DOMAIN conf.quantised
                                THEN Freed ELSE Attention(Version("attn")),
                       int4 |-> IF "qweight" \in names /\ "scales" \in DOMAIN conf.quantised
                                THEN [kind |-> "int4", order |-> order,
                                      rows |-> Packing!ConvertLayer(conf.quantised, order)]
                                ELSE None]
    /\ todo' = EmptyDict
    /\ UNCHANGED <<conf, staged, topkRead, output>>

(****************************** fusing and quantising ******************************)
FuseGateUp(mlp) == [gateUp |-> mlp.gate \o mlp.up, down |-> mlp.down, packed |-> FALSE]
FuseQkv(attn) == [qkv |-> attn.q \o attn.k \o attn.v,
                  splits |-> <<Len(attn.q), Len(attn.k), Len(attn.v)>>]
MaterializeExpertLinears(layer) ==
    [gateUp |-> [e \in Experts |-> layer.gate[e] \o layer.up[e]],
     down |-> layer.down, packed |-> FALSE]

FusionAllowed(c) ==
    /\ ~PreQuantised(c)
    /\ c.device = "cpu" \/ Quantised(c) = "none"
Fuse ==
    /\ phase = "loaded" /\ phase' = "fused"
    /\ IF FusionAllowed(conf)
       THEN /\ layers' = [rank \in DOMAIN layers |-> MaterializeExpertLinears(layers[rank])]
            /\ weights' = [weights EXCEPT !.shared = FuseGateUp(@), !.attn = FuseQkv(@)]
       ELSE UNCHANGED <<layers, weights>>
    /\ UNCHANGED <<conf, todo, staged, topkRead, output>>

(* int8 on a CPU packs every nn.Linear. fp8 looks for DenseMLP, which no model   *)
(* builds. Everything else goes through seven converters in turn, whatever      *)
(* class each looks for; each begins with its imports, and the attention        *)
(* converter imports a module the package does not have.                        *)
Converters == <<"quantization", "dense_mlp", "models.llama", "complexity_deep",
                "complexity_deep", "quantization", "rmsnorm">>
Package == {"quantization", "dense_mlp", "complexity_deep", "rmsnorm"}
Quantise ==
    /\ phase = "fused"
    /\ LET method == Quantised(conf)
           onCpu == method = "int8" /\ conf.device = "cpu"
           converted == method \in {"int8", "int4"} /\ ~onCpu
       IN /\ phase' = IF converted /\ ~(Range(Converters) \subseteq Package)
                      THEN "failed" ELSE "ready"
          /\ layers' = IF onCpu THEN [rank \in DOMAIN layers |->
                                        [layers[rank] EXCEPT !.packed = TRUE]]
                       ELSE layers
          /\ weights' = IF onCpu THEN [weights EXCEPT !.shared.packed = TRUE] ELSE weights
    /\ UNCHANGED <<conf, todo, staged, topkRead, output>>

(****************************** running ******************************)
\* Keys of sequence s at its new positions, and at all of them.
NewKeys(batch, s) == [t \in 1..batch.lens[s] |-> <<s, batch.past + t - 1>>]
History(batch, s) == [p \in 1..(batch.past + batch.lens[s]) |-> <<s, p - 1>>]

\* The blocks the cache gave the sequences: each its own, in no special order;
\* block 0 is nobody's, and places past the end hold what was left there.
BlockTable(batch, s) ==
    [b \in 1..MaxBlocks |-> IF (b - 1) * BlockSize <= batch.past
                            THEN (s - 1) * MaxBlocks + MaxBlocks + 1 - b ELSE -1]
CacheOf(batch) ==
    [id \in 0..(Len(batch.lens) * MaxBlocks) |->
       [k \in 1..BlockSize |->
          LET s == (id - 1) \div MaxBlocks + 1
              b == s * MaxBlocks + 1 - id
              pos == (b - 1) * BlockSize + k - 1
          IN IF id > 0 /\ pos <= batch.past THEN <<s, pos>> ELSE <<0, 0>>]]

Attended(batch, way, device) ==
    LET seqs == DOMAIN batch.lens
    IN CASE way = "plain" ->
              PrefillAttention(FlattenSeq([s \in seqs |-> NewKeys(batch, s)]),
                               batch.lens, device)
         [] way = "cached" ->
              FlattenSeq([s \in seqs |->
                 CachedAttention(History(batch, s),
                                 [t \in 1..batch.lens[s] |-> batch.past + t - 1])])
         [] way = "decode" ->
              [s \in seqs |-> DecodeAttention(BlockTable(batch, s), batch.past + 1,
                                              CacheOf(batch), device)]

Projections(attn) ==
    IF "qkv" \in DOMAIN attn
    THEN LET n == attn.splits
         IN <<SubSeq(attn.qkv, 1, n[1]), SubSeq(attn.qkv, n[1] + 1, n[1] + n[2]),
              SubSeq(attn.qkv, n[1] + n[2] + 1, n[1] + n[2] + n[3])>>
    ELSE <<attn.q, attn.k, attn.v>>

\* How a batch may run: decode steps are what graphs are captured of.
Ways(batch) ==
    (IF batch.past = 0 THEN {<<"plain", FALSE>>} ELSE {}) \cup {<<"cached", FALSE>>}
    \cup (IF Range(batch.lens) = {1}
          THEN {<<"decode", g>> : g \in {FALSE} \cup {conf.device # "cpu"}} ELSE {})

Forward ==
    /\ phase = "ready"
    /\ \E batch \in Batches : \E way \in Ways(batch) :
         IF weights.attn = Freed
         THEN phase' = "failed" /\ UNCHANGED output
         ELSE /\ output' = [kind |-> "forward", batch |-> batch,
                            qkv |-> Projections(weights.attn),
                            attended |-> Attended(batch, way[1], conf.device),
                            mlp |-> MlpForward(layers, weights.shared, weights.topk,
                                               batch.tokens, conf.device, way[2])]
              /\ UNCHANGED phase
    /\ UNCHANGED <<conf, todo, staged, topkRead, weights, layers>>

\* The kernels over the experts of the file, cut to the ranks.
FullExperts(v) == MaterializeExpertLinears(
    [gate |-> ExpertColumns(v, "gate"), up |-> ExpertColumns(v, "up"),
     down |-> ExpertColumns(v, "down")])
KernelKinds == {"float", "int8", "int4", "scatter", "mask"}
Kernel(kind, layer, xs, ids, tokens, order) ==
    CASE kind = "float" -> FusedForward(layer, xs, ids)
      [] kind = "int8" -> FusedForwardInt8(QuantiseExperts(layer, kind, GroupSize), xs, ids)
      [] kind = "int4" -> FusedForwardInt4(QuantiseExperts(layer, kind, GroupSize), xs, ids,
                                           GroupSize)
      [] kind = "scatter" -> ScatterGather(layer, xs, ids, order)
      [] kind = "mask" -> FullPipeline(layer, xs, tokens)
RunKernel ==
    /\ phase = "ready" /\ conf.kernels
    /\ \E tokens \in KernelBatches, kind \in KernelKinds :
         LET xs == [i \in DOMAIN tokens |-> i]
             ids == Route(weights.topk, tokens)[1]
             shard(rank) == ShardExpertWeights(FullExperts(1), conf.tp, rank)
         IN \E order \in IF kind = "scatter" THEN SortedOrders(ids) ELSE {<<>>} :
              output' = [kind |-> kind, tokens |-> tokens,
                         rows |-> AllReduce([rank \in 1..conf.tp |->
                                    Kernel(kind, shard(rank), xs, ids, tokens, order)])]
    /\ UNCHANGED <<conf, phase, todo, staged, topkRead, weights, layers>>

\* quantize_int4 of one row.
QuantiseRow ==
    /\ phase = "ready" /\ conf.kernels
    /\ \E row \in Rows :
         output' = [kind |-> "row", row |-> row,
                    int4 |-> Packing!QuantizeInt4(row, GroupSize),
                    int8 |-> Packing!QuantizeInt8(row)]
    /\ UNCHANGED <<conf, phase, todo, staged, topkRead, weights, layers>>

ModelNext ==
    \/ Open \/ ReadTopk \/ ReadPrimary
    \/ \E n \in DOMAIN Untrained : ReadExpertPart(n)
    \/ ReadHead \/ ReadEmbedding \/ ReadParameter \/ SkipEntry
    \/ Assemble \/ LoadPacked \/ Fuse \/ Quantise
    \/ Forward \/ RunKernel \/ QuantiseRow
ModelSpec == ModelInit /\ [][ModelNext]_modelVars

(****************************** properties ******************************)
Loaded == phase \in {"loaded", "fused", "ready"}
\* What conf says the source holds, independent of how it is read.
TrainedRoutes ==
    CASE conf.table = "topk" -> Routes[conf.version]
      [] conf.table = "primary" -> Cyclic(Routes[conf.version][1])
      [] conf.table = "none" -> InitialRoutes

RoutesAsTrained == weights.topk = TrainedRoutes /\ weights.primary = TrainedRoutes[1]

\* The loaders of packed checkpoints copy the tables under the model's own names
\* and derive nothing: such a checkpoint has both of them, or none at all.
TablesWhole(c) ==
    PreQuantised(c) => c.table = "none" \/ {"topk", "primary"} \subseteq DOMAIN FileOf(c)

\* In whatever order the entries come, and from whichever of the files, formats
\* and training steps a source holds, tokens are routed by the checkpoint's own
\* table; routes are derived cyclically only where it has none but the first.
RoutesVerbatim == Loaded /\ TablesWhole(conf) => RoutesAsTrained

\* token_routed_mlp.py:89: "The exported checkpoint stores the primary route.
\* Additional routes are derived cyclically, exactly as in the paper evaluation
\* runtime." Of a packed checkpoint as well.
RoutesDerived == Loaded => weights.topk = TrainedRoutes

\* The answer a batch should get: every route's expert with all its columns and
\* the route's weight, and the shared expert. A row quantised on the fly is
\* scaled together with the rows of its route that go to the same expert.
TrainedExpert(v, x, e) ==
    ToBag([j \in 1..Inter |-> <<x, <<v, <<"gate", e>>, j>>, <<v, <<"up", e>>, j>>,
                                <<v, <<"down", e>>, j>>>>])
TrainedAnswer(tokens, i) ==
    LET v == conf.version
        e(r, n) == TrainedRoutes[r][tokens[n]]
        row(together) == <<i, IF conf.quant = "int8" THEN together ELSE {}>>
        x(r) == row({n \in DOMAIN tokens : e(r, n) = e(r, i)})
        weight(r) == RoutedScale * (IF r = 1 THEN PrimaryWeight ELSE 1)
        shared == [j \in 1..SharedInter |->
                     <<row(DOMAIN tokens), <<v, Whole("gate"), j>>,
                       <<v, Whole("up"), j>>, <<v, Whole("down"), j>>>>]
    IN Total([r \in 1..NumRoutes |-> Times(weight(r), TrainedExpert(v, x(r), e(r, i)))])
       (+) Times(SharedScale, ToBag(shared))

\* Whatever the number of ranks, the device, the fusion and the way a batch is
\* dispatched, a row gets the answer its checkpoint defines, and so do the
\* projections; the kernels compute the same on the experts they are given.
ForwardExact ==
    /\ output.kind = "forward" /\ conf.complete =>
         /\ output.mlp = [i \in DOMAIN output.batch.tokens |-> TrainedAnswer(output.batch.tokens, i)]
         /\ output.qkv = LET attn == Attention(conf.version) IN <<attn.q, attn.k, attn.v>>
    /\ output.kind \in KernelKinds =>
         output.rows = [i \in DOMAIN output.tokens |->
             TrainedExpert(1, i, IF output.kind = "mask" THEN output.tokens[i] % NumExperts
                                 ELSE TrainedRoutes[1][output.tokens[i]])]

\* A query attends to its own sequence, from the first position to its own, and
\* its head reads the key/value head of its group: in a batch without a cache,
\* over the history in the cache, and in both kinds of decode step.
OwnPast(batch, s) ==
    [t \in 1..batch.lens[s] |-> Attends({<<s, p>> : p \in 0..(batch.past + t - 1)})]
AttendsOwnPast ==
    output.kind = "forward" =>
        LET batch == output.batch
        IN output.attended = FlattenSeq([s \in DOMAIN batch.lens |-> OwnPast(batch, s)])

\* A quantised value is off by no more than a step, for a group on both sides of
\* zero, and a converted checkpoint means what its format says: (q - (stored zero
\* + 1)) * scale, for stored zeros below the last.
PackedExact ==
    /\ output.kind = "row" =>
         LET row == output.row
             four == Packing!DequantizeInt4(output.int4, GroupSize)
             eight == Packing!DequantizeInt8(output.int8)
             within(error, bound) == error <= bound /\ -error <= bound
             group(j) == Packing!Groups(row, GroupSize)[GroupOf(j, GroupSize)]
             span(g) == Max(Range(g)) - Min(Range(g))
         IN \A j \in DOMAIN row :
              /\ Min(Range(group(j))) <= 0 /\ Max(Range(group(j))) >= 0
                   => within(four[j] - Packing!Levels * row[j], span(group(j)))
              /\ within(2 * (eight[j] - 127 * row[j]), Max({row[k] : k \in DOMAIN row}
                                                          \cup {-row[k] : k \in DOMAIN row}))
    /\ weights.int4.kind = "int4" /\ weights.int4.order = <<>> =>
         LET file == conf.quantised
             size == Len(file.q) \div Len(file.scales)
             zero(g, o) == IF "qzeros" \in DOMAIN file THEN file.z[g][o] + 1 ELSE 8
         IN \A o \in DOMAIN file.q[1], i \in DOMAIN file.q :
              LET g == GroupOf(i, size)
              IN zero(g, o) <= 15 =>
                   Packing!DequantizeInt4(weights.int4.rows[o], size)[i]
                     = (file.q[i][o] - zero(g, o)) * file.scales[g][o]

\* loader.py: "int8"/"int4": post-load quantization of float checkpoints.
\* A complete checkpoint loads, and its model runs, with every quantisation.
QuantizationsLoad == conf.complete => phase # "failed"
===============================================================================
