---------------------------- MODULE MCModelWeights ----------------------------
(* Four experts, tables of two versions that are nothing like cyclic, and the   *)
(* commands, sources and formats that meet in loading.                          *)
EXTENDS ModelWeights

MCRoutes ==
    << <<[t \in 0..4 |-> <<2, 0, 3, 1, 2>>[t + 1]], [t \in 0..4 |-> <<0, 3, 1, 2, 1>>[t + 1]],
         [t \in 0..4 |-> <<3, 1, 0, 0, 3>>[t + 1]]>>,
       <<[t \in 0..4 |-> <<1, 1, 0, 3, 0>>[t + 1]], [t \in 0..4 |-> <<3, 2, 2, 0, 1>>[t + 1]],
         [t \in 0..4 |-> <<0, 3, 1, 2, 2>>[t + 1]]>> >>

Native == {"topk", "primary", "gate", "up", "down", "shared", "attn", "embed", "lm_head", "inv_freq"}
Engine == {"route_table", "expert_gate", "expert_up", "expert_down", "engine_shared",
           "fused_route_codes", "attn", "embed"}
Of(names, v) == [n \in names |-> v]
FileNamed(name, safe, entries) == [name |-> name, safe |-> safe, entries |-> entries]
OneFile(entries) == [index |-> {}, files |-> <<FileNamed("model", TRUE, entries)>>, packs |-> <<>>]

Q == [i \in 1..8 |-> [o \in 1..8 |-> (7 * i + 3 * o + i * o) % 16]]
Z == [g \in 1..2 |-> [o \in 1..8 |-> (5 * g + 2 * o) % 16]]
Scales == [g \in 1..2 |-> [o \in 1..8 |-> g + 2 * o]]
Layer == [qweight |-> <<[o \in 1..8 |-> Packing!WordOf([k \in 1..8 |-> Q[k][o]])]>>,
          qzeros |-> [g \in 1..2 |-> <<Packing!WordOf(Z[g])>>], scales |-> Scales,
          g_idx |-> <<1, 2, 2, 1, 1, 2, 2, 1>>, q |-> Q, z |-> Z]
NoLayer == [q |-> Q]
Without(f, names) == [n \in DOMAIN f \ names |-> f[n]]

Command(tp, device, quant, source, table, version) ==
    [tp |-> tp, device |-> device, quant |-> quant, source |-> source, method |-> "none",
     table |-> table, version |-> version, complete |-> TRUE, kernels |-> FALSE,
     descAct |-> FALSE, quantised |-> NoLayer]
\* A checkpoint with quantised attention in place of "attn".
Prequantised(quant, method, layer, descAct) ==
    [Command(1, "cuda", quant, OneFile(Of((Native \ {"attn"}) \cup {"qweight"}, 1)), "topk", 1)
       EXCEPT !.method = method, !.quantised = layer, !.descAct = descAct]

Devices == { Command(1, "cpu", "none", OneFile(Of(Native, 1)), "topk", 1),
             Command(1, "cpu", "int8", OneFile(Of(Native, 1)), "topk", 1),
             Command(2, "cuda", "none", OneFile(Of(Native \ {"embed", "inv_freq"}, 1)), "topk", 1),
             Command(1, "mps", "none", OneFile(Of(Engine, 1)), "topk", 1),
             Command(2, "cpu", "none", OneFile(Of(Engine, 1)), "topk", 1),
             Command(1, "cuda", "fp8", OneFile(Of(Native \ {"topk", "lm_head"}, 1)), "primary", 1),
             Command(1, "cuda", "int4", OneFile(Of(Engine, 1)), "topk", 1) }
\* Kernels next to a model on two ranks.
Kernels == { [Command(2, "cuda", "none", OneFile(Of(Engine, 1)), "topk", 1)
                EXCEPT !.kernels = TRUE] }
First == {"topk", "gate", "attn", "embed"}
Sources ==
    { \* an index over two shards, beside an older model.safetensors
      Command(1, "cuda", "none",
        [index |-> {"a", "b"}, packs |-> <<>>,
         files |-> <<FileNamed("a", TRUE, Of(First, 2)),
                     FileNamed("b", TRUE, Of({"up", "down", "shared"}, 2)),
                     FileNamed("model", TRUE, Of(Native, 1))>>], "topk", 2),
      \* a shard that is not there
      [Command(1, "cuda", "none",
        [index |-> {"a", "b"}, packs |-> <<>>,
         files |-> <<FileNamed("a", TRUE, Of(First, 2))>>], "topk", 2) EXCEPT !.complete = FALSE],
      \* loose files, and a pytorch file that is older than they are
      Command(1, "cpu", "none",
        [index |-> {}, packs |-> <<>>,
         files |-> <<FileNamed("a", TRUE, Of({"primary", "gate", "attn", "embed"}, 2)),
                     FileNamed("b", TRUE, Of({"up", "down", "shared"}, 2)),
                     FileNamed("c", FALSE, Of(Native, 1))>>], "primary", 2),
      \* a file per training step
      Command(1, "cpu", "none",
        [index |-> {}, files |-> <<>>, packs |-> <<Of(Native, 1), Of(Engine, 2)>>], "topk", 2),
      \* experts without their down projection, and nothing at all
      [Command(1, "cuda", "none",
         [index |-> {}, packs |-> <<>>,
          files |-> <<FileNamed("c", FALSE, Of(Native \ {"down", "lm_head"}, 1))>>], "topk", 1)
         EXCEPT !.complete = FALSE],
      [Command(1, "cuda", "none", [index |-> {}, files |-> <<>>, packs |-> <<>>], "none", 1)
         EXCEPT !.complete = FALSE],
      \* a checkpoint of the projections alone
      [Command(1, "cpu", "none", OneFile(Of({"attn", "embed"}, 1)), "none", 1)
         EXCEPT !.complete = FALSE] }
PrequantisedCommands ==
    { Prequantised("none", "awq", Without(Layer, {"g_idx"}), FALSE),
      Prequantised("gptq", "gptq", Without(Layer, {"qzeros"}), FALSE),
      Prequantised("none", "gptq", Layer, TRUE),
      Prequantised("none", "awq", Without(Layer, {"scales"}), FALSE),
      Prequantised("awq", "gptq", Layer, FALSE),
      [Prequantised("none", "awq", Layer, FALSE) EXCEPT !.tp = 2],
      \* the first routes alone, which nothing derives the others from
      [Prequantised("none", "awq", Layer, FALSE) EXCEPT !.table = "primary",
         !.source = OneFile(Of((Native \ {"attn", "topk"}) \cup {"qweight"}, 1))] }
MCConfs == Devices \cup Kernels \cup Sources
           \cup {[c EXCEPT !.complete = FALSE] : c \in PrequantisedCommands}

Shape(lens, past, tokens) == [lens |-> lens, past |-> past, tokens |-> tokens]
MCBatches == { Shape(<<1>>, 0, <<2>>), Shape(<<1, 1, 1, 1, 1>>, 3, <<0, 1, 2, 3, 4>>),
               Shape(<<2, 2>>, 0, <<0, 3, 0, 1>>), Shape(<<1, 2>>, 2, <<4, 2, 1>>),
               Shape(<<1, 1>>, 1, <<3, 3>>), Shape(<<3, 1, 2>>, 0, <<1, 0, 4, 4, 2, 2>>) }
\* One command, and a prompt longer than the float type of the mask counts exactly.
PlainConfs == {Command(1, "cuda", "none", OneFile(Of(Native, 1)), "topk", 1)}
LongBatches == { Shape(<<6>>, 0, <<0, 1, 2, 3, 4, 0>>) }
MCKernelBatches == { <<3>>, <<0, 4, 1>>, <<2, 0, 2, 1>> }
MCRows == {<<a, b, c, d>> : a \in -4..3, b \in {-3, 0, 2}, c \in {-2, 5}, d \in {-7, 1, 6}}
===============================================================================
