----------------------------- MODULE TokenRouting -----------------------------
(* The token-routed expert layer: which experts a token goes to, the paths by   *)
(* which a batch is dispatched to them, and the kernels that do the same work   *)
(* on weights kept in one tensor per projection.                                *)
(*                                                                              *)
(* A weight column is an opaque value that names where it comes from. The SwiGLU *)
(* of a row x pairs a gate column with an up column and a down row, so what an  *)
(* expert returns is a bag of <<x, gate, up, down>>, sums are unions of bags and *)
(* scalar weights are multiplicities. A batch is a sequence of distinct rows.   *)
EXTENDS Integers, Sequences, SequencesExt, FiniteSetsExt, Bags

CONSTANTS NumExperts, VocabSize, NumRoutes,
          PrimaryWeight,        \* of the first route; every other one weighs 1
          SharedScale, RoutedScale,
          BmmThreshold          \* rows up to which the kernels use bmm

Experts == 0..(NumExperts - 1)
CombinedFrom == 4               \* rows from which the routes share one pass

Times(w, bag) == [t \in DOMAIN bag |-> w * bag[t]]
Total(bags) == FoldLeft(LAMBDA a, b : a (+) b, EmptyBag, bags)
Weighted(routes) ==
    [i \in DOMAIN Head(routes) |->
        Total([r \in 1..NumRoutes |->
                 Times(IF r = 1 THEN PrimaryWeight ELSE 1, routes[r][i])])]
\* Every rank holds part of the columns; all_reduce adds what they computed.
AllReduce(outs) == [i \in DOMAIN Head(outs) |->
                      Total([rank \in DOMAIN outs |-> outs[rank][i]])]

(****************************** routes ******************************)
Cyclic(primary) == [r \in 1..NumRoutes |-> [t \in DOMAIN primary |->
                                         (primary[t] + r - 1) % NumExperts]]
InitialRoutes == Cyclic([t \in 0..(VocabSize - 1) |-> t % NumExperts])

Clamp(n, low, high) == IF n < low THEN low ELSE IF n > high THEN high ELSE n
Route(table, tokens) ==
    [r \in 1..NumRoutes |->
       [i \in DOMAIN tokens |-> table[r][Clamp(tokens[i], 0, VocabSize - 1)]]]

(****************************** one expert ******************************)
SwiGLU(x, gate, up, down) ==
    ToBag([j \in DOMAIN down |-> <<x, gate[j], up[j], down[j]>>])

\* chunk(2, dim=-1) of a fused projection.
GateHalf(gateUp) == SubSeq(gateUp, 1, Len(gateUp) \div 2)
UpHalf(gateUp) == SubSeq(gateUp, Len(gateUp) \div 2 + 1, Len(gateUp))

Fused(layer) == "gateUp" \in DOMAIN layer
Expert(layer, e, x) ==
    IF Fused(layer)
    THEN SwiGLU(x, GateHalf(layer.gateUp[e]), UpHalf(layer.gateUp[e]), layer.down[e])
    ELSE SwiGLU(x, layer.gate[e], layer.up[e], layer.down[e])

\* Dynamic int8 scales the rows of one call together, so what a packed expert
\* sees of a row depends on the rows that are with it.
Seen(layer, xs, together, i) ==
    <<xs[i], IF layer.packed THEN {xs[j] : j \in together} ELSE {}>>

(****************************** dispatch ******************************)
DenseExperts(layer, xs, ids) ==
    [i \in DOMAIN xs |->
       Total([n \in 1..NumExperts |->
                IF ids[i] = n - 1
                THEN Expert(layer, n - 1, Seen(layer, xs, DOMAIN xs, i)) ELSE EmptyBag])]

SparseExperts(layer, xs, ids) ==
    [i \in DOMAIN xs |->
       LET together == {j \in DOMAIN xs : ids[j] = ids[i]}
       IN IF ids[i] \in Experts
          THEN Expert(layer, ids[i], Seen(layer, xs, together, i)) ELSE EmptyBag]

ExpertForward(layers, xs, ids, dense) ==
    AllReduce([rank \in DOMAIN layers |->
                 IF dense THEN DenseExperts(layers[rank], xs, ids)
                 ELSE SparseExperts(layers[rank], xs, ids)])

RouteByRoute(layers, xs, routes, dense) ==
    Weighted([r \in 1..NumRoutes |-> ExpertForward(layers, xs, routes[r], dense)])

\* Every route of every row in one pass: the batch is repeated, route-major.
SparseTopk(layers, xs, routes) ==
    LET n == Len(xs)
        outs == ExpertForward(layers,
                    [p \in 1..(NumRoutes * n) |-> xs[((p - 1) % n) + 1]],
                    FlattenSeq(routes), FALSE)
    IN Weighted([r \in 1..NumRoutes |-> [i \in 1..n |-> outs[(r - 1) * n + i]]])

\* Fixed shapes: each expert's output for all rows is kept and masked per route.
DenseTopk(layers, xs, routes) ==
    LET kept(layer) == [e \in Experts |-> [i \in DOMAIN xs |->
                          Expert(layer, e, Seen(layer, xs, DOMAIN xs, i))]]
        routed(layer, r) ==
            LET outs == kept(layer)
            IN [i \in DOMAIN xs |->
                  Total([n \in 1..NumExperts |->
                     IF routes[r][i] = n - 1 THEN outs[n - 1][i] ELSE EmptyBag])]
    IN Weighted([r \in 1..NumRoutes |->
                   AllReduce([rank \in DOMAIN layers |-> routed(layers[rank], r)])])

SupportsCombinedAlways(layer) == TRUE          \* mutant: quantised experts as well
\* Only experts that do not quantise their input may share a pass between routes.
SupportsCombined(layer) == ~layer.packed

Dispatch(layers, xs, routes, device, graphSafe) ==
    LET dense == graphSafe \/ device = "mps"
        combined == /\ device = "cpu" /\ NumRoutes > 1 /\ Len(xs) >= CombinedFrom
                    /\ SupportsCombined(Head(layers))
    IN IF dense /\ NumRoutes > 1 THEN DenseTopk(layers, xs, routes)
       ELSE IF combined THEN SparseTopk(layers, xs, routes)
       ELSE RouteByRoute(layers, xs, routes, dense)

\* The shared expert is a dense SwiGLU of every row, replicated on the ranks.
SharedExpert(shared, x) ==
    IF Fused(shared) THEN SwiGLU(x, GateHalf(shared.gateUp), UpHalf(shared.gateUp), shared.down)
    ELSE SwiGLU(x, shared.gate, shared.up, shared.down)

MlpForward(layers, shared, table, tokens, device, graphSafe) ==
    LET xs == [i \in DOMAIN tokens |-> i]
        routed == Dispatch(layers, xs, Route(table, tokens), device, graphSafe)
    IN [i \in DOMAIN xs |-> Times(RoutedScale, routed[i])
                            (+) Times(SharedScale, SharedExpert(shared, Seen(shared, xs, DOMAIN xs, i)))]

(****************************** kernels ******************************)
\* gate_up of all experts in one tensor, cut to a rank: the gate and up columns
\* of the rank are taken from both halves and put side by side.
ShardExpertWeights(full, ranks, rank) ==
    LET inter == Len(full.down[0])
        per == inter \div ranks
        off == (rank - 1) * per
        cut(s, from) == SubSeq(s, from + 1, from + per)
    IN [gateUp |-> [e \in Experts |-> cut(full.gateUp[e], off)
                                      \o cut(full.gateUp[e], inter + off)],
        down |-> [e \in Experts |-> cut(full.down[e], off)],
        packed |-> FALSE]

\* One bmm over the weights each row selects.
BmmForward(layer, xs, ids) ==
    [i \in DOMAIN xs |->
       LET inter == Len(layer.down[ids[i]])
       IN SwiGLU(xs[i], SubSeq(layer.gateUp[ids[i]], 1, inter),
                 SubSeq(layer.gateUp[ids[i]], inter + 1, 2 * inter), layer.down[ids[i]])]

CountOf(ids, e) == Len(SelectSeq(ids, LAMBDA id : id = e))
\* Where the rows of expert e begin once the batch is sorted by expert.
Offset(ids, e) == Len(SelectSeq(ids, LAMBDA id : id < e))

\* order[p] is the row at place p of the sorted batch; what is computed at p
\* goes back to that row.
StableSort(ids) == SetToSortSeq(DOMAIN ids, LAMBDA i, j :
                                  ids[i] < ids[j] \/ (ids[i] = ids[j] /\ i < j))
ChunkedForward(layer, xs, ids) ==
    LET order == StableSort(ids)
        sorted == [p \in DOMAIN xs |->
                  LET e == CHOOSE n \in Experts :
                             p > Offset(ids, n) /\ p <= Offset(ids, n) + CountOf(ids, n)
                  IN BmmForward(layer, <<xs[order[p]]>>, <<e>>)[1]]
    IN [i \in DOMAIN xs |-> sorted[CHOOSE p \in DOMAIN order : order[p] = i]]

FusedForward(layer, xs, ids) ==
    IF Len(xs) <= BmmThreshold THEN BmmForward(layer, xs, ids)
    ELSE ChunkedForward(layer, xs, ids)

(* The int8 and int4 kernels choose in the same way and undo the packing of the *)
(* experts they touch. A scale belongs to a group of columns, and a column is   *)
(* exact when it meets the scale of its own group. int8 scales the rows of the  *)
(* stored matrix: all columns of gate_up share them, a column of down has one   *)
(* of its own. int4 puts two columns of gate_up in a byte and scales groups of  *)
(* them; down is packed within a column.                                        *)
GroupOf(j, group) == (j - 1) \div group + 1
PackedColumns(cols, perByte, group) ==
    [bytes |-> [b \in 1..(Len(cols) \div perByte) |->
                  SubSeq(cols, (b - 1) * perByte + 1, b * perByte)],
     scales |-> [g \in 1..(Len(cols) \div group) |->
                   {cols[j] : j \in {k \in DOMAIN cols : GroupOf(k, group) = g}}]]
UnpackInt4(bytes) == FlattenSeq(bytes)         \* high nibble, low nibble
Dequantised(tensor, group) ==
    LET cols == UnpackInt4(tensor.bytes)
    IN [j \in DOMAIN cols |->
          IF cols[j] \in tensor.scales[GroupOf(j, group)]
          THEN cols[j] ELSE <<"wrong group", cols[j]>>]

QuantiseExperts(layer, method, group) ==
    IF method = "int8"
    THEN [layer EXCEPT !.gateUp = [e \in Experts |-> PackedColumns(@[e], 1, Len(@[e]))],
                       !.down = [e \in Experts |-> PackedColumns(@[e], 1, 1)]]
    ELSE [layer EXCEPT !.gateUp = [e \in Experts |-> PackedColumns(@[e], 2, group)]]

FusedForwardInt8(layer, xs, ids) ==
    FusedForward(
        [layer EXCEPT !.gateUp = [e \in Experts |-> Dequantised(@[e], Len(@[e].bytes))],
                      !.down = [e \in Experts |-> Dequantised(@[e], 1)]], xs, ids)
FusedForwardInt4(layer, xs, ids, group) ==
    FusedForward([layer EXCEPT !.gateUp = [e \in Experts |-> Dequantised(@[e], group)]],
                 xs, ids)

\* The integer pipeline: route by mask, scatter in any sorted order, compute on
\* each expert's segment, gather.
BitSet(n, k) == (n \div 2 ^ k) % 2 = 1
And(m, n) == SumSet({2 ^ k : k \in {k \in 0..n : BitSet(m, k) /\ BitSet(n, k)}})
MaskRoute(tokens) == [i \in DOMAIN tokens |-> And(tokens[i], NumExperts - 1)]
SortedOrders(ids) == {order \in SetToSeqs(DOMAIN ids) :
                        \A p, q \in DOMAIN order : p < q => ids[order[p]] <= ids[order[q]]}
Scatter(xs, order) ==
    [scattered |-> [p \in DOMAIN xs |-> xs[order[p]]],
     index |-> [i \in DOMAIN xs |-> CHOOSE p \in DOMAIN order : order[p] = i]]
SegmentForward(layer, scattered, ids) ==
    [p \in DOMAIN scattered |->
       Total([n \in 1..NumExperts |->
          IF /\ p > Offset(ids, n - 1)
             /\ p <= Offset(ids, n - 1) + CountOf(ids, n - 1)
          THEN BmmForward(layer, <<scattered[p]>>, <<n - 1>>)[1] ELSE EmptyBag])]
Gather(rows, index) == [i \in DOMAIN index |-> rows[index[i]]]

ScatterGather(layer, xs, ids, order) ==
    LET there == Scatter(xs, order)
    IN Gather(SegmentForward(layer, there.scattered, ids), there.index)

\* Routing by mask and then the fused kernel.
FullPipeline(layer, xs, tokens) == FusedForward(layer, xs, MaskRoute(tokens))
===============================================================================
