----------------------------- MODULE PackedWeights -----------------------------
(* Weights of four bits: the quantisation of core/quantization.py and the       *)
(* conversion of AWQ and GPTQ tensors by core/awq_gptq.py. A weight is an       *)
(* integer; a scale is kept in fifteenths, the steps of four bits.              *)
EXTENDS Integers, Sequences, SequencesExt, FiniteSetsExt

Levels == 15
Nibble == 16
Bound(n, low, high) == IF n < low THEN low ELSE IF n > high THEN high ELSE n
\* round(): to the nearest integer, halves to even.
RoundDiv(a, b) ==
    LET q == a \div b
        rest == a % b
    IN IF 2 * rest > b \/ (2 * rest = b /\ q % 2 = 1) THEN q + 1 ELSE q

Groups(row, size) == [g \in 1..(Len(row) \div size) |->
                        SubSeq(row, (g - 1) * size + 1, g * size)]
PackedLowFirst(qs) ==             \* mutant: low nibble first
    [b \in 1..(Len(qs) \div 2) |-> qs[2 * b] * Nibble + qs[2 * b - 1]]
\* Two values per byte, the first in the high nibble.
Packed(qs) == [b \in 1..(Len(qs) \div 2) |-> qs[2 * b - 1] * Nibble + qs[2 * b]]
Unpacked(bytes) == FlattenSeq([b \in DOMAIN bytes |->
                                 <<(bytes[b] \div Nibble) % Nibble, bytes[b] % Nibble>>])

(* One group: its span is cut in fifteen steps. A span of zero becomes a step   *)
(* of 1e-8, which is nothing beside any weight: the zero point of such a group  *)
(* falls on one of the two ends.                                                *)
Low(group) == Min(ToSet(group))
Span(group) == Max(ToSet(group)) - Low(group)
ZeroPoint(group) ==
    IF Span(group) = 0 THEN IF Low(group) < 0 THEN Levels ELSE 0
    ELSE Bound(RoundDiv(-Low(group) * Levels, Span(group)), 0, Levels)
Quantised(group) ==
    [j \in DOMAIN group |->
       IF Span(group) = 0 THEN 0
       ELSE Bound(RoundDiv((group[j] - Low(group)) * Levels, Span(group)), 0, Levels)]

QuantizeInt4(row, size) ==
    LET gs == Groups(row, size)
    IN [packed |-> Packed(FlattenSeq([g \in DOMAIN gs |-> Quantised(gs[g])])),
        scale |-> [g \in DOMAIN gs |-> Span(gs[g])],
        zero |-> [g \in DOMAIN gs |-> ZeroPoint(gs[g])]]

\* (q - zero) * scale, group by group: in fifteenths for QuantizeInt4's scales.
DequantizeInt4(row, size) ==
    LET qs == Unpacked(row.packed)
    IN [j \in DOMAIN qs |-> LET g == (j - 1) \div size + 1
                            IN (qs[j] - row.zero[g]) * row.scale[g]]

\* int8: one symmetric scale per row, its largest magnitude over 127.
Magnitude(row) == Max({IF w < 0 THEN -w ELSE w : w \in ToSet(row)})
QuantizeInt8(row) ==
    [values |-> [j \in DOMAIN row |->
                   IF Magnitude(row) = 0 THEN 0
                   ELSE Bound(RoundDiv(row[j] * 127, Magnitude(row)), -128, 127)],
     scale |-> Magnitude(row)]
DequantizeInt8(row) == [j \in DOMAIN row.values |-> row.values[j] * row.scale]

(* AWQ and GPTQ put eight values in a 32-bit word, the least significant nibble *)
(* first. Torch reads the word as signed and shifts it arithmetically.          *)
PerWord == 8
Places == <<1, 16, 256, 4096, 65536, 1048576, 16777216, 268435456>>
NibblesOf(word) == [k \in 1..PerWord |-> (word \div Places[k]) % Nibble]
\* What the packers store; the top nibble carries the sign.
WordOf(ns) ==
    LET top == IF ns[8] > 7 THEN ns[8] - Nibble ELSE ns[8]
    IN ns[1] + 16 * (ns[2] + 16 * (ns[3] + 16 * (ns[4] + 16 * (ns[5] + 16 * (ns[6]
       + 16 * (ns[7] + 16 * top))))))
\* qweight[r][o] holds inputs 8r+1..8r+8 of output o.
UnpackQweight(qweight) ==
    FlattenSeq([r \in DOMAIN qweight |->
        [k \in 1..PerWord |-> [o \in DOMAIN qweight[r] |-> NibblesOf(qweight[r][o])[k]]]])
\* qzeros[g][w] holds the zero points of outputs 8w+1..8w+8 in group g.
UnpackQzeros(qzeros) ==
    [g \in DOMAIN qzeros |-> FlattenSeq([w \in DOMAIN qzeros[g] |-> NibblesOf(qzeros[g][w])])]

StoredAsIs(zeros) == zeros        \* mutant: the stored zero taken as the zero point
\* Stored zero points are one too low; without them the middle is taken.
CorrectedZeros(zeros) ==
    [g \in DOMAIN zeros |-> [o \in DOMAIN zeros[g] |-> Bound(zeros[g][o] + 1, 0, Levels)]]
MiddleZeros(scales) == [g \in DOMAIN scales |-> [o \in DOMAIN scales[g] |-> 8]]

\* desc_act: the inputs sorted by their group, those of a group in any order.
Reorderings(gIdx) == {order \in SetToSeqs(DOMAIN gIdx) :
                        \A p, q \in DOMAIN order : p < q => gIdx[order[p]] <= gIdx[order[q]]}
Reordered(weights, order) == [p \in DOMAIN order |-> weights[order[p]]]

\* From (input, output) to rows per output, as int4_linear reads them.
ConvertToInternal(weights, scales, zeros) ==
    [o \in DOMAIN weights[1] |->
       [packed |-> Packed([i \in DOMAIN weights |-> weights[i][o]]),
        scale |-> [g \in DOMAIN scales |-> scales[g][o]],
        zero |-> [g \in DOMAIN zeros |-> zeros[g][o]]]]

\* One quantised linear layer of a checkpoint. A layer without scales is skipped.
ConvertLayer(layer, order) ==
    LET weights == UnpackQweight(layer.qweight)
        zeros == IF "qzeros" \in DOMAIN layer
                 THEN CorrectedZeros(UnpackQzeros(layer.qzeros)) ELSE MiddleZeros(layer.scales)
    IN ConvertToInternal(IF order = <<>> THEN weights ELSE Reordered(weights, order),
                         layer.scales, zeros)
===============================================================================
