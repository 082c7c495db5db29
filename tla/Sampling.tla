------------------------------- MODULE Sampling -------------------------------
(* The sampling strategies of core/sampling.py as operators over one row of     *)
(* logits. A row is a function from the tokens that can still be drawn to small *)
(* integers: a token masked to -inf is not in its domain. A logit l stands for  *)
(* a probability proportional to 2^l (the code's e^l: only the order of the     *)
(* weights and how they add up matter here), taken relative to the least logit  *)
(* of the row, as softmax takes it relative to the greatest. Probabilities such *)
(* as top_p are tenths. What a sampler returns is the set of tokens it may draw.*)
EXTENDS Integers, FiniteSets, FiniteSetsExt, SequencesExt, Functions

Tenths == 10

All(row) == DOMAIN row

PowerOfTwo[n \in Nat] == IF n = 0 THEN 1 ELSE 2 * PowerOfTwo[n - 1]

Weight(row, t) == PowerOfTwo[row[t] - Min({row[u] : u \in All(row)})]
Mass(row, ts) == MapThenSumSet(LAMBDA t : Weight(row, t), ts)

Argmax(row) == {t \in All(row) : \A u \in All(row) : row[u] <= row[t]}

\* Penalties read the whole history, prompt included.
RepetitionPenalty(row, past, penalty) ==
    [t \in All(row) |->
        IF t \notin Range(past) THEN row[t]
        ELSE IF row[t] > 0 THEN row[t] \div penalty ELSE row[t] * penalty]

FrequencyPresencePenalty(row, past, frequency, presence) ==
    LET Count(t) == Cardinality({i \in DOMAIN past : past[i] = t}) IN
    [t \in All(row) |->
        IF t \notin Range(past) THEN row[t]
        ELSE row[t] - (frequency * Count(t) + presence)]

LogitBias(row, bias) ==
    [t \in All(row) |-> IF t \in DOMAIN bias THEN row[t] + bias[t] ELSE row[t]]

Penalised(row, params, past) ==
    LogitBias(FrequencyPresencePenalty(RepetitionPenalty(row, past, params.repetition),
                                       past, params.frequency, params.presence),
              params.bias)

\* temperature = 1/sharpness; 0 is greedy and never gets here.
Scaled(row, params) == [t \in All(row) |-> row[t] * params.sharpness]

\* The k-th largest value is the threshold, so ties with it stay.
TopK(row, k) ==
    IF k = 0 \/ k >= Cardinality(All(row)) THEN row
    ELSE Restrict(row, {t \in All(row) :
                          Cardinality({u \in All(row) : row[u] > row[t]}) < k})

MinP(row, p) ==
    IF p = 0 \/ p > Tenths THEN row
    ELSE Restrict(row, {t \in All(row) : \A u \in All(row) :
                          Weight(row, t) * Tenths >= Weight(row, u) * p})

\* torch.sort(descending) with ties left in the order of the token ids.
Before(row, u, t) == row[u] > row[t] \/ (row[u] = row[t] /\ u < t)

\* Mutant: the weight of the token itself counts.
NucleusShort(row, p) ==
    Restrict(row, {t \in All(row) :
        Mass(row, {u \in All(row) : ~Before(row, t, u)}) * Tenths
            <= Mass(row, All(row)) * p})

\* cumulative - probs > p is masked: a token stays while what comes before it
\* weighs at most p.
Nucleus(row, p) ==
    Restrict(row, {t \in All(row) :
        Mass(row, {u \in All(row) : Before(row, u, t)}) * Tenths
            <= Mass(row, All(row)) * p})

TopP(row, p) == IF p >= Tenths THEN row ELSE Nucleus(row, p)

\* What a cumulative mask keeps of tokens in any order: the last one kept comes
\* after at most p, and all of them weigh more than p unless none is left out.
KeptInSomeOrder(row, p) ==
    {S \in SUBSET All(row) :
        /\ \E t \in S : Mass(row, S \ {t}) * Tenths <= Mass(row, All(row)) * p
        /\ S = All(row) \/ Mass(row, S) * Tenths > Mass(row, All(row)) * p}

\* The deviation |log p + (-H)| is H - log p for every token, so the most
\* typical tokens are the most probable ones. A row in which some token is
\* already masked has 0 * -inf in its entropy: every deviation is NaN, the sort
\* leaves the tokens in any order, and the mask may take the most probable one.
\* The rows this can give:
TypicalP(row, p, masked) ==
    IF p >= Tenths THEN {row}
    ELSE IF masked THEN {Restrict(row, S) : S \in KeptInSomeOrder(row, p)}
    ELSE {Nucleus(row, p)}

Cut(row, params) == MinP(TopK(row, params.topK), params.minP)

Filtered(row, params, vocab) ==
    LET k == Cut(row, params) IN TypicalP(k, params.typicalP, All(k) # vocab)

Drawable(row, params, vocab) ==
    UNION {All(TopP(r, params.topP)) : r \in Filtered(row, params, vocab)}

SampleBatch(row, params, past, vocab) ==
    LET l == Penalised(row, params, past) IN
    IF params.greedy THEN Argmax(l)
    ELSE Drawable(Scaled(l, params), params, vocab)

\* The same chain written out again, with the logprobs taken between the
\* temperature and the filters.
SampleBatchWithLogprobs(row, params, past, vocab) ==
    LET l == Penalised(row, params, past)
        s == Scaled(l, params)
    IN IF params.greedy THEN [drawn |-> Argmax(l), logprobs |-> All(l)]
       ELSE [drawn |-> Drawable(s, params, vocab), logprobs |-> All(s)]

\* The one-row sampler of the speculative decoder: no bias, no frequency or
\* presence penalty, no min-p, no typical sampling.
SampleToken(row, params, past) ==
    LET l == RepetitionPenalty(row, past, params.repetition) IN
    IF params.greedy THEN Argmax(l)
    ELSE All(TopP(TopK(Scaled(l, params), params.topK), params.topP))
===============================================================================
