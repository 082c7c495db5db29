------------------------------ MODULE Generation ------------------------------
(* How the engine turns logits into the answer of one request: the logits      *)
(* processors (core/logits_processor.py), the samplers (module Sampling), the  *)
(* speculative decoder (core/speculative.py) and the truncation of a stop      *)
(* sequence when the answer is delivered.                                      *)
(*                                                                             *)
(* The requests of a batch are sampled one by one from their own row, so one   *)
(* request is enough. The model is external: the row it gives depends on the   *)
(* last two tokens of what it is shown. A step is speculative when the decoder *)
(* is on and the batch holds no prefill and at most 8 requests, which a single *)
(* request does not control; its own first step is always plain.               *)
(* The engine builds the processors without a tokenizer: the JSON processor    *)
(* reads token ids as ASCII and ends with a token of its own, and the regex    *)
(* and choice processors do nothing.                                           *)
EXTENDS Sampling

CONSTANTS
    Token,      \* the vocabulary, token ids
    Eos,        \* model.config.eos_token_id
    JsonEos,    \* the JSON processor's own, the 2 of its signature
    Char,       \* [Token -> char]: "open", "close", "quote", "escape", "other"
    Prompt,     \* the tokens of the prompt
    Case,       \* a request and the target model it meets: [request, model]; the
                \* model gives a row for every window of one or two tokens
    MaxNew,     \* max_new_tokens
    K           \* num_speculative

ASSUME GenerationAssumption ==
    /\ {Eos, JsonEos} \subseteq Token /\ Token \subseteq Nat
    /\ IsFiniteSet(Token)
    /\ Prompt \in Seq(Token) /\ Len(Prompt) > 1
    /\ MaxNew \in Nat \ {0} /\ K \in Nat \ {0}

\* What a request can ask for, in whole numbers; validation refuses the rest.
IsParams(p) ==
    /\ p.greedy \in BOOLEAN
    /\ {p.topK, p.sharpness, p.repetition} \subseteq Nat /\ 0 \notin {p.sharpness, p.repetition}
    /\ {p.topP, p.minP, p.typicalP} \subseteq 0 .. Tenths
    /\ {p.frequency, p.presence} \subseteq Int
    /\ p.bias \in [DOMAIN p.bias -> Int]

IsRequest(r) ==
    /\ IsParams(r.params)
    /\ {r.json, r.logprobs, r.speculation} \subseteq BOOLEAN
    /\ r.stops \in Seq(Seq(Token)) /\ r.stopTokens \subseteq Token

ASSUME CaseAssumption ==
    \A c \in Case : /\ c = [request |-> c.request, model |-> c.model]
                   /\ IsRequest(c.request)
                   /\ c.model \in [TupleOf(Token, 1) \cup TupleOf(Token, 2) -> [Token -> Int]]

VARIABLES
    request,    \* its params and constraints, and whether the engine speculates
    model,      \* the target model
    out,        \* output_token_ids
    json,       \* state of the JSON processor
    stop,       \* [triggered, at] of the stop-sequence processor
    status,     \* "running", "finished" (by the processor), "answered"
    logprobs,   \* how many entries _request_logprobs holds
    result      \* output_tokens and number of logprobs of the result

gvars == <<request, model, out, json, stop, status, logprobs, result>>

NoAnswer == [tokens |-> <<>>, logprobs |-> 0]

GInit ==
    /\ \E c \in Case : request = c.request /\ model = c.model
    /\ out = <<>> /\ logprobs = 0 /\ result = NoAnswer /\ status = "running"
    /\ json = [depth |-> 0, inString |-> FALSE, escape |-> FALSE, complete |-> FALSE]
    /\ stop = [triggered |-> FALSE, at |-> -1]

\* What the target gives after the tokens s it is shown.
LogitsAfter(s) == model[SubSeq(s, IF Len(s) > 1 THEN Len(s) - 1 ELSE 1, Len(s))]

\* An escape swallows the next character, in a string or not; a bracket of the
\* wrong kind closes as well; only a closing one can complete the value.
JsonNext(j, ch) ==
    IF j.escape THEN [j EXCEPT !.escape = FALSE]
    ELSE IF ch = "escape" THEN [j EXCEPT !.escape = TRUE]
    ELSE IF j.inString THEN [j EXCEPT !.inString = (ch # "quote")]
    ELSE CASE ch = "quote" -> [j EXCEPT !.inString = TRUE]
           [] ch = "open"  -> [j EXCEPT !.depth = @ + 1, !.complete = FALSE]
           [] ch = "close" -> [j EXCEPT !.depth = @ - 1,
                                        !.complete = @ \/ j.depth = 1]
           [] OTHER        -> j

\* Mutant: the processor reads the first token each time.
JsonAfterFirst(generated) ==
    IF request.json /\ generated # <<>> THEN JsonNext(json, Char[Head(generated)])
    ELSE json

\* The processor is shown the tokens generated so far and reads the last one.
JsonAfter(generated) ==
    IF request.json /\ generated # <<>> THEN JsonNext(json, Char[Last(generated)])
    ELSE json

\* Whatever token ends the request.
JsonMask(row, j) ==
    IF request.json /\ j.complete THEN Restrict(row, {JsonEos}) ELSE row

SuppressFirst(row, generated) ==
    IF generated = <<>> THEN Restrict(row, All(row) \ request.suppress) ELSE row

\* Mutant: the place is the end of the sequence.
StopAfterEnd(generated) ==
    IF \E i \in DOMAIN request.stops : IsSuffix(request.stops[i], generated)
    THEN [triggered |-> TRUE, at |-> Len(generated)] ELSE stop

\* The first of the stop sequences that ends the output gives the place. An
\* empty one ends an empty output only: the code compares it with the whole.
StopAfter(generated) ==
    LET n == Len(generated)
        Found == {i \in DOMAIN request.stops :
                    /\ IsSuffix(request.stops[i], generated)
                    /\ request.stops[i] = <<>> => generated = <<>>}
    IN IF Found = {} THEN stop
       ELSE [triggered |-> TRUE, at |-> n - Len(request.stops[Min(Found)])]

\* is_finished: the processor, the budget, or the last token.
EndTokens == {Eos} \cup request.stopTokens

IsFinished ==
    \/ status = "finished"
    \/ Len(out) >= MaxNew
    \/ out # <<>> /\ Last(out) \in EndTokens

HistoryFor(params, generated) ==
    IF params.repetition # 1 \/ params.frequency # 0 \/ params.presence # 0
    THEN Prompt \o generated ELSE <<>>

Drawn(row, generated) ==
    LET params == request.params
        past   == HistoryFor(params, generated)
    IN IF request.logprobs
       THEN SampleBatchWithLogprobs(row, params, past, Token).drawn
       ELSE SampleBatch(row, params, past, Token)

\* A plain step. A stop sequence is seen one step after it is complete: the
\* token drawn in that step is appended all the same, and cut with it later.
PlainStep ==
    /\ status = "running" /\ ~IsFinished
    /\ \E j \in {JsonAfter(out)}, s \in {StopAfter(out)} :
        /\ json' = j /\ stop' = s
        /\ status' = IF s.triggered THEN "finished" ELSE status
        /\ \E row \in {JsonMask(SuppressFirst(LogitsAfter(Prompt \o out), out), j)} :
           \E t \in Drawn(row, out) : out' = Append(out, t)
    /\ logprobs' = IF request.logprobs THEN logprobs + 1 ELSE logprobs
    /\ UNCHANGED <<request, model, result>>

\* The target is shown the last token of the context and the draft, nothing
\* before it, and is greedy whatever the request asks for.
TargetAt(i, shown) == Argmax(LogitsAfter(SubSeq(shown, 1, i)))

Matches(draft, shown) ==
    {n \in 0 .. K : \A i \in 1 .. n : draft[i] \in TargetAt(i, shown)}

\* Mutant: the target's own token is read one row early.
AcceptedEarly(draft, shown) ==
    LET n == Max(Matches(draft, shown)) IN
    {Append(SubSeq(draft, 1, n), t) : t \in TargetAt(IF n = 0 THEN 1 ELSE n, shown)}

\* The matching prefix of the draft, then one token of the target's own.
Accepted(draft, shown) ==
    LET n == Max(Matches(draft, shown)) IN
    {Append(SubSeq(draft, 1, n), t) : t \in TargetAt(n + 1, shown)}

\* All but the last accepted token are appended here, the last one by
\* update_after_step: nobody looks at them in between.
SpeculativeStep ==
    /\ request.speculation /\ out # <<>>
    /\ status = "running" /\ ~IsFinished
    /\ \E draft \in TupleOf(Token, K) :
       \E tokens \in Accepted(draft, <<Last(out)>> \o draft) : out' = out \o tokens
    /\ UNCHANGED <<request, model, json, stop, status, logprobs, result>>

\* A triggered stop sequence cuts the answer, and its logprobs, where it starts.
Answer ==
    /\ status # "answered" /\ IsFinished
    /\ LET n == IF stop.triggered /\ stop.at \in 0 .. Len(out) - 1
                THEN stop.at ELSE Len(out)
       IN result' = [tokens |-> SubSeq(out, 1, n), logprobs |-> IF logprobs < n THEN logprobs ELSE n]
    /\ status' = "answered"
    /\ UNCHANGED <<request, model, out, json, stop, logprobs>>

GNext == PlainStep \/ SpeculativeStep \/ Answer

GSpec == GInit /\ [][GNext]_gvars

-------------------------------------------------------------------------------
(* Properties.                                                                 *)

TypeOK ==
    /\ [request |-> request, model |-> model] \in Case
    /\ out \in Seq(Token) /\ Len(out) <= MaxNew + K
    /\ status \in {"running", "finished", "answered"}
    /\ result.tokens \in Seq(Token) /\ logprobs \in Nat

Occurs(s, tokens) ==
    \E i \in 0 .. Len(tokens) - Len(s) : SubSeq(tokens, i + 1, i + Len(s)) = s

\* An answer holds no stop sequence the client gave, whatever the tokens were
\* drawn around it, unless the request ends, out of budget or on a stop token,
\* with the very token that completes it; and a request that asked for logprobs
\* has one for every token of it.
StopExcluded ==
    status = "answered" =>
        /\ \A i \in DOMAIN request.stops :
              request.stops[i] # <<>> /\ Occurs(request.stops[i], result.tokens) =>
                  /\ \/ Len(result.tokens) = MaxNew
                     \/ Last(result.tokens) \in EndTokens
                  /\ ~Occurs(request.stops[i], Front(result.tokens))
        /\ request.logprobs => result.logprobs = Len(result.tokens)

\* How a reader of the whole answer takes its first n tokens: a character is
\* escaped when an odd number of backslashes stands before it, the text is in a
\* string after an odd number of quotes, and brackets count outside of strings.
Escaped(tokens, i) ==
    \E b \in 0 .. i - 1 :
        /\ b > 0 => Char[tokens[b]] # "escape"
        /\ \A k \in b + 1 .. i - 1 : Char[tokens[k]] = "escape"
        /\ (i - b) % 2 = 0

Marks(tokens, n, ch) == {i \in 1 .. n : Char[tokens[i]] = ch /\ ~Escaped(tokens, i)}

InString(tokens, n) == Cardinality(Marks(tokens, n, "quote")) % 2 = 1

Brackets(tokens, n, ch) == {i \in Marks(tokens, n, ch) : ~InString(tokens, i)}

Depth(tokens, n) ==
    Cardinality(Brackets(tokens, n, "open")) - Cardinality(Brackets(tokens, n, "close"))

\* A bracket closed the value, and none was opened after it.
ValueClosed(tokens, n) ==
    \E i \in Brackets(tokens, n, "close") :
        Depth(tokens, i) = 0 /\ \A k \in Brackets(tokens, n, "open") : k < i

\* Once the value a JSON answer opens is closed, nothing but the processor's own
\* end token follows: the processor, which sees one token per step, agrees with
\* the reading of the whole answer. Nothing ever follows a token that ends the
\* request, but for what a speculative step accepts behind it and the token
\* drawn while a stop sequence is seen. And where the processor's token does not
\* end the request, an answer whose value is closed goes on to its budget
\* (logits_processor.py:70-84, i64_engine.py:650, i64_scheduler.py:108-124).
NothingAfterEnd ==
    \A n \in 1 .. Len(out) - 1 :
        /\ request.json /\ ValueClosed(out, n) => out[n + 1] = JsonEos
        /\ ~request.speculation /\ request.stops = <<>> => out[n] \notin EndTokens

ClosedGoesOn ==
    status = "answered" /\ request.json /\ request.stops = <<>> /\ JsonEos \notin EndTokens
      /\ Len(out) > 1 /\ ValueClosed(out, Len(out) - 1) => Len(out) >= MaxNew

JsonEnds == NothingAfterEnd /\ ClosedGoesOn

\* Speculation does not change a greedy answer: with or without it the output is
\* what the target alone would have written, token by token, where nothing else
\* touches the logits, and it goes over the budget by no more than the draft.
SpeculativeGreedy ==
    /\ Len(out) <= MaxNew + K
    /\ request.speculation /\ request.params.greedy /\ ~request.json
         /\ HistoryFor(request.params, out) = <<>>
         /\ request.params.bias = <<>> /\ request.suppress = {} =>
         \A n \in DOMAIN out :
             out[n] \in Argmax(LogitsAfter(Prompt \o SubSeq(out, 1, n - 1)))

\* The three samplers agree on what may be drawn wherever they take the same
\* parameters, and always leave something to draw; the most likely token is
\* there in every case but one, typical sampling of a row with masked tokens
\* (its docstring promises otherwise for every row, sampling.py:172-174); and a
\* nucleus is the smallest set of most likely tokens that weighs more than top_p.
SamplersAgree ==
    status = "running" /\ out = <<>> =>
        LET row  == LogitsAfter(Prompt)
            p    == request.params
            past == HistoryFor(p, <<>>)
            l    == Penalised(row, p, past)
            one  == SampleToken(row, p, past)
            many == SampleBatch(row, p, past, Token)
            lp   == SampleBatchWithLogprobs(row, p, past, Token)
            cut  == All(Nucleus(row, p.topP))
        IN /\ many = lp.drawn /\ many \subseteq lp.logprobs
           /\ many # {} /\ (p.greedy => many = Argmax(l))
           /\ ~p.greedy =>
                \A r \in Filtered(Scaled(l, p), p, Token) :
                    /\ All(TopP(r, p.topP)) # {}
                    /\ p.typicalP = Tenths \/ All(Cut(Scaled(l, p), p)) = Token =>
                         All(TopP(r, p.topP)) \cap Argmax(l) # {}
           /\ p.minP = 0 /\ p.typicalP = Tenths /\ p.bias = <<>>
                /\ p.frequency = 0 /\ p.presence = 0 => one = many
           /\ \A t \in cut, u \in All(row) \ cut : row[u] <= row[t]
           /\ \/ cut = All(row)
              \/ Mass(row, cut) * Tenths > Mass(row, All(row)) * p.topP
           /\ \E t \in cut : Mass(row, cut \ {t}) * Tenths <= Mass(row, All(row)) * p.topP

\* Every way to draw a token draws from the same model: the samplers among each
\* other, and the speculative step and the plain one.
DrawsAgree == SamplersAgree /\ SpeculativeGreedy
===============================================================================
