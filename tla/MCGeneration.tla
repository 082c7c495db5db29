----------------------------- MODULE MCGeneration -----------------------------
(* Small vocabularies, requests and target models for Generation.               *)
EXTENDS Generation

\* 1 { or [   2 } or ]   3 the quote   4 the backslash   5 a letter, with which
\* the JSON processor ends   6 the EOS of the model
MCToken   == 1 .. 6
MCEos     == 6
MCJsonEos == 5
MCChar   == <<"open", "close", "quote", "escape", "other", "other">>
MCPrompt == <<5, 1>>

Windows == UNION {TupleOf(MCToken, n) : n \in 1 .. 2}

\* Models that are the same everywhere; a target decided by the last token, and
\* one decided by the token before it.
Always(row)    == [w \in Windows |-> row]
Uniform        == Always([t \in MCToken |-> 1])
Deciding(f(_)) == [w \in Windows |-> [t \in MCToken |-> IF t = f(w) THEN 3 ELSE 0]]
ByLast  == {LET Follows(w) == IF Last(w) \in {1, 2, 5} THEN g[Last(w)] ELSE 5
            IN Deciding(Follows) : g \in [{1, 2, 5} -> {1, 2, 5, 6}]}
LooksBack == LET Follows(w) == IF Len(w) = 2 THEN w[1] ELSE 5 IN Deciding(Follows)
Rows == {<<4, 2, 2, -1, 0, -2>>, <<-1, 3, -2, 3, 1, 0>>, <<1, 1, 1, 1, 1, 4>>}

Plain == [greedy |-> FALSE, sharpness |-> 1, topK |-> 0, topP |-> Tenths, minP |-> 0,
          typicalP |-> Tenths, repetition |-> 1, frequency |-> 0, presence |-> 0,
          bias |-> <<>>]
Free  == [params |-> Plain, json |-> FALSE, stops |-> <<>>, stopTokens |-> {},
          suppress |-> {}, logprobs |-> FALSE, speculation |-> FALSE]

Greedy    == [Plain EXCEPT !.greedy = TRUE]
Penalties == [Plain EXCEPT !.repetition = 2, !.frequency = 1, !.presence = 1, !.topK = 2,
                           !.bias = 3 :> 5]
Filters   == {[Plain EXCEPT !.topK = k, !.topP = p, !.minP = m, !.typicalP = y,
                            !.repetition = r, !.sharpness = s] :
                k \in {0, 2, 3}, p \in {0, 5, 9, 10}, m \in {0, 3},
                y \in {5, 10}, r \in {1, 2}, s \in {1, 2}}

JsonRequest == [Free EXCEPT !.json = TRUE, !.suppress = {5}]
StopRequest == [Free EXCEPT !.stops = <<<<5, 1>>, <<1, 5, 1>>, <<2, 2>>>>, !.stopTokens = {3}]

Cases(requests, models) == [request : requests, model : models]

MCCase ==
    Cases({JsonRequest, [JsonRequest EXCEPT !.stopTokens = {MCJsonEos}],
           [StopRequest EXCEPT !.logprobs = TRUE],
           \* a stop sequence that ends with a stop token, and an empty one
           [StopRequest EXCEPT !.stops = <<<<1, 3>>, <<4, 4>>>>],
           [StopRequest EXCEPT !.stops = <<<<>>, <<1>>>>]}, {Uniform})
    \cup Cases({[Free EXCEPT !.params = Greedy, !.speculation = TRUE]}, ByLast)
    \cup Cases({[Free EXCEPT !.params = p, !.logprobs = TRUE] :
                  p \in {Penalties, [Penalties EXCEPT !.greedy = TRUE]}},
               {Always(row) : row \in Rows})
    \* requests about their first token only
    \cup Cases({[Free EXCEPT !.params = f, !.stopTokens = MCToken] : f \in Filters},
               {Always(row) : row \in Rows})

\* The stop sequences on an engine that speculates; a target that looks back.
MCSpeculating == Cases({[StopRequest EXCEPT !.speculation = TRUE]}, {Uniform})
MCLooksBack   == Cases({[Free EXCEPT !.params = Greedy, !.speculation = TRUE]}, {LooksBack})
===============================================================================
