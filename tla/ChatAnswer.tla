------------------------------ MODULE ChatAnswer ------------------------------
(* How POST /v1/chat/completions makes an answer of what the engine generates:  *)
(* api/_completions.py and api/_helpers.py. The prompt ends with the opening    *)
(* marker of the reasoning envelope when the chat template says so. The first   *)
(* pass may only use the thinking budget; when it does not close the thought,   *)
(* the server closes it, opens the final block and generates a second time.     *)
(*                                                                              *)
(* Tokens: "ts" "te" the think markers, "fs" "fe" the final markers, "eos",     *)
(* "t" a word of a thought, "w" a word of an answer, "c" a tool call, "h" half  *)
(* of a character. Text is a sequence of the same, without "eos", with "hh" for *)
(* a whole character and "?" for U+FFFD.                                        *)
(*                                                                              *)
(* The engine steps plainly here, one token a step: it has no draft model. With *)
(* one, a speculative step appends several tokens, of which only the last is    *)
(* put on a stream (_speculative_step returns no other): what is streamed then  *)
(* is another text, whatever the request asks for. Generation has those steps.  *)
EXTENDS ContextManager

Transition == <<"te", "fs">>

\* The tokenizer hides the other special tokens and replaces a half character.
Visible(tokens) == Without(tokens, {"eos"})
Shown(text, x) ==
    IF x # "h" THEN Append(text, x)
    ELSE IF text # <<>> /\ Last(text) = "?" THEN Append(Front(text), "hh")
    ELSE Append(text, "?")
Decode(tokens) == FoldLeft(Shown, <<>>, Visible(tokens))

\* Mutant: a half character is sent as soon as it is there.
StableNow(text) == text

\* Without the replacement characters at its end.
Stable(text) == SubSeq(text, 1, Max({0} \cup {i \in DOMAIN text : text[i] # "?"}))

\* What is sent for each token and at the end: the stable text that is new.
Delta(text, emitted) == SubSeq(text, Len(emitted) + 1, Len(text))

Emit(s, text) == [sent |-> s.sent \o Delta(text, s.emitted), emitted |-> text]

StreamPass(tokens) ==
    LET during == FoldLeft(Emit, [sent |-> <<>>, emitted |-> <<>>],
                           [n \in DOMAIN tokens |-> Stable(Decode(SubSeq(tokens, 1, n)))])
        whole  == Decode(tokens)
    IN [sent |-> during.sent \o Delta(whole, during.emitted), text |-> whole]

\* The engine stops at eos, at the final marker, or at the budget.
Ends == {"eos", "fe"}
Generated(speech, budget) ==
    LET stops == {i \in DOMAIN speech : speech[i] \in Ends}
        n == Min({budget, Len(speech)} \cup stops)
    IN SubSeq(speech, 1, n)

\* The stop sequences that end the tokens; an empty one ends no tokens only.
Ending(stops, tokens) ==
    {k \in DOMAIN stops : IsSuffix(stops[k], tokens) /\ (stops[k] = <<>> => tokens = <<>>)}

\* A pass of the engine: the tokens a waiting client gets, and those put on the
\* stream of one that does not. A stop sequence is seen in the step after it is
\* complete, whose token is generated and streamed too; only the client that
\* waits has both cut off.
Pass(speech, budget, stops) ==
    LET tokens == Generated(speech, budget)
        seen   == {n \in 0 .. Len(tokens) - 1 : Ending(stops, SubSeq(tokens, 1, n)) # {}}
        n      == Min(seen)
        stop   == stops[Min(Ending(stops, SubSeq(tokens, 1, n)))]
    IN IF seen = {} THEN [kept |-> tokens, pushed |-> tokens, stopped |-> FALSE]
       ELSE [kept |-> SubSeq(tokens, 1, n - Len(stop)),
             pushed |-> SubSeq(tokens, 1, n + 1), stopped |-> TRUE]

Thinks(prefill) == prefill # <<>>
Unclosed(prefill, text) == Thinks(prefill) /\ "te" \notin ToSet(text)

FirstBudget(prefill, maxTokens, thinking) ==
    IF Thinks(prefill) /\ thinking < maxTokens THEN thinking ELSE maxTokens

\* What is left for the second pass, in the budget and in the window.
SecondBudget(maxTokens, prompt, first) ==
    LET remaining == maxTokens - Len(first) - Len(Transition)
        available == MaxSeqLen - (prompt + Len(Decode(first)) + Len(Transition))
    IN IF remaining <= 0 THEN 0 ELSE Min({remaining, Max({0, available})})

\* Both passes, as the client that waits ("kept") or streams ("pushed") has them:
\* each goes by its own tokens for what is left to do, and for its budget.
Turn(client, prefill, prompt, maxTokens, thinking, speech1, speech2, stops) ==
    LET one    == Pass(speech1, FirstBudget(prefill, maxTokens, thinking), stops)
        again  == Unclosed(prefill, Decode(one[client]))
        budget == IF again THEN SecondBudget(maxTokens, prompt, one[client]) ELSE 0
        two    == IF budget > 0 THEN Pass(speech2, budget, stops)
                  ELSE [kept |-> <<>>, pushed |-> <<>>, stopped |-> FALSE]
    IN [first |-> one[client], again |-> again, budget |-> budget, second |-> two[client],
        closing |-> IF "fe" \in ToSet(Decode(two[client])) THEN <<>> ELSE <<"fe">>,
        stopped |-> one.stopped \/ two.stopped]

\* An answer: the passes of the client that waits, the text of its response and
\* the completion tokens of its usage record; the text of the stream of one that
\* does not; and whether a stop sequence ended a pass.
Completion(prefill, prompt, maxTokens, thinking, speech1, speech2, stops) ==
    LET one == Turn("kept", prefill, prompt, maxTokens, thinking, speech1, speech2, stops)
        raw == Decode(one.first)
        shown == IF Len(prefill) > 0 /\ IsPrefix(prefill, raw) THEN raw ELSE prefill \o raw
        live == Turn("pushed", prefill, prompt, maxTokens, thinking, speech1, speech2, stops)
    IN [first |-> one.first, second |-> one.second, budget |-> one.budget, prompt |-> prompt,
        text |-> IF one.again THEN shown \o Transition \o Decode(one.second) \o one.closing
                 ELSE shown,
        stream |-> prefill \o StreamPass(live.first).sent
                   \o (IF live.again
                       THEN Transition \o StreamPass(live.second).sent \o live.closing
                       ELSE <<>>),
        used |-> IF one.again /\ one.budget > 0
                 THEN Len(one.first) + Len(Transition) + Len(one.second)
                 ELSE Len(one.first),
        stopped |-> one.stopped]

\* ToolCallParser looks at the whole text, thoughts included.
Calls(text) == Cardinality({i \in DOMAIN text : text[i] = "c"})
===============================================================================
