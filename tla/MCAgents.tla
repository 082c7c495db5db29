-------------------------------- MODULE MCAgents --------------------------------
(* Short messages and speeches for Agents.                                      *)
EXTENDS Agents

MCTools      == <<"tools">>
MCSystem     == <<"sys", "w", "w">>
MCTask       == <<"ask", "w", "w", "w">>
MCToolOutput == <<"out", "w", "w", "w", "w", "w">>
MCThinking   == {4, 6}
MCPrefill    == <<"ts">>

\* The first pass continues the open thought.
MCSpeech ==
    {<<"t", "te", "fs", "w", "fe">>,            \* thought and answer in one pass
     <<"te", "fs", "c", "c", "eos">>,           \* two calls
     <<"t", "h", "h", "h", "h", "t", "eos">>}   \* a thought the budget cuts, in a
                                                \* character or after it
MCFinal == {<<"w", "h", "h", "h", "eos">>, <<"c", "c", "c", "eos">>}

\* None, or the call after a thought: only the client that streams sees it close.
MCStops == {<<>>, <<<<"te", "fs", "c">>>>}

\* What the theorem about speech assumes of the model holds for these.
ASSUME MCAgentsAssumption == PlainSpeech

\* And every speech ends by itself, where no budget cuts it.
ASSUME MCSpeechAssumption == \A speech \in Speech \cup Final : Last(speech) \in Ends
===============================================================================
