---------------------------- MODULE ContextManager ----------------------------
(* core/context_manager.py: how the messages of a chat are made to fit the      *)
(* context window. A message is [role, content]; its content is a sequence of   *)
(* tokens, which the text of the code is encoded to. A template costs Header    *)
(* tokens a message and Opening tokens for the generation prompt.               *)
EXTENDS Integers, Sequences, SequencesExt, FiniteSetsExt

CONSTANTS
    Header, Opening,
    MaxSeqLen,      \* max_seq_len
    CompactAt,      \* compact_at_tokens, 0 when it is not set
    RecentTurns,    \* recent_turns, 2 in the code
    MaxSummary,     \* max_summary_tokens, 256
    LeastSummary,   \* 16, the least a summary is given at first
    StopSummary,    \* 8, no summary below it
    SnippetMax,     \* 240, the longest line of a summary
    LeastContent,   \* 4, essential messages are not cut below it
    Rounds          \* 64, how often essential messages are cut

ASSUME ContextAssumption ==
    /\ {Header, Opening, CompactAt} \subseteq Nat
    /\ {MaxSeqLen, RecentTurns, MaxSummary, LeastSummary, StopSummary, SnippetMax,
        LeastContent, Rounds} \subseteq Nat \ {0}

Least(a, b) == IF a < b THEN a ELSE b
Most(a, b)  == IF a > b THEN a ELSE b

Size(messages) ==
    FoldLeft(LAMBDA n, m : n + Header + Len(m.content), Opening, messages)

\* The elements of s at the places I, in their order.
Kept(s, I) ==
    LET F[n \in 0 .. Len(s)] ==
            IF n = 0 THEN <<>> ELSE IF n \in I THEN Append(F[n - 1], s[n]) ELSE F[n - 1]
    IN F[Len(s)]
Without(s, toks) == Kept(s, {i \in DOMAIN s : s[i] \notin toks})
Place(s, x) == Min({i \in DOMAIN s : s[i] = x})
After(s, x) == SubSeq(s, Place(s, x) + 1, Len(s))

\* What stays of an assistant turn: its final blocks; else what follows an open
\* one; else the text without its thoughts, cut where a thought is left open.
NoBlock == [open |-> FALSE, block |-> <<>>, text |-> <<>>]
FinalBlocks(s) ==
    FoldLeft(LAMBDA b, x :
               IF ~b.open THEN [b EXCEPT !.open = (x = "fs")]
               ELSE IF x = "fe" THEN [NoBlock EXCEPT !.text = b.text \o b.block]
               ELSE [b EXCEPT !.block = Append(@, x)],
             NoBlock, s).text

NoThought == [open |-> FALSE, text |-> <<>>]
DropThoughts(s) ==
    FoldLeft(LAMBDA b, x :
               IF b.open THEN [b EXCEPT !.open = (x # "te")]
               ELSE IF x = "ts" THEN [b EXCEPT !.open = TRUE]
               ELSE [b EXCEPT !.text = Append(@, x)],
             NoThought, s).text

Closed(s) == "fs" \in ToSet(s) /\ "fe" \in ToSet(After(s, "fs"))

\* Mutant: an open final block is taken for a whole turn.
SanitizeOpen(s) == IF Closed(s) THEN FinalBlocks(s) ELSE Without(s, {"ts", "te", "fs", "fe"})

Sanitize(s) ==
    IF Closed(s) THEN FinalBlocks(s)
    ELSE IF "fs" \in ToSet(s) THEN Without(After(s, "fs"), {"fe"})
    ELSE Without(DropThoughts(s), {"te"})

\* Assistant turns with nothing left are dropped.
Normalize(messages) ==
    LET clean == [i \in DOMAIN messages |->
            IF messages[i].role # "assistant" THEN messages[i]
            ELSE [messages[i] EXCEPT !.content = Sanitize(@)]]
    IN Kept(clean, {i \in DOMAIN clean : clean[i].role # "assistant" \/ clean[i].content # <<>>})

\* Mutant: every message is a turn.
TurnsApart(messages) == [i \in DOMAIN messages |-> <<messages[i]>>]

\* A turn starts with a user message; what precedes the first one is a turn too.
Turns(messages) ==
    FoldLeft(LAMBDA turns, m :
               IF m.role = "user" \/ turns = <<>> THEN Append(turns, <<m>>)
               ELSE Front(turns) \o <<Append(Last(turns), m)>>,
             <<>>, messages)

NoSummary(n) == [lines |-> <<>>, message |-> <<>>, included |-> 0, dropped |-> n]

\* The cost of a summary, and the longest lines of a message that fit in it.
Line(m, limit) == <<"line">> \o SubSeq(m.content, 1, limit)
Cost(lines, omitted) == 1 + Len(FlattenSeq(lines)) + (IF omitted > 0 THEN 1 ELSE 0)
Limits(s, m, n, budget) ==
    {l \in 1 .. Least(SnippetMax, Len(m.content)) :
        Cost(<<Line(m, l)>> \o s.lines, n - (s.included + 1)) <= budget}

\* Newest first, each message gets the longest line that still fits beside the
\* lines chosen before; one that does not fit at all is left out, and an older
\* one may still get in.
Picked(s, m, n, budget) ==
    IF Limits(s, m, n, budget) = {} THEN s
    ELSE [s EXCEPT !.lines = <<Line(m, Max(Limits(s, m, n, budget)))>> \o @,
                   !.included = @ + 1]

Chosen(messages, budget) ==
    LET n == Len(messages)
        Pick(s, m) == Picked(s, m, n, budget)
    IN FoldLeft(Pick, NoSummary(n), Reverse(messages))

SummaryText(lines, dropped, budget) ==
    IF lines = <<>> THEN SubSeq(<<"summary", "omitted">>, 1, Least(2, budget))
    ELSE <<"summary">> \o FlattenSeq(lines) \o (IF dropped > 0 THEN <<"omitted">> ELSE <<>>)

\* The message of a summary is <<>> or one system message.
BuildSummary(messages, budget) ==
    LET n == Len(messages)
        chosen == Chosen(messages, budget)
        dropped == n - chosen.included
    IN IF n = 0 \/ budget < StopSummary THEN NoSummary(n)
       ELSE [chosen EXCEPT !.dropped = dropped,
                !.message = <<[role |-> "system",
                               content |-> SummaryText(chosen.lines, dropped, budget)]>>]

\* The middle of a long text gives way to the truncation marker.
HeadTail(content, target) ==
    LET kept == Most(1, target - 1)
        head == Most(1, (kept * 65) \div 100)
        tail == kept - head
    IN IF Len(content) <= target THEN content
       ELSE SubSeq(content, 1, head)
            \o (IF tail = 0 THEN <<>>
                ELSE <<"marker">> \o SubSeq(content, Len(content) - tail + 1, Len(content)))

\* The longest of the essential messages is cut, as often as it takes.
CutLongest(ms, budget) ==
    LET longest == Max({Len(ms[i].content) : i \in DOMAIN ms})
        i == Min({j \in DOMAIN ms : Len(ms[j].content) = longest})
        target == Most(LeastContent, longest - (Size(ms) - budget) - LeastContent)
    IN IF Size(ms) <= budget \/ longest <= LeastContent THEN ms
       ELSE [ms EXCEPT ![i].content = HeadTail(@, target)]

FitEssential(messages, budget) ==
    FoldLeft(LAMBDA ms, round : CutLongest(ms, budget), messages,
             [round \in 1 .. Rounds |-> round])

Fits(ms, budget) == Size(ms) <= budget

Budget(maxOutput) ==
    IF CompactAt = 0 THEN MaxSeqLen - maxOutput
    ELSE Least(MaxSeqLen - maxOutput, CompactAt)
SummaryBudget(budget) == Least(MaxSummary, Most(LeastSummary, budget \div 4))

Recent(turns, k) == FlattenSeq(SubSeq(turns, Len(turns) - k + 1, Len(turns)))
Older(turns, k)  == FlattenSeq(SubSeq(turns, 1, Len(turns) - k))

\* A candidate: the instructions, a summary of the older turns, the k newest.
With(systems, turns, k, s) == systems \o s.message \o Recent(turns, k)

Shrink(systems, turns, k, budget) ==
    LET older == Older(turns, k)
        S[b \in 0 .. SummaryBudget(budget)] ==
            IF b < StopSummary THEN NoSummary(Len(older))
            ELSE LET s == BuildSummary(older, b)
                     over == Size(With(systems, turns, k, s)) - budget
                 IN IF over <= 0 THEN s ELSE S[Most(0, b - Most(StopSummary, over))]
    IN S[SummaryBudget(budget)]

Summary(systems, turns, k, budget) ==
    LET s == BuildSummary(Older(turns, k), SummaryBudget(budget))
    IN IF Fits(With(systems, turns, k, s), budget) THEN s
       ELSE Shrink(systems, turns, k, budget)

\* The plan of fit(): [messages, retained, summarized, dropped], or no plan.
NoPlan == [messages |-> <<>>, retained |-> 0, summarized |-> 0, dropped |-> 0]

\* How many of the newest turns can stay beside a summary of the others.
Roomy(systems, turns, budget) ==
    {k \in 1 .. Least(RecentTurns, Len(turns)) :
        Fits(With(systems, turns, k, Summary(systems, turns, k, budget)), budget)}

Compacted(systems, turns, k, s) ==
    [messages |-> With(systems, turns, k, s),
     retained |-> Len(systems) + Len(Recent(turns, k)),
     summarized |-> s.included, dropped |-> s.dropped]

Whole(ms, dropped) ==
    [messages |-> ms, retained |-> Len(ms), summarized |-> 0, dropped |-> dropped]

Planned(all, systems, turns, budget) ==
    LET roomy == Roomy(systems, turns, budget)
        k     == Max(roomy)
        cut   == FitEssential(systems \o Recent(turns, Least(1, Len(turns))), budget)
    IN IF Fits(all, budget) THEN Whole(all, 0)
       ELSE IF roomy # {}
       THEN Compacted(systems, turns, k, Summary(systems, turns, k, budget))
       ELSE IF Fits(cut, budget) THEN Whole(cut, Most(0, Len(all) - Len(cut)))
       ELSE NoPlan

Fit(given, maxOutput) ==
    LET budget == Budget(maxOutput)
        all    == Normalize(given)
        system == {i \in DOMAIN all : all[i].role = "system"}
    IN IF maxOutput < 1 \/ budget < 1 \/ all = <<>> THEN NoPlan
       ELSE Planned(all, Kept(all, system), Turns(Kept(all, DOMAIN all \ system)), budget)
===============================================================================
