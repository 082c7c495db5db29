---------------------------- MODULE AnswersProofs ----------------------------
(***************************************************************************)
(* What the clients of the engine are answered.  First the groups of       *)
(* merged requests, for every number of requests and prompts, every limit  *)
(* and batch, sampled requests among them, requests that are cancelled or  *)
(* late, and both ways to collect results.  Then what is generated, for    *)
(* every vocabulary, target model, budget, draft length and request: stop  *)
(* sequences are cut out of an answer, nothing follows the end of a JSON   *)
(* value, and all ways to draw a token agree.  Last the model the answers  *)
(* are computed with, for every checkpoint, source, table of routes, batch *)
(* and size: it routes by the checkpoint's own table, and every query      *)
(* attends to its own past on each of the ways attention is computed, and  *)
(* quantised weights are within a step of what they were.                  *)
(***************************************************************************)
EXTENDS MergedRequests, Generation, ModelWeights, FiniteSetTheorems, SequenceTheorems,
        NaturalsInduction, WellFoundedInduction, TLAPS

-----------------------------------------------------------------------------
(* Merged requests. *)

Queues(e) == e.pending \cup e.running \cup e.finished

\* What holds of the engine's record between any two parts of a step.  The
\* primary of a prompt is no secondary itself, and who has a result is none any more.
Grouped(e) ==
    /\ e \in Engine
    /\ e.secs \cap Queues(e) = {}
    /\ \A p \in Prompts :
         /\ e.prim[p].rid \notin e.secs
         /\ e.prim[p].secs = {s \in e.secs : PromptOf[s] = p /\ e.joined[s] = e.prim[p].rid}
    /\ \A s \in e.secs : s \in e.group /\ e.joined[s] # Nobody
    /\ \A x \in e.results : x[1] \notin e.secs

\* s is what o ends with.
Suffix(s, o) ==
    /\ Len(s) <= Len(o)
    /\ \A i \in 1 .. Len(s) : s[i] = o[Len(o) - Len(s) + i]

Paced(e) ==
    \A s \in e.secs : e.joined[s] = PrimaryOf(e, s) => Suffix(e.out[s], e.out[PrimaryOf(e, s)])

\* A part of a step makes f of e, and brings nobody in.
After(e, f) ==
    /\ f.joined = e.joined /\ f.secs \subseteq e.secs /\ f.group \subseteq e.group
    /\ Queues(f) \subseteq Queues(e)
    /\ \A p \in Prompts : f.prim[p].rid \in {e.prim[p].rid, Nobody}
    /\ \A r \in Request : r \notin Queues(e) \cup e.secs => f.out[r] = e.out[r]

Fine(e, f) == Grouped(f) /\ Paced(f) /\ After(e, f)

\* Who did not come yet is nowhere.
Unborn(r) ==
    /\ r \notin eng.secs \cup eng.group \cup Queues(eng) /\ eng.out[r] = <<>>
    /\ \A s \in Request : eng.joined[s] # r
    /\ \A p \in Prompts : eng.prim[p].rid # r

\* The inductive invariant.
MergedInv ==
    /\ Grouped(eng) /\ Paced(eng)
    /\ eng.results = {}
    /\ \A s \in eng.secs : answer[s] = "waiting"
    /\ \A r \in Request : answer[r] = "new" => Unborn(r)
    /\ DOMAIN answer = Request

-----------------------------------------------------------------------------
(* The parts of a step. *)

LEMMA Constants == Nobody \notin Request /\ \A r \in Request : PromptOf[r] \in Prompts
BY MergedAssumption DEF Nobody, Request

\* Secondaries that end and groups that are dissolved leave the others in order.
LEMMA Shrinks ==
    ASSUME NEW e, NEW f \in Engine, Grouped(e), Paced(e),
           f.joined = e.joined, f.out = e.out,
           f.secs \subseteq e.secs, f.group \subseteq e.group, f.secs \subseteq f.group,
           Queues(f) \subseteq Queues(e),
           \A p \in Prompts : \/ f.prim[p] = NoGroup
                              \/ /\ f.prim[p].rid = e.prim[p].rid
                                 /\ f.prim[p].secs = e.prim[p].secs \cap f.secs,
           \A x \in f.results : x[1] \notin f.secs
    PROVE  Fine(e, f)
<1>1. e \in Engine /\ f.secs \subseteq Request
    BY DEF Grouped, Engine
<1>2. ASSUME NEW p \in Prompts
      PROVE  /\ f.prim[p].rid \notin f.secs /\ f.prim[p].rid \in {e.prim[p].rid, Nobody}
             /\ f.prim[p].secs = {s \in f.secs : PromptOf[s] = p /\ f.joined[s] = f.prim[p].rid}
    <2>1. CASE f.prim[p] = NoGroup
        <3>1. f.prim[p].rid = Nobody /\ f.prim[p].secs = {}
            BY <2>1 DEF NoGroup
        <3>2. \A s \in f.secs : f.joined[s] # Nobody
            BY DEF Grouped
        <3> QED BY <1>1, <3>1, <3>2, Constants
    <2>2. CASE f.prim[p].rid = e.prim[p].rid /\ f.prim[p].secs = e.prim[p].secs \cap f.secs
        BY <2>2 DEF Grouped
    <2> QED BY <2>1, <2>2
<1>3. f.secs \cap Queues(f) = {} /\ \A s \in f.secs : s \in f.group /\ f.joined[s] # Nobody
    BY DEF Grouped
<1>4. Grouped(f)
    BY <1>2, <1>3 DEF Grouped
<1>5. Paced(f)
    <2> SUFFICES ASSUME NEW s \in f.secs, f.joined[s] = PrimaryOf(f, s)
                 PROVE  Suffix(f.out[s], f.out[PrimaryOf(f, s)])
        BY DEF Paced
    <2>1. PrimaryOf(f, s) = PrimaryOf(e, s)
        BY <1>1, <1>2, <1>3, Constants DEF PrimaryOf
    <2> QED BY <2>1 DEF Paced
<1>6. After(e, f)
    BY <1>2 DEF After
<1> QED BY <1>4, <1>5, <1>6 DEF Fine

\* The two halves of a part, or two parts.
LEMMA Then ==
    ASSUME NEW e, NEW f, NEW g, Fine(e, f), After(f, g), Grouped(g), Paced(g)
    PROVE  Fine(e, g)
<1>1. After(e, g)
    BY DEF Fine, After
<1> QED BY <1>1 DEF Fine

Reasons == {"length", "stop", "cancelled", "timeout"}

LEMMA DissolveFine ==
    ASSUME NEW e, Grouped(e), Paced(e), NEW R \in SUBSET Request, R \cap e.secs = {}, NEW why,
           \A s \in Request : why[s] \in Reasons
    PROVE  LET f == Dissolve(e, R, why) IN
           /\ Fine(e, f)
           /\ f.pending = e.pending /\ f.running = e.running /\ f.finished = e.finished
           /\ f.cancelled = e.cancelled /\ f.why = e.why
<1> DEFINE gone == UNION {e.prim[p].secs : p \in Dissolved(e, R)}
           f == Dissolve(e, R, why)
<1>1. e \in Engine
    BY DEF Grouped
<1>2. /\ f.group = e.group \ (R \cup gone) /\ f.secs = e.secs \ gone
      /\ f.results = e.results \cup {<<s, why[s]>> : s \in gone \cap e.secs}
      /\ f.prim = [p \in Prompts |-> IF p \in Dissolved(e, R) THEN NoGroup ELSE e.prim[p]]
      /\ f.pending = e.pending /\ f.running = e.running /\ f.finished = e.finished
      /\ f.cancelled = e.cancelled /\ f.why = e.why /\ f.joined = e.joined /\ f.out = e.out
    BY <1>1 DEF Dissolve, Engine
<1>3. f \in Engine
    <2>1. /\ f.results \in SUBSET (Request \X Reasons)
        BY <1>1, <1>2 DEF Engine, Reasons
    <2>2. f.prim \in [Prompts -> [rid : Request \cup {Nobody}, secs : SUBSET Request]]
        BY <1>1, <1>2 DEF Engine, NoGroup
    <2>3. f.group \in SUBSET Request /\ f.secs \in SUBSET Request
        BY <1>1, <1>2 DEF Engine
    <2> QED BY <1>1, <2>1, <2>2, <2>3, <1>2 DEF Dissolve, Engine, Reasons
<1>4. \A p \in Prompts : \/ f.prim[p] = NoGroup
                         \/ /\ f.prim[p].rid = e.prim[p].rid
                            /\ f.prim[p].secs = e.prim[p].secs \cap f.secs
    <2> SUFFICES ASSUME NEW p \in Prompts, p \notin Dissolved(e, R)
                 PROVE  f.prim[p] = e.prim[p] /\ e.prim[p].secs = e.prim[p].secs \cap f.secs
        BY <1>2
    <2>1. \A q \in Prompts : e.prim[q].secs = {s \in e.secs : PromptOf[s] = q /\ e.joined[s] = e.prim[q].rid}
        BY DEF Grouped
    <2>2. e.prim[p].secs \cap gone = {} /\ e.prim[p].secs \subseteq e.secs
        BY <2>1 DEF Dissolved
    <2> QED BY <1>2, <2>2
<1>5. f.secs \subseteq f.group
    BY <1>2 DEF Grouped
<1>6. \A x \in f.results : x[1] \notin f.secs
    <2>1. \A x \in e.results : x[1] \notin f.secs
        BY <1>2 DEF Grouped
    <2> QED BY <1>2, <2>1
<1>7. Queues(f) \subseteq Queues(e) /\ f.group \subseteq e.group /\ f.secs \subseteq e.secs
    BY <1>2 DEF Queues
<1> HIDE DEF f
<1>8. Fine(e, f)
    BY <1>2, <1>3, <1>4, <1>5, <1>6, <1>7, Shrinks
<1> QED BY <1>2, <1>8 DEF f

\* Requests that only change their queue, or leave it.
LEMMA Moved ==
    ASSUME NEW f, NEW g \in Engine, Grouped(f), Paced(f), Queues(g) \subseteq Queues(f),
           g.out = f.out, g.prim = f.prim, g.group = f.group, g.secs = f.secs,
           g.joined = f.joined, g.results = f.results
    PROVE  Fine(f, g)
<1>1. \A p \in Prompts : /\ g.prim[p].rid = f.prim[p].rid
                         /\ g.prim[p].secs = f.prim[p].secs \cap g.secs
    BY DEF Grouped
<1>2. g.secs \subseteq g.group /\ \A x \in g.results : x[1] \notin g.secs
    BY DEF Grouped
<1> QED BY <1>1, <1>2, Shrinks

LEMMA Results == \A e, r : Result(e, r) \in Reasons
BY DEF Result, Reasons

LEMMA CleanUpFine == ASSUME NEW e, Grouped(e), Paced(e) PROVE Fine(e, CleanUp(e))
<1> DEFINE why == [s \in Request |-> Result(e, s)]
           f == Dissolve(e, e.finished, why)
           g == CleanUp(e)
<1>1. e.finished \in SUBSET Request /\ e.finished \cap e.secs = {}
    BY DEF Grouped, Engine, Queues
<1>2. \A s \in Request : why[s] \in Reasons
    BY Results
<1> HIDE DEF why
<1>3. Fine(e, f) /\ f.pending = e.pending /\ f.running = e.running /\ f.finished = e.finished
    BY <1>1, <1>2, DissolveFine
<1>4. g = [f EXCEPT !.finished = {}]
    BY DEF CleanUp, why
<1> HIDE DEF f, g
<1>5. f \in Engine /\ Grouped(f) /\ Paced(f)
    BY <1>3 DEF Fine, Grouped
<1>6. /\ g \in Engine /\ g.pending = f.pending /\ g.running = f.running /\ g.finished = {}
      /\ g.out = f.out /\ g.prim = f.prim /\ g.group = f.group /\ g.secs = f.secs
      /\ g.joined = f.joined /\ g.results = f.results
    BY <1>4, <1>5 DEF Engine
<1>7. Fine(f, g)
    BY <1>5, <1>6, Moved DEF Queues
<1>8. Fine(e, g)
    BY <1>3, <1>7, Then DEF Fine
<1> QED BY <1>8 DEF g

LEMMA CheckRunningFine ==
    ASSUME NEW e, Grouped(e), Paced(e), NEW late PROVE Fine(e, CheckRunning(e, late))
<1> DEFINE over == e.running \cap (e.cancelled \cup late)
           why == [s \in Request |-> Why(e, late, PrimaryOf(e, s))]
           f == Dissolve(e, over, why)
           g == CheckRunning(e, late)
<1>1. over \in SUBSET Request /\ over \cap e.secs = {}
    BY DEF Grouped, Engine, Queues
<1>2. \A s \in Request : why[s] \in Reasons
    BY DEF Why, Reasons
<1>3. \A r \in over : Why(e, late, r) \in {"cancelled", "timeout"}
    BY DEF Why
<1>4. g = [f EXCEPT !.running = @ \ over, !.finished = @ \cup over, !.cancelled = @ \ over,
                    !.why = [r \in Request |-> IF r \in over THEN Why(e, late, r) ELSE @[r]]]
    BY DEF CheckRunning
<1>5. over \subseteq e.running
    OBVIOUS
<1> HIDE DEF why, over
<1>6. Fine(e, f) /\ f.pending = e.pending /\ f.running = e.running /\ f.finished = e.finished
    BY <1>1, <1>2, DissolveFine
<1> HIDE DEF f, g
<1>7. f \in Engine /\ Grouped(f) /\ Paced(f)
    BY <1>6 DEF Fine, Grouped
<1>8. /\ g.pending = f.pending /\ g.running = f.running \ over /\ g.finished = f.finished \cup over
      /\ g.out = f.out /\ g.prim = f.prim /\ g.group = f.group /\ g.secs = f.secs
      /\ g.joined = f.joined /\ g.results = f.results
    BY <1>4, <1>7 DEF Engine
<1>9. g \in Engine
    <2>1. [r \in Request |-> IF r \in over THEN Why(e, late, r) ELSE f.why[r]]
          \in [Request -> {"none", "cancelled", "timeout"}]
        BY <1>3, <1>7 DEF Engine
    <2> QED BY <1>1, <1>4, <1>7, <2>1 DEF Engine
<1>10. Fine(f, g)
    BY <1>5, <1>6, <1>7, <1>8, <1>9, Moved DEF Queues
<1>11. Fine(e, g)
    BY <1>6, <1>10, Then DEF Fine
<1> QED BY <1>11 DEF g

LEMMA CheckPendingFine ==
    ASSUME NEW e, Grouped(e), Paced(e) PROVE Fine(e, CheckPending(e))
<1> DEFINE over == e.pending \cap e.cancelled
           g == CheckPending(e)
<1>1. e \in Engine /\ over \subseteq e.pending
    BY DEF Grouped
<1>2. g = [e EXCEPT !.pending = @ \ over, !.finished = @ \cup over, !.cancelled = @ \ over,
                    !.why = [r \in Request |-> IF r \in over THEN "cancelled" ELSE @[r]]]
    BY DEF CheckPending
<1> HIDE DEF over, g
<1>3. /\ g.pending = e.pending \ over /\ g.running = e.running /\ g.finished = e.finished \cup over
      /\ g.out = e.out /\ g.prim = e.prim /\ g.group = e.group /\ g.secs = e.secs
      /\ g.joined = e.joined /\ g.results = e.results
    BY <1>1, <1>2 DEF Engine
<1>4. g \in Engine
    <2>1. [r \in Request |-> IF r \in over THEN "cancelled" ELSE e.why[r]]
          \in [Request -> {"none", "cancelled", "timeout"}]
        BY <1>1 DEF Engine
    <2> QED BY <1>1, <1>2, <2>1 DEF Engine
<1>5. Fine(e, g)
    BY <1>1, <1>3, <1>4, Moved DEF Queues
<1> QED BY <1>5 DEF g

LEMMA EndsFine ==
    ASSUME NEW e, Grouped(e), Paced(e), NEW S \in SUBSET e.secs, NEW why,
           \A s \in S : why[s] \in Reasons
    PROVE  LET f == Ends(e, S, why) IN
           /\ Fine(e, f)
           /\ f.pending = e.pending /\ f.running = e.running /\ f.finished = e.finished
           /\ f.cancelled = e.cancelled /\ f.why = e.why
<1> DEFINE prim == [p \in Prompts |-> [rid |-> e.prim[p].rid, secs |-> e.prim[p].secs \ S]]
           results == e.results \cup {<<s, why[s]>> : s \in S}
           f == Ends(e, S, why)
<1>1. e \in Engine
    BY DEF Grouped
<1>1a. f = [e EXCEPT !.secs = @ \ S, !.group = @ \ S, !.results = results, !.prim = prim]
    BY DEF Ends
<1>1b. \A p \in Prompts : /\ prim[p] \in [rid : Request \cup {Nobody}, secs : SUBSET Request]
                         /\ prim[p].rid = e.prim[p].rid /\ prim[p].secs = e.prim[p].secs \ S
    BY <1>1 DEF Engine
<1>1c. prim \in [Prompts -> [rid : Request \cup {Nobody}, secs : SUBSET Request]]
    BY <1>1b
<1>1d. results \in SUBSET (Request \X Reasons)
    BY <1>1 DEF Engine, Reasons
<1> HIDE DEF prim, f
<1>2. /\ f.group = e.group \ S /\ f.secs = e.secs \ S
      /\ f.results = results /\ f.prim = prim
      /\ f.pending = e.pending /\ f.running = e.running /\ f.finished = e.finished
      /\ f.cancelled = e.cancelled /\ f.why = e.why /\ f.joined = e.joined /\ f.out = e.out
    BY <1>1a, <1>1 DEF Engine
<1>3. f \in Engine
    BY <1>1a, <1>1c, <1>1d, <1>1 DEF Engine, Reasons
<1>4. \A p \in Prompts : /\ f.prim[p].rid = e.prim[p].rid
                         /\ f.prim[p].secs = e.prim[p].secs \cap f.secs
    <2> SUFFICES ASSUME NEW p \in Prompts
                 PROVE  f.prim[p].rid = e.prim[p].rid /\ f.prim[p].secs = e.prim[p].secs \cap f.secs
        OBVIOUS
    <2>1. f.prim[p].rid = e.prim[p].rid /\ f.prim[p].secs = e.prim[p].secs \ S
        BY <1>1b, <1>2
    <2>2. e.prim[p].secs \subseteq e.secs
        BY DEF Grouped
    <2> QED BY <1>2, <2>1, <2>2
<1>5. f.secs \subseteq f.group /\ f.group \subseteq e.group /\ f.secs \subseteq e.secs
    BY <1>2 DEF Grouped
<1>6. \A x \in f.results : x[1] \notin f.secs
    <2>1. \A x \in e.results : x[1] \notin f.secs
        BY <1>2 DEF Grouped
    <2> QED BY <1>2, <2>1
<1>7. Queues(f) \subseteq Queues(e)
    BY <1>2 DEF Queues
<1>8. Fine(e, f)
    BY <1>2, <1>3, <1>4, <1>5, <1>6, <1>7, Shrinks
<1> QED BY <1>2, <1>8 DEF f

LEMMA CheckSecondariesFine ==
    ASSUME NEW e, Grouped(e), Paced(e), NEW late PROVE Fine(e, CheckSecondaries(e, late))
<1> DEFINE over == {s \in e.secs : s \in e.cancelled \cup late \/ Orphan(e, s)}
           why == [s \in Request |-> Why(e, late, s)]
           f == Ends(e, over, why)
           g == CheckSecondaries(e, late)
<1>1. over \in SUBSET e.secs /\ over \subseteq Request
    BY DEF Grouped, Engine
<1>2. \A s \in over : why[s] \in Reasons
    BY <1>1 DEF Why, Reasons
<1>3. g = [f EXCEPT !.cancelled = @ \ over]
    BY DEF CheckSecondaries
<1> HIDE DEF over, why
<1>4. Fine(e, f)
    BY <1>1, <1>2, EndsFine
<1> HIDE DEF f, g
<1>5. f \in Engine /\ Grouped(f) /\ Paced(f)
    BY <1>4 DEF Fine, Grouped
<1>6. /\ g.pending = f.pending /\ g.running = f.running /\ g.finished = f.finished
      /\ g.out = f.out /\ g.prim = f.prim /\ g.group = f.group /\ g.secs = f.secs
      /\ g.joined = f.joined /\ g.results = f.results /\ g \in Engine
    BY <1>3, <1>5 DEF Engine
<1>7. Fine(f, g)
    BY <1>5, <1>6, Moved DEF Queues
<1>8. Fine(e, g)
    BY <1>4, <1>7, Then DEF Fine
<1> QED BY <1>8 DEF g

LEMMA ScheduleFine == ASSUME NEW e, Grouped(e), Paced(e) PROVE Fine(e, Schedule(e))
<1> DEFINE over  == {r \in e.running : Ended(e, r)}
           admit == First(e.pending, MaxBatch - Cardinality(e.running \ over))
           g == Schedule(e)
<1>1. e \in Engine /\ over \subseteq e.running /\ admit \subseteq e.pending
    BY DEF Grouped, First
<1>2. g = [e EXCEPT !.finished = @ \cup over, !.running = (@ \ over) \cup admit, !.pending = @ \ admit]
    BY DEF Schedule
<1> HIDE DEF over, admit, g
<1>3. /\ g.pending = e.pending \ admit /\ g.running = (e.running \ over) \cup admit
      /\ g.finished = e.finished \cup over
      /\ g.out = e.out /\ g.prim = e.prim /\ g.group = e.group /\ g.secs = e.secs
      /\ g.joined = e.joined /\ g.results = e.results
    BY <1>1, <1>2 DEF Engine
<1>4. g \in Engine
    BY <1>1, <1>2 DEF Engine
<1>5. Fine(e, g)
    BY <1>1, <1>3, <1>4, Moved DEF Queues
<1> QED BY <1>5 DEF g

\* The same token for both.
LEMMA SuffixGrows ==
    ASSUME NEW s \in Seq(Nat), NEW o \in Seq(Nat), NEW t \in Nat, Suffix(s, o)
    PROVE  Suffix(Append(s, t), Append(o, t))
<1> DEFINE a == Append(s, t)
           b == Append(o, t)
<1>1. Len(s) \in Nat /\ Len(o) \in Nat /\ Len(a) = Len(s) + 1 /\ Len(b) = Len(o) + 1
    OBVIOUS
<1>2. ASSUME NEW i \in 1 .. Len(a) PROVE a[i] = b[Len(b) - Len(a) + i]
    <2>1. CASE i = Len(s) + 1
        BY <1>1, <2>1
    <2>2. CASE i # Len(s) + 1
        <3>1. i \in 1 .. Len(s) /\ Len(b) - Len(a) + i = Len(o) - Len(s) + i
              /\ Len(o) - Len(s) + i \in 1 .. Len(o)
            BY <1>1, <2>2 DEF Suffix
        <3>2. a[i] = s[i] /\ b[Len(o) - Len(s) + i] = o[Len(o) - Len(s) + i]
            BY <3>1
        <3> QED BY <3>1, <3>2 DEF Suffix
    <2> QED BY <2>1, <2>2
<1>3. Len(a) <= Len(b)
    BY <1>1 DEF Suffix
<1> HIDE DEF a, b
<1>4. Suffix(a, b)
    BY <1>2, <1>3 DEF Suffix
<1> QED BY <1>4 DEF a, b

LEMMA CopiesFine == ASSUME NEW e, Grouped(e), Paced(e) PROVE Fine(e, Copies(e))
<1> DEFINE next(r) == TokenAt(Len(e.out[r]) + 1)
           given == [r \in Request |->
                     IF r \in e.running THEN Append(e.out[r], next(r))
                     ELSE IF r \in Fed(e) THEN Append(e.out[r], next(PrimaryOf(e, r)))
                     ELSE e.out[r]]
           x == [e EXCEPT !.out = given]
           why == [s \in Request |-> Result(x, s)]
<1>1. /\ e \in Engine /\ e.out \in [Request -> Seq(Nat)] /\ e.secs \subseteq Request
      /\ e.secs \cap e.running = {}
    BY DEF Grouped, Engine, Queues
<1>2. /\ \A p \in Prompts : /\ e.prim[p].rid \notin e.secs
                            /\ e.prim[p].secs = {s \in e.secs : PromptOf[s] = p /\ e.joined[s] = e.prim[p].rid}
      /\ \A s \in e.secs : e.joined[s] \in Request
    BY <1>1 DEF Grouped, Engine
<1>3. Fed(e) \subseteq e.secs
    BY <1>2 DEF Fed
<1>4. \A r \in Request : next(r) \in Nat
    BY <1>1, MergedAssumption DEF TokenAt
<1>5. \A r \in Fed(e) : PrimaryOf(e, r) = e.joined[r] /\ PrimaryOf(e, r) \in e.running
    BY <1>2 DEF Fed, PrimaryOf
<1>6. given \in [Request -> Seq(Nat)]
    <2> SUFFICES ASSUME NEW r \in Request PROVE given[r] \in Seq(Nat)
        OBVIOUS
    <2>1. e.out[r] \in Seq(Nat)
        BY <1>1
    <2>2. r \in Fed(e) => PrimaryOf(e, r) \in Request
        BY <1>2, <1>3, <1>5
    <2> HIDE DEF next
    <2> QED BY <1>4, <2>1, <2>2
<1>7. /\ x \in Engine /\ x.out = given /\ x.prim = e.prim /\ x.group = e.group /\ x.secs = e.secs
      /\ x.joined = e.joined /\ x.results = e.results /\ x.running = e.running
      /\ x.pending = e.pending /\ x.finished = e.finished
    <2> HIDE DEF given
    <2> QED BY <1>1, <1>6 DEF Engine
<1>8. Copies(e) = Ends(x, {s \in Fed(e) : Ended(x, s)}, why)
    BY DEF Copies
<1>9. {s \in Fed(e) : Ended(x, s)} \in SUBSET x.secs
    BY <1>3, <1>7
<1>10. \A s \in {q \in Fed(e) : Ended(x, q)} : why[s] \in Reasons
    BY <1>1, <1>3, Results
<1>11. Paced(x)
    <2> SUFFICES ASSUME NEW s \in e.secs, e.joined[s] = PrimaryOf(e, s)
                 PROVE  Suffix(given[s], given[PrimaryOf(e, s)])
        BY <1>7 DEF Paced, PrimaryOf
    <2> DEFINE p == PrimaryOf(e, s)
    <2>1. s \in Request /\ s \notin e.running /\ p \in Request /\ p \notin e.secs /\ p \notin Fed(e)
        BY <1>1, <1>2, <1>3, Constants DEF PrimaryOf
    <2>2. Suffix(e.out[s], e.out[p]) /\ e.out[s] \in Seq(Nat) /\ e.out[p] \in Seq(Nat)
        BY <1>1, <2>1 DEF Paced
    <2>3. CASE p \in e.running
        <3>1. s \in Fed(e)
            BY <1>2, <2>1, <2>3, Constants DEF Fed, PrimaryOf
        <3>2. given[s] = Append(e.out[s], next(p)) /\ given[p] = Append(e.out[p], next(p))
            BY <2>1, <2>3, <3>1
        <3>3. next(p) \in Nat
            BY <1>4, <2>1
        <3> HIDE DEF given, next
        <3> QED BY <2>2, <3>2, <3>3, SuffixGrows
    <2>4. CASE p \notin e.running
        <3>1. s \notin Fed(e)
            BY <1>5, <2>4
        <3>2. given[s] = e.out[s] /\ given[p] = e.out[p]
            BY <2>1, <2>4, <3>1
        <3> HIDE DEF given
        <3> QED BY <2>2, <3>2
    <2> QED BY <2>3, <2>4
<1>12. \A r \in Request : r \notin Queues(e) \cup e.secs => given[r] = e.out[r]
    BY <1>3 DEF Queues
<1> HIDE DEF given, why, x
<1>13. Grouped(x)
    BY <1>7 DEF Grouped, Queues
<1>14. After(e, x)
    BY <1>7, <1>12 DEF After, Queues
<1>15. Fine(x, Copies(e))
    BY <1>8, <1>9, <1>10, <1>11, <1>13, EndsFine
<1> QED BY <1>11, <1>13, <1>14, <1>15, Then DEF Fine

-----------------------------------------------------------------------------
(* The actions. *)

LEMMA MergedInit == Init => MergedInv
<1> SUFFICES ASSUME Init PROVE MergedInv
    OBVIOUS
<1>1. /\ eng.pending = {} /\ eng.running = {} /\ eng.finished = {} /\ eng.secs = {} /\ eng.group = {}
      /\ eng.results = {} /\ eng.joined = [r \in Request |-> Nobody]
      /\ eng.out = [r \in Request |-> <<>>] /\ eng.prim = [p \in Prompts |-> NoGroup]
      /\ answer = [r \in Request |-> "new"]
    BY DEF Init
<1>2. eng \in Engine
    BY DEF Init, Engine, NoGroup
<1>3. \A p \in Prompts : eng.prim[p].rid = Nobody /\ eng.prim[p].secs = {}
    BY <1>1 DEF NoGroup
<1>4. Grouped(eng) /\ Paced(eng)
    BY <1>1, <1>2, <1>3 DEF Grouped, Paced, Queues
<1>5. \A r \in Request : Unborn(r)
    BY <1>1, <1>3, Constants DEF Unborn, Queues
<1> QED BY <1>1, <1>4, <1>5 DEF MergedInv

\* A request that comes, as a secondary or a primary, is found where add_request
\* put it and nowhere else.
LEMMA MergedAdd ==
    ASSUME MergedInv, NEW r \in Request, AddRequest(r) PROVE MergedInv'
<1> DEFINE p == PromptOf[r]
<1>1. /\ eng \in Engine /\ answer[r] = "new" /\ answer' = [answer EXCEPT ![r] = "waiting"]
      /\ Unborn(r) /\ p \in Prompts
    BY Constants DEF MergedInv, Grouped, AddRequest
<1>2. CASE Joins(r)
    <2> DEFINE q == PrimaryOf(eng, r)
               prim == [eng.prim EXCEPT ![p].secs = @ \cup {r}]
    <2>1. /\ q = eng.prim[p].rid /\ q \in eng.group /\ q \in Request /\ q # r
        BY <1>1, <1>2 DEF Joins, PrimaryOf, Engine, Unborn
    <2>2. eng' = [eng EXCEPT !.secs = @ \cup {r}, !.group = @ \cup {r}, !.prim = prim,
                             !.joined = [eng.joined EXCEPT ![r] = q]]
        <3>1. eng' = AsSecondary(r)
            BY <1>2 DEF AddRequest
        <3>2. AsSecondary(r) = [eng EXCEPT !.secs = @ \cup {r}, !.group = @ \cup {r},
                                           !.prim = prim, !.joined = [eng.joined EXCEPT ![r] = q]]
            BY DEF AsSecondary
        <3> QED BY <3>1, <3>2
    <2>3. /\ prim \in [Prompts -> [rid : Request \cup {Nobody}, secs : SUBSET Request]]
          /\ \A t \in Prompts : /\ prim[t].rid = eng.prim[t].rid
                                /\ prim[t].secs = IF t = p THEN eng.prim[t].secs \cup {r} ELSE eng.prim[t].secs
        <3> DEFINE Entry == [rid : Request \cup {Nobody}, secs : SUBSET Request]
                   new == [eng.prim[p] EXCEPT !.secs = @ \cup {r}]
        <3>1. eng.prim \in [Prompts -> Entry]
            BY <1>1 DEF Engine
        <3>2. eng.prim[p] \in Entry
            BY <1>1, <3>1
        <3>3. new \in Entry /\ new.rid = eng.prim[p].rid /\ new.secs = eng.prim[p].secs \cup {r}
            BY <3>2
        <3>4. prim = [eng.prim EXCEPT ![p] = new]
            OBVIOUS
        <3> HIDE DEF prim, new, p
        <3>5. prim \in [Prompts -> Entry]
            BY ONLY <3>1, <3>3, <3>4
        <3>6. \A t \in Prompts : prim[t] = IF t = p THEN new ELSE eng.prim[t]
            BY ONLY <3>1, <3>4
        <3> QED BY <3>3, <3>5, <3>6
    <2> HIDE DEF prim, q, p
    <2>4. /\ eng'.secs = eng.secs \cup {r} /\ eng'.group = eng.group \cup {r} /\ eng'.prim = prim
          /\ eng'.joined = [eng.joined EXCEPT ![r] = q] /\ eng'.out = eng.out
          /\ eng'.pending = eng.pending /\ eng'.running = eng.running /\ eng'.finished = eng.finished
          /\ eng'.results = eng.results
        BY <1>1, <2>2 DEF Engine
    <2>5. eng' \in Engine
        BY <1>1, <2>1, <2>2, <2>3 DEF Engine
    <2>6. eng'.joined[r] = q /\ \A s \in Request \ {r} : eng'.joined[s] = eng.joined[s]
        BY <1>1, <2>4 DEF Engine
    <2>7. eng.secs \subseteq Request /\ r \notin eng.secs \cup Queues(eng) /\ eng.out[r] = <<>>
        BY <1>1 DEF Engine, Unborn
    <2>8. Grouped(eng')
        <3>1. eng'.secs \cap Queues(eng') = {}
            BY <2>4, <2>7 DEF MergedInv, Grouped, Queues
        <3>2. ASSUME NEW t \in Prompts
              PROVE  /\ prim[t].rid \notin eng'.secs
                     /\ prim[t].secs = {s \in eng'.secs : PromptOf[s] = t /\ eng'.joined[s] = prim[t].rid}
            <4>1. /\ eng.prim[t].rid \notin eng.secs
                  /\ eng.prim[t].secs = {s \in eng.secs : PromptOf[s] = t /\ eng.joined[s] = eng.prim[t].rid}
                BY DEF MergedInv, Grouped
            <4>2. prim[t].rid # r
                BY <1>1, <2>3 DEF Unborn
            <4>3. eng'.secs = eng.secs \cup {r} /\ prim[t].rid = eng.prim[t].rid
                BY <2>3, <2>4
            <4>4. \A s \in eng.secs : eng'.joined[s] = eng.joined[s]
                BY <2>6, <2>7
            <4>5. CASE t = p
                <5>1. PromptOf[r] = t /\ eng'.joined[r] = prim[t].rid
                    BY <2>1, <2>3, <2>6, <4>5 DEF p
                <5>2. prim[t].secs = eng.prim[t].secs \cup {r}
                    BY <2>3, <4>5
                <5> QED BY ONLY <4>1, <4>2, <4>3, <4>4, <5>1, <5>2
            <4>6. CASE t # p
                <5>1. PromptOf[r] # t
                    BY <4>6 DEF p
                <5>2. prim[t].secs = eng.prim[t].secs
                    BY <2>3, <4>6
                <5> QED BY ONLY <4>1, <4>2, <4>3, <4>4, <5>1, <5>2
            <4> QED BY <4>5, <4>6
        <3>3. \A s \in eng'.secs : s \in eng'.group /\ eng'.joined[s] # Nobody
            BY <2>1, <2>4, <2>6, <2>7, Constants DEF MergedInv, Grouped
        <3>4. \A x \in eng'.results : x[1] \notin eng'.secs
            BY <2>4 DEF MergedInv
        <3> QED BY <2>4, <2>5, <3>1, <3>2, <3>3, <3>4 DEF Grouped
    <2>9. Paced(eng')
        <3> SUFFICES ASSUME NEW s \in eng'.secs, eng'.joined[s] = PrimaryOf(eng', s)
                     PROVE  Suffix(eng.out[s], eng.out[PrimaryOf(eng', s)])
            BY <2>4 DEF Paced
        <3>1. PrimaryOf(eng', s) = PrimaryOf(eng, s)
            BY <2>3, <2>4, <2>7, Constants DEF PrimaryOf
        <3>2. CASE s = r
            <4>1. PrimaryOf(eng, r) \in Request /\ eng.out[PrimaryOf(eng, r)] \in Seq(Nat)
                BY <2>1, <1>1 DEF q, Engine
            <4> QED BY <4>1, <3>1, <3>2, <2>7 DEF Suffix
        <3>3. CASE s # r
            <4>1. s \in eng.secs /\ eng.joined[s] = PrimaryOf(eng, s)
                BY <2>4, <2>6, <2>7, <3>1, <3>3
            <4> QED BY <3>1, <4>1 DEF MergedInv, Paced
        <3> QED BY <3>2, <3>3
    <2>10. \A s \in eng'.secs : answer'[s] = "waiting"
        BY <1>1, <2>4, <2>7 DEF MergedInv
    <2>11. ASSUME NEW s \in Request, answer'[s] = "new" PROVE Unborn(s)'
        <3>1. s # r /\ Unborn(s)
            BY <1>1, <2>11 DEF MergedInv
        <3>2. s # q
            BY <2>1, <3>1 DEF Unborn
        <3> QED BY <2>3, <2>4, <2>6, <3>1, <3>2 DEF Unborn, Queues
    <2>12. DOMAIN answer' = Request
        BY <1>1 DEF MergedInv
    <2> QED BY <2>4, <2>8, <2>9, <2>10, <2>11, <2>12 DEF MergedInv
<1>3. CASE ~Joins(r)
    <2> DEFINE prim == [eng.prim EXCEPT ![p] = [rid |-> r, secs |-> {}]]
    <2>1. eng' = [eng EXCEPT !.pending = @ \cup {r}, !.group = @ \cup {r}, !.prim = prim]
        <3>1. eng' = AsPrimary(r)
            BY <1>3 DEF AddRequest
        <3>2. AsPrimary(r) = [eng EXCEPT !.pending = @ \cup {r}, !.group = @ \cup {r}, !.prim = prim]
            BY DEF AsPrimary
        <3> QED BY <3>1, <3>2
    <2>2. /\ prim \in [Prompts -> [rid : Request \cup {Nobody}, secs : SUBSET Request]]
          /\ \A t \in Prompts : prim[t] = IF t = p THEN [rid |-> r, secs |-> {}] ELSE eng.prim[t]
        <3>1. eng.prim \in [Prompts -> [rid : Request \cup {Nobody}, secs : SUBSET Request]]
            BY <1>1 DEF Engine
        <3>2. [rid |-> r, secs |-> {}] \in [rid : Request \cup {Nobody}, secs : SUBSET Request]
            OBVIOUS
        <3> HIDE DEF p
        <3> QED BY <3>1, <3>2
    <2> HIDE DEF prim, p
    <2>3. /\ eng'.secs = eng.secs /\ eng'.group = eng.group \cup {r} /\ eng'.prim = prim
          /\ eng'.joined = eng.joined /\ eng'.out = eng.out
          /\ eng'.pending = eng.pending \cup {r} /\ eng'.running = eng.running
          /\ eng'.finished = eng.finished /\ eng'.results = eng.results
        BY <1>1, <2>1 DEF Engine
    <2>4. eng' \in Engine
        BY <1>1, <2>1, <2>2 DEF Engine
    <2>5. eng.secs \subseteq Request /\ r \notin eng.secs /\ \A s \in Request : eng.joined[s] # r
        BY <1>1 DEF Engine, Unborn
    <2>6. Grouped(eng')
        <3>1. eng'.secs \cap Queues(eng') = {}
            BY <2>3, <2>5 DEF MergedInv, Grouped, Queues
        <3>2. \A t \in Prompts :
                  /\ prim[t].rid \notin eng'.secs
                  /\ prim[t].secs = {s \in eng'.secs : PromptOf[s] = t /\ eng'.joined[s] = prim[t].rid}
            BY <2>2, <2>3, <2>5 DEF MergedInv, Grouped
        <3>3. \A s \in eng'.secs : s \in eng'.group /\ eng'.joined[s] # Nobody
            BY <2>3 DEF MergedInv, Grouped
        <3>4. \A x \in eng'.results : x[1] \notin eng'.secs
            BY <2>3 DEF MergedInv
        <3> QED BY <2>3, <2>4, <3>1, <3>2, <3>3, <3>4 DEF Grouped
    <2>7. Paced(eng')
        <3> SUFFICES ASSUME NEW s \in eng.secs, eng.joined[s] = PrimaryOf(eng', s)
                     PROVE  Suffix(eng.out[s], eng.out[PrimaryOf(eng', s)])
            BY <2>3 DEF Paced
        <3>1. PrimaryOf(eng', s) = PrimaryOf(eng, s)
            BY <2>2, <2>3, <2>5, Constants DEF PrimaryOf
        <3> QED BY <3>1 DEF MergedInv, Paced
    <2>8. \A s \in eng'.secs : answer'[s] = "waiting"
        BY <1>1, <2>3, <2>5 DEF MergedInv
    <2>9. ASSUME NEW s \in Request, answer'[s] = "new" PROVE Unborn(s)'
        <3>1. s # r /\ Unborn(s)
            BY <1>1, <2>9 DEF MergedInv
        <3> QED BY <2>2, <2>3, <3>1 DEF Unborn, Queues
    <2>10. DOMAIN answer' = Request
        BY <1>1 DEF MergedInv
    <2> QED BY <2>3, <2>6, <2>7, <2>8, <2>9, <2>10 DEF MergedInv
<1> QED BY <1>2, <1>3

LEMMA MergedCancel ==
    ASSUME MergedInv, NEW r \in Request, CancelRequest(r) PROVE MergedInv'
<1>1. eng \in Engine /\ Grouped(eng) /\ Paced(eng)
    BY DEF MergedInv, Grouped
<1>2. eng' = [eng EXCEPT !.cancelled = @ \cup {r}] /\ answer' = answer
    BY DEF CancelRequest
<1>3. /\ eng'.pending = eng.pending /\ eng'.running = eng.running /\ eng'.finished = eng.finished
      /\ eng'.out = eng.out /\ eng'.prim = eng.prim /\ eng'.group = eng.group
      /\ eng'.secs = eng.secs /\ eng'.joined = eng.joined /\ eng'.results = eng.results
      /\ eng' \in Engine
    BY <1>1, <1>2 DEF Engine
<1>4. Fine(eng, eng')
    BY <1>1, <1>3, Moved DEF Queues
<1> QED BY <1>2, <1>3, <1>4 DEF MergedInv, Fine, Unborn, Queues

LEMMA MergedStep ==
    ASSUME MergedInv, NEW late, Step(late) PROVE MergedInv'
<1> DEFINE a == CleanUp(eng)
           b == CheckRunning(a, late)
           c == CheckPending(b)
           d == CheckSecondaries(c, late)
           s == Schedule(d)
           e == Copies(s)
<1>1. eng' = Collected(e) /\ answer' = Told(e)
    BY DEF Step
<1>2. Fine(eng, e)
    <2>1. Fine(eng, a)
        BY CleanUpFine DEF MergedInv
    <2>2. Fine(a, b)
        BY <2>1, CheckRunningFine DEF Fine
    <2>3. Fine(b, c)
        BY <2>2, CheckPendingFine DEF Fine
    <2>4. Fine(c, d)
        BY <2>3, CheckSecondariesFine DEF Fine
    <2>5. Fine(d, s)
        BY <2>4, ScheduleFine DEF Fine
    <2>6. Fine(s, e)
        BY <2>5, CopiesFine DEF Fine
    <2> HIDE DEF a, b, c, d, s, e
    <2>7. Fine(eng, b)
        BY <2>1, <2>2, Then DEF Fine
    <2>8. Fine(eng, c)
        BY <2>7, <2>3, Then DEF Fine
    <2>9. Fine(eng, d)
        BY <2>8, <2>4, Then DEF Fine
    <2>10. Fine(eng, s)
        BY <2>9, <2>5, Then DEF Fine
    <2> QED BY <2>10, <2>6, Then DEF Fine
<1> HIDE DEF a, b, c, d, s, e
<1>3. e \in Engine /\ Grouped(e) /\ Paced(e) /\ After(eng, e)
    BY <1>2 DEF Fine, Grouped
<1>4. /\ eng'.pending = e.pending /\ eng'.running = e.running /\ eng'.finished \subseteq e.finished
      /\ eng'.out = e.out /\ eng'.prim = e.prim /\ eng'.group = e.group
      /\ eng'.secs = e.secs /\ eng'.joined = e.joined /\ eng'.results = {}
      /\ eng' \in Engine
    BY <1>1, <1>3 DEF Collected, Engine
<1>5. Grouped(eng') /\ Paced(eng')
    BY <1>3, <1>4 DEF Grouped, Paced, Queues, PrimaryOf
<1>6. \A q \in eng'.secs : answer'[q] = "waiting"
    <2> SUFFICES ASSUME NEW q \in e.secs PROVE Told(e)[q] = "waiting"
        BY <1>1, <1>4
    <2>1. q \in Request /\ answer[q] = "waiting"
        BY <1>3 DEF MergedInv, After, Engine
    <2>2. (\A x \in e.results : x[1] # q) /\ q \notin e.finished
        BY <1>3 DEF Grouped, Queues
    <2> QED BY <2>1, <2>2 DEF Told
\* A client is told nothing before it comes.
<1>7. ASSUME NEW r \in Request, answer'[r] = "new" PROVE Unborn(r)'
    <2>1. answer[r] = "new"
        <3> SUFFICES ASSUME answer[r] # "new" PROVE FALSE
            OBVIOUS
        <3>1. CASE answer[r] # "waiting"
            BY <1>1, <1>7, <3>1 DEF Told
        <3>2. CASE answer[r] = "waiting"
            <4>1. \A x \in e.results : x[2] # "new"
                BY <1>3 DEF Engine
            <4>2. Reason(e, r) # "new"
                BY <1>3, Results DEF Reason, Reasons, Engine
            <4>3. answer'[r] = Told(e)[r] /\ answer'[r] = "new"
                BY <1>1, <1>7
            <4> QED BY <3>2, <4>1, <4>2, <4>3 DEF Told
        <3> QED BY <3>1, <3>2
    <2>2. Unborn(r)
        BY <2>1 DEF MergedInv
    <2>3. /\ r \notin eng'.secs \cup eng'.group \cup Queues(eng')
          /\ eng'.out[r] = <<>> /\ \A q \in Request : eng'.joined[q] # r
        BY <1>3, <1>4, <2>2 DEF Unborn, After, Queues
    <2>4. \A p \in Prompts : eng'.prim[p].rid # r
        BY <1>3, <1>4, <2>2, Constants DEF Unborn, After
    <2> QED BY <2>3, <2>4 DEF Unborn, Queues
<1>8. DOMAIN answer' = Request
    BY <1>1 DEF Told
<1> QED BY <1>4, <1>5, <1>6, <1>7, <1>8 DEF MergedInv

LEMMA MergedNext == MergedInv /\ [Next]_vars => MergedInv'
<1> SUFFICES ASSUME MergedInv, [Next]_vars PROVE MergedInv'
    OBVIOUS
<1>1. CASE SomeStep
    BY <1>1, MergedStep DEF SomeStep
<1>2. ASSUME NEW r \in Request, AddRequest(r) PROVE MergedInv'
    BY <1>2, MergedAdd
<1>3. ASSUME NEW r \in Request, CancelRequest(r) PROVE MergedInv'
    BY <1>3, MergedCancel
<1>4. CASE UNCHANGED vars
    BY <1>4 DEF vars, MergedInv, Grouped, Paced, Unborn, Queues, PrimaryOf
<1> QED BY <1>1, <1>2, <1>3, <1>4 DEF Next

-----------------------------------------------------------------------------
(* Theorems. *)

\* The inductive invariant of the engine with merged requests.
THEOREM MergedInvariant == Spec => []MergedInv
<1>1. Init => MergedInv
    BY MergedInit
<1>2. MergedInv /\ [Next]_vars => MergedInv'
    BY MergedNext
<1> QED BY <1>1, <1>2, PTL DEF Spec

\* Every secondary waits, is unknown to the scheduler, and is in the list of the
\* primary it joined as long as that one is registered; whatever is cancelled,
\* late, or taken over by a sampled request with the same prompt.
THEOREM GroupsAreExact == Spec => []GroupsExact
<1>1. MergedInv => GroupsExact
    BY DEF MergedInv, Grouped, GroupsExact, InScheduler, Queues
<1> QED BY <1>1, MergedInvariant, PTL

\* A secondary of a registered primary has got each token the primary generated
\* since it joined, in order.
THEOREM SecondariesKeepPace == Spec => []KeepsPace
<1>1. MergedInv => KeepsPace
    <2> SUFFICES ASSUME MergedInv, NEW s \in eng.secs, eng.joined[s] = PrimaryOf(eng, s)
                 PROVE  LET n == Len(eng.out[s])
                            own == eng.out[PrimaryOf(eng, s)] IN
                        eng.out[s] = SubSeq(own, Len(own) - n + 1, Len(own))
        BY DEF KeepsPace
    <2> DEFINE mine == eng.out[s]
               own == eng.out[PrimaryOf(eng, s)]
               last == SubSeq(own, Len(own) - Len(mine) + 1, Len(own))
    <2>1. s \in Request /\ PrimaryOf(eng, s) \in Request
        BY DEF MergedInv, Grouped, Engine
    <2>2. mine \in Seq(Nat) /\ own \in Seq(Nat)
        BY <2>1 DEF MergedInv, Grouped, Engine
    <2>3. Suffix(mine, own)
        BY DEF MergedInv, Paced
    <2> HIDE DEF mine, own
    <2>4. /\ Len(mine) \in Nat /\ Len(own) \in Nat /\ Len(mine) <= Len(own)
          /\ \A i \in 1 .. Len(mine) : mine[i] = own[Len(own) - Len(mine) + i]
        BY <2>2, <2>3 DEF Suffix
    <2>5. last = [i \in 1 .. Len(mine) |-> own[Len(own) - Len(mine) + i]]
        BY <2>2, <2>4
    <2>6. mine = [i \in 1 .. Len(mine) |-> mine[i]]
        BY <2>2
    <2> HIDE DEF last
    <2>7. mine = last
        BY <2>4, <2>5, <2>6
    <2> QED BY <2>7 DEF mine, own, last
<1> QED BY <1>1, MergedInvariant, PTL

-----------------------------------------------------------------------------
(* Numbers and sums. *)

\* A set of naturals has a least element.
LEMMA Least ==
    ASSUME NEW T \in SUBSET Nat, T # {}
    PROVE  \E m \in T : \A k \in T : m <= k
<1>1. PICK m \in T : \A k \in T : <<k, m>> \notin OpToRel(<, Nat)
    BY WFMin, NatLessThanWellFounded, Zenon
<1>2. \A k \in T : ~(k < m)
    BY <1>1, Zenon DEF OpToRel
<1>3. \A k \in T : m <= k
    BY <1>2
<1> QED BY <1>3

\* Induction, for a set of naturals.
LEMMA Induction ==
    ASSUME NEW S, 0 \in S, \A n \in Nat : n \in S => n + 1 \in S
    PROVE  \A n \in Nat : n \in S
<1> DEFINE T == {n \in Nat : n \notin S}
<1>1. SUFFICES ASSUME T # {} PROVE FALSE
    OBVIOUS
<1>2. PICK m \in T : \A k \in T : m <= k
    <2> HIDE DEF T
    <2> QED BY <1>1, Least DEF T
<1> QED BY <1>2, m - 1 \in Nat, (m - 1) + 1 = m

\* A finite set that is not empty has a first element in every total order R.
LEMMA FirstExists ==
    ASSUME NEW S, IsFiniteSet(S), S # {}, NEW R,
           \A x, y \in S : x = y \/ <<x, y>> \in R \/ <<y, x>> \in R,
           \A x, y, z \in S : <<x, y>> \in R /\ <<y, z>> \in R => <<x, z>> \in R
    PROVE  \E x \in S : \A y \in S \ {x} : <<x, y>> \in R
<1> DEFINE HasFirst(I) == \E x \in I : \A y \in I \ {x} : <<x, y>> \in R
           T == {n \in Nat : \A I \in SUBSET S : Cardinality(I) = n + 1 => HasFirst(I)}
<1>1. \A I \in SUBSET S : IsFiniteSet(I) /\ Cardinality(I) \in Nat
    BY FS_Subset, FS_CardinalityType
<1>2. \A I \in SUBSET S : I # {} => Cardinality(I) # 0
    BY <1>1, FS_EmptySet
<1>3. 0 \in T
    <2> SUFFICES ASSUME NEW I \in SUBSET S, Cardinality(I) = 1 PROVE HasFirst(I)
        OBVIOUS
    <2>1. PICK x : I = {x}
        BY <1>1, FS_Singleton
    <2> QED BY <2>1
<1>4. ASSUME NEW n \in Nat, n \in T PROVE n + 1 \in T
    <2> SUFFICES ASSUME NEW I \in SUBSET S, Cardinality(I) = (n + 1) + 1 PROVE HasFirst(I)
        OBVIOUS
    <2>1. PICK x \in I : TRUE
        <3>1. Cardinality(I) # 0
            BY <1>1
        <3> QED BY <3>1, FS_EmptySet
    <2>2. I \ {x} \in SUBSET S /\ Cardinality(I \ {x}) = n + 1
        BY <1>1, <2>1, FS_RemoveElement
    <2>3. PICK f \in I \ {x} : \A y \in (I \ {x}) \ {f} : <<f, y>> \in R
        BY <1>4, <2>2
    <2>4. CASE <<f, x>> \in R
        BY <2>3, <2>4
    <2>5. CASE <<x, f>> \in R
        BY <2>1, <2>3, <2>5
    <2> QED BY <2>1, <2>3, <2>4, <2>5
<1> HIDE DEF T
<1>5. \A n \in Nat : n \in T
    BY <1>3, <1>4, Induction
<1>6. Cardinality(S) \in Nat /\ Cardinality(S) # 0
    BY <1>1, <1>2
<1>7. Cardinality(S) - 1 \in T /\ Cardinality(S) = (Cardinality(S) - 1) + 1
    BY <1>5, <1>6
<1> QED BY <1>7 DEF T

\* The functions on 0 .. n that double at every step.
Doubling(n) ==
    {f \in [0 .. n -> Nat] : f[0] = 1 /\ \A k \in 1 .. n : f[k] = 2 * f[k - 1]}

LEMMA DoublingExists == \A n \in Nat : \E f : f \in Doubling(n)
<1> DEFINE T == {n \in Nat : \E f : f \in Doubling(n)}
<1>1. 0 \in T
    <2>1. [k \in 0 .. 0 |-> 1] \in Doubling(0)
        BY DEF Doubling
    <2> QED BY <2>1
<1>2. ASSUME NEW n \in Nat, n \in T PROVE n + 1 \in T
    <2>1. PICK f : f \in Doubling(n)
        BY <1>2
    <2> DEFINE g == [k \in 0 .. n + 1 |-> IF k = n + 1 THEN 2 * f[n] ELSE f[k]]
    <2>2. f \in [0 .. n -> Nat] /\ f[0] = 1 /\ \A k \in 1 .. n : f[k] = 2 * f[k - 1]
        BY <2>1 DEF Doubling
    <2>3. g \in [0 .. n + 1 -> Nat] /\ g[0] = 1
        BY <2>2
    <2>4. ASSUME NEW k \in 1 .. n + 1 PROVE g[k] = 2 * g[k - 1]
        <3>1. CASE k = n + 1
            <4>1. k - 1 = n /\ n \in 0 .. n + 1 /\ n # n + 1
                BY <3>1
            <4> QED BY <3>1, <4>1
        <3>2. CASE k # n + 1
            <4>1. k \in 1 .. n /\ k - 1 \in 0 .. n /\ k - 1 # n + 1
                BY <3>2
            <4> QED BY <3>2, <4>1, <2>2
        <3> QED BY <3>1, <3>2
    <2> HIDE DEF g
    <2>5. g \in Doubling(n + 1)
        BY <2>3, <2>4 DEF Doubling
    <2> QED BY <2>5
<1> HIDE DEF T
<1>3. \A n \in Nat : n \in T
    BY <1>1, <1>2, Induction
<1> QED BY <1>3 DEF T

LEMMA DoublingUnique ==
    ASSUME NEW m \in Nat, NEW n \in Nat, NEW f \in Doubling(m), NEW g \in Doubling(n)
    PROVE  \A k \in Nat : k <= m /\ k <= n => f[k] = g[k]
<1> DEFINE T == {k \in Nat : k <= m /\ k <= n => f[k] = g[k]}
<1>1. 0 \in T
    BY DEF Doubling
<1>2. ASSUME NEW k \in Nat, k \in T PROVE k + 1 \in T
    <2> SUFFICES ASSUME k + 1 <= m, k + 1 <= n PROVE f[k + 1] = g[k + 1]
        OBVIOUS
    <2>1. k + 1 \in 1 .. m /\ k + 1 \in 1 .. n /\ (k + 1) - 1 = k /\ f[k] = g[k]
        BY <1>2
    <2> QED BY <2>1 DEF Doubling
<1> HIDE DEF T
<1>3. \A k \in Nat : k \in T
    BY <1>1, <1>2, Induction
<1> QED BY <1>3 DEF T

\* The power of two is what its recursive definition says.
LEMMA PowerOfTwoDef ==
    \A n \in Nat : PowerOfTwo[n] = IF n = 0 THEN 1 ELSE 2 * PowerOfTwo[n - 1]
<1> DEFINE F == [n \in Nat |-> CHOOSE f : f \in Doubling(n)]
           G == [n \in Nat |-> F[n][n]]
<1>1. \A n \in Nat : F[n] \in Doubling(n)
    BY DoublingExists
<1> HIDE DEF F
<1>2. ASSUME NEW n \in Nat PROVE G[n] = IF n = 0 THEN 1 ELSE 2 * G[n - 1]
    <2>1. CASE n = 0
        BY <1>1, <2>1 DEF Doubling
    <2>2. CASE n # 0
        <3>1. n - 1 \in Nat /\ n \in 1 .. n
            BY <2>2
        <3>2. F[n] \in Doubling(n) /\ F[n - 1] \in Doubling(n - 1)
            BY <1>1, <3>1
        <3>3. F[n][n - 1] = F[n - 1][n - 1]
            BY <3>1, <3>2, DoublingUnique
        <3>4. F[n][n] = 2 * F[n][n - 1]
            BY <3>1, <3>2 DEF Doubling
        <3> QED BY <2>2, <3>1, <3>3, <3>4
    <2> QED BY <2>1, <2>2
<1> HIDE DEF G
<1>3. G = [n \in Nat |-> IF n = 0 THEN 1 ELSE 2 * G[n - 1]]
    BY <1>2 DEF G
<1>4. PowerOfTwo = [n \in Nat |-> IF n = 0 THEN 1 ELSE 2 * PowerOfTwo[n - 1]]
    BY <1>3 DEF PowerOfTwo
<1> QED BY <1>4

LEMMA PowerOfTwoType == \A n \in Nat : PowerOfTwo[n] \in Nat \ {0}
<1> DEFINE T == {n \in Nat : PowerOfTwo[n] \in Nat \ {0}}
<1>1. 0 \in T
    BY PowerOfTwoDef
<1>2. ASSUME NEW n \in Nat, n \in T PROVE n + 1 \in T
    <2>1. PowerOfTwo[n + 1] = 2 * PowerOfTwo[n]
        BY PowerOfTwoDef, n + 1 \in Nat, n + 1 # 0, (n + 1) - 1 = n
    <2> QED BY <1>2, <2>1
<1> HIDE DEF T
<1>3. \A n \in Nat : n \in T
    BY <1>1, <1>2, Induction
<1> QED BY <1>3 DEF T

LEMMA PowerOfTwoGrows ==
    ASSUME NEW m \in Nat, NEW n \in Nat, m <= n
    PROVE  PowerOfTwo[m] <= PowerOfTwo[n]
<1> DEFINE T == {k \in Nat : PowerOfTwo[m] <= PowerOfTwo[m + k]}
<1>1. 0 \in T
    BY PowerOfTwoType
<1>2. ASSUME NEW k \in Nat, k \in T PROVE k + 1 \in T
    <2>1. m + (k + 1) \in Nat /\ m + (k + 1) # 0 /\ (m + (k + 1)) - 1 = m + k /\ m + k \in Nat
        OBVIOUS
    <2>2. PowerOfTwo[m + (k + 1)] = 2 * PowerOfTwo[m + k]
        BY <2>1, PowerOfTwoDef
    <2> QED BY <1>2, <2>1, <2>2, PowerOfTwoType
<1> HIDE DEF T
<1>3. \A k \in Nat : k \in T
    BY <1>1, <1>2, Induction
<1>4. n - m \in T /\ m + (n - m) = n
    BY <1>3
<1> QED BY <1>4 DEF T

\* The functions on the subsets of ts that sum the weights w.
Summing(ts, w) ==
    {f \in [SUBSET ts -> Nat] :
        \A s \in SUBSET ts :
            f[s] = IF s = {} THEN 0
                   ELSE w[CHOOSE x \in s : TRUE] + f[s \ {CHOOSE x \in s : TRUE}]}

LEMMA SummingExists ==
    ASSUME NEW ts, IsFiniteSet(ts), NEW w \in [ts -> Nat]
    PROVE  \E f : f \in Summing(ts, w)
<1> DEFINE Pick(s) == CHOOSE x \in s : TRUE
           Upto(n, f) == \A s \in SUBSET ts : Cardinality(s) <= n =>
                            f[s] = IF s = {} THEN 0 ELSE w[Pick(s)] + f[s \ {Pick(s)}]
           T == {n \in Nat : \E f \in [SUBSET ts -> Nat] : Upto(n, f)}
<1>1. \A s \in SUBSET ts : IsFiniteSet(s) /\ Cardinality(s) \in Nat
    BY FS_Subset, FS_CardinalityType
<1>2. \A s \in SUBSET ts : s # {} => Pick(s) \in s
    OBVIOUS
<1> HIDE DEF Pick
<1>3. 0 \in T
    <2>1. \A s \in SUBSET ts : Cardinality(s) <= 0 => s = {}
        BY <1>1, FS_EmptySet
    <2>2. Upto(0, [s \in SUBSET ts |-> 0])
        BY <2>1
    <2>3. [s \in SUBSET ts |-> 0] \in [SUBSET ts -> Nat]
        OBVIOUS
    <2> HIDE DEF Upto
    <2> QED BY <2>2, <2>3
<1>4. ASSUME NEW n \in Nat, n \in T PROVE n + 1 \in T
    <2>1. PICK f \in [SUBSET ts -> Nat] : Upto(n, f)
        BY <1>4
    <2> DEFINE g == [s \in SUBSET ts |->
                        IF s = {} THEN 0 ELSE w[Pick(s)] + f[s \ {Pick(s)}]]
    <2>2. g \in [SUBSET ts -> Nat]
        BY <1>2
    <2>3. \A s \in SUBSET ts : Cardinality(s) <= n => g[s] = f[s]
        BY <2>1
    <2>4. ASSUME NEW s \in SUBSET ts, Cardinality(s) <= n + 1
          PROVE  g[s] = IF s = {} THEN 0 ELSE w[Pick(s)] + g[s \ {Pick(s)}]
        <3>1. CASE s = {}
            BY <3>1
        <3>2. CASE s # {}
            <4>1. Pick(s) \in s /\ s \ {Pick(s)} \in SUBSET ts
                BY <3>2, <1>2
            <4>2. Cardinality(s \ {Pick(s)}) = Cardinality(s) - 1
                BY <4>1, <1>1, FS_RemoveElement
            <4>3. Cardinality(s \ {Pick(s)}) <= n
                BY <4>2, <2>4, <1>1
            <4>4. g[s \ {Pick(s)}] = f[s \ {Pick(s)}]
                BY <2>3, <4>1, <4>3
            <4> QED BY <3>2, <4>4
        <3> QED BY <3>1, <3>2
    <2> HIDE DEF g
    <2>5. Upto(n + 1, g)
        BY <2>4
    <2> HIDE DEF Upto
    <2> QED BY <2>2, <2>5
<1> HIDE DEF T
<1>5. Cardinality(ts) \in T
    BY <1>1, <1>3, <1>4, Induction
<1>6. PICK f \in [SUBSET ts -> Nat] : Upto(Cardinality(ts), f)
    BY <1>5 DEF T
<1>7. \A s \in SUBSET ts : Cardinality(s) <= Cardinality(ts)
    BY FS_Subset
<1>8. f \in Summing(ts, w)
    BY <1>6, <1>7 DEF Summing, Pick
<1> QED BY <1>8

\* It does not matter in which order, nor among which others, they are added.
LEMMA SummingAdds ==
    ASSUME NEW ts, IsFiniteSet(ts), NEW w \in [ts -> Nat], NEW f \in Summing(ts, w)
    PROVE  /\ f[{}] = 0
           /\ \A s \in SUBSET ts, x \in ts : x \notin s => f[s \cup {x}] = f[s] + w[x]
<1> DEFINE Pick(s) == CHOOSE x \in s : TRUE
           T == {n \in Nat : \A s \in SUBSET ts, x \in ts :
                    x \notin s /\ Cardinality(s) = n => f[s \cup {x}] = f[s] + w[x]}
<1>1. \A s \in SUBSET ts : IsFiniteSet(s) /\ Cardinality(s) \in Nat
    BY FS_Subset, FS_CardinalityType
<1>2. \A s \in SUBSET ts : s # {} => Pick(s) \in s
    OBVIOUS
<1>3. \A s \in SUBSET ts : f[s] = IF s = {} THEN 0 ELSE w[Pick(s)] + f[s \ {Pick(s)}]
    BY DEF Summing
<1>4. f \in [SUBSET ts -> Nat]
    BY DEF Summing
<1> HIDE DEF Pick
<1>5. ASSUME NEW s \in SUBSET ts, NEW x \in ts, x \notin s,
             \A y \in s : f[(s \ {y}) \cup {x}] = f[s \ {y}] + w[x],
             \A y \in s : f[s] = f[s \ {y}] + w[y]
      PROVE  f[s \cup {x}] = f[s] + w[x]
    <2> DEFINE y == Pick(s \cup {x})
    <2>1. s \cup {x} \in SUBSET ts /\ s \cup {x} # {}
        OBVIOUS
    <2>2. y \in s \cup {x} /\ f[s \cup {x}] = w[y] + f[(s \cup {x}) \ {y}]
        BY <2>1, <1>2, <1>3
    <2> HIDE DEF y
    <2>3. CASE y = x
        <3>1. (s \cup {x}) \ {y} = s
            BY <1>5, <2>3
        <3>2. w[x] \in Nat /\ f[s] \in Nat
            BY <1>4
        <3>3. f[s \cup {x}] = w[x] + f[s]
            BY <2>2, <2>3, <3>1
        <3> QED BY <3>2, <3>3
    <2>4. CASE y # x
        <3>1. y \in s /\ (s \cup {x}) \ {y} = (s \ {y}) \cup {x}
            BY <2>2, <2>4
        <3>2. w[y] \in Nat /\ w[x] \in Nat /\ f[s \ {y}] \in Nat
            BY <1>4, <3>1
        <3> QED BY <1>5, <2>2, <3>1, <3>2
    <2> QED BY <2>3, <2>4
<1>6. 0 \in T
    <2> SUFFICES ASSUME NEW s \in SUBSET ts, NEW x \in ts, x \notin s, Cardinality(s) = 0
                 PROVE  f[s \cup {x}] = f[s] + w[x]
        OBVIOUS
    <2>1. s = {}
        BY <1>1, FS_EmptySet
    <2> QED BY <2>1, <1>5
<1>7. ASSUME NEW n \in Nat, n \in T PROVE n + 1 \in T
    <2> SUFFICES ASSUME NEW s \in SUBSET ts, NEW x \in ts, x \notin s,
                        Cardinality(s) = n + 1
                 PROVE  f[s \cup {x}] = f[s] + w[x]
        OBVIOUS
    <2>1. ASSUME NEW y \in s
          PROVE  f[(s \ {y}) \cup {x}] = f[s \ {y}] + w[x] /\ f[s] = f[s \ {y}] + w[y]
        <3>1. s \ {y} \in SUBSET ts /\ x \notin s \ {y} /\ y \notin s \ {y} /\ y \in ts
            OBVIOUS
        <3>2. Cardinality(s \ {y}) = n
            <4>1. IsFiniteSet(s) /\ Cardinality(s \ {y}) = Cardinality(s) - 1
                BY <1>1, FS_RemoveElement
            <4> QED BY <4>1
        <3>3. (s \ {y}) \cup {y} = s
            OBVIOUS
        <3> QED BY <1>7, <3>1, <3>2, <3>3
    <2> QED BY <2>1, <1>5
<1> HIDE DEF T
<1>8. \A n \in Nat : n \in T
    BY <1>6, <1>7, Induction
<1>9. \A s \in SUBSET ts, x \in ts : x \notin s => f[s \cup {x}] = f[s] + w[x]
    BY <1>1, <1>8 DEF T
<1> QED BY <1>3, <1>9

LEMMA SummingAgree ==
    ASSUME NEW ts, IsFiniteSet(ts), NEW w \in [ts -> Nat], NEW f \in Summing(ts, w),
           NEW us \in SUBSET ts, NEW v \in [us -> Nat], NEW g \in Summing(us, v),
           \A x \in us : v[x] = w[x]
    PROVE  \A s \in SUBSET us : g[s] = f[s]
<1> DEFINE T == {n \in Nat : \A s \in SUBSET us : Cardinality(s) = n => g[s] = f[s]}
<1>1. \A s \in SUBSET us : IsFiniteSet(s) /\ Cardinality(s) \in Nat
    BY FS_Subset, FS_CardinalityType
<1>2. IsFiniteSet(us)
    BY <1>1
<1>6. \A s \in SUBSET us, x \in us : x \notin s => g[s \cup {x}] = g[s] + v[x]
    BY <1>2, SummingAdds
<1>7. \A s \in SUBSET ts, x \in ts : x \notin s => f[s \cup {x}] = f[s] + w[x]
    BY SummingAdds
<1>3. 0 \in T
    <2>1. \A s \in SUBSET us : Cardinality(s) = 0 => s = {}
        BY <1>1, FS_EmptySet
    <2>2. g[{}] = 0 /\ f[{}] = 0
        BY <1>2, SummingAdds
    <2> QED BY <2>1, <2>2
<1>4. ASSUME NEW n \in Nat, n \in T PROVE n + 1 \in T
    <2> SUFFICES ASSUME NEW s \in SUBSET us, Cardinality(s) = n + 1 PROVE g[s] = f[s]
        OBVIOUS
    <2>1. PICK x \in s : TRUE
        <3>1. Cardinality(s) # 0
            OBVIOUS
        <3> QED BY <3>1, FS_EmptySet
    <2>2. s \ {x} \in SUBSET us /\ s \ {x} \in SUBSET ts /\ (s \ {x}) \cup {x} = s
          /\ x \in us /\ x \in ts /\ x \notin s \ {x}
        BY <2>1
    <2>3. Cardinality(s \ {x}) = n
        <3>1. IsFiniteSet(s) /\ Cardinality(s \ {x}) = Cardinality(s) - 1
            BY <1>1, <2>1, FS_RemoveElement
        <3> QED BY <3>1
    <2>4. g[s \ {x}] = f[s \ {x}]
        BY <1>4, <2>2, <2>3
    <2>5. g[(s \ {x}) \cup {x}] = g[s \ {x}] + v[x]
        BY <2>2, <1>6
    <2>6. f[(s \ {x}) \cup {x}] = f[s \ {x}] + w[x]
        BY <2>2, <1>7
    <2> QED BY <2>2, <2>4, <2>5, <2>6
<1> HIDE DEF T
<1>5. \A n \in Nat : n \in T
    BY <1>3, <1>4, Induction
<1> QED BY <1>1, <1>5 DEF T

LEMMA SummingGrows ==
    ASSUME NEW ts, IsFiniteSet(ts), NEW w \in [ts -> Nat], NEW f \in Summing(ts, w)
    PROVE  \A s \in SUBSET ts : f[s] <= f[ts]
<1> DEFINE T == {n \in Nat : \A s \in SUBSET ts : Cardinality(ts \ s) = n => f[s] <= f[ts]}
<1>1. \A s \in SUBSET ts : IsFiniteSet(s) /\ Cardinality(s) \in Nat
    BY FS_Subset, FS_CardinalityType
<1>2. f \in [SUBSET ts -> Nat]
    BY DEF Summing
<1>3. 0 \in T
    <2> SUFFICES ASSUME NEW s \in SUBSET ts, Cardinality(ts \ s) = 0 PROVE f[s] <= f[ts]
        OBVIOUS
    <2>1. ts \ s = {}
        BY <1>1, FS_EmptySet
    <2>2. s = ts
        BY <2>1
    <2> QED BY <2>2, <1>2
<1>4. ASSUME NEW n \in Nat, n \in T PROVE n + 1 \in T
    <2> SUFFICES ASSUME NEW s \in SUBSET ts, Cardinality(ts \ s) = n + 1 PROVE f[s] <= f[ts]
        OBVIOUS
    <2>1. PICK x \in ts \ s : TRUE
        <3>1. Cardinality(ts \ s) # 0
            OBVIOUS
        <3> QED BY <3>1, FS_EmptySet
    <2>2. ts \ (s \cup {x}) = (ts \ s) \ {x} /\ s \cup {x} \in SUBSET ts /\ ts \ s \in SUBSET ts
        BY <2>1
    <2>3. Cardinality(ts \ (s \cup {x})) = n
        <3>1. IsFiniteSet(ts \ s) /\ Cardinality((ts \ s) \ {x}) = Cardinality(ts \ s) - 1
            BY <1>1, <2>1, <2>2, FS_RemoveElement
        <3> QED BY <3>1, <2>2
    <2>4. f[s \cup {x}] <= f[ts]
        BY <1>4, <2>2, <2>3
    <2>5. f[s \cup {x}] = f[s] + w[x]
        BY <2>1, SummingAdds
    <2>6. w[x] \in Nat /\ f[s] \in Nat /\ f[ts] \in Nat
        BY <1>2, <2>1
    <2> QED BY <2>4, <2>5, <2>6
<1> HIDE DEF T
<1>5. \A n \in Nat : n \in T
    BY <1>3, <1>4, Induction
<1>6. \A s \in SUBSET ts : ts \ s \in SUBSET ts
    OBVIOUS
<1> QED BY <1>1, <1>5, <1>6 DEF T

-----------------------------------------------------------------------------
(* Rows of logits. *)

\* A row over finitely many tokens.
IsRow(row) == /\ IsFiniteSet(DOMAIN row) /\ DOMAIN row \subseteq Nat
              /\ row \in [DOMAIN row -> Int]

Weights(row, ts) == [t \in ts |-> Weight(row, t)]

\* What Mass sums.
LEMMA MassIs ==
    ASSUME NEW row, IsRow(row), NEW ts \in SUBSET All(row),
           Weights(row, ts) \in [ts -> Nat]
    PROVE  \E f \in Summing(ts, Weights(row, ts)) : Mass(row, ts) = f[ts]
<1> DEFINE w == Weights(row, ts)
           Pick(s) == CHOOSE x \in s : TRUE
           Iterates(f) == f = [s \in SUBSET ts |->
                                  IF s = {} THEN 0
                                  ELSE Weight(row, Pick(s)) + f[s \ {Pick(s)}]]
           iter == CHOOSE f : Iterates(f)
<1>1. Mass(row, ts) = iter[ts]
    BY DEF Mass, MapThenSumSet, MapThenFoldSet
<1>2. IsFiniteSet(ts) /\ \A s \in SUBSET ts : IsFiniteSet(s) /\ Cardinality(s) \in Nat
    BY FS_Subset, FS_CardinalityType DEF IsRow, All
<1>3. PICK f : f \in Summing(ts, w)
    BY <1>2, SummingExists
<1>4. \A s \in SUBSET ts : s # {} => Pick(s) \in s /\ w[Pick(s)] = Weight(row, Pick(s))
    BY DEF Weights
<1>5. f \in [SUBSET ts -> Nat]
      /\ \A s \in SUBSET ts : f[s] = IF s = {} THEN 0 ELSE w[Pick(s)] + f[s \ {Pick(s)}]
    BY <1>3 DEF Summing
<1> HIDE DEF Pick, w
<1>6. \A s \in SUBSET ts :
          f[s] = IF s = {} THEN 0 ELSE Weight(row, Pick(s)) + f[s \ {Pick(s)}]
    BY <1>4, <1>5
<1>7. Iterates(f)
    BY <1>5, <1>6
<1>8. Iterates(iter)
    <2> HIDE DEF Iterates
    <2> QED BY <1>7
<1> HIDE DEF iter
<1>9. \A s \in SUBSET ts :
          iter[s] = IF s = {} THEN 0 ELSE Weight(row, Pick(s)) + iter[s \ {Pick(s)}]
    BY <1>8
<1> DEFINE T == {n \in Nat : \A s \in SUBSET ts : Cardinality(s) = n => iter[s] = f[s]}
<1>10. 0 \in T
    <2>1. \A s \in SUBSET ts : Cardinality(s) = 0 => s = {}
        BY <1>2, FS_EmptySet
    <2> QED BY <2>1, <1>6, <1>9
<1>11. ASSUME NEW n \in Nat, n \in T PROVE n + 1 \in T
    <2> SUFFICES ASSUME NEW s \in SUBSET ts, Cardinality(s) = n + 1 PROVE iter[s] = f[s]
        OBVIOUS
    <2>1. s # {}
        BY FS_EmptySet
    <2>2. Pick(s) \in s /\ s \ {Pick(s)} \in SUBSET ts
        BY <2>1, <1>4
    <2>3. Cardinality(s \ {Pick(s)}) = n
        <3>1. IsFiniteSet(s) /\ Cardinality(s \ {Pick(s)}) = Cardinality(s) - 1
            BY <1>2, <2>2, FS_RemoveElement
        <3> QED BY <3>1
    <2>4. iter[s \ {Pick(s)}] = f[s \ {Pick(s)}]
        BY <1>11, <2>2, <2>3
    <2> QED BY <2>1, <2>4, <1>6, <1>9
<1> HIDE DEF T
<1>12. \A n \in Nat : n \in T
    BY <1>10, <1>11, Induction
<1>13. iter[ts] = f[ts]
    BY <1>2, <1>12 DEF T
<1> QED BY <1>1, <1>3, <1>13 DEF w

\* A weight is positive, and grows with the logit.
LEMMA WeightIs ==
    ASSUME NEW row, IsRow(row), NEW t \in All(row), NEW u \in All(row)
    PROVE  /\ Weight(row, t) \in Nat \ {0}
           /\ row[t] <= row[u] => Weight(row, t) <= Weight(row, u)
<1> DEFINE S == All(row)
           V == {row[x] : x \in S}
           R == {p \in S \X S : row[p[1]] <= row[p[2]]}
<1>1. IsFiniteSet(S) /\ S # {} /\ \A x \in S : row[x] \in Int
    BY DEF IsRow, All
<1>2. \A x, y \in S : <<x, y>> \in R <=> row[x] <= row[y]
    OBVIOUS
<1> HIDE DEF R, S
<1>3. \A x, y \in S : x = y \/ <<x, y>> \in R \/ <<y, x>> \in R
    <2> SUFFICES ASSUME NEW x \in S, NEW y \in S PROVE row[x] <= row[y] \/ row[y] <= row[x]
        BY <1>2
    <2>1. row[x] \in Int /\ row[y] \in Int
        BY <1>1
    <2> QED BY <2>1
<1>4. \A x, y, z \in S : <<x, y>> \in R /\ <<y, z>> \in R => <<x, z>> \in R
    BY <1>1, <1>2
<1>5. PICK x \in S : \A y \in S \ {x} : <<x, y>> \in R
    BY <1>1, <1>3, <1>4, FirstExists
<1>6. ASSUME NEW y \in S PROVE row[x] <= row[y]
    <2>1. CASE y = x
        <3>1. row[x] \in Int
            BY <1>1
        <3> QED BY <2>1, <3>1
    <2>2. CASE y # x
        BY <1>2, <1>5, <2>2
    <2> QED BY <2>1, <2>2
<1>7. V \subseteq Int /\ row[x] \in V /\ \A v \in V : row[x] <= v
    BY <1>1, <1>6 DEF S
<1> HIDE DEF V
<1>8. Min(V) \in V /\ \A v \in V : Min(V) <= v
    BY <1>7 DEF Min
<1>9. t \in S /\ u \in S /\ row[t] \in V /\ row[u] \in V
    BY DEF S, V
<1>10. row[t] - Min(V) \in Nat /\ row[u] - Min(V) \in Nat
       /\ (row[t] <= row[u] => row[t] - Min(V) <= row[u] - Min(V))
    <2>1. Min(V) \in Int /\ row[t] \in Int /\ row[u] \in Int
          /\ Min(V) <= row[t] /\ Min(V) <= row[u]
        BY <1>7, <1>8, <1>9
    <2> QED BY <2>1
<1>11. Weight(row, t) = PowerOfTwo[row[t] - Min(V)] /\ Weight(row, u) = PowerOfTwo[row[u] - Min(V)]
    BY DEF Weight, V, S
<1> QED BY <1>10, <1>11, PowerOfTwoType, PowerOfTwoGrows

\* The mass of tokens is a number, nothing weighs nothing, and more tokens do
\* not weigh less.
LEMMA MassGrows ==
    ASSUME NEW row, IsRow(row), NEW us \in SUBSET All(row), NEW ts \in SUBSET us
    PROVE  /\ Mass(row, us) \in Nat /\ Mass(row, ts) \in Nat
           /\ Mass(row, {}) = 0
           /\ Mass(row, ts) <= Mass(row, us)
<1>1. \A vs \in SUBSET All(row) : Weights(row, vs) \in [vs -> Nat] /\ IsFiniteSet(vs)
    BY WeightIs, FS_Subset DEF Weights, IsRow, All
<1>2. us \in SUBSET All(row) /\ ts \in SUBSET All(row) /\ {} \in SUBSET All(row)
      /\ us \in SUBSET us /\ ts \in SUBSET ts /\ {} \in SUBSET us
    OBVIOUS
<1>3. PICK f \in Summing(us, Weights(row, us)) : Mass(row, us) = f[us]
    BY <1>1, <1>2, MassIs
<1>4. PICK g \in Summing(ts, Weights(row, ts)) : Mass(row, ts) = g[ts]
    BY <1>1, <1>2, MassIs
<1>5. PICK h \in Summing({}, Weights(row, {})) : Mass(row, {}) = h[{}]
    BY <1>1, <1>2, MassIs
<1>6. \A x \in ts : Weights(row, ts)[x] = Weights(row, us)[x]
    BY DEF Weights
<1>7. g[ts] = f[ts]
    BY <1>1, <1>2, <1>6, SummingAgree
<1>8. f[ts] <= f[us]
    BY <1>1, <1>2, SummingGrows
<1>9. f \in [SUBSET us -> Nat]
    BY DEF Summing
<1>10. h[{}] = 0
    BY <1>1, <1>2, SummingAdds
<1> QED BY <1>3, <1>4, <1>5, <1>7, <1>8, <1>9, <1>10

-----------------------------------------------------------------------------
(* The samplers. *)

LEMMA BeforeOrders ==
    ASSUME NEW row, IsRow(row), NEW t \in All(row), NEW u \in All(row)
    PROVE  /\ ~(Before(row, u, t) /\ Before(row, t, u))
           /\ u = t \/ Before(row, u, t) \/ Before(row, t, u)
           /\ ~Before(row, t, t)
           /\ \A v \in All(row) : Before(row, u, t) /\ Before(row, v, u) => Before(row, v, t)
<1>1. \A x \in All(row) : x \in Int /\ row[x] \in Int
    BY DEF IsRow, All
<1> QED BY <1>1 DEF Before

\* Among some tokens of a row there is one before all others, and a last one.
LEMMA EndsExist ==
    ASSUME NEW row, IsRow(row), NEW ts \in SUBSET All(row), ts # {}
    PROVE  /\ \E x \in ts : \A y \in ts \ {x} : Before(row, x, y)
           /\ \E x \in ts : \A y \in ts \ {x} : Before(row, y, x)
<1> DEFINE R == {p \in ts \X ts : Before(row, p[1], p[2])}
           Q == {p \in ts \X ts : Before(row, p[2], p[1])}
<1>1. IsFiniteSet(ts)
    BY FS_Subset DEF IsRow, All
<1>2. \A x, y \in ts : (<<x, y>> \in R <=> Before(row, x, y)) /\ (<<x, y>> \in Q <=> Before(row, y, x))
    OBVIOUS
<1> HIDE DEF R, Q
<1>3. \A x, y \in ts : x = y \/ Before(row, x, y) \/ Before(row, y, x)
    BY BeforeOrders
<1>4. \A x, y, z \in ts : Before(row, x, y) /\ Before(row, y, z) => Before(row, x, z)
    BY BeforeOrders
<1>5. \E x \in ts : \A y \in ts \ {x} : <<x, y>> \in R
    <2>1. \A x, y \in ts : x = y \/ <<x, y>> \in R \/ <<y, x>> \in R
        BY <1>2, <1>3
    <2>2. \A x, y, z \in ts : <<x, y>> \in R /\ <<y, z>> \in R => <<x, z>> \in R
        BY <1>2, <1>4
    <2> QED BY <1>1, <2>1, <2>2, FirstExists
<1>6. \E x \in ts : \A y \in ts \ {x} : <<x, y>> \in Q
    <2>1. \A x, y \in ts : x = y \/ <<x, y>> \in Q \/ <<y, x>> \in Q
        BY <1>2, <1>3
    <2>2. \A x, y, z \in ts : <<x, y>> \in Q /\ <<y, z>> \in Q => <<x, z>> \in Q
        BY <1>2, <1>4
    <2> QED BY <1>1, <2>1, <2>2, FirstExists
<1> QED BY <1>2, <1>5, <1>6

\* The token no other one comes before.
IsFirst(row, x) == x \in All(row) /\ \A u \in All(row) : ~Before(row, u, x)

LEMMA FirstIsGreatest ==
    ASSUME NEW row, IsRow(row), All(row) # {}
    PROVE  /\ \E x : IsFirst(row, x)
           /\ \A x : IsFirst(row, x) => x \in Argmax(row)
<1>1. PICK x \in All(row) : \A y \in All(row) \ {x} : Before(row, x, y)
    BY EndsExist
<1>2. IsFirst(row, x)
    BY <1>1, BeforeOrders DEF IsFirst
<1>3. ASSUME NEW y, IsFirst(row, y) PROVE y \in Argmax(row)
    <2>1. \A u \in All(row) : row[u] \in Int /\ row[y] \in Int /\ ~(row[u] > row[y])
        BY <1>3 DEF IsFirst, Before, IsRow, All
    <2>2. \A u \in All(row) : row[u] <= row[y]
        BY <2>1
    <2> QED BY <1>3, <2>2 DEF IsFirst, Argmax
<1> QED BY <1>2, <1>3

\* What a nucleus is: the most likely tokens, of which all but one weigh no more
\* than p of the whole, and all together weigh more, unless nothing is left out.
LEMMA NucleusIs ==
    ASSUME NEW row, IsRow(row), All(row) # {}, NEW p \in 0 .. Tenths
    PROVE  LET cut == All(Nucleus(row, p)) IN
           /\ cut \subseteq All(row)
           /\ \A x : IsFirst(row, x) => x \in cut
           /\ \A t \in cut, u \in All(row) \ cut : row[u] <= row[t]
           /\ \/ cut = All(row)
              \/ Mass(row, cut) * Tenths > Mass(row, All(row)) * p
           /\ \E t \in cut : Mass(row, cut \ {t}) * Tenths <= Mass(row, All(row)) * p
<1> DEFINE Pre(t) == {u \in All(row) : Before(row, u, t)}
           whole == Mass(row, All(row))
           cut == {t \in All(row) : Mass(row, Pre(t)) * Tenths <= whole * p}
<1>1. All(Nucleus(row, p)) = cut
    BY DEF Nucleus, All, Restrict
<1>2. \A us \in SUBSET All(row) : \A ts \in SUBSET us :
          Mass(row, us) \in Nat /\ Mass(row, ts) \in Nat /\ Mass(row, ts) <= Mass(row, us)
    BY MassGrows
<1>3. \A t : Pre(t) \in SUBSET All(row)
    OBVIOUS
<1>4. Mass(row, {}) = 0 /\ whole \in Nat
    BY MassGrows
<1>5. p \in Nat /\ whole * p \in Nat
    BY <1>4 DEF Tenths
<1> HIDE DEF whole
<1>6. ASSUME NEW x, IsFirst(row, x) PROVE x \in cut
    <2>1. Pre(x) = {} /\ x \in All(row)
        BY <1>6 DEF IsFirst
    <2> QED BY <2>1, <1>4, <1>5 DEF Tenths
<1>7. cut # {}
    BY <1>6, FirstIsGreatest
<1>8. ASSUME NEW t \in cut, NEW u \in All(row) \ cut PROVE row[u] <= row[t]
    <2>1. SUFFICES ASSUME row[u] > row[t] PROVE FALSE
        BY DEF IsRow, All
    <2>2. Before(row, u, t)
        BY <2>1 DEF Before
    <2>3. Pre(u) \subseteq Pre(t)
        BY <2>2, BeforeOrders
    <2>4. Mass(row, Pre(u)) <= Mass(row, Pre(t)) /\ Mass(row, Pre(u)) \in Nat /\ Mass(row, Pre(t)) \in Nat
        BY <2>3, <1>2, <1>3
    <2>5. Mass(row, Pre(t)) * Tenths <= whole * p
        OBVIOUS
    <2>6. Mass(row, Pre(u)) * Tenths <= whole * p
        BY <2>4, <2>5, <1>5 DEF Tenths
    <2> QED BY <2>6
<1>9. cut = All(row) \/ Mass(row, cut) * Tenths > whole * p
    <2>1. SUFFICES ASSUME cut # All(row) PROVE Mass(row, cut) * Tenths > whole * p
        OBVIOUS
    <2>2. All(row) \ cut # {} /\ All(row) \ cut \in SUBSET All(row)
        BY <2>1
    <2> HIDE DEF cut
    <2>3. PICK u \in All(row) \ cut : \A y \in (All(row) \ cut) \ {u} : Before(row, u, y)
        BY <2>2, EndsExist
    <2>4. Pre(u) \subseteq cut
        BY <2>3, BeforeOrders
    <2>5. ~(Mass(row, Pre(u)) * Tenths <= whole * p)
        BY DEF cut
    <2>6. cut \in SUBSET All(row)
        BY DEF cut
    <2>7. Mass(row, Pre(u)) <= Mass(row, cut) /\ Mass(row, Pre(u)) \in Nat /\ Mass(row, cut) \in Nat
        BY <2>4, <2>6, <1>2
    <2> QED BY <2>5, <2>7, <1>5 DEF Tenths
<1>10. \E t \in cut : Mass(row, cut \ {t}) * Tenths <= whole * p
    <2>1. PICK t \in cut : \A y \in cut \ {t} : Before(row, y, t)
        <3> HIDE DEF cut
        <3>1. cut \in SUBSET All(row)
            BY DEF cut
        <3> QED BY <3>1, <1>7, EndsExist
    <2>2. cut \ {t} \subseteq Pre(t)
        BY <2>1
    <2>3. Mass(row, cut \ {t}) <= Mass(row, Pre(t)) /\ Mass(row, Pre(t)) \in Nat
          /\ Mass(row, cut \ {t}) \in Nat
        BY <2>2, <1>2, <1>3
    <2>4. Mass(row, Pre(t)) * Tenths <= whole * p
        BY <2>1
    <2>5. Mass(row, cut \ {t}) * Tenths <= whole * p
        <3> HIDE DEF cut, Pre
        <3> QED BY <2>3, <2>4, <1>5 DEF Tenths
    <2> QED BY <2>5
<1> QED BY <1>1, <1>6, <1>8, <1>9, <1>10 DEF whole

\* A filter leaves a row of some of the tokens, and the first token among them.
Sifts(row, kept) ==
    /\ IsRow(kept) /\ All(kept) \subseteq All(row)
    /\ \A x : IsFirst(row, x) => IsFirst(kept, x)

LEMMA RestrictIsRow ==
    ASSUME NEW row, IsRow(row), NEW ts \in SUBSET All(row)
    PROVE  IsRow(Restrict(row, ts)) /\ All(Restrict(row, ts)) = ts
<1>1. All(Restrict(row, ts)) = ts /\ DOMAIN Restrict(row, ts) = ts
      /\ \A t \in ts : Restrict(row, ts)[t] = row[t]
    BY DEF All, Restrict
<1>2. IsFiniteSet(ts) /\ ts \subseteq Nat /\ \A t \in ts : row[t] \in Int
    BY FS_Subset DEF IsRow, All
<1> QED BY <1>1, <1>2 DEF IsRow, Restrict

LEMMA RestrictSifts ==
    ASSUME NEW row, IsRow(row), NEW ts \in SUBSET All(row),
           \A x : IsFirst(row, x) => x \in ts
    PROVE  Sifts(row, Restrict(row, ts)) /\ All(Restrict(row, ts)) = ts
<1>1. All(Restrict(row, ts)) = ts /\ DOMAIN Restrict(row, ts) = ts
      /\ \A t \in ts : Restrict(row, ts)[t] = row[t]
    BY DEF All, Restrict
<1>2. IsRow(Restrict(row, ts))
    BY RestrictIsRow
<1>3. \A x : IsFirst(row, x) => IsFirst(Restrict(row, ts), x)
    <2> SUFFICES ASSUME NEW x, IsFirst(row, x) PROVE IsFirst(Restrict(row, ts), x)
        OBVIOUS
    <2>1. x \in ts /\ \A u \in ts : ~Before(row, u, x)
        BY DEF IsFirst
    <2> QED BY <1>1, <2>1 DEF IsFirst, Before
<1> QED BY <1>1, <1>2, <1>3 DEF Sifts

LEMMA SiftsTwice ==
    ASSUME NEW row, NEW kept, NEW less, Sifts(row, kept), Sifts(kept, less)
    PROVE  Sifts(row, less)
BY DEF Sifts

LEMMA FirstIsMost ==
    ASSUME NEW row, IsRow(row), NEW x, IsFirst(row, x)
    PROVE  \A u \in All(row) : row[u] <= row[x]
BY FirstIsGreatest DEF IsFirst, Argmax

LEMMA TopKSifts ==
    ASSUME NEW row, IsRow(row), NEW k \in Nat
    PROVE  Sifts(row, TopK(row, k))
<1>1. CASE TopK(row, k) = row
    BY <1>1 DEF Sifts
<1>2. CASE ~(TopK(row, k) = row)
    <2> DEFINE ts == {t \in All(row) : Cardinality({u \in All(row) : row[u] > row[t]}) < k}
    <2>1. k # 0 /\ TopK(row, k) = Restrict(row, ts)
        BY <1>2 DEF TopK
    <2>2. ASSUME NEW x, IsFirst(row, x) PROVE x \in ts
        <3>1. \A u \in All(row) : row[u] \in Int /\ row[x] \in Int /\ row[u] <= row[x]
            BY <2>2, FirstIsMost DEF IsFirst, IsRow, All
        <3>2. {u \in All(row) : row[u] > row[x]} = {}
            BY <3>1
        <3> QED BY <2>1, <2>2, <3>2, FS_EmptySet DEF IsFirst
    <2> QED BY <2>1, <2>2, RestrictSifts
<1> QED BY <1>1, <1>2

LEMMA MinPSifts ==
    ASSUME NEW row, IsRow(row), NEW p \in 0 .. Tenths
    PROVE  Sifts(row, MinP(row, p))
<1>1. CASE MinP(row, p) = row
    BY <1>1 DEF Sifts
<1>2. CASE ~(MinP(row, p) = row)
    <2> DEFINE ts == {t \in All(row) : \A u \in All(row) :
                         Weight(row, t) * Tenths >= Weight(row, u) * p}
    <2>1. MinP(row, p) = Restrict(row, ts)
        BY <1>2 DEF MinP
    <2>2. ASSUME NEW x, IsFirst(row, x), NEW u \in All(row)
          PROVE  Weight(row, x) * Tenths >= Weight(row, u) * p
        <3>1. x \in All(row) /\ row[u] <= row[x]
            BY <2>2, FirstIsMost DEF IsFirst
        <3>2. Weight(row, x) \in Nat /\ Weight(row, u) \in Nat /\ Weight(row, u) <= Weight(row, x)
            BY <3>1, WeightIs
        <3>3. p \in Nat /\ p <= Tenths /\ Tenths \in Nat
            BY DEF Tenths
        <3>4. \A a, b, c, d \in Nat : a <= b /\ c <= d => b * d >= a * c
            <4> SUFFICES ASSUME NEW a \in Nat, NEW b \in Nat, NEW c \in Nat, NEW d \in Nat,
                                a <= b, c <= d
                         PROVE  b * d >= a * c
                OBVIOUS
            <4>1. PICK e \in Nat : b = a + e
                BY b - a \in Nat
            <4>2. PICK f \in Nat : d = c + f
                BY d - c \in Nat
            <4>3. b * d = a * c + a * f + e * c + e * f
                BY <4>1, <4>2
            <4>4. a * f \in Nat /\ e * c \in Nat /\ e * f \in Nat /\ a * c \in Nat
                OBVIOUS
            <4> QED BY <4>3, <4>4
        <3> QED BY <3>2, <3>3, <3>4
    <2>3. \A x : IsFirst(row, x) => x \in ts
        BY <2>2 DEF IsFirst
    <2> QED BY <2>1, <2>3, RestrictSifts
<1> QED BY <1>1, <1>2

LEMMA NucleusSifts ==
    ASSUME NEW row, IsRow(row), NEW p \in 0 .. Tenths
    PROVE  Sifts(row, Nucleus(row, p))
<1> DEFINE ts == {t \in All(row) :
        Mass(row, {u \in All(row) : Before(row, u, t)}) * Tenths <= Mass(row, All(row)) * p}
<1>1. Nucleus(row, p) = Restrict(row, ts) /\ All(Nucleus(row, p)) = ts
    BY DEF Nucleus, Restrict, All
<1> HIDE DEF ts
<1>2. \A x : IsFirst(row, x) => x \in ts
    <2> SUFFICES ASSUME NEW x, IsFirst(row, x) PROVE x \in ts
        OBVIOUS
    <2>1. All(row) # {}
        BY DEF IsFirst
    <2> QED BY <1>1, <2>1, NucleusIs
<1>3. ts \in SUBSET All(row)
    BY DEF ts
<1> QED BY <1>1, <1>2, <1>3, RestrictSifts

LEMMA TopPSifts ==
    ASSUME NEW row, IsRow(row), NEW p \in 0 .. Tenths
    PROVE  Sifts(row, TopP(row, p))
BY NucleusSifts DEF TopP, Sifts

\* Where a cumulative mask of tokens in any order leaves some of them, the mask
\* of the tokens in their own order is one of the ways.
LEMMA SomeOrderKeeps ==
    ASSUME NEW row, IsRow(row), All(row) # {}, NEW p \in 0 .. Tenths
    PROVE  /\ All(Nucleus(row, p)) \in KeptInSomeOrder(row, p)
           /\ \A S \in KeptInSomeOrder(row, p) : S # {} /\ S \in SUBSET All(row)
BY NucleusIs DEF KeptInSomeOrder

LEMMA FilteredRows ==
    ASSUME NEW row, IsRow(row), All(row) # {}, NEW p, IsParams(p), NEW vocab
    PROVE  /\ Filtered(row, p, vocab) # {}
           /\ \A g \in Filtered(row, p, vocab) :
                /\ IsRow(g) /\ All(g) # {} /\ All(g) \subseteq All(row)
                /\ p.typicalP = Tenths \/ All(Cut(row, p)) = vocab => Sifts(row, g)
<1> DEFINE k == Cut(row, p)
           y == p.typicalP
<1>1. p.topK \in Nat /\ p.minP \in 0 .. Tenths /\ y \in 0 .. Tenths
    BY DEF IsParams
<1>2. Sifts(row, TopK(row, p.topK)) /\ IsRow(TopK(row, p.topK))
    BY <1>1, TopKSifts DEF Sifts
<1>3. Sifts(TopK(row, p.topK), k)
    BY <1>1, <1>2, MinPSifts DEF Cut
<1>4. Sifts(row, k) /\ IsRow(k) /\ All(k) \subseteq All(row)
    BY <1>2, <1>3, SiftsTwice DEF Sifts
<1>5. PICK x : IsFirst(row, x)
    BY FirstIsGreatest
<1>6. \A g : Sifts(row, g) => IsRow(g) /\ All(g) # {} /\ All(g) \subseteq All(row)
    BY <1>5 DEF Sifts, IsFirst
<1>7. Filtered(row, p, vocab) = IF y >= Tenths THEN {k}
                                ELSE IF All(k) # vocab
                                     THEN {Restrict(k, S) : S \in KeptInSomeOrder(k, y)}
                                     ELSE {Nucleus(k, y)}
    BY DEF Filtered, TypicalP
<1> HIDE DEF k, y
<1>8. Sifts(row, Nucleus(k, y))
    BY <1>1, <1>4, NucleusSifts, SiftsTwice
<1>9. CASE y >= Tenths
    BY <1>4, <1>6, <1>7, <1>9
<1>10. CASE ~(y >= Tenths) /\ All(k) # vocab
    <2>1. All(k) # {}
        BY <1>4, <1>6
    <2>2. KeptInSomeOrder(k, y) # {}
          /\ \A S \in KeptInSomeOrder(k, y) : S # {} /\ S \in SUBSET All(k)
        BY <1>1, <1>4, <2>1, SomeOrderKeeps
    <2>3. Filtered(row, p, vocab) = {Restrict(k, S) : S \in KeptInSomeOrder(k, y)}
        BY <1>7, <1>10
    <2>4. ASSUME NEW S \in KeptInSomeOrder(k, y)
          PROVE  LET g == Restrict(k, S) IN IsRow(g) /\ All(g) # {} /\ All(g) \subseteq All(row)
        BY <1>4, <2>2, RestrictIsRow
    <2>5. ~(y = Tenths)
        BY <1>1, <1>10 DEF Tenths
    <2> QED BY <2>2, <2>3, <2>4, <2>5, <1>10 DEF k, y
<1>11. CASE ~(y >= Tenths) /\ All(k) = vocab
    BY <1>6, <1>7, <1>8, <1>11
<1> QED BY <1>9, <1>10, <1>11

\* Penalties, bias and temperature change logits, not the tokens of a row.
LEMMA PenaltiesKeepTokens ==
    ASSUME NEW row, IsRow(row), NEW p, IsParams(p), NEW past \in Seq(Token)
    PROVE  LET r == RepetitionPenalty(row, past, p.repetition)
               f == FrequencyPresencePenalty(r, past, p.frequency, p.presence)
               l == Penalised(row, p, past)
           IN /\ IsRow(r) /\ All(r) = All(row)
              /\ IsRow(l) /\ All(l) = All(row)
              /\ p.frequency = 0 /\ p.presence = 0 /\ p.bias = <<>> => l = r
              /\ past = <<>> /\ p.bias = <<>> => l = row
<1> DEFINE r == RepetitionPenalty(row, past, p.repetition)
           f == FrequencyPresencePenalty(r, past, p.frequency, p.presence)
           l == Penalised(row, p, past)
           Count(t) == Cardinality({i \in DOMAIN past : past[i] = t})
<1>1. /\ p.repetition \in Nat \ {0} /\ p.frequency \in Int /\ p.presence \in Int
      /\ \A t \in DOMAIN p.bias : p.bias[t] \in Int
    BY DEF IsParams
<1>2. \A t \in All(row) : row[t] \in Int
    BY DEF IsRow, All
<1>3. \A t : Count(t) \in Nat
    <2> SUFFICES ASSUME NEW t PROVE Count(t) \in Nat
        OBVIOUS
    <2>1. IsFiniteSet(DOMAIN past)
        BY LenProperties, FS_Interval
    <2>2. IsFiniteSet({i \in DOMAIN past : past[i] = t})
        BY <2>1, FS_Subset
    <2> QED BY <2>2, FS_CardinalityType
<1> HIDE DEF Count
<1>4. r \in [All(row) -> Int]
    <2>1. ASSUME NEW a \in Int, NEW n \in Nat \ {0} PROVE a \div n \in Int /\ a * n \in Int
        OBVIOUS
    <2>2. \A t \in All(row) : row[t] \div p.repetition \in Int /\ row[t] * p.repetition \in Int
        BY <1>1, <1>2, <2>1
    <2> QED BY <1>2, <2>2 DEF RepetitionPenalty
<1>5. All(r) = All(row) /\ DOMAIN r = DOMAIN row
    BY DEF RepetitionPenalty, All
<1>6. IsRow(r)
    BY <1>4, <1>5 DEF IsRow, All
<1>7. f = [t \in All(row) |-> IF t \notin Range(past) THEN r[t]
                              ELSE r[t] - (p.frequency * Count(t) + p.presence)]
    BY <1>5 DEF FrequencyPresencePenalty, Count
<1> HIDE DEF r
<1>8. f \in [All(row) -> Int]
    <2>1. ASSUME NEW a \in Int, NEW b \in Int, NEW c \in Int, NEW n \in Nat
          PROVE  a - (b * n + c) \in Int
        OBVIOUS
    <2>2. \A t \in All(row) : r[t] \in Int
                              /\ r[t] - (p.frequency * Count(t) + p.presence) \in Int
        BY <1>1, <1>3, <1>4, <2>1
    <2> QED BY <1>7, <2>2
<1>9. All(f) = All(row)
    BY <1>8 DEF All
<1>10. l = [t \in All(row) |-> IF t \in DOMAIN p.bias THEN f[t] + p.bias[t] ELSE f[t]]
    BY <1>9 DEF Penalised, LogitBias, r
<1> HIDE DEF f
<1>11. l \in [All(row) -> Int]
    BY <1>1, <1>8, <1>10
<1>12. All(l) = All(row) /\ DOMAIN l = DOMAIN row
    BY <1>11 DEF All
<1>13. IsRow(l)
    BY <1>11, <1>12 DEF IsRow, All
<1> HIDE DEF l
<1>14. p.bias = <<>> => l = f
    BY <1>8, <1>10
<1>15. p.frequency = 0 /\ p.presence = 0 => f = r
    <2> SUFFICES ASSUME p.frequency = 0, p.presence = 0 PROVE f = r
        OBVIOUS
    <2>1. ASSUME NEW a \in Int, NEW n \in Nat PROVE a - (0 * n + 0) = a
        OBVIOUS
    <2>2. \A t \in All(row) : r[t] - (0 * Count(t) + 0) = r[t]
        BY <1>3, <1>4, <2>1
    <2>3. \A t \in All(row) : f[t] = r[t]
        BY <1>7, <2>2
    <2> QED BY <1>4, <1>8, <2>3
<1>16. past = <<>> => r = row /\ f = r
    <2> SUFFICES ASSUME past = <<>> PROVE r = row /\ f = r
        OBVIOUS
    <2>1. \A t : t \notin Range(past)
        BY DEF Range
    <2>2. row \in [All(row) -> Int]
        BY DEF IsRow, All
    <2>3. r = row
        BY <2>1, <2>2 DEF RepetitionPenalty, r
    <2> QED BY <1>4, <1>7, <2>1, <2>3
<1> QED BY <1>5, <1>6, <1>12, <1>13, <1>14, <1>15, <1>16 DEF r, f, l

LEMMA ScaledIs ==
    ASSUME NEW row, IsRow(row), NEW p, IsParams(p)
    PROVE  /\ IsRow(Scaled(row, p)) /\ All(Scaled(row, p)) = All(row)
           /\ \A x : IsFirst(Scaled(row, p), x) => x \in Argmax(row)
<1> DEFINE s == Scaled(row, p)
           k == p.sharpness
<1>1. k \in Nat \ {0}
    BY DEF IsParams
<1>2. \A t \in All(row) : row[t] \in Int
    BY DEF IsRow, All
<1>3. s = [t \in All(row) |-> row[t] * k] /\ All(s) = All(row) /\ DOMAIN s = DOMAIN row
    BY DEF Scaled, All
<1> HIDE DEF s, k
<1>4. \A a \in Int : a * k \in Int
    BY <1>1
<1>5. IsRow(s)
    <2>1. s \in [All(row) -> Int]
        BY <1>2, <1>3, <1>4
    <2> QED BY <1>3, <2>1 DEF IsRow, All
<1>6. ASSUME NEW a \in Int, NEW b \in Int, a * k <= b * k PROVE a <= b
    <2>1. SUFFICES ASSUME b < a PROVE FALSE
        BY <1>6
    <2>2. PICK d \in Nat : a = b + 1 + d
        BY <2>1, a - b - 1 \in Nat
    <2>3. a * k = b * k + k + d * k
        BY <1>1, <2>2
    <2>4. d * k \in Nat /\ b * k \in Int
        BY <1>1
    <2> QED BY <1>1, <1>6, <2>3, <2>4
<1>7. ASSUME NEW x, IsFirst(s, x) PROVE x \in Argmax(row)
    <2>1. x \in All(row) /\ \A u \in All(row) : s[u] <= s[x]
        BY <1>3, <1>5, <1>7, FirstIsMost DEF IsFirst
    <2>2. \A u \in All(row) : row[u] <= row[x]
        BY <1>2, <1>3, <1>6, <2>1
    <2> QED BY <2>1, <2>2 DEF Argmax
<1> QED BY <1>3, <1>5, <1>7 DEF s

\* The samplers and the nucleus are what they should be, for every row, request
\* and history.
LEMMA SamplersAreOne ==
    ASSUME NEW row, IsRow(row), All(row) # {}, NEW p, IsParams(p),
           NEW past \in Seq(Token), NEW vocab
    PROVE  LET l    == Penalised(row, p, past)
               one  == SampleToken(row, p, past)
               many == SampleBatch(row, p, past, vocab)
               lp   == SampleBatchWithLogprobs(row, p, past, vocab)
           IN /\ many = lp.drawn /\ many \subseteq lp.logprobs
              /\ lp.logprobs = All(row)
              /\ many # {}
              /\ p.greedy => many = Argmax(l)
              /\ ~p.greedy =>
                   \A r \in Filtered(Scaled(l, p), p, vocab) :
                       /\ All(TopP(r, p.topP)) # {}
                       /\ p.typicalP = Tenths \/ All(Cut(Scaled(l, p), p)) = vocab =>
                            All(TopP(r, p.topP)) \cap Argmax(l) # {}
              /\ p.minP = 0 /\ p.typicalP = Tenths /\ p.bias = <<>>
                   /\ p.frequency = 0 /\ p.presence = 0 => one = many
<1> DEFINE r == RepetitionPenalty(row, past, p.repetition)
           l == Penalised(row, p, past)
           s == Scaled(l, p)
           gs == Filtered(s, p, vocab)
           h(g) == All(TopP(g, p.topP))
           many == SampleBatch(row, p, past, vocab)
           lp == SampleBatchWithLogprobs(row, p, past, vocab)
<1>1. IsRow(l) /\ All(l) = All(row)
      /\ (p.frequency = 0 /\ p.presence = 0 /\ p.bias = <<>> => l = r)
    BY PenaltiesKeepTokens
<1>2. many = IF p.greedy THEN Argmax(l) ELSE UNION {h(g) : g \in gs}
    BY DEF SampleBatch, Drawable
<1>3. lp = IF p.greedy THEN [drawn |-> Argmax(l), logprobs |-> All(l)]
           ELSE [drawn |-> UNION {h(g) : g \in gs}, logprobs |-> All(s)]
    BY DEF SampleBatchWithLogprobs, Drawable
<1>4. SampleToken(row, p, past) = IF p.greedy THEN Argmax(r)
                                  ELSE All(TopP(TopK(Scaled(r, p), p.topK), p.topP))
    BY DEF SampleToken
<1>5. p.minP = 0 /\ p.typicalP = Tenths => gs = {TopK(s, p.topK)}
    BY DEF Filtered, Cut, MinP, TypicalP, Tenths
<1> HIDE DEF r, l
<1>6. IsRow(s) /\ All(s) = All(row) /\ \A x : IsFirst(s, x) => x \in Argmax(l)
    BY <1>1, ScaledIs
<1>7. PICK x : IsFirst(s, x)
    BY <1>6, FirstIsGreatest
<1> DEFINE open == p.typicalP = Tenths \/ All(Cut(s, p)) = vocab
<1> HIDE DEF s
<1>8. gs # {} /\ \A g \in gs : IsRow(g) /\ All(g) # {} /\ All(g) \subseteq All(s)
                              /\ (open => Sifts(s, g))
    BY <1>6, FilteredRows
<1> HIDE DEF gs, open
<1>9. ASSUME NEW g \in gs
      PROVE  h(g) # {} /\ h(g) \subseteq All(row) /\ (open => h(g) \cap Argmax(l) # {})
    <2>1. p.topP \in 0 .. Tenths
        BY DEF IsParams
    <2>2. Sifts(g, TopP(g, p.topP)) /\ IsRow(g) /\ All(g) # {}
        BY <1>8, <2>1, TopPSifts
    <2>3. PICK y : IsFirst(g, y)
        BY <2>2, FirstIsGreatest
    <2>4. y \in h(g) /\ h(g) \subseteq All(row)
        BY <1>6, <1>8, <2>2, <2>3 DEF Sifts, IsFirst
    <2>5. open => x \in h(g) /\ x \in Argmax(l)
        BY <1>6, <1>7, <1>8, <2>2 DEF Sifts, IsFirst
    <2> QED BY <2>4, <2>5
<1>10. Argmax(l) \subseteq All(row) /\ Argmax(l) # {}
    BY <1>1, FirstIsGreatest DEF Argmax
<1>11. p.minP = 0 /\ p.typicalP = Tenths /\ p.bias = <<>> /\ p.frequency = 0 /\ p.presence = 0
         => SampleToken(row, p, past) = many
    <2> SUFFICES ASSUME p.minP = 0, p.typicalP = Tenths, p.bias = <<>>,
                        p.frequency = 0, p.presence = 0
                 PROVE  SampleToken(row, p, past) = many
        OBVIOUS
    <2>1. l = r /\ s = Scaled(r, p) /\ gs = {TopK(s, p.topK)}
        BY <1>1, <1>5 DEF s, gs
    <2>2. UNION {h(g) : g \in gs} = h(TopK(s, p.topK))
        BY <2>1
    <2> QED BY <1>2, <1>4, <2>1, <2>2
<1> HIDE DEF h, many, lp
<1>12. UNION {h(g) : g \in gs} \subseteq All(row) /\ UNION {h(g) : g \in gs} # {}
    BY <1>8, <1>9
<1>13. many = lp.drawn /\ many \subseteq lp.logprobs /\ lp.logprobs = All(row) /\ many # {}
    BY <1>1, <1>2, <1>3, <1>6, <1>10, <1>12
<1>14. p.greedy => many = Argmax(l)
    BY <1>2
<1> QED BY <1>9, <1>11, <1>13, <1>14 DEF h, many, lp, gs, open, s, l

-----------------------------------------------------------------------------
(* One step. *)

LEMMA FiltersOnlyRemove ==
    ASSUME NEW row, NEW p, NEW vocab
    PROVE  /\ \A k : All(TopK(row, k)) \subseteq All(row)
           /\ \A q : All(MinP(row, q)) \subseteq All(row)
           /\ \A q : All(TopP(row, q)) \subseteq All(row)
           /\ \A q, masked : \A g \in TypicalP(row, q, masked) : All(g) \subseteq All(row)
BY DEF TopK, MinP, TopP, TypicalP, KeptInSomeOrder, Nucleus, All, Restrict

\* A token is drawn from the row it is shown.
LEMMA DrawnFromRow ==
    ASSUME NEW row, NEW generated
    PROVE  Drawn(row, generated) \subseteq All(row)
<1> DEFINE p == request.params
           past == HistoryFor(p, generated)
           l == Penalised(row, p, past)
           s == Scaled(l, p)
           k == Cut(s, p)
           gs == Filtered(s, p, Token)
<1>1. Drawn(row, generated) \in {Argmax(l), UNION {All(TopP(g, p.topP)) : g \in gs}}
    BY DEF Drawn, SampleBatch, SampleBatchWithLogprobs, Drawable
<1>2. All(l) = All(row) /\ All(s) = All(l)
    BY DEF Penalised, LogitBias, FrequencyPresencePenalty, RepetitionPenalty, Scaled, All
<1>3. Argmax(l) \subseteq All(l)
    BY DEF Argmax
<1>4. gs = TypicalP(k, p.typicalP, All(k) # Token)
    BY DEF Filtered
<1> HIDE DEF l, s, past
<1>5. All(k) \subseteq All(s)
    <2>1. All(TopK(s, p.topK)) \subseteq All(s)
          /\ All(MinP(TopK(s, p.topK), p.minP)) \subseteq All(TopK(s, p.topK))
        BY FiltersOnlyRemove
    <2> QED BY <2>1 DEF Cut
<1>6. ASSUME NEW g \in gs PROVE All(TopP(g, p.topP)) \subseteq All(k)
    <2> HIDE DEF k, gs
    <2>1. All(g) \subseteq All(k)
        BY <1>4, FiltersOnlyRemove
    <2>2. All(TopP(g, p.topP)) \subseteq All(g)
        BY FiltersOnlyRemove
    <2> QED BY <2>1, <2>2
<1> HIDE DEF k, gs
<1>7. UNION {All(TopP(g, p.topP)) : g \in gs} \subseteq All(k)
    BY <1>6
<1> QED BY <1>1, <1>2, <1>3, <1>5, <1>7

\* What the target is shown of the tokens s.
Window(s) == SubSeq(s, IF Len(s) > 1 THEN Len(s) - 1 ELSE 1, Len(s))

LEMMA WindowIs ==
    ASSUME NEW s \in Seq(Token), Len(s) > 0
    PROVE  /\ Window(s) \in TupleOf(Token, 1) \cup TupleOf(Token, 2)
           /\ Last(Window(s)) = Last(s)
<1> DEFINE w == Window(s)
<1>1. Len(s) \in Nat /\ \A i \in 1 .. Len(s) : s[i] \in Token
    OBVIOUS
<1>2. CASE Len(s) > 1
    <2>1. w = SubSeq(s, Len(s) - 1, Len(s))
        BY <1>2 DEF Window
    <2>2. w \in Seq(Token) /\ Len(w) = 2 /\ w[2] = s[Len(s)]
        BY <1>1, <1>2, <2>1
    <2> HIDE DEF w
    <2>3. w \in [1 .. 2 -> Token]
        BY <2>2, LenProperties
    <2>4. Last(w) = Last(s)
        BY <2>2 DEF Last
    <2> QED BY <2>3, <2>4 DEF TupleOf, w
<1>3. CASE ~(Len(s) > 1)
    <2>1. w = SubSeq(s, 1, Len(s))
        BY <1>3 DEF Window
    <2>2. Len(s) = 1
        <3>1. \A n \in Nat : n > 0 /\ ~(n > 1) => n = 1
            OBVIOUS
        <3> QED BY <3>1, <1>1, <1>3
    <2> HIDE DEF w
    <2>3. w \in Seq(Token) /\ Len(w) = 1 /\ w[1] = s[1]
        BY <1>1, <2>1, <2>2
    <2>4. w \in [1 .. 1 -> Token]
        BY <2>3, LenProperties
    <2>5. Last(w) = Last(s)
        BY <2>2, <2>3 DEF Last
    <2> QED BY <2>4, <2>5 DEF TupleOf, w
<1> QED BY <1>2, <1>3

\* The row the target gives depends on the last two tokens at most.
LEMMA LogitsAre ==
    ASSUME [request |-> request, model |-> model] \in Case,
           NEW s \in Seq(Token), Len(s) > 0
    PROVE  /\ LogitsAfter(s) \in [Token -> Int] /\ IsRow(LogitsAfter(s))
           /\ All(LogitsAfter(s)) = Token /\ Token # {}
<1>1. model \in [TupleOf(Token, 1) \cup TupleOf(Token, 2) -> [Token -> Int]]
    BY CaseAssumption
<1>2. LogitsAfter(s) \in [Token -> Int]
    BY <1>1, WindowIs DEF LogitsAfter, Window
<1>3. IsFiniteSet(Token) /\ Token \subseteq Nat /\ Token # {}
    BY GenerationAssumption
<1> QED BY <1>2, <1>3 DEF IsRow, All

\* The row of a plain step has no other tokens.
StepRow(j) == JsonMask(SuppressFirst(LogitsAfter(Prompt \o out), out), j)

LEMMA StepRowTokens ==
    ASSUME [request |-> request, model |-> model] \in Case, out \in Seq(Token), NEW j
    PROVE  /\ All(StepRow(j)) \subseteq Token
           /\ request.json /\ j.complete => All(StepRow(j)) = {JsonEos}
<1>1. Prompt \o out \in Seq(Token) /\ Len(Prompt \o out) > 0
    BY GenerationAssumption
<1>2. All(LogitsAfter(Prompt \o out)) = Token /\ Eos \in Token
    BY <1>1, LogitsAre, GenerationAssumption
<1> DEFINE first == SuppressFirst(LogitsAfter(Prompt \o out), out)
<1>3. All(first) \subseteq Token /\ JsonEos \in Token
    BY <1>2, GenerationAssumption DEF SuppressFirst, All, Restrict
<1>4. StepRow(j) = IF request.json /\ j.complete THEN Restrict(first, {JsonEos}) ELSE first
    BY DEF StepRow, JsonMask
<1> HIDE DEF first
<1>5. All(Restrict(first, {JsonEos})) = {JsonEos}
    BY DEF All, Restrict
<1> QED BY <1>3, <1>4, <1>5

\* What the parts of a plain step are.
LEMMA StepIs ==
    ASSUME [request |-> request, model |-> model] \in Case, out \in Seq(Token), PlainStep
    PROVE  /\ status = "running" /\ ~IsFinished
           /\ json' = JsonAfter(out) /\ stop' = StopAfter(out)
           /\ status' = IF stop'.triggered THEN "finished" ELSE status
           /\ logprobs' = IF request.logprobs THEN logprobs + 1 ELSE logprobs
           /\ UNCHANGED <<request, model, result>>
           /\ \E t \in Drawn(StepRow(json'), out) :
                 t \in Token /\ t \in All(StepRow(json')) /\ out' = Append(out, t)
<1>1. \A j : Drawn(StepRow(j), out) \subseteq All(StepRow(j)) /\ All(StepRow(j)) \subseteq Token
    BY DrawnFromRow, StepRowTokens
<1>2. json' = JsonAfter(out) /\ stop' = StopAfter(out)
      /\ \E t \in Drawn(StepRow(json'), out) : out' = Append(out, t)
    BY DEF PlainStep, StepRow
<1> QED BY <1>1, <1>2 DEF PlainStep

LEMMA MatchesIs ==
    ASSUME NEW draft, NEW shown
    PROVE  /\ Max(Matches(draft, shown)) \in Matches(draft, shown)
           /\ Max(Matches(draft, shown)) \in 0 .. K
<1> DEFINE M == Matches(draft, shown)
           T == {k \in Nat : K - k \in M}
<1>1. M \subseteq 0 .. K /\ 0 \in M /\ K \in Nat
    BY GenerationAssumption DEF Matches
<1> HIDE DEF M
<1>2. K \in T /\ T \in SUBSET Nat
    BY <1>1
<1>3. PICK m \in T : \A k \in T : m <= k
    BY <1>2, Least
<1>4. K - m \in M
    BY <1>3
<1>5. \A n \in M : K - m >= n
    <2> SUFFICES ASSUME NEW n \in M PROVE K - m >= n
        OBVIOUS
    <2>1. n \in 0 .. K /\ K - n \in Nat /\ K - (K - n) = n
        BY <1>1
    <2>2. K - n \in T
        BY <2>1
    <2> QED BY <1>1, <1>3, <2>1, <2>2
<1>6. Max(M) \in M
    BY <1>4, <1>5 DEF Max
<1> QED BY <1>1, <1>6 DEF M

\* What a speculative step accepts: some of the draft, each token the target's
\* own choice after the ones before it, and one token more.
LEMMA SpeculationIs ==
    ASSUME [request |-> request, model |-> model] \in Case, out \in Seq(Token), SpeculativeStep
    PROVE  /\ request.speculation /\ out # <<>> /\ status = "running" /\ ~IsFinished
           /\ UNCHANGED <<request, model, json, stop, status, logprobs, result>>
           /\ \E tokens \in Seq(Token) :
                 /\ Len(tokens) \in 1 .. K + 1 /\ out' = out \o tokens
                 /\ \A i \in 1 .. Len(tokens) :
                       \E s \in Seq(Token) :
                          /\ Len(s) > 0 /\ tokens[i] \in Argmax(LogitsAfter(s))
                          /\ Last(s) = IF i = 1 THEN Last(out) ELSE tokens[i - 1]
<1>0. PICK draft \in TupleOf(Token, K) :
          \E tokens \in Accepted(draft, <<Last(out)>> \o draft) : out' = out \o tokens
    BY DEF SpeculativeStep
<1>1. PICK tokens \in Accepted(draft, <<Last(out)>> \o draft) : out' = out \o tokens
    BY <1>0
<1> DEFINE shown == <<Last(out)>> \o draft
           n == Max(Matches(draft, shown))
<1>2. n \in Matches(draft, shown) /\ n \in 0 .. K /\ K \in Nat
    BY MatchesIs, GenerationAssumption
<1>3. PICK t \in TargetAt(n + 1, shown) : tokens = Append(SubSeq(draft, 1, n), t)
    BY <1>1 DEF Accepted
<1>4. out # <<>> /\ Last(out) \in Token
    BY DEF SpeculativeStep, Last
<1>5. draft \in Seq(Token) /\ Len(draft) = K
    BY <1>2 DEF TupleOf
<1>6. shown \in Seq(Token) /\ Len(shown) = K + 1 /\ shown[1] = Last(out)
      /\ \A i \in 2 .. K + 1 : shown[i] = draft[i - 1]
    BY <1>2, <1>4, <1>5
<1> HIDE DEF shown, n
<1>7. ASSUME NEW i \in 1 .. K + 1
      PROVE  /\ SubSeq(shown, 1, i) \in Seq(Token) /\ Len(SubSeq(shown, 1, i)) = i
             /\ Last(SubSeq(shown, 1, i)) = shown[i]
    BY <1>2, <1>6 DEF Last
<1>8. \A i \in 1 .. K + 1 : TargetAt(i, shown) \subseteq Token
    <2> SUFFICES ASSUME NEW i \in 1 .. K + 1 PROVE TargetAt(i, shown) \subseteq Token
        OBVIOUS
    <2>0. SubSeq(shown, 1, i) \in Seq(Token) /\ Len(SubSeq(shown, 1, i)) > 0
        BY <1>7
    <2>1. All(LogitsAfter(SubSeq(shown, 1, i))) = Token
        BY <2>0, LogitsAre
    <2> QED BY <2>1 DEF TargetAt, Argmax
<1>9. t \in Token /\ tokens \in Seq(Token) /\ Len(tokens) = n + 1 /\ tokens[n + 1] = t
      /\ \A i \in 1 .. n : tokens[i] = draft[i]
    <2>1. t \in Token
        BY <1>2, <1>8
    <2>2. SubSeq(draft, 1, n) \in Seq(Token) /\ Len(SubSeq(draft, 1, n)) = n
          /\ \A i \in 1 .. n : SubSeq(draft, 1, n)[i] = draft[i]
        BY <1>2, <1>5
    <2> QED BY <1>2, <1>3, <2>1, <2>2
<1>10. \A i \in 1 .. n : draft[i] \in TargetAt(i, shown)
    BY <1>2 DEF Matches
<1>11. ASSUME NEW i \in 1 .. n + 1
       PROVE  \E s \in Seq(Token) :
                 /\ Len(s) > 0 /\ tokens[i] \in Argmax(LogitsAfter(s))
                 /\ Last(s) = IF i = 1 THEN Last(out) ELSE tokens[i - 1]
    <2> DEFINE s == SubSeq(shown, 1, i)
    <2>1. i \in 1 .. K + 1
        BY <1>2
    <2>2. tokens[i] \in TargetAt(i, shown)
        BY <1>2, <1>3, <1>9, <1>10
    <2>3. s \in Seq(Token) /\ Len(s) > 0 /\ tokens[i] \in Argmax(LogitsAfter(s)) /\ Last(s) = shown[i]
        BY <1>7, <2>1, <2>2 DEF TargetAt
    <2>4. shown[i] = IF i = 1 THEN Last(out) ELSE tokens[i - 1]
        BY <1>2, <1>6, <1>9, <2>1
    <2> HIDE DEF s
    <2> QED BY <2>3, <2>4
<1>12. Len(tokens) \in 1 .. K + 1
    BY <1>2, <1>9
<1>13. /\ request.speculation /\ out # <<>> /\ status = "running" /\ ~IsFinished
       /\ UNCHANGED <<request, model, json, stop, status, logprobs, result>>
    BY DEF SpeculativeStep
<1> QED BY <1>1, <1>9, <1>11, <1>12, <1>13

-----------------------------------------------------------------------------
(* Types and the budget. *)

Types ==
    /\ [request |-> request, model |-> model] \in Case
    /\ out \in Seq(Token)
    /\ stop.triggered \in BOOLEAN /\ stop.at \in Int
    /\ status \in {"running", "finished", "answered"}
    /\ result.tokens \in Seq(Token) /\ logprobs \in Nat

Budget == Len(out) <= MaxNew + K /\ (~request.speculation => Len(out) <= MaxNew)

LEMMA RequestIs ==
    ASSUME [request |-> request, model |-> model] \in Case
    PROVE  /\ IsRequest(request) /\ IsParams(request.params)
           /\ request.stops \in Seq(Seq(Token))
           /\ \A i \in DOMAIN request.stops : request.stops[i] \in Seq(Token)
<1>1. IsRequest(request)
    BY CaseAssumption
<1> QED BY <1>1 DEF IsRequest

\* The first of some places.
LEMMA MinIs ==
    ASSUME NEW T \in SUBSET Nat, T # {}
    PROVE  Min(T) \in T
<1>1. PICK m \in T : \A k \in T : m <= k
    BY Least
<1> QED BY <1>1 DEF Min

\* The sequence s ends at place m of tokens.
EndsAt(s, tokens, m) ==
    Len(s) <= m /\ \A k \in 1 .. Len(s) : s[k] = tokens[m - Len(s) + k]

LEMMA SuffixIs ==
    ASSUME NEW s \in Seq(Token), NEW tokens \in Seq(Token)
    PROVE  IsSuffix(s, tokens) <=> EndsAt(s, tokens, Len(tokens))
<1> DEFINE a == Reverse(s)
           b == Reverse(tokens)
           n == Len(s)
           m == Len(tokens)
<1>1. n \in Nat /\ m \in Nat
    OBVIOUS
<1>2. /\ a = [i \in 1 .. n |-> s[n - i + 1]] /\ b = [i \in 1 .. m |-> tokens[m - i + 1]]
    BY DEF Reverse
<1>3. a \in Seq(Token) /\ b \in Seq(Token) /\ Len(a) = n /\ Len(b) = m
    <2>1. \A i \in 1 .. n : s[n - i + 1] \in Token
        BY <1>1
    <2>2. \A i \in 1 .. m : tokens[m - i + 1] \in Token
        BY <1>1
    <2>3. a \in [1 .. n -> Token] /\ b \in [1 .. m -> Token]
        BY <1>2, <2>1, <2>2
    <2> HIDE DEF a, b, n, m
    <2> QED BY <1>1, <2>3, SeqDef
<1> HIDE DEF a, b
<1>4. IsSuffix(s, tokens) <=> n <= m /\ SubSeq(a, 1, n) = SubSeq(b, 1, n)
    BY <1>3 DEF IsSuffix, IsPrefix, a, b
<1>5. ASSUME n <= m
      PROVE  SubSeq(a, 1, n) = SubSeq(b, 1, n) <=> \A i \in 1 .. n : a[i] = b[i]
    <2>1. SubSeq(a, 1, n) = [i \in 1 .. n |-> a[i]] /\ SubSeq(b, 1, n) = [i \in 1 .. n |-> b[i]]
        BY <1>1, <1>3, <1>5
    <2> QED BY <2>1
<1>6. ASSUME n <= m
      PROVE  (\A i \in 1 .. n : a[i] = b[i]) <=> (\A k \in 1 .. n : s[k] = tokens[m - n + k])
    <2>1. \A i \in 1 .. n : n - i + 1 \in 1 .. n /\ m - n + (n - i + 1) = m - i + 1
                            /\ n - (n - i + 1) + 1 = i /\ i \in 1 .. m
        BY <1>1, <1>6
    <2>2. ASSUME \A i \in 1 .. n : a[i] = b[i], NEW k \in 1 .. n PROVE s[k] = tokens[m - n + k]
        <3>1. a[n - k + 1] = b[n - k + 1]
            BY <2>1, <2>2
        <3>2. a[n - k + 1] = s[k] /\ b[n - k + 1] = tokens[m - n + k]
            <4>1. n - (n - k + 1) + 1 = k /\ m - (n - k + 1) + 1 = m - n + k
                BY <1>1
            <4> QED BY <1>2, <2>1, <4>1
        <3> QED BY <3>1, <3>2
    <2>3. ASSUME \A k \in 1 .. n : s[k] = tokens[m - n + k], NEW i \in 1 .. n PROVE a[i] = b[i]
        BY <1>2, <2>1, <2>3
    <2> QED BY <2>2, <2>3
<1> QED BY <1>4, <1>5, <1>6 DEF EndsAt

LEMMA OccursIs ==
    ASSUME NEW s \in Seq(Token), s # <<>>, NEW tokens \in Seq(Token), NEW n \in 0 .. Len(tokens),
           Occurs(s, SubSeq(tokens, 1, n))
    PROVE  \E m \in 1 .. n : EndsAt(s, tokens, m)
<1> DEFINE cut == SubSeq(tokens, 1, n)
<1>1. cut \in Seq(Token) /\ Len(cut) = n /\ \A i \in 1 .. n : cut[i] = tokens[i]
    OBVIOUS
<1> HIDE DEF cut
<1>2. PICK i \in 0 .. n - Len(s) : SubSeq(cut, i + 1, i + Len(s)) = s
    BY <1>1 DEF Occurs, cut
<1>3. Len(s) \in Nat \ {0} /\ n \in Nat
    BY EmptySeq, LenProperties
<1>4. ASSUME NEW k \in 1 .. Len(s) PROVE s[k] = tokens[i + Len(s) - Len(s) + k]
    <2>1. i + k \in 1 .. n /\ i + Len(s) - Len(s) + k = i + k /\ (i + 1) + k - 1 = i + k
        BY <1>3
    <2>2. SubSeq(cut, i + 1, i + Len(s))[k] = cut[(i + 1) + k - 1]
        <3> DEFINE a == i + 1
                   b == i + Len(s)
        <3>1. a \in Int /\ b \in Int /\ k \in 1 .. b - a + 1
              /\ \A j \in a .. b : j \in 1 .. n
            BY <1>3
        <3> HIDE DEF a, b
        <3>2. \A j \in a .. b : cut[j] \in Token
            BY <1>1, <3>1
        <3>3. SubSeq(cut, a, b)[k] = cut[a + k - 1]
            BY <3>1, <3>2, SubSeqProperties
        <3> QED BY <3>3 DEF a, b
    <2> QED BY <1>1, <1>2, <2>1, <2>2
<1>5. i + Len(s) \in 1 .. n /\ Len(s) <= i + Len(s)
    BY <1>3
<1> QED BY <1>4, <1>5 DEF EndsAt

LEMMA OccursWithin ==
    ASSUME NEW s \in Seq(Token), s # <<>>, NEW tokens \in Seq(Token), NEW n \in 0 .. Len(tokens),
           \A m \in 1 .. n : ~EndsAt(s, tokens, m)
    PROVE  ~Occurs(s, SubSeq(tokens, 1, n))
BY OccursIs

\* What a step makes of the stop sequences.
LEMMA StopAfterIs ==
    ASSUME [request |-> request, model |-> model] \in Case, out \in Seq(Token)
    PROVE  \/ /\ StopAfter(out) = stop
              /\ \A i \in DOMAIN request.stops :
                    request.stops[i] # <<>> => ~EndsAt(request.stops[i], out, Len(out))
           \/ \E s \in Seq(Token) :
                 /\ s = <<>> => out = <<>>
                 /\ Len(s) <= Len(out)
                 /\ StopAfter(out) = [triggered |-> TRUE, at |-> Len(out) - Len(s)]
<1> DEFINE Found == {i \in DOMAIN request.stops :
                        /\ IsSuffix(request.stops[i], out)
                        /\ request.stops[i] = <<>> => out = <<>>}
<1>1. request.stops \in Seq(Seq(Token)) /\ \A i \in DOMAIN request.stops : request.stops[i] \in Seq(Token)
    BY RequestIs
<1>2. StopAfter(out) = IF Found = {} THEN stop
                       ELSE [triggered |-> TRUE, at |-> Len(out) - Len(request.stops[Min(Found)])]
    BY DEF StopAfter
<1>3. \A i \in DOMAIN request.stops : IsSuffix(request.stops[i], out) <=> EndsAt(request.stops[i], out, Len(out))
    BY <1>1, SuffixIs
<1>4. CASE Found = {}
    BY <1>2, <1>3, <1>4
<1>5. CASE Found # {}
    <2>1. Found \in SUBSET Nat
        <3>1. DOMAIN request.stops \subseteq Nat
            BY <1>1
        <3> QED BY <3>1
    <2>2. Min(Found) \in Found
        BY <1>5, <2>1, MinIs
    <2> DEFINE s == request.stops[Min(Found)]
    <2>3. s \in Seq(Token) /\ (s = <<>> => out = <<>>) /\ Len(s) <= Len(out)
        BY <1>1, <1>3, <2>2 DEF EndsAt
    <2> QED BY <1>2, <1>5, <2>3
<1> QED BY <1>4, <1>5

LEMMA TypesHold ==
    /\ GInit => Types /\ Budget
    /\ Types /\ Budget /\ [GNext]_gvars => Types' /\ Budget'
<1>0. MaxNew \in Nat \ {0} /\ K \in Nat \ {0}
    BY GenerationAssumption
<1>1. GInit => Types /\ Budget
    <2> SUFFICES ASSUME GInit PROVE Types /\ Budget
        OBVIOUS
    <2>1. PICK c \in Case : request = c.request /\ model = c.model
        BY DEF GInit
    <2>2. [request |-> request, model |-> model] \in Case
        BY <2>1, CaseAssumption
    <2> QED BY <1>0, <2>2 DEF GInit, Types, Budget, NoAnswer
<1> SUFFICES ASSUME Types, Budget, [GNext]_gvars PROVE Types' /\ Budget'
    BY <1>1
<1>2. CASE PlainStep
    <2>1. /\ status = "running" /\ ~IsFinished
          /\ stop' = StopAfter(out) /\ status' = IF stop'.triggered THEN "finished" ELSE status
          /\ logprobs' = IF request.logprobs THEN logprobs + 1 ELSE logprobs
          /\ UNCHANGED <<request, model, result>>
          /\ \E t \in Token : out' = Append(out, t)
        BY <1>2, StepIs DEF Types
    <2>2. stop'.triggered \in BOOLEAN /\ stop'.at \in Int
        <3>1. Len(out) \in Nat /\ \A s \in Seq(Token) : Len(s) \in Nat
            BY LenProperties DEF Types
        <3>2. \/ StopAfter(out) = stop
              \/ \E s \in Seq(Token) :
                    StopAfter(out) = [triggered |-> TRUE, at |-> Len(out) - Len(s)]
            BY StopAfterIs DEF Types
        <3>3. ASSUME NEW s \in Seq(Token),
                     StopAfter(out) = [triggered |-> TRUE, at |-> Len(out) - Len(s)]
              PROVE  stop'.triggered \in BOOLEAN /\ stop'.at \in Int
            <4>1. Len(out) - Len(s) \in Int
                BY <3>1
            <4>2. stop'.triggered = TRUE /\ stop'.at = Len(out) - Len(s)
                BY <2>1, <3>3
            <4> QED BY <4>1, <4>2
        <3>4. CASE StopAfter(out) = stop
            BY <2>1, <3>4 DEF Types
        <3> QED BY <3>2, <3>3, <3>4
    <2>3. Len(out) < MaxNew
        BY <2>1, <1>0 DEF IsFinished, EndTokens, Types
    <2>4. out' \in Seq(Token) /\ Len(out') = Len(out) + 1
        BY <2>1 DEF Types
    <2> QED BY <1>0, <2>1, <2>2, <2>3, <2>4 DEF Types, Budget
<1>3. CASE SpeculativeStep
    <2>1. /\ request.speculation /\ ~IsFinished
          /\ UNCHANGED <<request, model, json, stop, status, logprobs, result>>
          /\ \E tokens \in Seq(Token) : Len(tokens) \in 1 .. K + 1 /\ out' = out \o tokens
        BY <1>3, SpeculationIs DEF Types
    <2>2. Len(out) < MaxNew
        BY <2>1, <1>0 DEF IsFinished, EndTokens, Types
    <2>3. out' \in Seq(Token) /\ Len(out') <= Len(out) + K + 1
        BY <1>0, <2>1 DEF Types
    <2>4. Len(out) \in Nat /\ Len(out') \in Nat
        BY <2>3 DEF Types
    <2>5. Len(out') <= MaxNew + K
        BY <1>0, <2>2, <2>3, <2>4
    <2> QED BY <2>1, <2>3, <2>5 DEF Types, Budget
<1>4. CASE Answer
    <2>1. out \in Seq(Token) /\ \A n \in 0 .. Len(out) : SubSeq(out, 1, n) \in Seq(Token)
        BY DEF Types
    <2>2. PICK n \in 0 .. Len(out) : result'.tokens = SubSeq(out, 1, n)
        <3> DEFINE n == IF stop.triggered /\ stop.at \in 0 .. Len(out) - 1
                        THEN stop.at ELSE Len(out)
        <3>1. n \in 0 .. Len(out)
            BY <2>1, LenProperties
        <3>2. result'.tokens = SubSeq(out, 1, n)
            BY <1>4 DEF Answer
        <3> QED BY <3>1, <3>2
    <2>3. status' = "answered" /\ UNCHANGED <<request, model, out, json, stop, logprobs>>
        BY <1>4 DEF Answer
    <2> QED BY <2>1, <2>2, <2>3 DEF Types, Budget
<1>5. CASE UNCHANGED gvars
    BY <1>5 DEF gvars, Types, Budget
<1> QED BY <1>2, <1>3, <1>4, <1>5 DEF GNext

\* The types hold, and an answer stays within the budget, but for what a
\* speculative step accepts beyond it.
THEOREM GenerationInvariance == GSpec => [](TypeOK /\ Budget)
<1>1. GInit => Types /\ Budget
    BY TypesHold
<1>2. Types /\ Budget /\ [GNext]_gvars => (Types /\ Budget)'
    BY TypesHold
<1>3. Types /\ Budget => TypeOK /\ Budget
    BY DEF Types, Budget, TypeOK
<1> QED BY <1>1, <1>2, <1>3, PTL DEF GSpec

-----------------------------------------------------------------------------
(* Stop sequences. *)

\* No stop sequence but an empty one ends in the first n tokens.
NoneEnds(n) ==
    \A i \in DOMAIN request.stops :
        request.stops[i] # <<>> => \A m \in 1 .. n : ~EndsAt(request.stops[i], out, m)

Cutting ==
    /\ status = "running" => ~stop.triggered
    /\ status = "finished" => stop.triggered
    /\ ~stop.triggered => NoneEnds(Len(out) - 1)
    /\ stop.triggered => stop.at \in 0 .. Len(out) - 1 /\ NoneEnds(stop.at)
    /\ request.logprobs => logprobs = Len(out)

\* The speculative decoder serves no request with stop sequences or logprobs:
\* the code does not see to it (GenerationStops.cfg).
PlainRequests ==
    \A c \in Case : c.request.speculation => c.request.stops = <<>> /\ ~c.request.logprobs

LEMMA CuttingInit == GInit => Cutting /\ StopExcluded
<1> SUFFICES ASSUME GInit PROVE Cutting /\ StopExcluded
    OBVIOUS
<1>1. out = <<>> /\ Len(out) = 0 /\ logprobs = 0 /\ status = "running" /\ stop.triggered = FALSE
    BY DEF GInit
<1>2. NoneEnds(Len(out) - 1)
    BY <1>1 DEF NoneEnds
<1> QED BY <1>1, <1>2 DEF Cutting, StopExcluded

LEMMA CuttingStep ==
    ASSUME Types, Cutting, PlainStep
    PROVE  Cutting'
<1>1. /\ status = "running" /\ ~IsFinished
      /\ stop' = StopAfter(out) /\ status' = IF stop'.triggered THEN "finished" ELSE status
      /\ logprobs' = IF request.logprobs THEN logprobs + 1 ELSE logprobs
      /\ UNCHANGED <<request, model, result>>
    BY StepIs DEF Types
<1>2. PICK t \in Token : out' = Append(out, t)
    BY StepIs DEF Types
<1>3. PICK n \in Nat : n = Len(out)
    BY LenProperties DEF Types
<1>4. Len(out') = n + 1 /\ \A i \in 1 .. n : out'[i] = out[i]
    BY <1>2, <1>3 DEF Types
<1>5. request.stops \in Seq(Seq(Token)) /\ \A i \in DOMAIN request.stops : request.stops[i] \in Seq(Token)
    BY RequestIs DEF Types
<1>6. ~stop.triggered /\ \A i \in DOMAIN request.stops :
          request.stops[i] # <<>> => \A m \in 1 .. n - 1 : ~EndsAt(request.stops[i], out, m)
    BY <1>1, <1>3 DEF Cutting, NoneEnds
<1>7. ASSUME NEW s \in Seq(Token), NEW m \in 1 .. n, EndsAt(s, out', m)
      PROVE  EndsAt(s, out, m)
    <2>1. Len(s) \in Nat /\ Len(s) <= m
        BY <1>7, LenProperties DEF EndsAt
    <2>2. \A k \in 1 .. Len(s) : m - Len(s) + k \in 1 .. n
        BY <2>1
    <2> QED BY <1>4, <1>7, <2>2 DEF EndsAt
<1>8. request.logprobs' => logprobs' = Len(out')
    BY <1>1, <1>3, <1>4 DEF Cutting
<1>9. CASE /\ stop' = stop
           /\ \A i \in DOMAIN request.stops :
                 request.stops[i] # <<>> => ~EndsAt(request.stops[i], out, n)
    <2>1. status' = "running" /\ ~stop'.triggered
        BY <1>1, <1>6, <1>9
    <2>2. ASSUME NEW i \in DOMAIN request.stops, request.stops[i] # <<>>, NEW m \in 1 .. n
          PROVE  ~EndsAt(request.stops[i], out', m)
        <3>1. m = n \/ m \in 1 .. n - 1
            OBVIOUS
        <3>2. ~EndsAt(request.stops[i], out, m)
            BY <3>1, <1>6, <1>9, <2>2
        <3> QED BY <3>2, <1>5, <1>7
    <2>3. (Len(out) - 1)' = n
        BY <1>4
    <2>4. NoneEnds(Len(out) - 1)'
        BY <1>1, <2>2, <2>3 DEF NoneEnds
    <2> QED BY <1>8, <2>1, <2>4 DEF Cutting
<1>10. ASSUME NEW s \in Seq(Token), s = <<>> => out = <<>>, Len(s) <= n,
              stop' = [triggered |-> TRUE, at |-> n - Len(s)]
       PROVE  Cutting'
    <2>1. status' = "finished" /\ stop'.triggered
        BY <1>1, <1>10
    <2>2. Len(s) \in Nat /\ stop'.at = n - Len(s) /\ (Len(s) = 0 => n = 0)
        BY <1>3, <1>10, EmptySeq, LenProperties
    <2>3. stop'.at \in 0 .. Len(out') - 1
        BY <1>4, <1>10, <2>2
    <2>4. ASSUME NEW i \in DOMAIN request.stops, request.stops[i] # <<>>, NEW m \in 1 .. stop'.at
          PROVE  ~EndsAt(request.stops[i], out', m)
        <3>1. m \in 1 .. n - 1 /\ m \in 1 .. n
            BY <2>2, <1>10
        <3>2. ~EndsAt(request.stops[i], out, m)
            BY <3>1, <1>6, <2>4
        <3> QED BY <3>1, <3>2, <1>5, <1>7
    <2>5. NoneEnds(stop.at)'
        BY <1>1, <2>4 DEF NoneEnds
    <2> QED BY <1>8, <2>1, <2>3, <2>5 DEF Cutting
<1> QED BY <1>1, <1>3, <1>9, <1>10, StopAfterIs DEF Types

LEMMA CuttingSpeculates ==
    ASSUME PlainRequests, Types, Cutting, SpeculativeStep
    PROVE  Cutting'
<1>1. request.speculation /\ status = "running"
      /\ UNCHANGED <<request, model, json, stop, status, logprobs, result>>
    BY SpeculationIs DEF Types
<1>2. request.stops = <<>> /\ ~request.logprobs
    <2>1. [request |-> request, model |-> model] \in Case
        BY DEF Types
    <2> QED BY <2>1, <1>1 DEF PlainRequests
<1> QED BY <1>1, <1>2 DEF Cutting, NoneEnds

\* Why an answer holds none: it is cut where the first one starts, and one that
\* was not seen in time is completed by the last token.
LEMMA CutIsClean ==
    ASSUME PlainRequests, Types, Budget, Cutting, Answer
    PROVE  StopExcluded'
<1> DEFINE cut == stop.triggered /\ stop.at \in 0 .. Len(out) - 1
           n == IF cut THEN stop.at ELSE Len(out)
<1>1. /\ status # "answered" /\ IsFinished
      /\ result' = [tokens |-> SubSeq(out, 1, n), logprobs |-> IF logprobs < n THEN logprobs ELSE n]
      /\ UNCHANGED <<request, model, out, json, stop, logprobs>>
    BY DEF Answer
<1>2. Len(out) \in Nat /\ out \in Seq(Token) /\ n \in 0 .. Len(out)
    BY LenProperties DEF Types
<1>3. cut <=> stop.triggered
    BY DEF Cutting
<1> HIDE DEF n, cut
<1>4. /\ result'.tokens \in Seq(Token) /\ Len(result'.tokens) = n
      /\ \A i \in 1 .. n : result'.tokens[i] = out[i]
    BY <1>1, <1>2
<1>5. \A i \in DOMAIN request.stops : request.stops[i] \in Seq(Token)
    BY RequestIs DEF Types
<1>6. request'.logprobs => result'.logprobs = Len(result'.tokens)
    BY <1>1, <1>2, <1>4 DEF Cutting
<1>7. ASSUME NEW i \in DOMAIN request.stops, request.stops[i] # <<>>,
             Occurs(request.stops[i], result'.tokens)
      PROVE  /\ \/ Len(result'.tokens) = MaxNew
                \/ Last(result'.tokens) \in EndTokens
             /\ ~Occurs(request.stops[i], Front(result'.tokens))
    <2>1. ~stop.triggered
        <3> SUFFICES ASSUME stop.triggered PROVE FALSE
            OBVIOUS
        <3>1. n = stop.at
            BY <1>3 DEF n
        <3>2. \A m \in 1 .. n : ~EndsAt(request.stops[i], out, m)
            BY <3>1, <1>7 DEF Cutting, NoneEnds
        <3> QED BY <3>2, <1>1, <1>2, <1>5, <1>7, OccursWithin
    <2>2. n = Len(out) /\ result'.tokens = out
        <3>1. n = Len(out)
            BY <2>1, <1>3 DEF n
        <3>2. SubSeq(out, 1, Len(out)) = out
            BY <1>2, SubSeqFull
        <3> QED BY <3>1, <3>2, <1>1
    <2>3. status = "running"
        BY <2>1, <1>1 DEF Cutting, Types
    <2>4. out # <<>>
        <3> SUFFICES ASSUME out = <<>> PROVE FALSE
            OBVIOUS
        <3>1. Len(out) = 0
            BY EmptySeq
        <3> QED BY <3>1, <2>3, <1>1, GenerationAssumption DEF IsFinished
    <2>5. ~request.speculation
        <3> SUFFICES ASSUME request.speculation PROVE FALSE
            OBVIOUS
        <3>1. [request |-> request, model |-> model] \in Case
            BY DEF Types
        <3>2. request.stops = <<>>
            BY <3>1 DEF PlainRequests
        <3> QED BY <3>2, <1>7
    <2>6. Len(out) <= MaxNew /\ MaxNew \in Nat
        BY <2>5, GenerationAssumption DEF Budget
    <2>7. Len(out) = MaxNew \/ Last(out) \in EndTokens
        BY <2>3, <2>6, <1>1, <1>2 DEF IsFinished
    <2>8. Front(out) = SubSeq(out, 1, Len(out) - 1) /\ Len(out) - 1 \in 0 .. Len(out)
        <3>1. Len(out) # 0
            BY <2>4, <1>2, EmptySeq
        <3> QED BY <3>1, <1>2 DEF Front
    <2>9. \A m \in 1 .. Len(out) - 1 : ~EndsAt(request.stops[i], out, m)
        BY <2>1, <1>7 DEF Cutting, NoneEnds
    <2>10. ~Occurs(request.stops[i], Front(out))
        <3>1. ~Occurs(request.stops[i], SubSeq(out, 1, Len(out) - 1))
            BY <2>8, <2>9, <1>2, <1>5, <1>7, OccursWithin
        <3> QED BY <3>1, <2>8
    <2> QED BY <2>2, <2>7, <2>10
<1> QED BY <1>1, <1>6, <1>7 DEF StopExcluded, EndTokens

\* StopExcluded: for every request the engine does not speculate on, or that has
\* neither stop sequences nor logprobs, no stop sequence is left in the answer.
THEOREM StopExcludedAlways ==
    ASSUME PlainRequests
    PROVE  GSpec => []StopExcluded
<1> DEFINE I == Types /\ Budget /\ Cutting /\ StopExcluded
<1>1. GInit => I
    BY TypesHold, CuttingInit
<1>2. I /\ [GNext]_gvars => I'
    <2> SUFFICES ASSUME Types, Budget, Cutting, StopExcluded, [GNext]_gvars PROVE I'
        OBVIOUS
    <2>1. Types' /\ Budget'
        BY TypesHold
    <2>2. CASE PlainStep
        <3>1. status' # "answered"
            BY <2>2, StepIs DEF Types
        <3> QED BY <3>1, <2>1, <2>2, CuttingStep DEF StopExcluded
    <2>3. CASE SpeculativeStep
        <3>1. status' # "answered"
            BY <2>3, SpeculationIs DEF Types
        <3> QED BY <3>1, <2>1, <2>3, CuttingSpeculates DEF StopExcluded
    <2>4. CASE Answer
        <3>1. Cutting'
            BY <2>4 DEF Answer, Cutting, NoneEnds
        <3> QED BY <3>1, <2>1, <2>4, CutIsClean
    <2>5. CASE UNCHANGED gvars
        <3>1. EndTokens' = EndTokens /\ UNCHANGED <<request, out, stop, status, logprobs, result>>
            BY <2>5 DEF gvars, EndTokens
        <3>2. Cutting' = Cutting
            BY <3>1 DEF Cutting, NoneEnds
        <3>3. StopExcluded'
            BY <3>1 DEF StopExcluded
        <3> QED BY <2>1, <3>2, <3>3
    <2> QED BY <2>2, <2>3, <2>4, <2>5 DEF GNext
<1>3. I => StopExcluded
    OBVIOUS
<1> QED BY <1>1, <1>2, <1>3, PTL DEF GSpec

-----------------------------------------------------------------------------
(* The JSON value. *)

\* The place after a backslash that is not escaped is, and no other.
LEMMA EscapedNext ==
    ASSUME NEW tokens, NEW i \in Nat \ {0}
    PROVE  Escaped(tokens, i + 1) <=> Char[tokens[i]] = "escape" /\ ~Escaped(tokens, i)
<1> DEFINE Esc(k) == Char[tokens[k]] = "escape"
           Before1(b, p) == (b > 0 => ~Esc(b)) /\ \A k \in b + 1 .. p - 1 : Esc(k)
<1>1. \A p \in Nat : Escaped(tokens, p) <=> \E b \in 0 .. p - 1 : Before1(b, p) /\ (p - b) % 2 = 0
    BY DEF Escaped
<1>2. ASSUME Escaped(tokens, i + 1) PROVE Esc(i) /\ ~Escaped(tokens, i)
    <2>0. i + 1 \in Nat
        OBVIOUS
    <2>1. PICK b \in 0 .. (i + 1) - 1 : Before1(b, i + 1) /\ ((i + 1) - b) % 2 = 0
        <3> HIDE DEF Before1
        <3> QED BY <1>1, <1>2, <2>0
    <2>2. b # i
        <3> SUFFICES ASSUME b = i PROVE FALSE
            OBVIOUS
        <3>1. (i + 1) - b = 1
            OBVIOUS
        <3> QED BY <3>1, <2>1
    <2>3. b \in 0 .. i - 1 /\ i \in b + 1 .. (i + 1) - 1
        BY <2>2
    <2>4. Esc(i)
        BY <2>1, <2>3
    <2>5. ASSUME NEW c \in 0 .. i - 1, Before1(c, i), (i - c) % 2 = 0 PROVE FALSE
        <3>1. ~(c < b)
            <4> SUFFICES ASSUME c < b PROVE FALSE
                OBVIOUS
            <4>1. b \in c + 1 .. i - 1 /\ b > 0
                BY <2>3
            <4> QED BY <4>1, <2>1, <2>5
        <3>2. ~(b < c)
            <4> SUFFICES ASSUME b < c PROVE FALSE
                OBVIOUS
            <4>1. c \in b + 1 .. (i + 1) - 1 /\ c > 0
                BY <2>3
            <4> QED BY <4>1, <2>1, <2>5
        <3>3. b = c
            BY <3>1, <3>2, <2>3
        <3> QED BY <3>3, <2>1, <2>5
    <2> QED BY <1>1, <2>4, <2>5
<1>3. ASSUME Esc(i), ~Escaped(tokens, i) PROVE Escaped(tokens, i + 1)
    <2> DEFINE T == {m \in 0 .. i - 1 : (i - 1) - m > 0 => ~Esc((i - 1) - m)}
    <2>1. i - 1 \in T /\ T \in SUBSET Nat
        OBVIOUS
    <2>2. PICK m \in T : \A k \in T : m <= k
        BY <2>1, Least
    <2> DEFINE b == (i - 1) - m
    <2>3. b \in 0 .. i - 1 /\ (b > 0 => ~Esc(b))
        BY <2>2
    <2>4. ASSUME NEW k \in b + 1 .. i - 1 PROVE Esc(k)
        <3> SUFFICES ASSUME ~Esc(k) PROVE FALSE
            OBVIOUS
        <3>1. PICK p \in 0 .. i - 1 : p = (i - 1) - k
            BY <2>2
        <3>2. (i - 1) - p = k /\ p < m
            BY <2>2, <3>1
        <3>3. p \in T
            BY <3>2
        <3> QED BY <3>2, <3>3, <2>2
    <2> HIDE DEF b
    <2>5. (i - b) % 2 # 0
        BY <1>1, <1>3, <2>3, <2>4
    <2>6. ((i + 1) - b) % 2 = 0
        <3>1. i - b \in Nat /\ (i + 1) - b = (i - b) + 1
            BY <2>3
        <3> QED BY <3>1, <2>5
    <2>7. b \in 0 .. (i + 1) - 1 /\ \A k \in b + 1 .. (i + 1) - 1 : Esc(k)
        <3> SUFFICES ASSUME NEW k \in b + 1 .. (i + 1) - 1 PROVE Esc(k)
            BY <2>3
        <3>1. k = i \/ k \in b + 1 .. i - 1
            BY <2>3
        <3> QED BY <3>1, <1>3, <2>4
    <2> QED BY <1>1, <2>3, <2>6, <2>7
<1> QED BY <1>2, <1>3

\* One more token: what it adds to the reading of the ones before it.
IsMark(tokens, i, ch) == Char[tokens[i]] = ch /\ ~Escaped(tokens, i)

LEMMA MarksNext ==
    ASSUME NEW tokens, NEW n \in Nat, NEW ch
    PROVE  /\ Marks(tokens, n + 1, ch) = IF IsMark(tokens, n + 1, ch)
                                         THEN Marks(tokens, n, ch) \cup {n + 1}
                                         ELSE Marks(tokens, n, ch)
           /\ Marks(tokens, n, ch) \subseteq 1 .. n /\ IsFiniteSet(Marks(tokens, n, ch))
           /\ Cardinality(Marks(tokens, n, ch)) \in Nat
           /\ Cardinality(Marks(tokens, n, ch) \cup {n + 1}) = Cardinality(Marks(tokens, n, ch)) + 1
<1>1. 1 .. n + 1 = (1 .. n) \cup {n + 1}
    OBVIOUS
<1>2. Marks(tokens, n + 1, ch) = IF IsMark(tokens, n + 1, ch)
                                 THEN Marks(tokens, n, ch) \cup {n + 1}
                                 ELSE Marks(tokens, n, ch)
    BY <1>1 DEF Marks, IsMark
<1>3. Marks(tokens, n, ch) \subseteq 1 .. n
    BY DEF Marks
<1>4. IsFiniteSet(Marks(tokens, n, ch))
    BY <1>3, FS_Interval, FS_Subset, 1 \in Int, n \in Int
<1>5. n + 1 \notin Marks(tokens, n, ch)
    BY <1>3
<1> QED BY <1>2, <1>3, <1>4, <1>5, FS_AddElement, FS_CardinalityType

LEMMA InStringNext ==
    ASSUME NEW tokens, NEW n \in Nat
    PROVE  InString(tokens, n + 1) <=> (InString(tokens, n) <=> ~IsMark(tokens, n + 1, "quote"))
<1>1. PICK c \in Nat : c = Cardinality(Marks(tokens, n, "quote"))
    BY MarksNext
<1>2. c % 2 = 1 <=> (c + 1) % 2 # 1
    OBVIOUS
<1>3. Cardinality(Marks(tokens, n + 1, "quote")) = IF IsMark(tokens, n + 1, "quote") THEN c + 1 ELSE c
    BY <1>1, MarksNext
<1> QED BY <1>1, <1>2, <1>3 DEF InString

\* The token at place n + 1 is a bracket of the value.
IsBracket(tokens, i, ch) == IsMark(tokens, i, ch) /\ ~InString(tokens, i)

LEMMA BracketsNext ==
    ASSUME NEW tokens, NEW n \in Nat, NEW ch
    PROVE  /\ Brackets(tokens, n + 1, ch) = IF IsBracket(tokens, n + 1, ch)
                                            THEN Brackets(tokens, n, ch) \cup {n + 1}
                                            ELSE Brackets(tokens, n, ch)
           /\ Brackets(tokens, n, ch) \subseteq 1 .. n
           /\ Cardinality(Brackets(tokens, n, ch)) \in Nat
           /\ Cardinality(Brackets(tokens, n + 1, ch)) =
                 IF IsBracket(tokens, n + 1, ch) THEN Cardinality(Brackets(tokens, n, ch)) + 1
                 ELSE Cardinality(Brackets(tokens, n, ch))
<1>1. Brackets(tokens, n + 1, ch) = IF IsBracket(tokens, n + 1, ch)
                                    THEN Brackets(tokens, n, ch) \cup {n + 1}
                                    ELSE Brackets(tokens, n, ch)
    <2> DEFINE M == Marks(tokens, n, ch)
               N == Marks(tokens, n + 1, ch)
    <2>1. N = IF IsMark(tokens, n + 1, ch) THEN M \cup {n + 1} ELSE M
        BY MarksNext
    <2>2. Brackets(tokens, n + 1, ch) = {i \in N : ~InString(tokens, i)}
          /\ Brackets(tokens, n, ch) = {i \in M : ~InString(tokens, i)}
        BY DEF Brackets
    <2> HIDE DEF M, N
    <2> QED BY <2>1, <2>2 DEF IsBracket
<1>2. Brackets(tokens, n, ch) \subseteq Marks(tokens, n, ch)
    BY DEF Brackets
<1>3. Brackets(tokens, n, ch) \subseteq 1 .. n /\ IsFiniteSet(Brackets(tokens, n, ch))
    BY <1>2, MarksNext, FS_Subset
<1>4. n + 1 \notin Brackets(tokens, n, ch)
    BY <1>3
<1> QED BY <1>1, <1>3, <1>4, FS_AddElement, FS_CardinalityType

LEMMA DepthNext ==
    ASSUME NEW tokens, NEW n \in Nat
    PROVE  /\ Depth(tokens, n) \in Int
           /\ Depth(tokens, n + 1) =
                 CASE IsBracket(tokens, n + 1, "open")  -> Depth(tokens, n) + 1
                   [] IsBracket(tokens, n + 1, "close") -> Depth(tokens, n) - 1
                   [] OTHER -> Depth(tokens, n)
<1>1. ~(IsBracket(tokens, n + 1, "open") /\ IsBracket(tokens, n + 1, "close"))
    BY DEF IsBracket, IsMark
<1>2. PICK a \in Nat : a = Cardinality(Brackets(tokens, n, "open"))
    BY BracketsNext
<1>3. PICK b \in Nat : b = Cardinality(Brackets(tokens, n, "close"))
    BY BracketsNext
<1>4. Depth(tokens, n) = a - b
    BY <1>2, <1>3 DEF Depth
<1>5. Depth(tokens, n + 1) = (IF IsBracket(tokens, n + 1, "open") THEN a + 1 ELSE a)
                             - (IF IsBracket(tokens, n + 1, "close") THEN b + 1 ELSE b)
    BY <1>2, <1>3, BracketsNext DEF Depth
<1> QED BY <1>1, <1>4, <1>5

LEMMA ValueClosedNext ==
    ASSUME NEW tokens, NEW n \in Nat
    PROVE  ValueClosed(tokens, n + 1) <=>
              \/ IsBracket(tokens, n + 1, "close") /\ Depth(tokens, n + 1) = 0
              \/ ~IsBracket(tokens, n + 1, "open") /\ ValueClosed(tokens, n)
<1> DEFINE O == Brackets(tokens, n, "open")
           C == Brackets(tokens, n, "close")
           o == IsBracket(tokens, n + 1, "open")
           c == IsBracket(tokens, n + 1, "close")
<1>1. ~(o /\ c)
    BY DEF IsBracket, IsMark
<1>2. O \subseteq 1 .. n /\ C \subseteq 1 .. n
    BY BracketsNext
<1>3. Brackets(tokens, n + 1, "open") = (IF o THEN O \cup {n + 1} ELSE O)
      /\ Brackets(tokens, n + 1, "close") = (IF c THEN C \cup {n + 1} ELSE C)
    BY BracketsNext
<1>4. /\ ValueClosed(tokens, n) <=> \E i \in C : Depth(tokens, i) = 0 /\ \A k \in O : k < i
      /\ ValueClosed(tokens, n + 1) <=>
            \E i \in Brackets(tokens, n + 1, "close") :
                Depth(tokens, i) = 0 /\ \A k \in Brackets(tokens, n + 1, "open") : k < i
    BY DEF ValueClosed
<1>5. n + 1 \notin O /\ \A i \in C : ~(n + 1 < i)
    BY <1>2
<1>6. \A k \in O : k < n + 1
    BY <1>2
<1> HIDE DEF O, C, o, c
<1>7. CASE o
    BY <1>1, <1>3, <1>4, <1>5, <1>7 DEF o, c
<1>8. CASE ~o /\ ~c
    BY <1>3, <1>4, <1>8 DEF o, c
<1>9. CASE ~o /\ c
    <2>1. ValueClosed(tokens, n + 1) <=>
            \E i \in C \cup {n + 1} : Depth(tokens, i) = 0 /\ \A k \in O : k < i
        BY <1>3, <1>4, <1>9
    <2> QED BY <2>1, <1>4, <1>6, <1>9 DEF o, c
<1> QED BY <1>7, <1>8, <1>9

\* The state j of the processor is the reading of the first n tokens.
Reads(j, tokens, n) ==
    /\ j \in [depth : Int, inString : BOOLEAN, escape : BOOLEAN, complete : BOOLEAN]
    /\ j.depth = Depth(tokens, n)
    /\ j.inString <=> InString(tokens, n)
    /\ j.escape <=> Escaped(tokens, n + 1)
    /\ j.complete <=> ValueClosed(tokens, n)

\* JsonNext reads one token more.
LEMMA ReadsNext ==
    ASSUME NEW tokens, NEW n \in Nat, NEW j, Reads(j, tokens, n)
    PROVE  Reads(JsonNext(j, Char[tokens[n + 1]]), tokens, n + 1)
<1> DEFINE ch == Char[tokens[n + 1]]
           k == JsonNext(j, ch)
<1>1. PICK d, s, e, c :
          /\ d \in Int /\ s \in BOOLEAN /\ e \in BOOLEAN /\ c \in BOOLEAN
          /\ j = [depth |-> d, inString |-> s, escape |-> e, complete |-> c]
    BY DEF Reads
<1> SUFFICES Reads(k, tokens, n + 1)
    OBVIOUS
<1>2. /\ d = Depth(tokens, n) /\ (s <=> InString(tokens, n))
      /\ (e <=> Escaped(tokens, n + 1)) /\ (c <=> ValueClosed(tokens, n))
    BY <1>1 DEF Reads
<1>3. Escaped(tokens, (n + 1) + 1) <=> ch = "escape" /\ ~e
    <2>1. n + 1 \in Nat \ {0}
        OBVIOUS
    <2> QED BY <2>1, <1>2, EscapedNext
<1>4. \A x : IsMark(tokens, n + 1, x) <=> ch = x /\ ~e
    BY <1>2 DEF IsMark
<1>5. InString(tokens, n + 1) <=> (s <=> ~(ch = "quote" /\ ~e))
    BY <1>2, <1>4, InStringNext
<1>6. \A x : IsBracket(tokens, n + 1, x) <=> ch = x /\ ~e /\ ~InString(tokens, n + 1)
    BY <1>4 DEF IsBracket
<1>7. Depth(tokens, n + 1) = CASE IsBracket(tokens, n + 1, "open")  -> d + 1
                               [] IsBracket(tokens, n + 1, "close") -> d - 1
                               [] OTHER -> d
    BY <1>2, DepthNext
<1>8. ValueClosed(tokens, n + 1) <=>
         \/ IsBracket(tokens, n + 1, "close") /\ Depth(tokens, n + 1) = 0
         \/ ~IsBracket(tokens, n + 1, "open") /\ c
    BY <1>2, ValueClosedNext
<1> DEFINE Becomes(d1, s1, e1, c1) ==
        k = [depth |-> d1, inString |-> s1, escape |-> e1, complete |-> c1]
<1> HIDE DEF ch, k
<1>9. CASE e
    <2>1. Becomes(d, s, FALSE, c)
        BY <1>1, <1>9 DEF JsonNext, k
    <2>2. ~IsBracket(tokens, n + 1, "open") /\ ~IsBracket(tokens, n + 1, "close")
        BY <1>6, <1>9
    <2> QED BY <1>1, <1>3, <1>5, <1>7, <1>8, <1>9, <2>1, <2>2 DEF Reads
<1>10. CASE ~e /\ ch = "escape"
    <2>1. Becomes(d, s, TRUE, c)
        BY <1>1, <1>10 DEF JsonNext, k
    <2>2. ~IsBracket(tokens, n + 1, "open") /\ ~IsBracket(tokens, n + 1, "close")
        BY <1>6, <1>10
    <2> QED BY <1>1, <1>3, <1>5, <1>7, <1>8, <1>10, <2>1, <2>2 DEF Reads
<1>11. CASE ~e /\ ch = "quote"
    <2>1. CASE s
        <3>1. Becomes(d, FALSE, e, c)
            BY <1>1, <1>11, <2>1 DEF JsonNext, k
        <3>2. ~IsBracket(tokens, n + 1, "open") /\ ~IsBracket(tokens, n + 1, "close")
            BY <1>6, <1>11
        <3> QED BY <1>1, <1>3, <1>5, <1>7, <1>8, <1>11, <2>1, <3>1, <3>2 DEF Reads
    <2>2. CASE ~s
        <3>1. Becomes(d, TRUE, e, c)
            BY <1>1, <1>11, <2>2 DEF JsonNext, k
        <3>2. ~IsBracket(tokens, n + 1, "open") /\ ~IsBracket(tokens, n + 1, "close")
            BY <1>6, <1>11
        <3> QED BY <1>1, <1>3, <1>5, <1>7, <1>8, <1>11, <2>2, <3>1, <3>2 DEF Reads
    <2> QED BY <2>1, <2>2, <1>1
<1>12. CASE ~e /\ s /\ ch \notin {"escape", "quote"}
    <2>1. Becomes(d, TRUE, e, c)
        BY <1>1, <1>12 DEF JsonNext, k
    <2>2. ~IsBracket(tokens, n + 1, "open") /\ ~IsBracket(tokens, n + 1, "close")
        BY <1>5, <1>6, <1>12
    <2> QED BY <1>1, <1>3, <1>5, <1>7, <1>8, <1>12, <2>1, <2>2 DEF Reads
<1>13. CASE ~e /\ ~s /\ ch = "open"
    <2>1. Becomes(d + 1, s, e, FALSE)
        BY <1>1, <1>13 DEF JsonNext, k
    <2>2. IsBracket(tokens, n + 1, "open") /\ ~IsBracket(tokens, n + 1, "close")
        BY <1>5, <1>6, <1>13
    <2>3. Depth(tokens, n + 1) = d + 1 /\ d + 1 \in Int
        BY <1>1, <1>7, <2>2
    <2> QED BY <1>1, <1>3, <1>5, <1>8, <1>13, <2>1, <2>2, <2>3 DEF Reads
<1>14. CASE ~e /\ ~s /\ ch = "close"
    <2>1. Becomes(d - 1, s, e, c \/ d = 1)
        BY <1>1, <1>14 DEF JsonNext, k
    <2>2. ~IsBracket(tokens, n + 1, "open") /\ IsBracket(tokens, n + 1, "close")
        BY <1>5, <1>6, <1>14
    <2>3. Depth(tokens, n + 1) = d - 1 /\ d - 1 \in Int /\ (d - 1 = 0 <=> d = 1)
        <3>1. ~(ch = "open")
            BY <1>14
        <3> QED BY <1>1, <1>7, <2>2
    <2>4. (c \/ d = 1) \in BOOLEAN /\ ((c \/ d = 1) <=> ValueClosed(tokens, n + 1))
        BY <1>8, <2>2, <2>3
    <2> QED BY <1>1, <1>3, <1>5, <1>14, <2>1, <2>3, <2>4 DEF Reads
<1>15. CASE ~e /\ ~s /\ ch \notin {"escape", "quote", "open", "close"}
    <2>1. Becomes(d, s, e, c)
        BY <1>1, <1>15 DEF JsonNext, k
    <2>2. ~IsBracket(tokens, n + 1, "open") /\ ~IsBracket(tokens, n + 1, "close")
        BY <1>6, <1>15
    <2> QED BY <1>1, <1>3, <1>5, <1>7, <1>8, <1>15, <2>1, <2>2 DEF Reads
<1> QED BY <1>1, <1>9, <1>10, <1>11, <1>12, <1>13, <1>14, <1>15

\* The reading of the first n tokens is about these only.
LEMMA ReadingIsOfPrefix ==
    ASSUME NEW tokens, NEW more, NEW n \in Nat, \A i \in 1 .. n : more[i] = tokens[i]
    PROVE  /\ ValueClosed(more, n) <=> ValueClosed(tokens, n)
           /\ \A j : Reads(j, tokens, n) => Reads(j, more, n)
<1>1. ASSUME NEW i \in 1 .. n + 1 PROVE Escaped(more, i) <=> Escaped(tokens, i)
    <2>1. \A b \in 0 .. i - 1 : b > 0 => more[b] = tokens[b]
        OBVIOUS
    <2>2. \A b \in 0 .. i - 1 : \A k \in b + 1 .. i - 1 : more[k] = tokens[k]
        OBVIOUS
    <2>3. ASSUME NEW b \in 0 .. i - 1
          PROVE  /\ b > 0 => Char[more[b]] # "escape"
                 /\ \A k \in b + 1 .. i - 1 : Char[more[k]] = "escape"
                 /\ (i - b) % 2 = 0
                 <=>
                 /\ b > 0 => Char[tokens[b]] # "escape"
                 /\ \A k \in b + 1 .. i - 1 : Char[tokens[k]] = "escape"
                 /\ (i - b) % 2 = 0
        BY <2>1, <2>2
    <2> QED BY <2>3, Zenon DEF Escaped
<1>2. ASSUME NEW m \in 0 .. n, NEW ch PROVE Marks(more, m, ch) = Marks(tokens, m, ch)
    <2>1. \A i \in 1 .. m : more[i] = tokens[i] /\ (Escaped(more, i) <=> Escaped(tokens, i))
        BY <1>1
    <2> QED BY <2>1 DEF Marks
<1>3. \A m \in 0 .. n : InString(more, m) <=> InString(tokens, m)
    BY <1>2 DEF InString
<1>4. ASSUME NEW m \in 0 .. n, NEW ch PROVE Brackets(more, m, ch) = Brackets(tokens, m, ch)
    <2>1. \A i \in Marks(tokens, m, ch) : i \in 0 .. n
        BY DEF Marks
    <2> QED BY <2>1, <1>2, <1>3 DEF Brackets
<1>5. \A m \in 0 .. n : Depth(more, m) = Depth(tokens, m)
    BY <1>4 DEF Depth
<1>6. ValueClosed(more, n) <=> ValueClosed(tokens, n)
    <2>1. n \in 0 .. n /\ \A i \in Brackets(tokens, n, "close") : i \in 0 .. n
        BY DEF Brackets, Marks
    <2> QED BY <2>1, <1>4, <1>5 DEF ValueClosed
<1>7. n \in 0 .. n /\ n + 1 \in 1 .. n + 1
    OBVIOUS
<1> QED BY <1>1, <1>3, <1>5, <1>6, <1>7 DEF Reads

\* The processor has read all tokens but the last one.
JsonRead ==
    request.json => Reads(json, out, IF out = <<>> THEN 0 ELSE Len(out) - 1)

\* The speculative decoder serves no JSON request: it does not apply the
\* processors.
PlainJson == \A c \in Case : c.request.speculation => ~c.request.json

LEMMA JsonInit == GInit => JsonRead /\ NothingAfterEnd
<1> SUFFICES ASSUME GInit PROVE JsonRead /\ NothingAfterEnd
    OBVIOUS
<1>1. out = <<>> /\ Len(out) = 0
      /\ json = [depth |-> 0, inString |-> FALSE, escape |-> FALSE, complete |-> FALSE]
    BY DEF GInit
<1>2. \A ch : Marks(out, 0, ch) = {} /\ Brackets(out, 0, ch) = {}
    BY DEF Marks, Brackets
<1>3. Cardinality({}) = 0
    BY FS_EmptySet
<1>4. Depth(out, 0) = 0 /\ ~InString(out, 0) /\ ~ValueClosed(out, 0)
    <2>1. Depth(out, 0) = 0 - 0
        BY <1>2, <1>3 DEF Depth
    <2>2. ~InString(out, 0)
        <3>1. 0 % 2 = 0
            OBVIOUS
        <3>2. Marks(out, 0, "quote") = {}
            BY <1>2
        <3> QED BY <3>1, <3>2, <1>3 DEF InString
    <2>3. ~ValueClosed(out, 0)
        BY <1>2 DEF ValueClosed
    <2> QED BY <2>1, <2>2, <2>3
<1>5. ~Escaped(out, 0 + 1)
    BY DEF Escaped
<1> QED BY <1>1, <1>4, <1>5 DEF JsonRead, Reads, NothingAfterEnd

LEMMA JsonStep ==
    ASSUME Types, JsonRead, NothingAfterEnd, PlainStep
    PROVE  JsonRead' /\ NothingAfterEnd'
<1>1. /\ ~IsFinished /\ json' = JsonAfter(out) /\ UNCHANGED <<request, model, result>>
    BY StepIs DEF Types
<1>2. PICK t \in All(StepRow(json')) : t \in Token /\ out' = Append(out, t)
    BY StepIs DEF Types
<1>3. PICK n \in Nat : n = Len(out)
    BY LenProperties DEF Types
<1>4. Len(out') = n + 1 /\ out'[n + 1] = t /\ \A i \in 1 .. n : out'[i] = out[i]
    BY <1>2, <1>3 DEF Types
<1>5. ASSUME request.json PROVE Reads(json', out, n)
    <2>1. CASE out = <<>>
        <3>1. n = 0 /\ json' = json
            BY <1>1, <1>3, <2>1, EmptySeq DEF JsonAfter
        <3> QED BY <3>1, <2>1, <1>5 DEF JsonRead
    <2>2. CASE out # <<>>
        <3>1. n # 0
            BY <1>3, <2>2, EmptySeq DEF Types
        <3>2. PICK m \in Nat : n = m + 1
            BY <3>1, n - 1 \in Nat, n = (n - 1) + 1
        <3>3. Reads(json, out, m)
            BY <1>3, <1>5, <2>2, <3>2 DEF JsonRead
        <3>4. json' = JsonNext(json, Char[out[m + 1]])
            BY <1>1, <1>3, <1>5, <2>2, <3>2 DEF JsonAfter, Last
        <3> QED BY <3>2, <3>3, <3>4, ReadsNext
    <2> QED BY <2>1, <2>2
<1>6. ASSUME request.json PROVE Reads(json', out', n)
    BY <1>4, <1>5, <1>6, ReadingIsOfPrefix
<1>7. out' # <<>> /\ (Len(out) - 1)' = n
    <2>1. Len(out') - 1 = n
        BY <1>4
    <2> QED BY <1>4, <2>1, EmptySeq
<1>8. JsonRead'
    BY <1>1, <1>6, <1>7 DEF JsonRead
<1>9. ASSUME NEW m \in 1 .. n, request.json, ValueClosed(out', m)
      PROVE  out'[m + 1] = JsonEos
    <2>1. CASE m = n
        <3>1. json'.complete
            BY <1>6, <1>9, <2>1 DEF Reads
        <3>2. All(StepRow(json')) = {JsonEos}
            BY <3>1, <1>9, StepRowTokens DEF Types
        <3> QED BY <3>2, <1>2, <1>4, <2>1
    <2>2. CASE m # n
        <3>1. m \in 1 .. Len(out) - 1 /\ m + 1 \in 1 .. n /\ m \in Nat
            BY <1>3, <2>2
        <3>2. \A i \in 1 .. m : out'[i] = out[i]
            BY <1>4
        <3>3. ValueClosed(out, m)
            BY <1>9, <3>1, <3>2, ReadingIsOfPrefix
        <3> QED BY <1>4, <1>9, <3>1, <3>3 DEF NothingAfterEnd
    <2> QED BY <2>1, <2>2
<1>10. ASSUME NEW m \in 1 .. n, ~request.speculation, request.stops = <<>>
       PROVE  out'[m] \notin EndTokens
    <2>1. CASE m = n
        <3>1. out # <<>> /\ Last(out) = out[m]
            BY <1>3, <2>1, EmptySeq DEF Last
        <3> QED BY <1>1, <1>4, <3>1 DEF IsFinished, EndTokens
    <2>2. CASE m # n
        <3>1. m \in 1 .. Len(out) - 1
            BY <1>3, <2>2
        <3> QED BY <1>4, <1>10, <3>1 DEF NothingAfterEnd
    <2> QED BY <2>1, <2>2
<1>11. NothingAfterEnd'
    BY <1>1, <1>7, <1>9, <1>10 DEF NothingAfterEnd, EndTokens
<1> QED BY <1>8, <1>11

\* Without stop sequences the processor of stop sequences ends nothing.
Unstopped == request.stops = <<>> => ~stop.triggered /\ status # "finished"

LEMMA UnstoppedStep ==
    ASSUME Types, Unstopped, PlainStep
    PROVE  Unstopped'
<1>1. /\ status = "running" /\ stop' = StopAfter(out) /\ request' = request
      /\ status' = IF stop'.triggered THEN "finished" ELSE status
    BY StepIs DEF Types
<1>2. request.stops = <<>> => stop' = stop
    BY <1>1 DEF StopAfter
<1> QED BY <1>1, <1>2 DEF Unstopped

\* A request that ends after its value was closed ends on the processor's token,
\* or on its budget.
LEMMA AnswerClosed ==
    ASSUME Types, NothingAfterEnd, Unstopped, Answer
    PROVE  ClosedGoesOn'
<1>1. IsFinished /\ UNCHANGED <<request, model, out>>
    BY DEF Answer
<1>2. SUFFICES ASSUME request.json, request.stops = <<>>, JsonEos \notin EndTokens,
                      Len(out) > 1, ValueClosed(out, Len(out) - 1)
               PROVE  Len(out) >= MaxNew
    <2>1. ValueClosed(out, Len(out) - 1)' = ValueClosed(out, Len(out) - 1)
          /\ EndTokens' = EndTokens
        BY <1>1 DEF EndTokens
    <2> QED BY <1>1, <2>1 DEF ClosedGoesOn
<1>3. PICK n \in Nat : n = Len(out)
    BY LenProperties DEF Types
<1>4. n - 1 \in 1 .. Len(out) - 1 /\ n - 1 + 1 = n
    BY <1>2, <1>3
<1>5. out[n] = JsonEos
    BY <1>2, <1>3, <1>4 DEF NothingAfterEnd
<1>6. Last(out) = JsonEos
    BY <1>3, <1>5 DEF Last
<1> QED BY <1>1, <1>2, <1>6 DEF IsFinished, Unstopped

\* JsonEnds: on an engine that speculates on no JSON request, a closed JSON value
\* is followed by the processor's own end token only, up to the budget where that
\* does not end the request, and nothing follows a token that does.
THEOREM JsonEndsAlways ==
    ASSUME PlainJson
    PROVE  GSpec => []JsonEnds
<1> DEFINE I == Types /\ Budget /\ JsonRead /\ NothingAfterEnd /\ Unstopped /\ ClosedGoesOn
<1>1. GInit => I
    <2>1. GInit => Unstopped /\ ClosedGoesOn
        BY DEF GInit, Unstopped, ClosedGoesOn
    <2> QED BY <2>1, TypesHold, JsonInit
<1>2. I /\ [GNext]_gvars => I'
    <2> SUFFICES ASSUME Types, Budget, JsonRead, NothingAfterEnd, Unstopped, ClosedGoesOn,
                        [GNext]_gvars
                 PROVE  I'
        OBVIOUS
    <2>1. Types' /\ Budget'
        BY TypesHold
    <2>2. CASE PlainStep
        <3>1. status' # "answered"
            BY <2>2, StepIs DEF Types
        <3> QED BY <2>1, <2>2, <3>1, JsonStep, UnstoppedStep DEF ClosedGoesOn
    <2>3. CASE SpeculativeStep
        <3>1. request.speculation /\ request' = request /\ stop' = stop /\ status' = status
            BY <2>3 DEF SpeculativeStep
        <3>2. ~request.json
            <4>1. [request |-> request, model |-> model] \in Case
                BY DEF Types
            <4> QED BY <3>1, <4>1 DEF PlainJson
        <3> QED BY <2>1, <3>1, <3>2 DEF JsonRead, NothingAfterEnd, Unstopped, ClosedGoesOn
    <2>4. CASE Answer
        <3>1. UNCHANGED <<request, out, json, stop>> /\ status' = "answered"
            BY <2>4 DEF Answer
        <3>2. NothingAfterEnd'
            BY <3>1 DEF NothingAfterEnd, EndTokens
        <3>3. ClosedGoesOn'
            BY <2>4, AnswerClosed
        <3>4. JsonRead' /\ Unstopped'
            BY <3>1 DEF JsonRead, Unstopped
        <3> QED BY <2>1, <3>2, <3>3, <3>4
    <2>5. CASE UNCHANGED gvars
        BY <2>1, <2>5 DEF gvars, JsonRead, NothingAfterEnd, Unstopped, ClosedGoesOn, EndTokens
    <2> QED BY <2>2, <2>3, <2>4, <2>5 DEF GNext
<1>3. I => JsonEnds
    BY DEF JsonEnds
<1> QED BY <1>1, <1>2, <1>3, PTL DEF GSpec

-----------------------------------------------------------------------------
(* Every way to draw a token. *)

\* The history a request's penalties read: none, whatever was generated, or all.
LEMMA HistoryIs ==
    ASSUME NEW p, NEW s \in Seq(Token), NEW u \in Seq(Token)
    PROVE  /\ HistoryFor(p, s) \in Seq(Token)
           /\ HistoryFor(p, s) = <<>> <=> HistoryFor(p, u) = <<>>
<1>1. Prompt \in Seq(Token) /\ Len(Prompt) > 1
    BY GenerationAssumption
<1>2. \A v \in Seq(Token) : Prompt \o v \in Seq(Token) /\ Prompt \o v # <<>>
    <2> SUFFICES ASSUME NEW v \in Seq(Token) PROVE Prompt \o v \in Seq(Token) /\ Prompt \o v # <<>>
        OBVIOUS
    <2>1. Prompt \o v \in Seq(Token) /\ Len(Prompt \o v) = Len(Prompt) + Len(v) /\ Len(v) \in Nat
        BY <1>1
    <2>2. Len(Prompt \o v) # 0
        BY <1>1, <2>1
    <2> QED BY <2>1, <2>2, EmptySeq
<1> QED BY <1>2 DEF HistoryFor

LEMMA SamplersAgreeNow == ASSUME Types PROVE SamplersAgree
<1> SUFFICES ASSUME status = "running", out = <<>> PROVE SamplersAgree
    BY DEF SamplersAgree
<1> DEFINE row == LogitsAfter(Prompt)
           p == request.params
           past == HistoryFor(p, <<>>)
           cut == All(Nucleus(row, p.topP))
<1>1. IsRow(row) /\ All(row) # {}
    BY LogitsAre, GenerationAssumption DEF Types
<1>2. IsParams(p)
    BY RequestIs DEF Types
<1>3. past \in Seq(Token)
    BY HistoryIs DEF Types
<1>4. p.topP \in 0 .. Tenths
    BY <1>2 DEF IsParams
<1> HIDE DEF row, p, past
<1> DEFINE l == Penalised(row, p, past)
           many == SampleBatch(row, p, past, Token)
<1>5. /\ many = SampleBatchWithLogprobs(row, p, past, Token).drawn
      /\ many \subseteq SampleBatchWithLogprobs(row, p, past, Token).logprobs
      /\ many # {}
      /\ p.greedy => many = Argmax(l)
      /\ ~p.greedy =>
           \A r \in Filtered(Scaled(l, p), p, Token) :
               /\ All(TopP(r, p.topP)) # {}
               /\ p.typicalP = Tenths \/ All(Cut(Scaled(l, p), p)) = Token =>
                    All(TopP(r, p.topP)) \cap Argmax(l) # {}
      /\ p.minP = 0 /\ p.typicalP = Tenths /\ p.bias = <<>> /\ p.frequency = 0 /\ p.presence = 0
           => SampleToken(row, p, past) = many
    BY <1>1, <1>2, <1>3, SamplersAreOne
<1>6. /\ \A t \in cut, u \in All(row) \ cut : row[u] <= row[t]
      /\ \/ cut = All(row)
         \/ Mass(row, cut) * Tenths > Mass(row, All(row)) * p.topP
      /\ \E t \in cut : Mass(row, cut \ {t}) * Tenths <= Mass(row, All(row)) * p.topP
    BY <1>1, <1>4, NucleusIs
<1> HIDE DEF l, many, cut
<1> QED BY <1>5, <1>6 DEF SamplersAgree, row, p, past, l, many, cut

\* The target of a request that is speculated on looks at the last token only:
\* the decoder shows it no more (MCLooksBack).
LastTokenTargets ==
    \A c \in Case : c.request.speculation =>
        \A w \in DOMAIN c.model : c.model[w] = c.model[<<Last(w)>>]

LEMMA OnlyTheLastToken ==
    ASSUME LastTokenTargets, [request |-> request, model |-> model] \in Case, request.speculation,
           NEW s \in Seq(Token), Len(s) > 0, NEW u \in Seq(Token), Len(u) > 0, Last(s) = Last(u)
    PROVE  LogitsAfter(s) = LogitsAfter(u)
<1>1. model \in [TupleOf(Token, 1) \cup TupleOf(Token, 2) -> [Token -> Int]]
    BY CaseAssumption
<1>2. \A w \in DOMAIN model : model[w] = model[<<Last(w)>>]
    BY DEF LastTokenTargets
<1>3. model[Window(s)] = model[<<Last(s)>>] /\ model[Window(u)] = model[<<Last(u)>>]
    BY <1>1, <1>2, WindowIs
<1> QED BY <1>3 DEF LogitsAfter, Window

\* The greedy draw of a plain step is the target's own where nothing else touches
\* the logits.
LEMMA PlainIsGreedy ==
    ASSUME Types, NEW j, request.params.greedy, ~request.json,
           HistoryFor(request.params, out) = <<>>, request.params.bias = <<>>, request.suppress = {}
    PROVE  Drawn(StepRow(j), out) = Argmax(LogitsAfter(Prompt \o out))
<1> DEFINE row == LogitsAfter(Prompt \o out)
           p == request.params
<1>1. row \in [Token -> Int] /\ IsRow(row)
    <2>1. Prompt \o out \in Seq(Token) /\ Len(Prompt \o out) > 0
        BY GenerationAssumption DEF Types
    <2> QED BY <2>1, LogitsAre DEF Types
<1>2. StepRow(j) = row
    <2>1. StepRow(j) = SuppressFirst(row, out)
        BY DEF StepRow, JsonMask
    <2> HIDE DEF row
    <2>2. SuppressFirst(row, out) = row
        BY <1>1 DEF SuppressFirst, Restrict, All
    <2> QED BY <2>1, <2>2 DEF row
<1>3. IsParams(p)
    BY RequestIs DEF Types
<1> HIDE DEF row
<1>4. Penalised(row, p, <<>>) = row
    <2>1. <<>> \in Seq(Token) /\ p.bias = <<>>
        OBVIOUS
    <2> HIDE DEF p
    <2> QED BY <1>1, <1>3, <2>1, PenaltiesKeepTokens
<1>5. Drawn(row, out) = Argmax(row)
    BY <1>4 DEF Drawn, SampleBatch, SampleBatchWithLogprobs
<1> QED BY <1>2, <1>5 DEF row

LEMMA SamePrefix ==
    ASSUME NEW s \in Seq(Token), NEW u \in Seq(Token), NEW n \in Nat, n <= Len(s), n <= Len(u),
           \A i \in 1 .. n : s[i] = u[i]
    PROVE  SubSeq(s, 1, n) = SubSeq(u, 1, n)
<1>1. SubSeq(s, 1, n) = [i \in 1 .. n |-> s[i]] /\ SubSeq(u, 1, n) = [i \in 1 .. n |-> u[i]]
    OBVIOUS
<1> QED BY <1>1

LEMMA GreedyInit == GInit => SpeculativeGreedy
BY GenerationAssumption DEF GInit, SpeculativeGreedy

LEMMA GreedyStep ==
    ASSUME Types, Budget', Types', SpeculativeGreedy, PlainStep
    PROVE  SpeculativeGreedy'
<1>1. UNCHANGED <<request, model>> /\ \E t \in Drawn(StepRow(json'), out) : out' = Append(out, t)
    BY StepIs DEF Types
<1>2. PICK n \in Nat : n = Len(out)
    BY LenProperties DEF Types
<1>3. /\ Len(out') = n + 1 /\ out \in Seq(Token) /\ out' \in Seq(Token)
      /\ \A i \in 1 .. n : out'[i] = out[i]
      /\ out'[n + 1] \in Drawn(StepRow(json'), out)
    <2>1. PICK t \in Drawn(StepRow(json'), out) : out' = Append(out, t)
        BY <1>1
    <2> QED BY <1>2, <2>1 DEF Types
<1>4. Len(out') <= MaxNew + K
    BY DEF Budget
<1>5. ASSUME request.speculation, request.params.greedy, ~request.json,
             HistoryFor(request.params, out') = <<>>,
             request.params.bias = <<>>, request.suppress = {},
             NEW m \in 1 .. n + 1
      PROVE  out'[m] \in Argmax(LogitsAfter(Prompt \o SubSeq(out', 1, m - 1)))
    <2>1. HistoryFor(request.params, out) = <<>>
        BY <1>3, <1>5, HistoryIs
    <2>2. SubSeq(out', 1, m - 1) = SubSeq(out, 1, m - 1)
        <3>1. m - 1 \in Nat /\ m - 1 <= Len(out') /\ m - 1 <= Len(out)
              /\ \A i \in 1 .. m - 1 : i \in 1 .. n
            BY <1>2, <1>3
        <3> QED BY <1>3, <3>1, SamePrefix
    <2>3. CASE m = n + 1
        <3>1. SubSeq(out, 1, m - 1) = out
            <4>1. m - 1 = Len(out) /\ out \in Seq(Token)
                BY <1>2, <1>3, <2>3
            <4>2. SubSeq(out, 1, Len(out)) = out
                BY <4>1, SubSeqFull
            <4> QED BY <4>1, <4>2
        <3>2. Drawn(StepRow(json'), out) = Argmax(LogitsAfter(Prompt \o out))
            BY <1>5, <2>1, PlainIsGreedy
        <3> QED BY <3>1, <3>2, <1>3, <2>2, <2>3
    <2>4. CASE m # n + 1
        <3>1. m \in 1 .. n /\ m \in DOMAIN out
            BY <1>2, <1>3, <2>4
        <3>2. out[m] \in Argmax(LogitsAfter(Prompt \o SubSeq(out, 1, m - 1)))
            BY <1>5, <2>1, <3>1 DEF SpeculativeGreedy
        <3> QED BY <1>3, <2>2, <3>1, <3>2
    <2> QED BY <2>3, <2>4
<1>6. \A s : Argmax(LogitsAfter(s))' = Argmax(LogitsAfter(s))
    BY <1>1 DEF LogitsAfter
<1>7. DOMAIN out' = 1 .. n + 1
    BY <1>3
<1> QED BY <1>1, <1>4, <1>5, <1>7 DEF SpeculativeGreedy, LogitsAfter, HistoryFor

LEMMA GreedySpeculates ==
    ASSUME LastTokenTargets, Types, Budget', Types', SpeculativeGreedy, SpeculativeStep
    PROVE  SpeculativeGreedy'
<1>1. /\ request.speculation /\ out # <<>> /\ UNCHANGED <<request, model>>
      /\ \E tokens \in Seq(Token) :
            /\ Len(tokens) \in 1 .. K + 1 /\ out' = out \o tokens
            /\ \A i \in 1 .. Len(tokens) :
                  \E s \in Seq(Token) :
                     /\ Len(s) > 0 /\ tokens[i] \in Argmax(LogitsAfter(s))
                     /\ Last(s) = IF i = 1 THEN Last(out) ELSE tokens[i - 1]
    BY SpeculationIs DEF Types
<1>2. PICK tokens \in Seq(Token) :
          /\ out' = out \o tokens
          /\ \A i \in 1 .. Len(tokens) :
                \E s \in Seq(Token) :
                   /\ Len(s) > 0 /\ tokens[i] \in Argmax(LogitsAfter(s))
                   /\ Last(s) = IF i = 1 THEN Last(out) ELSE tokens[i - 1]
    BY <1>1
<1>3. PICK n \in Nat : n = Len(out)
    BY LenProperties DEF Types
<1>4. PICK k \in Nat : k = Len(tokens)
    BY LenProperties
<1>5. /\ out \in Seq(Token) /\ out' \in Seq(Token) /\ n > 0
      /\ Len(out') = n + k /\ \A i \in 1 .. n : out'[i] = out[i]
      /\ \A i \in 1 .. k : out'[n + i] = tokens[i]
    <2>1. n # 0
        BY <1>1, <1>3, EmptySeq DEF Types
    <2> QED BY <1>2, <1>3, <1>4, <2>1 DEF Types
<1>6. Len(out') <= MaxNew + K
    BY DEF Budget
<1>7. [request |-> request, model |-> model] \in Case
    BY DEF Types
<1>8. ASSUME NEW m \in n + 1 .. n + k
      PROVE  out'[m] \in Argmax(LogitsAfter(Prompt \o SubSeq(out', 1, m - 1)))
    <2> DEFINE u == Prompt \o SubSeq(out', 1, m - 1)
    <2>1. PICK i \in 1 .. k : m = n + i
        <3>1. m - n \in 1 .. k /\ m = n + (m - n)
            OBVIOUS
        <3> QED BY <3>1
    <2>2. PICK s \in Seq(Token) :
              /\ Len(s) > 0 /\ tokens[i] \in Argmax(LogitsAfter(s))
              /\ Last(s) = IF i = 1 THEN Last(out) ELSE tokens[i - 1]
        BY <1>2, <1>4
    <2>3. u \in Seq(Token) /\ Len(u) > 0 /\ Last(u) = out'[m - 1]
        <3> DEFINE v == SubSeq(out', 1, m - 1)
        <3>1. m - 1 \in 1 .. Len(out') /\ m - 1 \in Nat
            BY <1>5
        <3>2. v \in Seq(Token) /\ Len(v) = m - 1 /\ v[m - 1] = out'[m - 1]
            BY <1>5, <3>1
        <3>3. Prompt \in Seq(Token) /\ Len(Prompt) \in Nat
            BY GenerationAssumption
        <3> HIDE DEF v
        <3>4. Prompt \o v \in Seq(Token) /\ Len(Prompt \o v) = Len(Prompt) + (m - 1)
              /\ (Prompt \o v)[Len(Prompt) + (m - 1)] = v[m - 1]
            BY <3>1, <3>2, <3>3
        <3> QED BY <3>1, <3>2, <3>3, <3>4 DEF Last, v
    <2>4. Last(s) = out'[m - 1]
        <3>1. CASE i = 1
            BY <1>3, <1>5, <2>1, <2>2, <3>1, m - 1 = n DEF Last
        <3>2. CASE i # 1
            <4>1. i - 1 \in 1 .. k /\ m - 1 = n + (i - 1)
                BY <2>1, <3>2
            <4> QED BY <4>1, <1>5, <2>2, <3>2
        <3> QED BY <3>1, <3>2
    <2> HIDE DEF u
    <2>5. LogitsAfter(s) = LogitsAfter(u)
        BY <1>1, <1>7, <2>2, <2>3, <2>4, OnlyTheLastToken
    <2> QED BY <1>5, <2>1, <2>2, <2>5 DEF u
<1>9. ASSUME request.params.greedy, ~request.json, HistoryFor(request.params, out') = <<>>,
             request.params.bias = <<>>, request.suppress = {},
             NEW m \in 1 .. n + k
      PROVE  out'[m] \in Argmax(LogitsAfter(Prompt \o SubSeq(out', 1, m - 1)))
    <2>1. CASE m \in n + 1 .. n + k
        BY <1>8, <2>1
    <2>2. CASE m \in 1 .. n
        <3>1. HistoryFor(request.params, out) = <<>>
            BY <1>5, <1>9, HistoryIs
        <3>2. out[m] \in Argmax(LogitsAfter(Prompt \o SubSeq(out, 1, m - 1)))
            <4>1. m \in DOMAIN out
                BY <1>3, <1>5, <2>2
            <4> QED BY <1>1, <1>9, <3>1, <4>1 DEF SpeculativeGreedy
        <3>3. SubSeq(out', 1, m - 1) = SubSeq(out, 1, m - 1)
            <4>1. m - 1 \in Nat /\ m - 1 <= Len(out') /\ m - 1 <= Len(out)
                  /\ \A i \in 1 .. m - 1 : i \in 1 .. n
                BY <1>3, <1>5, <2>2
            <4> QED BY <1>5, <4>1, SamePrefix
        <3> QED BY <1>5, <2>2, <3>2, <3>3
    <2> QED BY <2>1, <2>2
<1>10. DOMAIN out' = 1 .. n + k
    BY <1>5
<1> QED BY <1>1, <1>6, <1>9, <1>10 DEF SpeculativeGreedy, LogitsAfter, HistoryFor

\* DrawsAgree: the samplers draw from one set wherever they take the same
\* parameters, for every row and parameters; and greedy speculation on a target
\* that looks at the last token writes what the target alone would.
THEOREM DrawsAgreeAlways ==
    ASSUME LastTokenTargets
    PROVE  GSpec => []DrawsAgree
<1> DEFINE I == Types /\ Budget /\ SpeculativeGreedy
<1>1. GInit => I
    BY TypesHold, GreedyInit
<1>2. I /\ [GNext]_gvars => I'
    <2> SUFFICES ASSUME Types, Budget, SpeculativeGreedy, [GNext]_gvars PROVE I'
        OBVIOUS
    <2>1. Types' /\ Budget'
        BY TypesHold
    <2>2. CASE PlainStep
        BY <2>1, <2>2, GreedyStep
    <2>3. CASE SpeculativeStep
        BY <2>1, <2>3, GreedySpeculates
    <2>4. CASE Answer
        BY <2>1, <2>4 DEF Answer, SpeculativeGreedy, LogitsAfter, HistoryFor
    <2>5. CASE UNCHANGED gvars
        BY <2>1, <2>5 DEF gvars, SpeculativeGreedy, LogitsAfter, HistoryFor
    <2> QED BY <2>2, <2>3, <2>4, <2>5 DEF GNext
<1>3. I => DrawsAgree
    BY SamplersAgreeNow DEF DrawsAgree
<1> QED BY <1>1, <1>2, <1>3, PTL DEF GSpec

-----------------------------------------------------------------------------
(* A model from its checkpoint: whose routes it has. *)

\* A set of places that is not empty has a last one.
LEMMA LastPlace ==
    ASSUME NEW n \in Nat, NEW S \in SUBSET (1 .. n), S # {}
    PROVE  Max(S) \in S
<1> DEFINE T == {n - i : i \in S}
<1>1. T \in SUBSET Nat /\ T # {}
    <2>1. \A i \in S : n - i \in Nat
        OBVIOUS
    <2> QED BY <2>1
<1>2. PICK m \in T : \A k \in T : m <= k
    <2> HIDE DEF T
    <2> QED BY <1>1, Least
<1>3. PICK i \in S : m = n - i
    BY <1>2
<1>4. \A j \in S : i >= j
    <2> SUFFICES ASSUME NEW j \in S PROVE i >= j
        OBVIOUS
    <2>1. n - i <= n - j /\ i \in Int /\ j \in Int
        BY <1>2, <1>3
    <2> QED BY <2>1
<1>5. \E x \in S : \A y \in S : x >= y
    BY <1>4
<1> QED BY <1>5, Zenon DEF Max

\* The state dict has the names of the files that are read, all of one version.
LEMMA FileIs ==
    ASSUME NEW c \in Confs, FileOf(c) # Missing
    PROVE  /\ DOMAIN FileOf(c) = NamesRead(c)
           /\ \A n \in NamesRead(c) : FileOf(c)[n] = c.version
<1> DEFINE source == Resolved(c.source)
           files == source.files
           read == FilesRead(source)
           having(n) == {i \in DOMAIN files : files[i] \in read /\ n \in DOMAIN files[i].entries}
<1>1. /\ files \in Seq(ToSet(files))
      /\ \A f \in read : \A n \in DOMAIN f.entries : f.entries[n] = c.version
    BY ConfsAssumption
<1>2. read \subseteq ToSet(files)
    BY DEF FilesRead
<1>3. FileOf(c) = Merged(files, read)
    BY DEF FileOf, StateDict
<1>4. NamesRead(c) = UNION {DOMAIN f.entries : f \in read}
    BY DEF NamesRead
<1>5. DOMAIN files = 1 .. Len(files) /\ Len(files) \in Nat
    <2> HIDE DEF files
    <2> QED BY <1>1, LenProperties
<1> HIDE DEF files, read
<1>6. ASSUME NEW n \in NamesRead(c)
      PROVE  files[Max(having(n))].entries[n] = c.version
    <2>1. PICK f \in read : n \in DOMAIN f.entries
        BY <1>4
    <2>2. PICK i \in DOMAIN files : files[i] = f
        BY <1>2 DEF ToSet
    <2>3. having(n) \in SUBSET (1 .. Len(files)) /\ having(n) # {}
        BY <1>5, <2>1, <2>2
    <2>4. Max(having(n)) \in having(n)
        <3> HIDE DEF having
        <3> QED BY <1>5, <2>3, LastPlace
    <2> QED BY <1>1, <2>4
<1>7. FileOf(c) = [n \in NamesRead(c) |-> files[Max(having(n))].entries[n]]
    BY <1>3, <1>4, Zenon DEF Merged
<1> HIDE DEF having
<1> QED BY <1>6, <1>7

\* Converted, it has the model's own names.
LEMMA ConvertedIs ==
    ASSUME NEW c \in Confs, FileOf(c) # Missing
    PROVE  /\ \A n \in DOMAIN Converted(FileOf(c)) : Converted(FileOf(c))[n] = c.version
           /\ c.table = IF "topk" \in DOMAIN Converted(FileOf(c)) THEN "topk"
                        ELSE IF "primary" \in DOMAIN Converted(FileOf(c)) THEN "primary"
                        ELSE "none"
<1> DEFINE dict == FileOf(c)
           names == NamesRead(c)
           own == UNION {NativeNames(m) : m \in names}
<1>1. DOMAIN dict = names /\ \A n \in names : dict[n] = c.version
    BY FileIs
<1> HIDE DEF dict
<1>2. Converted(dict) = [n \in own |-> dict[CHOOSE m \in names : n \in NativeNames(m)]]
    BY <1>1 DEF Converted
<1>3. \A n \in own : (CHOOSE m \in names : n \in NativeNames(m)) \in names
    <2> SUFFICES ASSUME NEW n \in own PROVE (CHOOSE m \in names : n \in NativeNames(m)) \in names
        OBVIOUS
    <2>1. \E m \in names : n \in NativeNames(m)
        OBVIOUS
    <2> QED BY <2>1
<1>4. \A n \in own : Converted(dict)[n] = c.version
    BY <1>1, <1>2, <1>3
<1>5. DOMAIN Converted(dict) = own
    BY <1>2
<1>6. /\ \A m : "topk" \in NativeNames(m) <=> m \in {"topk", "route_table"}
      /\ \A m : "primary" \in NativeNames(m) <=> m \in {"primary", "route_table"}
    BY DEF NativeNames, EngineNames
<1>7. /\ "topk" \in own <=> names \cap {"topk", "route_table"} # {}
      /\ "primary" \in own <=> names \cap {"primary", "route_table"} # {}
    BY <1>6
<1>8. c.table = TableIn(names)
    BY ConfsAssumption
<1> HIDE DEF own, names
<1> QED BY <1>4, <1>5, <1>7, <1>8 DEF TableIn, dict

\* The first of the cyclic routes is the table itself.
LEMMA CyclicFirst ==
    ASSUME NEW c \in Confs
    PROVE  Cyclic(Routes[c.version][1])[1] = Routes[c.version][1]
<1> DEFINE p == Routes[c.version][1]
<1>1. /\ NumExperts \in Nat \ {0} /\ 1 \in 1 .. NumRoutes
      /\ p \in [0 .. (VocabSize - 1) -> 0 .. (NumExperts - 1)]
    BY RoutesAssumption, ConfsAssumption DEF Experts
<1> HIDE DEF p
<1>2. Cyclic(p)[1] = [t \in DOMAIN p |-> (p[t] + 1 - 1) % NumExperts]
    BY <1>1 DEF Cyclic
<1>3. \A t \in DOMAIN p : (p[t] + 1 - 1) % NumExperts = p[t]
    <2> SUFFICES ASSUME NEW t \in DOMAIN p PROVE (p[t] + 1 - 1) % NumExperts = p[t]
        OBVIOUS
    <2>1. p[t] \in 0 .. (NumExperts - 1)
        BY <1>1
    <2> DEFINE e == p[t]
    <2>2. e \in Nat /\ e < NumExperts /\ e + 1 - 1 = e
        BY <1>1, <2>1
    <2> HIDE DEF e
    <2>3. e % NumExperts = e
        BY <1>1, <2>2
    <2> QED BY <2>2, <2>3 DEF e
<1>4. p = [t \in DOMAIN p |-> p[t]]
    BY <1>1
<1>5. Cyclic(p)[1] = [t \in DOMAIN p |-> p[t]]
    BY <1>2, <1>3
<1> QED BY <1>4, <1>5 DEF p

\* What the state dict makes of the route tables, entry by entry.
Fresh == weights.topk = InitialRoutes /\ weights.primary = InitialRoutes[1]
Entries == DOMAIN Converted(FileOf(conf))
RoutesRead ==
    LET table == Routes[conf.version]
    IN IF topkRead THEN weights.topk = table /\ weights.primary = table[1]
       ELSE IF "primary" \in Entries \ DOMAIN todo
       THEN weights.topk = Cyclic(table[1]) /\ weights.primary = table[1]
       ELSE Fresh

\* The inductive invariant.
LoadingInv ==
    /\ conf \in Confs
    /\ DOMAIN weights = {"topk", "primary", "embed", "shared", "attn", "int4"}
    /\ phase \in {"closed", "failed", "reading", "packed", "loaded", "fused", "ready"}
    /\ phase = "closed" => Fresh /\ topkRead = FALSE
    /\ phase = "packed" => /\ FileOf(conf) # Missing /\ PreQuantised(conf)
                           /\ todo = FileOf(conf) /\ Fresh
    /\ phase = "reading" =>
          /\ FileOf(conf) # Missing /\ ~PreQuantised(conf)
          /\ DOMAIN todo \subseteq Entries /\ \A n \in DOMAIN todo : todo[n] = conf.version
          /\ topkRead \in BOOLEAN /\ (topkRead <=> "topk" \in Entries \ DOMAIN todo)
          /\ RoutesRead
    /\ RoutesVerbatim

LEMMA LoadingInit == ModelInit => LoadingInv
<1> SUFFICES ASSUME ModelInit PROVE LoadingInv
    OBVIOUS
<1>1. weights = [topk |-> InitialRoutes, primary |-> InitialRoutes[1], embed |-> 0,
                 shared |-> Shared(0), attn |-> Attention(0), int4 |-> None]
    BY DEF ModelInit
<1>2. Fresh /\ DOMAIN weights = {"topk", "primary", "embed", "shared", "attn", "int4"}
    BY <1>1 DEF Fresh
<1>3. conf \in Confs /\ phase = "closed" /\ topkRead = FALSE
    BY DEF ModelInit
<1> QED BY <1>2, <1>3 DEF LoadingInv, RoutesVerbatim, Loaded

\* A file is opened: nothing of it is read yet.
LEMMA LoadingOpen == ASSUME LoadingInv, Open PROVE LoadingInv'
<1>1. /\ conf \in Confs /\ conf' = conf /\ weights' = weights /\ topkRead' = topkRead
      /\ DOMAIN weights = {"topk", "primary", "embed", "shared", "attn", "int4"}
      /\ phase = "closed" /\ Fresh /\ topkRead = FALSE
    BY DEF LoadingInv, Open
<1>2. Fresh'
    BY <1>1 DEF Fresh
<1>3. CASE phase' = "failed"
    BY <1>1, <1>3 DEF LoadingInv, RoutesVerbatim, Loaded
<1>4. CASE phase' = "packed"
    <2>1. FileOf(conf) # Missing /\ PreQuantised(conf) /\ todo' = FileOf(conf)
        BY <1>4, Zenon DEF Open
    <2> QED BY <1>1, <1>2, <1>4, <2>1 DEF LoadingInv, RoutesVerbatim, Loaded
<1>5. CASE phase' = "reading"
    <2>1. FileOf(conf) # Missing /\ ~PreQuantised(conf) /\ todo' = Converted(FileOf(conf))
        BY <1>5 DEF Open
    <2>2. \A n \in DOMAIN Converted(FileOf(conf)) : Converted(FileOf(conf))[n] = conf.version
        BY <1>1, <2>1, ConvertedIs
    <2>3. Entries' = Entries /\ DOMAIN todo' = Entries
        BY <1>1, <2>1 DEF Entries
    <2>4. RoutesRead'
        BY <1>1, <1>2, <2>3 DEF RoutesRead
    <2>5. RoutesVerbatim'
        BY <1>5 DEF RoutesVerbatim, Loaded
    <2>6. "topk" \notin (Entries \ DOMAIN todo)' /\ topkRead' = FALSE
        BY <1>1, <2>3
    <2>7. topkRead' \in BOOLEAN /\ (topkRead' <=> "topk" \in (Entries \ DOMAIN todo)')
        BY <2>6
    <2>8. FileOf(conf)' # Missing /\ ~PreQuantised(conf)'
          /\ (\A n \in DOMAIN todo' : todo'[n] = conf'.version) /\ DOMAIN todo' \subseteq Entries'
        BY <1>1, <2>1, <2>2, <2>3 DEF Entries
    <2> QED BY <1>1, <1>5, <2>4, <2>5, <2>7, <2>8 DEF LoadingInv
<1> QED BY <1>3, <1>4, <1>5 DEF Open

\* Entries are read in any order.
LEMMA LoadingReads ==
    ASSUME LoadingInv, NEW n, Take(n),
           \/ ReadTopk /\ n = "topk"
           \/ ReadPrimary /\ n = "primary"
           \/ /\ n \notin {"topk", "primary"} /\ UNCHANGED topkRead
              /\ weights'.topk = weights.topk /\ weights'.primary = weights.primary
              /\ DOMAIN weights' = DOMAIN weights
    PROVE  LoadingInv'
<1> DEFINE table == Routes[conf.version]
<1>1. /\ conf \in Confs /\ conf' = conf /\ phase = "reading" /\ phase' = phase
      /\ FileOf(conf) # Missing /\ ~PreQuantised(conf)
      /\ DOMAIN weights = {"topk", "primary", "embed", "shared", "attn", "int4"}
      /\ DOMAIN todo \subseteq Entries /\ \A m \in DOMAIN todo : todo[m] = conf.version
      /\ topkRead \in BOOLEAN /\ (topkRead <=> "topk" \in Entries \ DOMAIN todo)
      /\ RoutesRead
    BY DEF LoadingInv, Take
<1>2. n \in DOMAIN todo /\ todo' = [m \in DOMAIN todo \ {n} |-> todo[m]]
    BY DEF Take
<1>3. Entries' = Entries
    BY <1>1 DEF Entries
<1>4. /\ DOMAIN todo' = DOMAIN todo \ {n} /\ DOMAIN todo' \subseteq Entries
      /\ \A m \in DOMAIN todo' : todo'[m] = conf.version
    BY <1>1, <1>2
<1>5. /\ DOMAIN weights' = DOMAIN weights
      /\ topkRead' \in BOOLEAN /\ (topkRead' <=> "topk" \in Entries \ DOMAIN todo')
      /\ RoutesRead'
    <2>1. CASE ReadTopk /\ n = "topk"
        <3>1. /\ weights' = [weights EXCEPT !.topk = table, !.primary = table[1]]
              /\ topkRead' = TRUE
            BY <1>1, <1>2, <2>1 DEF ReadTopk
        <3>2. /\ DOMAIN weights' = DOMAIN weights /\ weights'.topk = table
              /\ weights'.primary = table[1]
            BY <1>1, <3>1
        <3> QED BY <1>1, <1>2, <1>4, <2>1, <3>1, <3>2 DEF RoutesRead
    <2>2. CASE ReadPrimary /\ n = "primary"
        <3>1. /\ weights' = [weights EXCEPT !.primary = table[1],
                                !.topk = IF ~topkRead THEN Cyclic(table[1]) ELSE @]
              /\ topkRead' = topkRead
            BY <1>1, <1>2, <2>2 DEF ReadPrimary, Derives
        <3>2. /\ DOMAIN weights' = DOMAIN weights /\ weights'.primary = table[1]
              /\ weights'.topk = IF ~topkRead THEN Cyclic(table[1]) ELSE weights.topk
            BY <1>1, <3>1
        <3>3. "primary" \in Entries \ DOMAIN todo'
            BY <1>1, <1>2, <1>4, <2>2
        <3>4. RoutesRead'
            BY <1>1, <1>3, <3>1, <3>2, <3>3 DEF RoutesRead
        <3> QED BY <1>1, <1>4, <2>2, <3>1, <3>2, <3>4
    <2>3. CASE /\ n \notin {"topk", "primary"} /\ UNCHANGED topkRead
               /\ weights'.topk = weights.topk /\ weights'.primary = weights.primary
               /\ DOMAIN weights' = DOMAIN weights
        <3>1. "primary" \in Entries \ DOMAIN todo' <=> "primary" \in Entries \ DOMAIN todo
            BY <1>4, <2>3
        <3>2. RoutesRead'
            BY <1>1, <1>3, <2>3, <3>1 DEF RoutesRead, Fresh
        <3> QED BY <1>1, <1>4, <2>3, <3>2
    <2> QED BY <2>1, <2>2, <2>3
<1> QED BY <1>1, <1>3, <1>4, <1>5 DEF LoadingInv, RoutesVerbatim, Loaded

\* When all entries are read, the routes are the checkpoint's.
LEMMA LoadingAssembles == ASSUME LoadingInv, Assemble PROVE LoadingInv'
<1> DEFINE table == Routes[conf.version]
<1>1. /\ conf \in Confs /\ conf' = conf /\ phase = "reading" /\ DOMAIN todo = {}
      /\ weights' = weights /\ phase' \in {"failed", "loaded"}
      /\ FileOf(conf) # Missing
      /\ DOMAIN weights = {"topk", "primary", "embed", "shared", "attn", "int4"}
      /\ topkRead \in BOOLEAN /\ (topkRead <=> "topk" \in Entries \ DOMAIN todo)
      /\ RoutesRead
    BY DEF LoadingInv, Assemble
<1>2. conf.table = IF "topk" \in Entries THEN "topk"
                   ELSE IF "primary" \in Entries THEN "primary" ELSE "none"
    BY <1>1, ConvertedIs DEF Entries
<1>3. Cyclic(table[1])[1] = table[1]
    BY <1>1, CyclicFirst
<1>4. RoutesAsTrained
    <2>1. CASE "topk" \in Entries
        BY <1>1, <1>2, <2>1 DEF RoutesRead, RoutesAsTrained, TrainedRoutes
    <2>2. CASE "topk" \notin Entries /\ "primary" \in Entries
        BY <1>1, <1>2, <1>3, <2>2 DEF RoutesRead, RoutesAsTrained, TrainedRoutes
    <2>3. CASE "topk" \notin Entries /\ "primary" \notin Entries
        BY <1>1, <1>2, <2>3 DEF RoutesRead, RoutesAsTrained, TrainedRoutes, Fresh
    <2> QED BY <2>1, <2>2, <2>3
<1>5. RoutesAsTrained'
    BY <1>1, <1>4 DEF RoutesAsTrained, TrainedRoutes
<1> QED BY <1>1, <1>5 DEF LoadingInv, RoutesVerbatim

\* A packed checkpoint is copied.
LEMMA LoadingPacked == ASSUME LoadingInv, LoadPacked PROVE LoadingInv'
<1> DEFINE table == Routes[conf.version]
           names == DOMAIN todo
<1>1. /\ conf \in Confs /\ conf' = conf /\ phase = "packed"
      /\ FileOf(conf) # Missing /\ PreQuantised(conf) /\ todo = FileOf(conf) /\ Fresh
      /\ DOMAIN weights = {"topk", "primary", "embed", "shared", "attn", "int4"}
    BY DEF LoadingInv, LoadPacked
<1>2. names = NamesRead(conf) /\ \A n \in names : todo[n] = conf.version
    BY <1>1, FileIs
<1>3. conf.table = TableIn(names)
    BY <1>1, <1>2, ConfsAssumption
<1>4. CASE phase' = "failed" /\ UNCHANGED weights
    BY <1>1, <1>4 DEF LoadingInv, RoutesVerbatim, Loaded
<1>5. CASE phase' = "loaded"
    <2>1. /\ weights'.topk = IF "topk" \in names THEN Routes[todo["topk"]] ELSE weights.topk
          /\ weights'.primary = IF "primary" \in names THEN Routes[todo["primary"]][1]
                                ELSE weights.primary
          /\ DOMAIN weights' = {"topk", "primary", "embed", "shared", "attn", "int4"}
        BY <1>5 DEF LoadPacked
    <2>2. TablesWhole(conf)' => RoutesAsTrained'
        <3> SUFFICES ASSUME TablesWhole(conf) PROVE RoutesAsTrained'
            BY <1>1 DEF TablesWhole
        <3>1. conf.table = "none" \/ {"topk", "primary"} \subseteq names
            BY <1>1 DEF TablesWhole
        <3>2. CASE conf.table = "none"
            <4>1. "topk" \notin names /\ "primary" \notin names
                BY <1>3, <3>2 DEF TableIn
            <4> QED BY <1>1, <2>1, <3>2, <4>1 DEF RoutesAsTrained, TrainedRoutes, Fresh
        <3>3. CASE {"topk", "primary"} \subseteq names
            <4>1. conf.table = "topk" /\ weights'.topk = table /\ weights'.primary = table[1]
                BY <1>2, <1>3, <2>1, <3>3 DEF TableIn
            <4> QED BY <1>1, <4>1 DEF RoutesAsTrained, TrainedRoutes
        <3> QED BY <3>1, <3>2, <3>3
    <2> QED BY <1>1, <1>5, <2>1, <2>2 DEF LoadingInv, RoutesVerbatim
<1> QED BY <1>4, <1>5 DEF LoadPacked

\* From then on the routes stay.
LEMMA LoadingLater ==
    ASSUME LoadingInv, conf' = conf, phase \in {"loaded", "fused", "ready"},
           phase' \in {"loaded", "fused", "ready", "failed"},
           weights'.topk = weights.topk, weights'.primary = weights.primary,
           DOMAIN weights' = DOMAIN weights
    PROVE  LoadingInv'
<1>1. RoutesVerbatim'
    BY DEF LoadingInv, RoutesVerbatim, Loaded, RoutesAsTrained, TrainedRoutes, TablesWhole
<1> QED BY <1>1 DEF LoadingInv

LEMMA LoadingNext == LoadingInv /\ [ModelNext]_modelVars => LoadingInv'
<1> SUFFICES ASSUME LoadingInv, [ModelNext]_modelVars PROVE LoadingInv'
    OBVIOUS
<1>1. DOMAIN weights = {"topk", "primary", "embed", "shared", "attn", "int4"}
    BY DEF LoadingInv
<1>2. CASE Open
    BY <1>2, LoadingOpen
<1>3. CASE ReadTopk
    <2>1. Take("topk")
        BY <1>3 DEF ReadTopk
    <2> QED BY <1>3, <2>1, LoadingReads
<1>4. CASE ReadPrimary
    <2>1. Take("primary")
        BY <1>4 DEF ReadPrimary
    <2> QED BY <1>4, <2>1, LoadingReads
<1>5. ASSUME NEW n \in DOMAIN Untrained, ReadExpertPart(n) PROVE LoadingInv'
    <2>1. Take(n) /\ n \in {"gate", "up", "down"} /\ UNCHANGED <<topkRead, weights>>
        BY <1>5 DEF ReadExpertPart
    <2> QED BY <2>1, LoadingReads
<1>6. CASE ReadHead
    <2>1. /\ Take("lm_head") /\ UNCHANGED topkRead
          /\ weights' = [weights EXCEPT !.embed = todo["lm_head"]]
        BY <1>6 DEF ReadHead
    <2>2. /\ weights'.topk = weights.topk /\ weights'.primary = weights.primary
          /\ DOMAIN weights' = DOMAIN weights
        BY <1>1, <2>1
    <2> QED BY <2>1, <2>2, LoadingReads
<1>7. CASE ReadEmbedding
    <2>1. /\ Take("embed") /\ UNCHANGED topkRead
          /\ weights' = weights \/ weights' = [weights EXCEPT !.embed = todo["embed"]]
        BY <1>7 DEF ReadEmbedding
    <2>2. /\ weights'.topk = weights.topk /\ weights'.primary = weights.primary
          /\ DOMAIN weights' = DOMAIN weights
        BY <1>1, <2>1
    <2> QED BY <2>1, <2>2, LoadingReads
<1>8. CASE ReadParameter
    <2>1. CASE /\ Take("shared") /\ UNCHANGED topkRead
               /\ weights' = [weights EXCEPT !.shared = Shared(todo["shared"])]
        <3>1. /\ weights'.topk = weights.topk /\ weights'.primary = weights.primary
              /\ DOMAIN weights' = DOMAIN weights
            BY <1>1, <2>1
        <3> QED BY <2>1, <3>1, LoadingReads
    <2>2. CASE /\ Take("attn") /\ UNCHANGED topkRead
               /\ weights' = [weights EXCEPT !.attn = Attention(todo["attn"])]
        <3>1. /\ weights'.topk = weights.topk /\ weights'.primary = weights.primary
              /\ DOMAIN weights' = DOMAIN weights
            BY <1>1, <2>2
        <3> QED BY <2>2, <3>1, LoadingReads
    <2> QED BY <1>8, <2>1, <2>2 DEF ReadParameter
<1>9. CASE SkipEntry
    <2>1. PICK n \in {"inv_freq", "qweight"} : Take(n)
        BY <1>9 DEF SkipEntry
    <2>2. UNCHANGED <<topkRead, weights>>
        BY <1>9 DEF SkipEntry
    <2> QED BY <2>1, <2>2, LoadingReads
<1>10. CASE Assemble
    BY <1>10, LoadingAssembles
<1>11. CASE LoadPacked
    BY <1>11, LoadingPacked
<1>12. CASE Fuse
    <2>1. /\ phase = "loaded" /\ phase' = "fused" /\ conf' = conf
          /\ \/ weights' = [weights EXCEPT !.shared = FuseGateUp(@), !.attn = FuseQkv(@)]
             \/ weights' = weights
        BY <1>12 DEF Fuse
    <2>2. /\ weights'.topk = weights.topk /\ weights'.primary = weights.primary
          /\ DOMAIN weights' = DOMAIN weights
        BY <1>1, <2>1
    <2> QED BY <2>1, <2>2, LoadingLater
<1>13. CASE Quantise
    <2>1. /\ phase = "fused" /\ phase' \in {"failed", "ready"} /\ conf' = conf
          /\ weights' = [weights EXCEPT !.shared.packed = TRUE] \/ weights' = weights
        BY <1>13 DEF Quantise
    <2>2. /\ weights'.topk = weights.topk /\ weights'.primary = weights.primary
          /\ DOMAIN weights' = DOMAIN weights
        BY <1>1, <2>1
    <2> QED BY <2>1, <2>2, LoadingLater
<1>14. CASE Forward \/ RunKernel \/ QuantiseRow
    <2>1. /\ phase = "ready" /\ phase' \in {"failed", "ready"} /\ conf' = conf
          /\ weights' = weights
        BY <1>14 DEF Forward, RunKernel, QuantiseRow
    <2> QED BY <2>1, LoadingLater
<1>15. CASE UNCHANGED modelVars
    BY <1>15 DEF modelVars, LoadingInv, RoutesVerbatim, Loaded, RoutesAsTrained, TrainedRoutes,
                TablesWhole, RoutesRead, Entries, Fresh
<1> QED BY <1>2, <1>3, <1>4, <1>5, <1>6, <1>7, <1>8, <1>9, <1>10, <1>11, <1>12, <1>13, <1>14,
           <1>15 DEF ModelNext

\* In whatever order the entries of a state dict come, from whatever files and under
\* whatever names, a loaded model routes by the checkpoint's own table, and derives
\* routes only where it has none but the first (core/loader.py:368-470).
THEOREM RoutesAreVerbatim == ModelSpec => []RoutesVerbatim
<1>1. LoadingInv => RoutesVerbatim
    BY DEF LoadingInv
<1> QED BY <1>1, LoadingInit, LoadingNext, PTL DEF ModelSpec

-----------------------------------------------------------------------------
(* Loops, and sequences that are flattened. *)

\* Induction over the turns of a loop.
LEMMA LoopInduction ==
    ASSUME NEW n \in Nat, NEW S, 0 \in S, \A i \in 1 .. n : i - 1 \in S => i \in S
    PROVE  \A i \in 0 .. n : i \in S
<1> DEFINE T == {i \in Nat : i <= n /\ i \notin S}
<1>1. SUFFICES ASSUME T # {} PROVE FALSE
    OBVIOUS
<1>2. PICK m \in T : \A k \in T : m <= k
    <2> HIDE DEF T
    <2> QED BY <1>1, Least DEF T
<1>3. m # 0 /\ m \in 1 .. n /\ m - 1 \in Nat /\ ~(m <= m - 1) /\ m - 1 <= n
    BY <1>2
<1>4. m - 1 \in S
    BY <1>2, <1>3
<1> QED BY <1>2, <1>3, <1>4

\* A loop of n turns: turn i makes the value g[v, i] of X of a value v of X.
IsLoop(n, X, base, g) == n \in Nat /\ base \in X /\ g \in [X \X (1 .. n) -> X]

LoopTurns(n, X, base, g) ==
    {turns \in [0 .. n -> X] :
        turns[0] = base /\ \A i \in 1 .. n : turns[i] = g[<<turns[i - 1], i>>]}

LEMMA TurnsExist ==
    ASSUME NEW n, NEW X, NEW base, NEW g, IsLoop(n, X, base, g)
    PROVE  LoopTurns(n, X, base, g) # {}
<1> USE DEF IsLoop
<1> DEFINE Runs(m) == {turns \in [0 .. m -> X] :
                         turns[0] = base /\ \A i \in 1 .. m : turns[i] = g[<<turns[i - 1], i>>]}
           T == {m \in 0 .. n : Runs(m) # {}}
<1>1. 0 \in T
    <2> DEFINE a == [i \in 0 .. 0 |-> base]
    <2>1. a \in Runs(0)
        OBVIOUS
    <2> QED BY <2>1
<1>2. ASSUME NEW m \in 1 .. n, m - 1 \in T PROVE m \in T
    <2>1. PICK a \in Runs(m - 1) : TRUE
        BY <1>2
    <2> DEFINE b == [i \in 0 .. m |-> IF i < m THEN a[i] ELSE g[<<a[m - 1], m>>]]
    <2>2. /\ a \in [0 .. (m - 1) -> X] /\ a[0] = base
          /\ \A i \in 1 .. (m - 1) : a[i] = g[<<a[i - 1], i>>]
        BY <2>1
    <2>3. m - 1 \in 0 .. (m - 1) /\ a[m - 1] \in X /\ g[<<a[m - 1], m>>] \in X
        BY <2>2
    <2>4. b \in [0 .. m -> X] /\ b[0] = base /\ b[m] = g[<<a[m - 1], m>>] /\ b[m - 1] = a[m - 1]
        BY <2>2, <2>3
    <2>5. ASSUME NEW i \in 1 .. m PROVE b[i] = g[<<b[i - 1], i>>]
        <3>1. CASE i = m
            BY <3>1, <2>4
        <3>2. CASE i < m
            <4>1. i \in 1 .. (m - 1) /\ b[i] = a[i] /\ b[i - 1] = a[i - 1]
                BY <3>2
            <4> QED BY <4>1, <2>2
        <3> QED BY <3>1, <3>2
    <2>6. b \in Runs(m)
        <3> HIDE DEF b
        <3> QED BY <2>4, <2>5
    <2> HIDE DEF Runs, b
    <2> QED BY <2>6
<1> HIDE DEF T
<1>3. n \in T
    BY <1>1, <1>2, LoopInduction
<1> QED BY <1>3 DEF T, LoopTurns

LEMMA Elements ==
    ASSUME NEW S, NEW s \in Seq(S)
    PROVE  /\ DOMAIN s = 1 .. Len(s) /\ Len(s) \in Nat
           /\ \A i \in 1 .. Len(s) : s[i] \in S /\ s[i] \in ToSet(s)
           /\ ToSet(s) \subseteq S
           /\ \A x : x \in ToSet(s) <=> \E i \in 1 .. Len(s) : s[i] = x
<1>1. DOMAIN s = 1 .. Len(s) /\ Len(s) \in Nat /\ s \in [1 .. Len(s) -> S]
    BY LenProperties
<1> QED BY <1>1 DEF ToSet

\* A flattened sequence is built sequence by sequence.
FlattenLoops(S, seqs) ==
    {f \in [0 .. Len(seqs) -> Seq(S)] :
        /\ f[0] = <<>>
        /\ \A i \in 1 .. Len(seqs) : f[i] = f[i - 1] \o seqs[i]
        /\ FlattenSeq(seqs) = f[Len(seqs)]}

LEMMA FlattenTurns ==
    ASSUME NEW S, NEW seqs \in Seq(Seq(S))
    PROVE  FlattenLoops(S, seqs) # {}
<1> DEFINE n == Len(seqs)
           X == Seq(S)
           base == <<>>
           Op(v, i) == v \o seqs[i]
           g == [p \in X \X (1 .. n) |-> Op(p[1], p[2])]
           Is(f) == f = [i \in 1 .. n |-> IF i = 1 THEN seqs[i] ELSE f[i - 1] \o seqs[i]]
           F == CHOOSE f : Is(f)
<1>1. n \in Nat /\ \A i \in 1 .. n : seqs[i] \in X
    BY Elements
<1>2. FlattenSeq(seqs) = IF n = 0 THEN seqs ELSE F[n]
    BY DEF FlattenSeq
<1>3. \A v \in X, i \in 1 .. n : Op(v, i) \in X
    BY <1>1, ConcatProperties
<1>4. base \in X /\ \A i \in 1 .. n : Op(base, i) = seqs[i]
    BY <1>1, ConcatEmptySeq
<1>5. n = 0 => seqs = base
    BY EmptySeq
<1> HIDE DEF X, Op, base
<1>6. IsLoop(n, X, base, g) /\ \A v \in X, i \in 1 .. n : g[<<v, i>>] = Op(v, i)
    BY <1>1, <1>3, <1>4 DEF IsLoop
<1> HIDE DEF g, n
<1>7. PICK f \in [0 .. n -> X] : f[0] = base /\ \A i \in 1 .. n : f[i] = g[<<f[i - 1], i>>]
    <2>1. LoopTurns(n, X, base, g) # {}
        BY <1>6, TurnsExist
    <2> QED BY <2>1 DEF LoopTurns
<1>8. \A i \in 1 .. n : f[i] = Op(f[i - 1], i)
    <2>1. \A i \in 1 .. n : i - 1 \in 0 .. n
        BY <1>1
    <2> QED BY <1>6, <1>7, <2>1
<1> DEFINE h == [i \in 1 .. n |-> f[i]]
<1>9. Is(h)
    <2>1. \A i \in 1 .. n : h[i] = IF i = 1 THEN seqs[i] ELSE h[i - 1] \o seqs[i]
        <3> SUFFICES ASSUME NEW i \in 1 .. n
                     PROVE  h[i] = IF i = 1 THEN seqs[i] ELSE h[i - 1] \o seqs[i]
            OBVIOUS
        <3>1. CASE i = 1
            <4>1. f[i - 1] = base
                BY <1>7, <3>1
            <4> QED BY <1>4, <1>8, <3>1, <4>1
        <3>2. CASE i # 1
            <4>1. i - 1 \in 1 .. n /\ h[i - 1] = f[i - 1] /\ h[i] = f[i]
                BY <1>1, <3>2
            <4>2. f[i] = f[i - 1] \o seqs[i]
                BY <1>8, Zenon DEF Op
            <4> QED BY <3>2, <4>1, <4>2
        <3> QED BY <3>1, <3>2
    <2> QED BY <2>1, Zenon
<1>10. Is(F)
    <2> HIDE DEF Is
    <2> QED BY <1>9
<1> HIDE DEF F
<1>11. ASSUME n # 0 PROVE F[n] = f[n]
    <2> DEFINE T == {i \in 0 .. n : i = 0 \/ F[i] = f[i]}
    <2>1. 0 \in T
        BY <1>1
    <2>2. ASSUME NEW i \in 1 .. n, i - 1 \in T PROVE i \in T
        <3>1. F[i] = IF i = 1 THEN seqs[i] ELSE F[i - 1] \o seqs[i]
            BY <1>10, Zenon DEF Is
        <3>2. CASE i = 1
            <4>1. f[i - 1] = base
                BY <1>7, <3>2
            <4> QED BY <1>1, <1>4, <1>8, <3>1, <3>2, <4>1
        <3>3. CASE i # 1
            <4>1. i - 1 # 0 /\ F[i - 1] = f[i - 1]
                BY <2>2, <3>3
            <4>2. f[i] = f[i - 1] \o seqs[i]
                BY <1>8, Zenon DEF Op
            <4>3. F[i] = F[i - 1] \o seqs[i]
                BY <3>1, <3>3, Zenon
            <4>4. F[i] = f[i]
                BY <4>1, <4>2, <4>3, Zenon
            <4> QED BY <1>1, <4>4
        <3> QED BY <3>2, <3>3
    <2> HIDE DEF T
    <2>3. \A i \in 0 .. n : i \in T
        BY <1>1, <2>1, <2>2, LoopInduction
    <2>4. n \in T
        BY <1>1, <2>3
    <2> QED BY <1>11, <2>4 DEF T
<1>12. FlattenSeq(seqs) = f[n]
    BY <1>1, <1>2, <1>5, <1>7, <1>11
<1>13. f \in FlattenLoops(S, seqs)
    BY <1>7, <1>8, <1>12 DEF FlattenLoops, n, X, base, Op
<1> QED BY <1>13

\* Where the sequences that are flattened begin.
Begins(n, len, cu) ==
    cu \in [0 .. n -> Nat] /\ cu[0] = 0 /\ \A i \in 1 .. n : cu[i] = cu[i - 1] + len[i]

LEMMA BeginsGrow ==
    ASSUME NEW n \in Nat, NEW len \in [1 .. n -> Nat], NEW cu, Begins(n, len, cu)
    PROVE  \A i \in 0 .. n : \A j \in 0 .. i : cu[j] <= cu[i]
<1> DEFINE T == {i \in 0 .. n : \A j \in 0 .. i : cu[j] <= cu[i]}
<1>1. 0 \in T
    BY DEF Begins
<1>2. ASSUME NEW i \in 1 .. n, i - 1 \in T PROVE i \in T
    <2>1. cu[i] = cu[i - 1] + len[i] /\ cu[i - 1] \in Nat /\ len[i] \in Nat
        BY DEF Begins
    <2>2. \A j \in 0 .. (i - 1) : cu[j] <= cu[i - 1] /\ cu[j] \in Nat
        BY <1>2 DEF Begins
    <2>3. \A j \in 0 .. i : j \in 0 .. (i - 1) \/ j = i
        OBVIOUS
    <2> QED BY <2>1, <2>2, <2>3
<1> HIDE DEF T
<1>3. \A i \in 0 .. n : i \in T
    BY <1>1, <1>2, LoopInduction
<1> QED BY <1>3 DEF T

\* The places of a flattened sequence.
LEMMA FlattenPlaces ==
    ASSUME NEW S, NEW seqs \in Seq(Seq(S)), NEW cu,
           Begins(Len(seqs), [i \in 1 .. Len(seqs) |-> Len(seqs[i])], cu)
    PROVE  /\ FlattenSeq(seqs) \in Seq(S)
           /\ Len(FlattenSeq(seqs)) = cu[Len(seqs)]
           /\ \A i \in 1 .. Len(seqs) : \A t \in 1 .. Len(seqs[i]) :
                 FlattenSeq(seqs)[cu[i - 1] + t] = seqs[i][t]
<1> DEFINE n == Len(seqs)
           len == [i \in 1 .. n |-> Len(seqs[i])]
<1>1. n \in Nat /\ \A i \in 1 .. n : seqs[i] \in Seq(S) /\ Len(seqs[i]) \in Nat
    BY Elements
<1>2. len \in [1 .. n -> Nat] /\ \A i \in 1 .. n : len[i] = Len(seqs[i])
    BY <1>1
<1>3. PICK f \in [0 .. n -> Seq(S)] :
          f[0] = <<>> /\ (\A i \in 1 .. n : f[i] = f[i - 1] \o seqs[i]) /\ FlattenSeq(seqs) = f[n]
    BY FlattenTurns DEF FlattenLoops
<1> HIDE DEF len, n
<1>4. Begins(n, len, cu)
    BY DEF n, len
<1>5. \A i \in 1 .. n : cu[i] = cu[i - 1] + len[i] /\ cu[i - 1] \in Nat /\ cu[i] \in Nat
    BY <1>1, <1>4 DEF Begins
<1> DEFINE T == {i \in 0 .. n : /\ Len(f[i]) = cu[i]
                               /\ \A j \in 1 .. i : \A t \in 1 .. len[j] :
                                     f[i][cu[j - 1] + t] = seqs[j][t]}
<1>6. 0 \in T
    BY <1>1, <1>3, <1>4 DEF Begins
<1>7. ASSUME NEW i \in 1 .. n, i - 1 \in T PROVE i \in T
    <2>1. /\ f[i - 1] \in Seq(S) /\ seqs[i] \in Seq(S) /\ f[i] = f[i - 1] \o seqs[i]
          /\ Len(f[i - 1]) = cu[i - 1] /\ Len(seqs[i]) = len[i] /\ len[i] \in Nat
        BY <1>1, <1>2, <1>3, <1>7
    <2>2. /\ Len(f[i]) = cu[i]
          /\ \A k \in 1 .. cu[i] : f[i][k] = IF k <= cu[i - 1] THEN f[i - 1][k]
                                             ELSE seqs[i][k - cu[i - 1]]
        <3> DEFINE a == f[i - 1]
                   b == seqs[i]
        <3>1. /\ a \o b \in Seq(S) /\ Len(a \o b) = Len(a) + Len(b)
              /\ \A k \in 1 .. Len(a) + Len(b) :
                    (a \o b)[k] = IF k <= Len(a) THEN a[k] ELSE b[k - Len(a)]
            BY <2>1, ConcatProperties
        <3>2. f[i] = a \o b /\ Len(a) = cu[i - 1] /\ Len(a) + Len(b) = cu[i]
            BY <1>5, <2>1
        <3> HIDE DEF a, b
        <3>3. /\ Len(f[i]) = cu[i]
              /\ \A k \in 1 .. cu[i] : f[i][k] = IF k <= cu[i - 1] THEN a[k] ELSE b[k - cu[i - 1]]
            BY <3>1, <3>2
        <3> QED BY <3>3 DEF a, b
    <2>3. ASSUME NEW j \in 1 .. i, NEW t \in 1 .. len[j] PROVE f[i][cu[j - 1] + t] = seqs[j][t]
        <3>1. j \in 1 .. n /\ len[j] \in Nat /\ cu[j] = cu[j - 1] + len[j] /\ cu[j - 1] \in Nat
            BY <1>1, <1>2, <1>5
        <3>2. CASE j = i
            <4>1. cu[i - 1] + t \in 1 .. cu[i] /\ ~(cu[i - 1] + t <= cu[i - 1])
                  /\ (cu[i - 1] + t) - cu[i - 1] = t
                BY <1>5, <3>1, <3>2
            <4> QED BY <2>2, <3>2, <4>1
        <3>3. CASE j # i
            <4>1. j \in 1 .. (i - 1) /\ j \in 0 .. (i - 1) /\ i - 1 \in 0 .. n /\ i \in 0 .. n
                BY <1>1, <3>3
            <4>2. cu[j] <= cu[i - 1] /\ cu[i - 1] <= cu[i]
                BY <1>1, <1>2, <1>4, <4>1, BeginsGrow, i - 1 \in 0 .. i
            <4>3. f[i - 1][cu[j - 1] + t] = seqs[j][t]
                BY <1>7, <4>1
            <4>4. cu[j - 1] + t \in 1 .. cu[i] /\ cu[j - 1] + t <= cu[i - 1]
                <5>1. cu[i] \in Nat /\ cu[i - 1] \in Nat /\ cu[j - 1] + t <= cu[j] /\ cu[j] \in Nat
                    BY <1>5, <3>1
                <5>2. cu[j - 1] + t \in Nat \ {0}
                    BY <3>1
                <5> QED BY <4>2, <5>1, <5>2
            <4> QED BY <2>2, <4>3, <4>4
        <3> QED BY <3>2, <3>3
    <2>4. i \in 0 .. n
        BY <1>1
    <2> QED BY <2>2, <2>3, <2>4
<1> HIDE DEF T
<1>8. n \in T /\ n \in 0 .. n
    <2>1. n \in 0 .. n
        BY <1>1
    <2> QED BY <1>1, <1>6, <1>7, <2>1, LoopInduction
<1>9. /\ Len(f[n]) = cu[n] /\ f[n] \in Seq(S)
      /\ \A j \in 1 .. n : \A t \in 1 .. len[j] : f[n][cu[j - 1] + t] = seqs[j][t]
    BY <1>3, <1>8 DEF T
<1> QED BY <1>2, <1>3, <1>9 DEF n

\* Any place of a flattened sequence is in one of its sequences.
LEMMA FlattenCovers ==
    ASSUME NEW n \in Nat, NEW len \in [1 .. n -> Nat], NEW cu, Begins(n, len, cu),
           NEW k \in 1 .. cu[n]
    PROVE  \E i \in 1 .. n : \E t \in 1 .. len[i] : k = cu[i - 1] + t
<1> DEFINE T == {i \in Nat : i <= n /\ k <= cu[i]}
<1>1. n \in T /\ T \in SUBSET Nat /\ cu[n] \in Nat
    BY DEF Begins
<1>2. PICK i \in T : \A j \in T : i <= j
    <2> HIDE DEF T
    <2> QED BY <1>1, Least
<1>3. i # 0 /\ i \in 1 .. n
    BY <1>1, <1>2 DEF Begins
<1>4. i - 1 \in Nat /\ i - 1 <= n /\ ~(i <= i - 1)
    BY <1>3
<1>5. ~(k <= cu[i - 1])
    BY <1>2, <1>4
<1>6. cu[i] = cu[i - 1] + len[i] /\ cu[i - 1] \in Nat /\ len[i] \in Nat
    BY <1>3 DEF Begins
<1>7. k - cu[i - 1] \in 1 .. len[i] /\ k = cu[i - 1] + (k - cu[i - 1])
    BY <1>1, <1>2, <1>5, <1>6
<1> QED BY <1>3, <1>7

\* The running sums of compute_cu_seqlens.
LEMMA CuSeqlensIs ==
    ASSUME NEW lens \in Seq(Nat)
    PROVE  Begins(Len(lens), lens, CuSeqlens(lens))
<1> DEFINE n == Len(lens)
           Op(v, i) == v + lens[i]
           g == [p \in Nat \X (1 .. n) |-> Op(p[1], p[2])]
           Is(f) == f = [s \in 0 .. n |-> IF s = 0 THEN 0 ELSE f[s - 1] + lens[s]]
           F == CHOOSE f : Is(f)
<1>1. n \in Nat /\ \A i \in 1 .. n : lens[i] \in Nat
    BY Elements
<1>2. CuSeqlens(lens) = F
    BY DEF CuSeqlens
<1>3. IsLoop(n, Nat, 0, g) /\ \A v \in Nat, i \in 1 .. n : g[<<v, i>>] = v + lens[i]
    BY <1>1 DEF IsLoop
<1> HIDE DEF g
<1>4. PICK f \in [0 .. n -> Nat] : f[0] = 0 /\ \A i \in 1 .. n : f[i] = g[<<f[i - 1], i>>]
    <2>1. LoopTurns(n, Nat, 0, g) # {}
        BY <1>3, TurnsExist
    <2> QED BY <2>1 DEF LoopTurns
<1>5. \A i \in 1 .. n : f[i] = f[i - 1] + lens[i]
    <2>1. \A i \in 1 .. n : i - 1 \in 0 .. n
        BY <1>1
    <2> QED BY <1>3, <1>4, <2>1
<1>6. Is(f)
    <2>1. \A s \in 0 .. n : f[s] = IF s = 0 THEN 0 ELSE f[s - 1] + lens[s]
        BY <1>1, <1>4, <1>5
    <2> QED BY <2>1
<1>7. Is(F)
    <2> HIDE DEF Is
    <2> QED BY <1>6
<1> HIDE DEF F
<1>8. F[0] = 0 /\ DOMAIN F = 0 .. n /\ \A i \in 1 .. n : F[i] = F[i - 1] + lens[i]
    <2>1. F = [s \in 0 .. n |-> IF s = 0 THEN 0 ELSE F[s - 1] + lens[s]]
        BY <1>7, Zenon DEF Is
    <2>2. \A i \in 1 .. n : i \in 0 .. n /\ i # 0
        BY <1>1
    <2>3. 0 \in 0 .. n
        BY <1>1
    <2> QED BY <2>1, <2>2, <2>3
<1> DEFINE T == {i \in 0 .. n : F[i] = f[i]}
<1>9. 0 \in T
    BY <1>1, <1>4, <1>8
<1>10. ASSUME NEW i \in 1 .. n, i - 1 \in T PROVE i \in T
    BY <1>1, <1>5, <1>8, <1>10
<1> HIDE DEF T
<1>11. \A i \in 0 .. n : i \in T
    BY <1>1, <1>9, <1>10, LoopInduction
<1>12. \A i \in 0 .. n : F[i] = f[i]
    BY <1>11 DEF T
<1>13. F = [s \in 0 .. n |-> IF s = 0 THEN 0 ELSE F[s - 1] + lens[s]]
    BY <1>7, Zenon DEF Is
<1>14. F \in [0 .. n -> Nat]
    <2>1. \A s \in 0 .. n : (IF s = 0 THEN 0 ELSE F[s - 1] + lens[s]) = f[s]
        BY <1>4, <1>12, <1>13
    <2>2. \A s \in 0 .. n : (IF s = 0 THEN 0 ELSE F[s - 1] + lens[s]) \in Nat
        BY <1>4, <2>1
    <2> QED BY <1>13, <2>2
<1> QED BY <1>2, <1>8, <1>14 DEF Begins, n

-----------------------------------------------------------------------------
(* What a query attends to. *)

Key == Nat \X Nat
Attention0 == {Attends(keys) : keys \in SUBSET Key}

\* The keys of sequence s at the first positions.
Past(s, upto) == {<<s, p>> : p \in 0 .. upto}

LEMMA PastKeys == ASSUME NEW s \in Nat, NEW upto \in Int
                  PROVE  Past(s, upto) \in SUBSET Key /\ Attends(Past(s, upto)) \in Attention0
<1>1. Past(s, upto) \in SUBSET Key
    BY DEF Past, Key
<1> QED BY <1>1 DEF Attention0

LEMMA BatchIs ==
    ASSUME NEW batch \in Batches
    PROVE  /\ batch.lens \in Seq(Nat) /\ batch.past \in Nat
           /\ Len(batch.lens) \in Nat /\ DOMAIN batch.lens = 1 .. Len(batch.lens)
           /\ \A s \in DOMAIN batch.lens :
                 /\ batch.lens[s] \in Nat \ {0}
                 /\ batch.past + batch.lens[s] <= MaxBlocks * BlockSize
<1> DEFINE lens == batch.lens
<1>1. lens \in Seq(Nat \ {0}) /\ batch.past \in Nat
      /\ \A s \in DOMAIN lens : batch.past + lens[s] <= MaxBlocks * BlockSize
    BY BatchesAssumption
<1> HIDE DEF lens
<1>2. DOMAIN lens = 1 .. Len(lens) /\ Len(lens) \in Nat /\ \A i \in 1 .. Len(lens) : lens[i] \in Nat \ {0}
    BY <1>1, Elements
<1>3. lens \in Seq(Nat)
    BY <1>1
<1> QED BY <1>1, <1>2, <1>3 DEF lens

\* What the sequences of a batch should attend to.
LEMMA OwnPastIs ==
    ASSUME NEW batch \in Batches
    PROVE  /\ [s \in DOMAIN batch.lens |-> OwnPast(batch, s)] \in Seq(Seq(Attention0))
           /\ \A s \in DOMAIN batch.lens :
                 /\ OwnPast(batch, s) \in Seq(Attention0) /\ Len(OwnPast(batch, s)) = batch.lens[s]
                 /\ \A t \in 1 .. batch.lens[s] :
                       OwnPast(batch, s)[t] = Attends(Past(s, batch.past + t - 1))
<1> DEFINE n == Len(batch.lens)
<1>1. DOMAIN batch.lens = 1 .. n /\ n \in Nat /\ batch.past \in Nat
      /\ \A s \in 1 .. n : batch.lens[s] \in Nat
    BY BatchIs
<1> HIDE DEF n
<1>2. ASSUME NEW s \in 1 .. n
      PROVE  /\ OwnPast(batch, s) \in Seq(Attention0) /\ Len(OwnPast(batch, s)) = batch.lens[s]
             /\ \A t \in 1 .. batch.lens[s] :
                   OwnPast(batch, s)[t] = Attends(Past(s, batch.past + t - 1))
    <2> DEFINE a == [t \in 1 .. batch.lens[s] |-> Attends(Past(s, batch.past + t - 1))]
               l == batch.lens[s]
    <2>1. OwnPast(batch, s) = a
        BY DEF OwnPast, Past
    <2>2. \A t \in 1 .. l : Attends(Past(s, batch.past + t - 1)) \in Attention0
        BY <1>1, PastKeys
    <2>3. l \in Nat
        BY <1>1
    <2>4. a \in [1 .. l -> Attention0]
        BY <2>2
    <2>5. a \in Seq(Attention0) /\ Len(a) = l
        <3> HIDE DEF a, l
        <3> QED BY <2>3, <2>4
    <2> QED BY <2>1, <2>5
<1>3. [s \in 1 .. n |-> OwnPast(batch, s)] \in Seq(Seq(Attention0))
    BY <1>1, <1>2
<1> QED BY <1>1, <1>2, <1>3

\* The keys of the new tokens of a sequence.
LEMMA NewKeysAre ==
    ASSUME NEW batch \in Batches
    PROVE  /\ [s \in DOMAIN batch.lens |-> NewKeys(batch, s)] \in Seq(Seq(Key))
           /\ \A s \in DOMAIN batch.lens :
                 /\ NewKeys(batch, s) \in Seq(Key) /\ Len(NewKeys(batch, s)) = batch.lens[s]
                 /\ \A t \in 1 .. batch.lens[s] : NewKeys(batch, s)[t] = <<s, batch.past + t - 1>>
<1> DEFINE n == Len(batch.lens)
<1>1. DOMAIN batch.lens = 1 .. n /\ n \in Nat /\ batch.past \in Nat
      /\ \A s \in 1 .. n : batch.lens[s] \in Nat
    BY BatchIs
<1> HIDE DEF n
<1>2. ASSUME NEW s \in 1 .. n
      PROVE  /\ NewKeys(batch, s) \in Seq(Key) /\ Len(NewKeys(batch, s)) = batch.lens[s]
             /\ \A t \in 1 .. batch.lens[s] : NewKeys(batch, s)[t] = <<s, batch.past + t - 1>>
    <2> DEFINE l == batch.lens[s]
               a == [t \in 1 .. l |-> <<s, batch.past + t - 1>>]
    <2>1. NewKeys(batch, s) = a
        BY DEF NewKeys
    <2>2. \A t \in 1 .. l : <<s, batch.past + t - 1>> \in Key
        BY <1>1 DEF Key
    <2>3. l \in Nat
        BY <1>1
    <2>4. a \in [1 .. l -> Key]
        BY <2>2
    <2>5. a \in Seq(Key) /\ Len(a) = l
        <3> HIDE DEF a, l
        <3> QED BY <2>3, <2>4
    <2> QED BY <2>1, <2>5
<1>3. [s \in 1 .. n |-> NewKeys(batch, s)] \in Seq(Seq(Key))
    BY <1>1, <1>2
<1> QED BY <1>1, <1>2, <1>3

\* The rows of a sequence in a flat batch are its own.
LEMMA SegmentIs ==
    ASSUME NEW batch \in Batches
    PROVE  LET rows == FlattenSeq([s \in DOMAIN batch.lens |-> NewKeys(batch, s)])
               cu == CuSeqlens(batch.lens)
           IN /\ Begins(Len(batch.lens), batch.lens, cu)
              /\ rows \in Seq(Key) /\ Len(rows) = cu[Len(batch.lens)]
              /\ \A s \in DOMAIN batch.lens :
                    SubSeq(rows, cu[s - 1] + 1, cu[s]) = NewKeys(batch, s)
<1> DEFINE lens == batch.lens
           n == Len(lens)
           seqs == [s \in DOMAIN lens |-> NewKeys(batch, s)]
           rows == FlattenSeq(seqs)
           cu == CuSeqlens(lens)
<1>1. /\ lens \in Seq(Nat) /\ n \in Nat /\ DOMAIN lens = 1 .. n
      /\ \A s \in 1 .. n : lens[s] \in Nat
    BY BatchIs
<1>2. /\ seqs \in Seq(Seq(Key))
      /\ \A s \in 1 .. n : /\ seqs[s] \in Seq(Key) /\ Len(seqs[s]) = lens[s]
                           /\ seqs[s] = NewKeys(batch, s)
    BY <1>1, NewKeysAre
<1>3. Len(seqs) = n
    <2>1. DOMAIN seqs = 1 .. n /\ DOMAIN seqs = 1 .. Len(seqs) /\ Len(seqs) \in Nat
        BY <1>1, <1>2, LenProperties
    <2> HIDE DEF seqs
    <2> QED BY <1>1, <2>1
<1> HIDE DEF seqs
<1>4. Begins(n, lens, cu)
    BY <1>1, CuSeqlensIs
<1> HIDE DEF lens
<1>5. [i \in 1 .. n |-> Len(seqs[i])] = lens
    <2>1. lens \in [1 .. n -> Nat]
        BY <1>1, LenProperties
    <2> QED BY <1>2, <2>1
<1> HIDE DEF n, cu
<1>6. /\ rows \in Seq(Key) /\ Len(rows) = cu[n]
      /\ \A i \in 1 .. n : \A t \in 1 .. lens[i] : rows[cu[i - 1] + t] = seqs[i][t]
    <2>1. Begins(Len(seqs), [i \in 1 .. Len(seqs) |-> Len(seqs[i])], cu)
        BY <1>3, <1>4, <1>5, Zenon
    <2>2. /\ rows \in Seq(Key) /\ Len(rows) = cu[Len(seqs)]
          /\ \A i \in 1 .. Len(seqs) : \A t \in 1 .. Len(seqs[i]) : rows[cu[i - 1] + t] = seqs[i][t]
        BY <1>2, <2>1, FlattenPlaces
    <2> HIDE DEF rows
    <2> QED BY <1>2, <1>3, <2>2
<1> HIDE DEF rows
<1>7. ASSUME NEW s \in 1 .. n PROVE SubSeq(rows, cu[s - 1] + 1, cu[s]) = seqs[s]
    <2> DEFINE a == SubSeq(rows, cu[s - 1] + 1, cu[s])
               b == seqs[s]
    <2>1. /\ cu[s] = cu[s - 1] + lens[s] /\ cu[s - 1] \in Nat /\ cu[s] \in Nat /\ cu[n] \in Nat
          /\ lens[s] \in Nat
        BY <1>1, <1>4 DEF Begins
    <2>2. cu[s] <= cu[n]
        <3>1. n \in 0 .. n /\ s \in 0 .. n
            BY <1>1
        <3> QED BY <1>1, <1>4, <3>1, BeginsGrow
    <2>3. /\ a \in Seq(Key) /\ Len(a) = lens[s]
          /\ \A t \in 1 .. lens[s] : a[t] = rows[cu[s - 1] + t]
        <3> DEFINE i == cu[s - 1] + 1
                   j == cu[s]
        <3>1. /\ i \in Int /\ j \in Int /\ j - i + 1 = lens[s] /\ i >= 1 /\ j <= Len(rows)
              /\ Len(rows) \in Nat
            <4> DEFINE c == cu[s - 1]
                       l == lens[s]
                       m == Len(rows)
            <4>1. c \in Nat /\ l \in Nat /\ j = c + l /\ j <= m /\ m \in Nat
                BY <1>6, <2>1, <2>2
            <4>2. i = c + 1
                OBVIOUS
            <4> HIDE DEF i, j, c, l, m
            <4>3. i \in Int /\ j \in Int /\ j - i + 1 = l /\ i >= 1 /\ j <= m
                BY <4>1, <4>2
            <4> QED BY <4>1, <4>3 DEF l, m
        <3>2. \A t \in 1 .. lens[s] : i + t - 1 = cu[s - 1] + t
            BY <2>1
        <3> HIDE DEF i, j
        <3>3. \A k \in i .. j : rows[k] \in Key
            <4>1. \A k \in i .. j : k \in 1 .. Len(rows)
                BY <3>1
            <4> QED BY <1>6, <4>1, Elements
        <3>4. /\ a \in Seq(Key) /\ Len(a) = IF i <= j THEN j - i + 1 ELSE 0
              /\ \A t \in 1 .. j - i + 1 : a[t] = rows[i + t - 1]
            <4>1. a = SubSeq(rows, i, j)
                BY DEF i, j
            <4> HIDE DEF a
            <4> QED BY <3>1, <3>3, <4>1, SubSeqProperties
        <3> HIDE DEF a
        <3>5. Len(a) = lens[s]
            BY <2>1, <3>1, <3>4
        <3> QED BY <3>1, <3>2, <3>4, <3>5
    <2>4. b \in Seq(Key) /\ Len(b) = lens[s] /\ \A t \in 1 .. lens[s] : a[t] = b[t]
        BY <1>2, <1>6, <2>3
    <2> HIDE DEF a, b
    <2>5. a = b
        BY <2>3, <2>4, SeqEqual
    <2> QED BY <2>5 DEF a, b
<1> QED BY <1>1, <1>2, <1>4, <1>6, <1>7 DEF rows, seqs, cu, n, lens

\* The causal mask gives every row its own past.
LEMMA CausalRowsAre ==
    ASSUME NEW batch \in Batches, batch.past = 0, NEW s \in DOMAIN batch.lens
    PROVE  CausalRows(NewKeys(batch, s)) = OwnPast(batch, s)
<1> DEFINE keys == NewKeys(batch, s)
           own == OwnPast(batch, s)
           l == batch.lens[s]
<1>1. l \in Nat \ {0}
    BY BatchIs
<1>2. /\ keys \in Seq(Key) /\ Len(keys) = l
      /\ \A t \in 1 .. l : keys[t] = <<s, 0 + t - 1>>
    BY NewKeysAre
<1>3. /\ own \in Seq(Attention0) /\ Len(own) = l
      /\ \A t \in 1 .. l : own[t] = Attends(Past(s, 0 + t - 1))
    BY OwnPastIs
<1>4. DOMAIN keys = 1 .. l /\ own \in [1 .. l -> Attention0]
    BY <1>2, <1>3, LenProperties
<1> HIDE DEF keys, own, l
<1>5. ASSUME NEW t \in 1 .. l PROVE {keys[u] : u \in 1 .. t} = Past(s, 0 + t - 1)
    <2>1. \A u \in 1 .. t : keys[u] = <<s, u - 1>> /\ u - 1 \in 0 .. 0 + t - 1
        BY <1>1, <1>2
    <2>2. \A p \in 0 .. 0 + t - 1 : p + 1 \in 1 .. t /\ keys[p + 1] = <<s, p>>
        <3>1. \A p \in 0 .. 0 + t - 1 : p + 1 \in 1 .. t /\ (p + 1) - 1 = p
            BY <1>1
        <3> QED BY <2>1, <3>1
    <2>3. {keys[u] : u \in 1 .. t} \subseteq Past(s, 0 + t - 1)
        BY <2>1 DEF Past
    <2>4. Past(s, 0 + t - 1) \subseteq {keys[u] : u \in 1 .. t}
        BY <2>2 DEF Past
    <2> QED BY <2>3, <2>4
<1>6. CausalRows(keys) = [t \in 1 .. l |-> Attends({keys[u] : u \in 1 .. t})]
    BY <1>4 DEF CausalRows
<1>7. \A t \in 1 .. l : Attends({keys[u] : u \in 1 .. t}) = own[t]
    BY <1>3, <1>5
<1> QED BY <1>4, <1>6, <1>7 DEF keys, own

\* Each sequence is cut out of the flat batch and masked by itself.
LEMMA VarlenIsOwnPast ==
    ASSUME NEW batch \in Batches, batch.past = 0
    PROVE  VarlenAttention(FlattenSeq([s \in DOMAIN batch.lens |-> NewKeys(batch, s)]), batch.lens)
           = FlattenSeq([s \in DOMAIN batch.lens |-> OwnPast(batch, s)])
<1> DEFINE rows == FlattenSeq([s \in DOMAIN batch.lens |-> NewKeys(batch, s)])
           lens == batch.lens
<1>1. \A s \in DOMAIN lens : Segment(rows, lens, s) = NewKeys(batch, s)
    BY SegmentIs DEF Segment
<1>2. \A s \in DOMAIN lens : CausalRows(NewKeys(batch, s)) = OwnPast(batch, s)
    BY CausalRowsAre
<1> HIDE DEF rows, lens
<1>3. [s \in DOMAIN lens |-> CausalRows(Segment(rows, lens, s))]
      = [s \in DOMAIN lens |-> OwnPast(batch, s)]
    BY <1>1, <1>2
<1> QED BY <1>3 DEF VarlenAttention, rows, lens

\* Division of a place of a flat batch of sequences of one length.
LEMMA Divided ==
    ASSUME NEW w \in Nat \ {0}, NEW q \in Int, NEW r \in 0 .. (w - 1)
    PROVE  (q * w + r) \div w = q
<1> DEFINE x == q * w + r
           d == x \div w
           m == x % w
<1>1. x \in Int /\ q * w \in Int
    OBVIOUS
<1>2. d \in Int /\ m \in 0 .. (w - 1) /\ x = w * d + m
    BY <1>1
<1> HIDE DEF d, m
<1>3. ~(d < q)
    <2>1. SUFFICES ASSUME d < q PROVE FALSE
        OBVIOUS
    <2>2. PICK e \in Nat : q = d + 1 + e
        <3>1. q - d - 1 \in Nat /\ q = d + 1 + (q - d - 1)
            BY <1>2, <2>1
        <3> QED BY <3>1
    <2>3. q * w = d * w + w + e * w /\ e * w \in Nat /\ w * d = d * w
        BY <1>2, <2>2
    <2> QED BY <1>2, <2>3
<1>4. ~(q < d)
    <2>1. SUFFICES ASSUME q < d PROVE FALSE
        OBVIOUS
    <2>2. PICK e \in Nat : d = q + 1 + e
        <3>1. d - q - 1 \in Nat /\ d = q + 1 + (d - q - 1)
            BY <1>2, <2>1
        <3> QED BY <3>1
    <2>3. w * d = q * w + w + e * w /\ e * w \in Nat
        BY <1>2, <2>2
    <2> QED BY <1>2, <2>3
<1> QED BY <1>2, <1>3, <1>4 DEF d

\* The batches whose positions the mask's float type tells apart.
ShortBatches ==
    \A batch \in Batches : \A s \in DOMAIN batch.lens : batch.past + batch.lens[s] <= ExactUpTo

\* What the sequences should attend to, one after the other.
FlatOwn(batch) == FlattenSeq([s \in DOMAIN batch.lens |-> OwnPast(batch, s)])

LEMMA FlatOwnIs ==
    ASSUME NEW batch \in Batches
    PROVE  LET cu == CuSeqlens(batch.lens)
           IN /\ Begins(Len(batch.lens), batch.lens, cu)
              /\ FlatOwn(batch) \in Seq(Attention0) /\ Len(FlatOwn(batch)) = cu[Len(batch.lens)]
              /\ \A s \in DOMAIN batch.lens : \A t \in 1 .. batch.lens[s] :
                    FlatOwn(batch)[cu[s - 1] + t] = OwnPast(batch, s)[t]
<1> DEFINE lens == batch.lens
           n == Len(lens)
           seqs == [s \in DOMAIN lens |-> OwnPast(batch, s)]
           rows == FlatOwn(batch)
           cu == CuSeqlens(lens)
<1>1. /\ lens \in Seq(Nat) /\ n \in Nat /\ DOMAIN lens = 1 .. n
      /\ \A s \in 1 .. n : lens[s] \in Nat
    BY BatchIs
<1>2. /\ seqs \in Seq(Seq(Attention0)) /\ rows = FlattenSeq(seqs)
      /\ \A s \in 1 .. n : /\ seqs[s] \in Seq(Attention0) /\ Len(seqs[s]) = lens[s]
                           /\ seqs[s] = OwnPast(batch, s)
    BY <1>1, OwnPastIs DEF FlatOwn
<1>3. Len(seqs) = n
    <2>1. DOMAIN seqs = 1 .. n /\ DOMAIN seqs = 1 .. Len(seqs) /\ Len(seqs) \in Nat
        BY <1>1, <1>2, LenProperties
    <2> HIDE DEF seqs
    <2> QED BY <1>1, <2>1
<1> HIDE DEF seqs
<1>4. Begins(n, lens, cu)
    BY <1>1, CuSeqlensIs
<1> HIDE DEF lens, rows
<1>5. [i \in 1 .. n |-> Len(seqs[i])] = lens
    <2>1. lens \in [1 .. n -> Nat]
        BY <1>1, LenProperties
    <2> QED BY <1>2, <2>1
<1> HIDE DEF n, cu
<1>6. Begins(Len(seqs), [i \in 1 .. Len(seqs) |-> Len(seqs[i])], cu)
    BY <1>3, <1>4, <1>5, Zenon
<1>7. /\ rows \in Seq(Attention0) /\ Len(rows) = cu[Len(seqs)]
      /\ \A i \in 1 .. Len(seqs) : \A t \in 1 .. Len(seqs[i]) : rows[cu[i - 1] + t] = seqs[i][t]
    BY <1>2, <1>6, FlattenPlaces
<1>8. /\ rows \in Seq(Attention0) /\ Len(rows) = cu[n]
      /\ \A i \in 1 .. n : \A t \in 1 .. lens[i] : rows[cu[i - 1] + t] = OwnPast(batch, i)[t]
    BY <1>2, <1>3, <1>7
<1> QED BY <1>1, <1>4, <1>8 DEF rows, cu, n, lens

\* Sequences of one length begin at its multiples.
LEMMA EvenBegins ==
    ASSUME NEW n \in Nat, NEW w \in Nat, NEW len, NEW cu, Begins(n, len, cu),
           \A i \in 1 .. n : len[i] = w
    PROVE  \A i \in 0 .. n : cu[i] = i * w
<1> DEFINE T == {i \in 0 .. n : cu[i] = i * w}
<1>1. 0 \in T
    BY DEF Begins
<1>2. ASSUME NEW i \in 1 .. n, i - 1 \in T PROVE i \in T
    <2>1. cu[i] = cu[i - 1] + w /\ cu[i - 1] = (i - 1) * w
        BY <1>2 DEF Begins
    <2>2. (i - 1) * w + w = i * w
        OBVIOUS
    <2> QED BY <2>1, <2>2
<1> HIDE DEF T
<1>3. \A i \in 0 .. n : i \in T
    BY <1>1, <1>2, LoopInduction
<1> QED BY <1>3 DEF T

\* The call for sequences of one length reshapes the flat batch into them.
LEMMA EqualWidthIsOwnPast ==
    ASSUME NEW batch \in Batches, batch.past = 0, NEW device, EqualWidth(device, batch.lens)
    PROVE  EqualWidthAttention(FlattenSeq([s \in DOMAIN batch.lens |-> NewKeys(batch, s)]), batch.lens)
           = FlatOwn(batch)
<1> DEFINE lens == batch.lens
           n == Len(lens)
           w == lens[1]
           cu == CuSeqlens(lens)
           rows == FlattenSeq([s \in DOMAIN lens |-> NewKeys(batch, s)])
           own == FlatOwn(batch)
           Row(t) == LET b == (t - 1) \div lens[1]
                     IN CausalRows(SubSeq(rows, b * lens[1] + 1, (b + 1) * lens[1]))[t - b * lens[1]]
<1>1. /\ n \in Nat /\ n > 1 /\ w \in Nat \ {0} /\ \A s \in 1 .. n : lens[s] = w
      /\ DOMAIN lens = 1 .. n
    BY BatchIs DEF EqualWidth
<1>2. /\ Begins(n, lens, cu) /\ rows \in Seq(Key) /\ Len(rows) = cu[n]
      /\ \A s \in 1 .. n : SubSeq(rows, cu[s - 1] + 1, cu[s]) = NewKeys(batch, s)
    BY <1>1, SegmentIs
<1>3. /\ own \in Seq(Attention0) /\ Len(own) = cu[n]
      /\ \A s \in 1 .. n : \A t \in 1 .. lens[s] : own[cu[s - 1] + t] = OwnPast(batch, s)[t]
    BY <1>1, FlatOwnIs
<1>4. \A s \in 1 .. n : CausalRows(NewKeys(batch, s)) = OwnPast(batch, s)
    BY <1>1, CausalRowsAre
<1>5. EqualWidthAttention(rows, lens) = [t \in DOMAIN rows |-> Row(t)]
    BY DEF EqualWidthAttention
<1> HIDE DEF rows, own, cu
<1>6. DOMAIN rows = 1 .. cu[n] /\ own \in [1 .. cu[n] -> Attention0]
    BY <1>2, <1>3, LenProperties
<1>7. lens \in [1 .. n -> Nat]
    BY BatchIs, LenProperties
<1> HIDE DEF lens, n, w
<1>8. Begins(n, lens, cu) /\ n \in Nat /\ w \in Nat /\ \A i \in 1 .. n : lens[i] = w
    BY <1>1, <1>2
<1>9. \A i \in 0 .. n : cu[i] = i * w
    BY <1>8, EvenBegins
<1>10. ASSUME NEW t \in 1 .. cu[n] PROVE Row(t) = own[t]
    <2>1. PICK s \in 1 .. n : \E u \in 1 .. lens[s] : t = cu[s - 1] + u
        <3> HIDE DEF Row
        <3> QED BY <1>7, <1>8, FlattenCovers
    <2>2. PICK u \in 1 .. w : t = cu[s - 1] + u
        BY <1>1, <2>1
    <2>3. cu[s - 1] = (s - 1) * w /\ cu[s] = s * w /\ s - 1 \in Nat /\ (s - 1) * w \in Nat
        BY <1>1, <1>9
    <2>4. t - 1 = (s - 1) * w + (u - 1) /\ u - 1 \in 0 .. (w - 1)
        BY <1>1, <2>2, <2>3
    <2>5. (t - 1) \div w = s - 1
        <3> DEFINE q == s - 1
                   r == u - 1
        <3>1. q \in Nat /\ r \in 0 .. (w - 1) /\ w \in Nat \ {0} /\ t - 1 = q * w + r
            BY <1>1, <2>3, <2>4
        <3> HIDE DEF q, r
        <3>2. (q * w + r) \div w = q
            BY <3>1, Divided
        <3>3. (t - 1) \div w = q
            BY <3>1, <3>2
        <3> QED BY <3>3 DEF q
    <2>6. (s - 1) + 1 = s /\ t - (s - 1) * w = u
        BY <1>1, <2>2, <2>3
    <2>7. Row(t) = CausalRows(SubSeq(rows, (s - 1) * w + 1, s * w))[u]
        BY <2>5, <2>6 DEF w
    <2>8. Row(t) = OwnPast(batch, s)[u]
        BY <1>2, <1>4, <2>3, <2>7
    <2> QED BY <1>1, <1>3, <2>2, <2>8
<1> HIDE DEF Row
<1>11. [t \in 1 .. cu[n] |-> Row(t)] = own
    BY <1>6, <1>10
<1> QED BY <1>5, <1>6, <1>11 DEF rows, lens, own

\* Below ExactUpTo a position is its own float.
LEMMA RoundedIs ==
    ASSUME NEW n \in Nat, n < ExactUpTo
    PROVE  Rounded(n) = n
<1>1. ExactUpTo \in Nat \ {0}
    BY BatchesAssumption
<1> DEFINE Is(step) == n < step * ExactUpTo /\ (step = 1 \/ n >= (step \div 2) * ExactUpTo)
<1>2. 1 \in Spacings /\ Is(1)
    BY <1>1 DEF Spacings
<1>3. ASSUME NEW step \in Spacings, step # 1 PROVE ~Is(step)
    <2> DEFINE half == step \div 2
    <2>1. half \in Nat \ {0}
        BY <1>3 DEF Spacings
    <2> HIDE DEF half
    <2>2. PICK e \in Nat : half = 1 + e
        <3>1. half - 1 \in Nat /\ half = 1 + (half - 1)
            BY <2>1
        <3> QED BY <3>1
    <2>3. half * ExactUpTo = ExactUpTo + e * ExactUpTo /\ e * ExactUpTo \in Nat
        BY <1>1, <2>2
    <2>4. ~(n >= half * ExactUpTo)
        BY <1>1, <2>3
    <2> QED BY <1>3, <2>4 DEF half
<1>4. Spacing(n) = CHOOSE step \in Spacings : Is(step)
    BY DEF Spacing
<1> HIDE DEF Is
<1>5. Spacing(n) = 1
    <2>1. (CHOOSE step \in Spacings : Is(step)) \in Spacings /\ Is(CHOOSE step \in Spacings : Is(step))
        BY <1>2
    <2> QED BY <1>3, <1>4, <2>1
<1>6. n \div 1 = n /\ n % 1 = 0
    OBVIOUS
<1> QED BY <1>5, <1>6 DEF Rounded

\* Over the history, the mask compares positions.
LEMMA CachedIsOwnPast ==
    ASSUME ShortBatches, NEW batch \in Batches, NEW s \in DOMAIN batch.lens
    PROVE  CachedAttention(History(batch, s), [t \in 1 .. batch.lens[s] |-> batch.past + t - 1])
           = OwnPast(batch, s)
<1> DEFINE l == batch.lens[s]
           past == batch.past
           positions == [t \in 1 .. l |-> past + t - 1]
           history == History(batch, s)
           Keys(t) == {k \in DOMAIN history : Rounded(k - 1) <= Rounded(positions[t])}
<1>1. l \in Nat \ {0} /\ past \in Nat /\ s \in Nat /\ past + l <= ExactUpTo
    BY BatchIs DEF ShortBatches
<1>2. /\ OwnPast(batch, s) = [t \in 1 .. l |-> Attends(Past(s, past + t - 1))]
      /\ history = [p \in 1 .. (past + l) |-> <<s, p - 1>>]
    BY DEF OwnPast, Past, History
<1>3. DOMAIN history = 1 .. (past + l) /\ \A k \in 1 .. (past + l) : history[k] = <<s, k - 1>>
    BY <1>2
<1>4. DOMAIN positions = 1 .. l /\ \A t \in 1 .. l : positions[t] = past + t - 1
    OBVIOUS
<1>5. CachedAttention(history, positions)
      = [t \in 1 .. l |-> Attends({history[k] : k \in Keys(t)})]
    BY <1>4 DEF CachedAttention
<1> HIDE DEF l, past, positions, history
<1>6. ExactUpTo \in Nat
    BY BatchesAssumption
<1>7. ASSUME NEW t \in 1 .. l PROVE {history[k] : k \in Keys(t)} = Past(s, past + t - 1)
    <2>1. past + t - 1 \in Nat /\ past + t - 1 < ExactUpTo /\ Rounded(positions[t]) = past + t - 1
        <3>1. past + t - 1 \in Nat /\ past + t - 1 < ExactUpTo
            BY <1>1, <1>6
        <3> QED BY <1>4, <3>1, RoundedIs
    <2>2. \A k \in 1 .. (past + l) : Rounded(k - 1) = k - 1
        <3>1. \A k \in 1 .. (past + l) : k - 1 \in Nat /\ k - 1 < ExactUpTo
            BY <1>1, <1>6
        <3> QED BY <3>1, RoundedIs
    <2>3. Keys(t) = {k \in 1 .. (past + l) : k - 1 <= past + t - 1}
        BY <1>3, <2>1, <2>2
    <2> DEFINE R == {k \in 1 .. (past + l) : k - 1 <= past + t - 1}
    <2>4. \A k \in R : history[k] = <<s, k - 1>> /\ k - 1 \in 0 .. (past + t - 1)
        BY <1>1, <1>3
    <2>5. \A p \in 0 .. (past + t - 1) : p + 1 \in R /\ history[p + 1] = <<s, p>>
        <3>1. \A p \in 0 .. (past + t - 1) : p + 1 \in 1 .. (past + l) /\ p + 1 \in R /\ (p + 1) - 1 = p
            BY <1>1
        <3> QED BY <1>3, <3>1
    <2> HIDE DEF R
    <2>6. {history[k] : k \in R} \subseteq Past(s, past + t - 1)
        BY <2>4 DEF Past
    <2>7. Past(s, past + t - 1) \subseteq {history[k] : k \in R}
        BY <2>5 DEF Past
    <2>8. Keys(t) = R
        BY <2>3 DEF R
    <2> HIDE DEF Keys
    <2> QED BY <2>6, <2>7, <2>8
<1> HIDE DEF Keys
<1>8. [t \in 1 .. l |-> Attends({history[k] : k \in Keys(t)})]
      = [t \in 1 .. l |-> Attends(Past(s, past + t - 1))]
    BY <1>7
<1> QED BY <1>2, <1>5, <1>8 DEF l, past, positions, history

\* The blocks of a sequence, and what the cache holds in them.
LEMMA BlocksAre ==
    ASSUME NEW batch \in Batches, NEW s \in DOMAIN batch.lens, NEW b \in 1 .. MaxBlocks
    PROVE  LET id == BlockTable(batch, s)[b]
               past == batch.past
           IN /\ (b - 1) * BlockSize <= past <=> id >= 0
              /\ (b - 1) * BlockSize <= past =>
                    /\ id \in 1 .. (Len(batch.lens) * MaxBlocks)
                    /\ \A k \in 1 .. BlockSize :
                         CacheOf(batch)[id][k] =
                           IF (b - 1) * BlockSize + k - 1 <= past
                           THEN <<s, (b - 1) * BlockSize + k - 1>> ELSE <<0, 0>>
<1> DEFINE n == Len(batch.lens)
           past == batch.past
           M == MaxBlocks
           id == BlockTable(batch, s)[b]
           q == s - 1
           Val(d) == [k \in 1 .. BlockSize |->
                        LET z == (d - 1) \div M + 1
                            c == z * M + 1 - d
                            pos == (c - 1) * BlockSize + k - 1
                        IN IF d > 0 /\ pos <= past THEN <<z, pos>> ELSE <<0, 0>>]
<1>1. /\ M \in Nat \ {0} /\ BlockSize \in Nat \ {0} /\ past \in Nat /\ n \in Nat /\ s \in 1 .. n
      /\ q \in Nat /\ q + 1 <= n /\ s = q + 1
    <2>1. M \in Nat \ {0} /\ BlockSize \in Nat \ {0} /\ past \in Nat
        BY BatchesAssumption
    <2>2. n \in Nat /\ s \in 1 .. n
        BY BatchIs
    <2> HIDE DEF M, n, past
    <2> QED BY <2>1, <2>2
<1>2. id = IF (b - 1) * BlockSize <= past THEN q * M + M + 1 - b ELSE -1
    BY DEF BlockTable
<1>3. CacheOf(batch) = [d \in 0 .. (n * M) |-> Val(d)]
    BY DEF CacheOf
<1> HIDE DEF n, past, M, id, q
<1>4. b \in 1 .. M
    BY DEF M
<1>5. q * M \in Nat /\ q * M + M <= n * M /\ n * M \in Nat
    <2>1. PICK e \in Nat : n = q + 1 + e
        <3>1. n - q - 1 \in Nat /\ n = q + 1 + (n - q - 1)
            BY <1>1
        <3> QED BY <3>1
    <2>2. n * M = q * M + M + e * M
        BY <1>1, <2>1
    <2>3. e * M \in Nat /\ q * M \in Nat /\ n * M \in Nat /\ M \in Nat
        BY <1>1, <2>1
    <2> DEFINE nm == n * M
               qm == q * M
               em == e * M
    <2>4. nm = qm + M + em /\ em \in Nat /\ qm \in Nat /\ nm \in Nat
        BY <2>2, <2>3
    <2> HIDE DEF nm, qm, em
    <2>5. qm + M <= nm
        BY <2>3, <2>4
    <2> QED BY <2>3, <2>5 DEF nm, qm
<1> DEFINE d0 == q * M + M + 1 - b
<1>6. d0 \in 1 .. (n * M) /\ d0 \in 0 .. (n * M) /\ d0 - 1 = q * M + (M - b) /\ M - b \in 0 .. (M - 1)
    BY <1>1, <1>4, <1>5
<1>7. (d0 - 1) \div M + 1 = s /\ s * M + 1 - d0 = b
    <2> DEFINE r == M - b
    <2>1. (q * M + r) \div M = q
        <3>1. r \in 0 .. (M - 1)
            BY <1>6
        <3> HIDE DEF r
        <3> QED BY <1>1, <3>1, Divided
    <2>2. (d0 - 1) \div M = q
        BY <1>6, <2>1
    <2>3. s * M = q * M + M
        BY <1>1
    <2> HIDE DEF d0, r
    <2>4. d0 = q * M + M + 1 - b
        BY DEF d0
    <2> QED BY <1>1, <1>4, <1>5, <2>2, <2>3, <2>4
<1>8. d0 > 0
    BY <1>6
<1> HIDE DEF d0
<1>9. \A k \in 1 .. BlockSize : Val(d0)[k] = IF (b - 1) * BlockSize + k - 1 <= past
                                             THEN <<s, (b - 1) * BlockSize + k - 1>> ELSE <<0, 0>>
    BY <1>7, <1>8
<1>10. CacheOf(batch)[d0] = Val(d0)
    BY <1>3, <1>6
<1> HIDE DEF Val
<1>11. CASE (b - 1) * BlockSize <= past
    <2>1. id = d0 /\ id >= 0
        BY <1>2, <1>5, <1>6, <1>11 DEF d0
    <2> QED BY <1>6, <1>9, <1>10, <1>11, <2>1 DEF id, past, n, M
<1>12. CASE ~((b - 1) * BlockSize <= past)
    <2>1. id = -1 /\ ~(id >= 0)
        BY <1>2, <1>12
    <2> QED BY <1>12, <2>1 DEF id, past
<1> QED BY <1>11, <1>12

\* The blocks that are whole hold the past of the sequence.
LEMMA CacheIs ==
    ASSUME NEW batch \in Batches
    PROVE  \A id \in 1 .. (Len(batch.lens) * MaxBlocks) \cup {0} :
              /\ CacheOf(batch)[id] \in Seq(Key) /\ Len(CacheOf(batch)[id]) = BlockSize
<1> DEFINE n == Len(batch.lens)
           past == batch.past
           M == MaxBlocks
           Val(d) == [k \in 1 .. BlockSize |->
                        LET z == (d - 1) \div M + 1
                            c == z * M + 1 - d
                            pos == (c - 1) * BlockSize + k - 1
                        IN IF d > 0 /\ pos <= past THEN <<z, pos>> ELSE <<0, 0>>]
<1>1. M \in Nat \ {0} /\ BlockSize \in Nat \ {0} /\ past \in Nat /\ n \in Nat
    BY BatchIs, BatchesAssumption
<1>2. CacheOf(batch) = [d \in 0 .. (n * M) |-> Val(d)]
    BY DEF CacheOf
<1> HIDE DEF n, past, M
<1>3. n * M \in Nat
    BY <1>1
<1>4. ASSUME NEW d \in 0 .. (n * M) PROVE Val(d) \in Seq(Key) /\ Len(Val(d)) = BlockSize
    <2> DEFINE z == (d - 1) \div M + 1
               c == z * M + 1 - d
               Pos(k) == (c - 1) * BlockSize + k - 1
    <2>1. ASSUME d > 0 PROVE z \in Nat /\ c - 1 \in Nat
        <3> DEFINE q == (d - 1) \div M
                   r == (d - 1) % M
        <3>1. q \in Nat /\ r \in 0 .. (M - 1) /\ d - 1 = M * q + r
            BY <1>1, <1>3, <2>1
        <3>2. M * q = q * M /\ (q + 1) * M = q * M + M /\ q * M \in Nat
            BY <1>1, <3>1
        <3>3. z = q + 1 /\ c = (q + 1) * M + 1 - d
            OBVIOUS
        <3> HIDE DEF q, r, z, c
        <3>4. c - 1 = M - 1 - r
            BY <1>1, <1>3, <3>1, <3>2, <3>3
        <3> QED BY <1>1, <3>1, <3>3, <3>4
    <2>2. ASSUME NEW k \in 1 .. BlockSize
          PROVE  (IF d > 0 /\ Pos(k) <= past THEN <<z, Pos(k)>> ELSE <<0, 0>>) \in Key
        <3>1. CASE d > 0 /\ Pos(k) <= past
            <4>1. (c - 1) * BlockSize \in Nat
                BY <1>1, <2>1, <3>1
            <4>2. Pos(k) \in Nat
                BY <1>1, <4>1
            <4> HIDE DEF Pos, z
            <4> QED BY <2>1, <3>1, <4>2 DEF Key
        <3>2. CASE ~(d > 0 /\ Pos(k) <= past)
            BY <3>2 DEF Key
        <3> QED BY <3>1, <3>2
    <2>3. Val(d) = [k \in 1 .. BlockSize |->
                       IF d > 0 /\ Pos(k) <= past THEN <<z, Pos(k)>> ELSE <<0, 0>>]
        OBVIOUS
    <2> HIDE DEF Val, Pos, z
    <2>4. Val(d) \in [1 .. BlockSize -> Key]
        BY <2>2, <2>3
    <2> QED BY <1>1, <2>4
<1> HIDE DEF Val
<1>5. \A id \in 1 .. (n * M) \cup {0} : id \in 0 .. (n * M)
    BY <1>3
<1>6. \A id \in 1 .. (n * M) \cup {0} :
          CacheOf(batch)[id] \in Seq(Key) /\ Len(CacheOf(batch)[id]) = BlockSize
    BY <1>2, <1>4, <1>5
<1> QED BY <1>6 DEF n, M

\* With tensors only, every block is gathered and the length masks the rest.
LEMMA TensorDecodeIs ==
    ASSUME NEW batch \in Batches, NEW s \in DOMAIN batch.lens
    PROVE  TensorPagedDecode(BlockTable(batch, s), batch.past + 1, CacheOf(batch))
           = Attends(Past(s, batch.past))
<1> DEFINE past == batch.past
           n == Len(batch.lens)
           table == BlockTable(batch, s)
           cache == CacheOf(batch)
           Block(b) == IF table[b] < 0 THEN 0 ELSE table[b]
           seqs == [b \in 1 .. MaxBlocks |-> cache[Block(b)]]
           all == FlattenSeq(seqs)
           cu == [b \in 0 .. MaxBlocks |-> b * BlockSize]
           Unmasked == {k \in DOMAIN all : k - 1 < past + 1}
<1>1. /\ MaxBlocks \in Nat \ {0} /\ BlockSize \in Nat \ {0} /\ past \in Nat
      /\ past + 1 <= MaxBlocks * BlockSize /\ s \in Nat
    <2>1. past \in Nat /\ batch.lens[s] \in Nat \ {0} /\ past + batch.lens[s] <= MaxBlocks * BlockSize
          /\ s \in Nat
        BY BatchIs
    <2>2. MaxBlocks \in Nat \ {0} /\ BlockSize \in Nat \ {0} /\ MaxBlocks * BlockSize \in Nat
        BY BatchesAssumption
    <2> QED BY <2>1, <2>2
<1>2. ASSUME NEW b \in 1 .. MaxBlocks
      PROVE  /\ cache[Block(b)] \in Seq(Key) /\ Len(cache[Block(b)]) = BlockSize
             /\ (b - 1) * BlockSize <= past => table[b] >= 0
             /\ (b - 1) * BlockSize <= past => Block(b) = table[b]
    <2>1. /\ (b - 1) * BlockSize <= past <=> table[b] >= 0
          /\ (b - 1) * BlockSize <= past => table[b] \in 1 .. (n * MaxBlocks)
        BY BlocksAre
    <2>2. table[b] = IF (b - 1) * BlockSize <= past
                     THEN (s - 1) * MaxBlocks + MaxBlocks + 1 - b ELSE -1
        BY DEF BlockTable
    <2> HIDE DEF table, past, n, cache
    <2>3. CASE (b - 1) * BlockSize <= past
        <3>1. Block(b) = table[b] /\ table[b] >= 0 /\ table[b] \in 1 .. (n * MaxBlocks) \cup {0}
            BY <2>1, <2>3
        <3> QED BY <3>1, CacheIs DEF n, cache
    <2>4. CASE ~((b - 1) * BlockSize <= past)
        <3>1. Block(b) = 0
            BY <2>2, <2>4
        <3> QED BY <2>4, <3>1, CacheIs DEF n, cache
    <2> QED BY <2>3, <2>4
<1>3. \A b \in 1 .. MaxBlocks : (b - 1) * BlockSize <= past =>
          \A k \in 1 .. BlockSize :
             seqs[b][k] = IF (b - 1) * BlockSize + k - 1 <= past
                          THEN <<s, (b - 1) * BlockSize + k - 1>> ELSE <<0, 0>>
    <2> SUFFICES ASSUME NEW b \in 1 .. MaxBlocks, (b - 1) * BlockSize <= past
                 PROVE  \A k \in 1 .. BlockSize :
                           seqs[b][k] = IF (b - 1) * BlockSize + k - 1 <= past
                                        THEN <<s, (b - 1) * BlockSize + k - 1>> ELSE <<0, 0>>
        BY Zenon
    <2>1. \A k \in 1 .. BlockSize :
             cache[table[b]][k] = IF (b - 1) * BlockSize + k - 1 <= past
                                  THEN <<s, (b - 1) * BlockSize + k - 1>> ELSE <<0, 0>>
        BY BlocksAre
    <2>2. seqs[b] = cache[Block(b)] /\ Block(b) = table[b]
        <3> HIDE DEF Block
        <3> QED BY <1>2
    <2> HIDE DEF seqs, table, cache, past
    <2> QED BY <2>1, <2>2
<1> HIDE DEF past, table, cache, Block
<1>4. /\ seqs \in Seq(Seq(Key)) /\ Len(seqs) = MaxBlocks
      /\ \A b \in 1 .. MaxBlocks : Len(seqs[b]) = BlockSize
    <2>1. seqs \in [1 .. MaxBlocks -> Seq(Key)] /\ \A b \in 1 .. MaxBlocks : Len(seqs[b]) = BlockSize
        BY <1>2
    <2> HIDE DEF seqs
    <2> QED BY <1>1, <2>1
<1> HIDE DEF seqs
<1>5. Begins(Len(seqs), [b \in 1 .. Len(seqs) |-> Len(seqs[b])], cu)
    <2>1. \A b \in 1 .. MaxBlocks : b * BlockSize = (b - 1) * BlockSize + BlockSize
        BY <1>1
    <2>2. \A b \in 0 .. MaxBlocks : b * BlockSize \in Nat
        BY <1>1
    <2>3. Begins(MaxBlocks, [b \in 1 .. MaxBlocks |-> BlockSize], cu)
        <3>1. \A b \in 1 .. MaxBlocks : b \in 0 .. MaxBlocks /\ b - 1 \in 0 .. MaxBlocks
            BY <1>1
        <3>2. cu \in [0 .. MaxBlocks -> Nat] /\ cu[0] = 0
            BY <1>1, <2>2
        <3>3. \A b \in 1 .. MaxBlocks : cu[b] = cu[b - 1] + BlockSize
            BY <2>1, <3>1
        <3> HIDE DEF cu
        <3> QED BY <3>2, <3>3 DEF Begins
    <2>4. [b \in 1 .. Len(seqs) |-> Len(seqs[b])] = [b \in 1 .. MaxBlocks |-> BlockSize]
        BY <1>4
    <2> HIDE DEF cu
    <2> QED BY <1>4, <2>3, <2>4, Zenon
<1>6. /\ all \in Seq(Key) /\ Len(all) = cu[MaxBlocks]
      /\ \A b \in 1 .. MaxBlocks : \A k \in 1 .. BlockSize : all[cu[b - 1] + k] = seqs[b][k]
    <2>1. /\ all \in Seq(Key) /\ Len(all) = cu[Len(seqs)]
          /\ \A b \in 1 .. Len(seqs) : \A k \in 1 .. Len(seqs[b]) : all[cu[b - 1] + k] = seqs[b][k]
        <3>1. seqs \in Seq(Seq(Key))
            BY <1>4
        <3> HIDE DEF cu
        <3> QED BY <1>5, <3>1, FlattenPlaces
    <2> HIDE DEF all, cu
    <2> QED BY <1>4, <2>1
<1> HIDE DEF all
<1>7. /\ DOMAIN all = 1 .. (MaxBlocks * BlockSize)
      /\ \A b \in 1 .. MaxBlocks : cu[b - 1] = (b - 1) * BlockSize
    <2>1. cu[MaxBlocks] = MaxBlocks * BlockSize
        BY <1>1
    <2>2. \A b \in 1 .. MaxBlocks : b - 1 \in 0 .. MaxBlocks
        BY <1>1
    <2> QED BY <1>6, <2>1, <2>2, LenProperties
<1> HIDE DEF cu
<1>8. ASSUME NEW k \in 1 .. (MaxBlocks * BlockSize), k - 1 <= past PROVE all[k] = <<s, k - 1>>
    <2> DEFINE q == (k - 1) \div BlockSize
               r == (k - 1) % BlockSize
    <2>1. q \in Nat /\ r \in 0 .. (BlockSize - 1) /\ k - 1 = BlockSize * q + r
        BY <1>1
    <2>2. BlockSize * q = q * BlockSize /\ q * BlockSize \in Nat
        BY <1>1, <2>1
    <2> HIDE DEF q, r
    <2>3. q < MaxBlocks
        <3>1. SUFFICES ASSUME MaxBlocks <= q PROVE FALSE
            BY <1>1, <2>1
        <3>2. PICK e \in Nat : q = MaxBlocks + e
            <4>1. q - MaxBlocks \in Nat /\ q = MaxBlocks + (q - MaxBlocks)
                BY <1>1, <2>1, <3>1
            <4> QED BY <4>1
        <3>3. q * BlockSize = MaxBlocks * BlockSize + e * BlockSize /\ e * BlockSize \in Nat
            BY <1>1, <3>2
        <3>4. MaxBlocks * BlockSize \in Nat
            BY <1>1
        <3> QED BY <2>1, <2>2, <3>3, <3>4
    <2> DEFINE b == q + 1
               j == r + 1
    <2>4. b \in 1 .. MaxBlocks /\ j \in 1 .. BlockSize /\ b - 1 = q
        BY <1>1, <2>1, <2>3
    <2>5. k = q * BlockSize + j /\ q * BlockSize + j - 1 = k - 1 /\ q * BlockSize <= past
        BY <1>1, <1>8, <2>1, <2>2
    <2> HIDE DEF b, j
    <2>6. all[k] = seqs[b][j]
        BY <1>6, <1>7, <2>4, <2>5
    <2> QED BY <1>3, <1>8, <2>4, <2>5, <2>6
<1>9. Unmasked = {k \in 1 .. (MaxBlocks * BlockSize) : k - 1 <= past}
    <2>1. MaxBlocks * BlockSize \in Nat
        BY <1>1
    <2> QED BY <1>1, <1>7, <2>1
<1> HIDE DEF Unmasked
<1>10. {all[k] : k \in Unmasked} = Past(s, past)
    <2>1. \A k \in Unmasked : all[k] = <<s, k - 1>> /\ k - 1 \in 0 .. past
        BY <1>1, <1>8, <1>9
    <2>2. \A p \in 0 .. past : p + 1 \in Unmasked /\ all[p + 1] = <<s, p>>
        <3>1. MaxBlocks * BlockSize \in Nat
            BY <1>1
        <3>2. \A p \in 0 .. past : p + 1 \in 1 .. (MaxBlocks * BlockSize) /\ (p + 1) - 1 = p
            BY <1>1, <3>1
        <3> QED BY <1>8, <1>9, <3>2
    <2>3. {all[k] : k \in Unmasked} \subseteq Past(s, past)
        BY <2>1 DEF Past
    <2>4. Past(s, past) \subseteq {all[k] : k \in Unmasked}
        BY <2>2 DEF Past
    <2> QED BY <2>3, <2>4
<1>11. TensorPagedDecode(table, past + 1, cache) = Attends({all[k] : k \in Unmasked})
    BY DEF TensorPagedDecode, Unmasked, all, seqs, Block
<1> QED BY <1>10, <1>11 DEF table, past, cache

\* The keys of the blocks that are walked.
Walked(table, seqLen, cache, needed) ==
    UNION {ToSet(SubSeq(cache[table[b]], 1,
                        IF b = needed THEN seqLen - (b - 1) * BlockSize ELSE BlockSize)) :
              b \in {b \in 1 .. needed : \A c \in 1 .. b : table[c] >= 0}}

LEMMA WalkIs ==
    ASSUME NEW table, NEW seqLen, NEW cache, NEW needed,
           needed = (seqLen + BlockSize - 1) \div BlockSize
    PROVE  PagedDecode(table, seqLen, cache) = Attends(Walked(table, seqLen, cache, needed))
BY DEF PagedDecode, Walked

\* Block by block: the walk needs the blocks up to that of the last position.
LEMMA PagedDecodeIs ==
    ASSUME NEW batch \in Batches, NEW s \in DOMAIN batch.lens
    PROVE  PagedDecode(BlockTable(batch, s), batch.past + 1, CacheOf(batch))
           = Attends(Past(s, batch.past))
<1> DEFINE past == batch.past
           n == Len(batch.lens)
           table == BlockTable(batch, s)
           cache == CacheOf(batch)
           len == past + 1
           needed == (len + BlockSize - 1) \div BlockSize
           upto == {b \in 1 .. needed : \A c \in 1 .. b : table[c] >= 0}
           End(b) == IF b = needed THEN len - (b - 1) * BlockSize ELSE BlockSize
           Part(b) == SubSeq(cache[table[b]], 1, End(b))
           Found == UNION {ToSet(Part(b)) : b \in upto}
           q == past \div BlockSize
           r == past % BlockSize
<1>1. /\ MaxBlocks \in Nat \ {0} /\ BlockSize \in Nat \ {0} /\ past \in Nat
      /\ past + 1 <= MaxBlocks * BlockSize /\ s \in Nat
    <2>1. past \in Nat /\ batch.lens[s] \in Nat \ {0} /\ past + batch.lens[s] <= MaxBlocks * BlockSize
          /\ s \in Nat
        BY BatchIs
    <2>2. MaxBlocks \in Nat \ {0} /\ BlockSize \in Nat \ {0} /\ MaxBlocks * BlockSize \in Nat
        BY BatchesAssumption
    <2> QED BY <2>1, <2>2
<1> HIDE DEF past, n, table, cache
<1>2. len = past + 1
    OBVIOUS
<1> HIDE DEF len
<1>3. PagedDecode(table, past + 1, cache) = Attends(Found)
    <2>1. PagedDecode(table, len, cache) = Attends(Walked(table, len, cache, needed))
        <3>1. needed = (len + BlockSize - 1) \div BlockSize
            OBVIOUS
        <3> HIDE DEF needed
        <3> QED BY <3>1, WalkIs
    <2>2. Walked(table, len, cache, needed) = Found
        <3> HIDE DEF needed
        <3>1. \A x : x \in Walked(table, len, cache, needed) <=>
                \E b \in upto : x \in ToSet(Part(b))
            BY DEF Walked
        <3> HIDE DEF upto, Part
        <3> QED BY <3>1
    <2> QED BY <1>2, <2>1, <2>2
<1>4. q \in Nat /\ r \in 0 .. (BlockSize - 1) /\ past = q * BlockSize + r /\ q * BlockSize \in Nat
    <2>1. q \in Nat /\ r \in 0 .. (BlockSize - 1) /\ past = BlockSize * q + r
        BY <1>1
    <2>2. BlockSize * q = q * BlockSize /\ q * BlockSize \in Nat
        BY <1>1, <2>1
    <2> QED BY <2>1, <2>2
<1> HIDE DEF q, r
<1>5. needed = q + 1
    <2>1. (q + 1) * BlockSize = q * BlockSize + BlockSize
        BY <1>1, <1>4
    <2>2. len + BlockSize - 1 = (q + 1) * BlockSize + r
        BY <1>1, <1>2, <1>4, <2>1
    <2> QED BY <1>1, <1>4, <2>2, Divided
<1> HIDE DEF needed
<1>6. q < MaxBlocks
    <2>1. SUFFICES ASSUME MaxBlocks <= q PROVE FALSE
        BY <1>1, <1>4
    <2>2. PICK e \in Nat : q = MaxBlocks + e
        <3>1. q - MaxBlocks \in Nat /\ q = MaxBlocks + (q - MaxBlocks)
            BY <1>1, <1>4, <2>1
        <3> QED BY <3>1
    <2>3. q * BlockSize = MaxBlocks * BlockSize + e * BlockSize /\ e * BlockSize \in Nat
        BY <1>1, <2>2
    <2>4. MaxBlocks * BlockSize \in Nat
        BY <1>1
    <2> QED BY <1>1, <1>4, <2>3, <2>4
<1>7. ASSUME NEW b \in 1 .. needed
      PROVE  /\ b \in 1 .. MaxBlocks /\ (b - 1) * BlockSize \in Nat
             /\ IF b = needed THEN (b - 1) * BlockSize = q * BlockSize
                ELSE (b - 1) * BlockSize + BlockSize <= q * BlockSize
    <2>1. b \in 1 .. MaxBlocks /\ b - 1 \in Nat /\ b - 1 <= q /\ (b = needed <=> b - 1 = q)
        BY <1>1, <1>4, <1>5, <1>6
    <2>2. (b - 1) * BlockSize \in Nat
        BY <1>1, <2>1
    <2>3. CASE b = needed
        BY <2>1, <2>2, <2>3
    <2>4. CASE b # needed
        <3>1. PICK e \in Nat : q = (b - 1) + 1 + e
            <4>1. q - (b - 1) - 1 \in Nat /\ q = (b - 1) + 1 + (q - (b - 1) - 1)
                BY <1>4, <2>1, <2>4
            <4> QED BY <4>1
        <3> DEFINE p == b - 1
                   pb == p * BlockSize
                   eb == e * BlockSize
                   qb == q * BlockSize
        <3>2. (p + 1 + e) * BlockSize = pb + BlockSize + eb
            BY <1>1, <2>1
        <3>3. eb \in Nat /\ pb \in Nat /\ qb \in Nat
            BY <1>1, <1>4, <2>2
        <3>4. qb = pb + BlockSize + eb
            BY <3>1, <3>2
        <3> HIDE DEF pb, eb, qb
        <3>5. pb + BlockSize <= qb
            BY <1>1, <3>3, <3>4
        <3> QED BY <2>1, <2>2, <2>4, <3>5 DEF pb, qb
    <2> QED BY <2>3, <2>4
<1>8. ASSUME NEW b \in 1 .. needed
      PROVE  /\ (b - 1) * BlockSize <= past /\ (b - 1) * BlockSize \in Nat
             /\ End(b) \in 1 .. BlockSize
             /\ (b - 1) * BlockSize + End(b) <= past + 1
    <2> DEFINE pb == (b - 1) * BlockSize
               qb == q * BlockSize
    <2>1. pb \in Nat /\ qb \in Nat /\ IF b = needed THEN pb = qb ELSE pb + BlockSize <= qb
        BY <1>4, <1>7
    <2>2. past = qb + r
        BY <1>4
    <2>3. End(b) = IF b = needed THEN len - pb ELSE BlockSize
        OBVIOUS
    <2> HIDE DEF pb, qb, End
    <2>4. pb <= past /\ End(b) \in 1 .. BlockSize /\ pb + End(b) <= past + 1
        BY <1>1, <1>2, <1>4, <2>1, <2>2, <2>3
    <2> QED BY <2>1, <2>4 DEF pb
<1>9. ASSUME NEW b \in 1 .. needed
      PROVE  /\ table[b] >= 0
             /\ cache[table[b]] \in Seq(Key) /\ Len(cache[table[b]]) = BlockSize
             /\ \A k \in 1 .. End(b) : cache[table[b]][k] = <<s, (b - 1) * BlockSize + k - 1>>
    <2>1. b \in 1 .. MaxBlocks
        BY <1>7
    <2>2. (b - 1) * BlockSize <= past
        BY <1>8
    <2>3. /\ table[b] >= 0 /\ table[b] \in 1 .. (n * MaxBlocks)
          /\ \A k \in 1 .. BlockSize :
               cache[table[b]][k] = IF (b - 1) * BlockSize + k - 1 <= past
                                    THEN <<s, (b - 1) * BlockSize + k - 1>> ELSE <<0, 0>>
        BY <2>1, <2>2, BlocksAre DEF table, past, n, cache
    <2>4. table[b] \in 1 .. (n * MaxBlocks) \cup {0}
        BY <2>3
    <2>5. cache[table[b]] \in Seq(Key) /\ Len(cache[table[b]]) = BlockSize
        BY <2>4, CacheIs DEF n, cache
    <2>6. \A k \in 1 .. End(b) : k \in 1 .. BlockSize /\ (b - 1) * BlockSize + k - 1 <= past
        <3>1. End(b) \in 1 .. BlockSize /\ (b - 1) * BlockSize + End(b) <= past + 1
              /\ (b - 1) * BlockSize \in Nat
            BY <1>8
        <3> HIDE DEF End
        <3> DEFINE pb == (b - 1) * BlockSize
        <3>2. pb \in Nat /\ pb + End(b) <= past + 1
            BY <3>1
        <3> HIDE DEF pb
        <3>3. \A k \in 1 .. End(b) : k \in 1 .. BlockSize /\ pb + k - 1 <= past
            BY <1>1, <3>1, <3>2
        <3> QED BY <3>3 DEF pb
    <2> HIDE DEF End
    <2> QED BY <2>3, <2>5, <2>6
<1>10. upto = 1 .. needed
    <2>1. \A b \in 1 .. needed : \A c \in 1 .. b : c \in 1 .. needed
        BY <1>4, <1>5
    <2> QED BY <1>9, <2>1
<1>11. ASSUME NEW b \in 1 .. needed
       PROVE  ToSet(Part(b)) = {<<s, (b - 1) * BlockSize + k - 1>> : k \in 1 .. End(b)}
    <2> DEFINE e == End(b)
               row == cache[table[b]]
               Pos(k) == (b - 1) * BlockSize + k - 1
    <2>1. e \in 1 .. BlockSize
        BY <1>8
    <2>2. row \in Seq(Key) /\ Len(row) = BlockSize /\ \A k \in 1 .. e : row[k] = <<s, Pos(k)>>
        BY <1>9
    <2>3. Part(b) = SubSeq(row, 1, e)
        OBVIOUS
    <2> HIDE DEF e, row, Part, Pos
    <2>4. \A k \in 1 .. e : k \in 1 .. Len(row)
        BY <1>1, <2>1, <2>2
    <2>5. \A k \in 1 .. e : row[k] \in Key
        BY <2>2, <2>4, Elements
    <2>6. /\ Part(b) \in Seq(Key) /\ Len(Part(b)) = IF 1 <= e THEN e - 1 + 1 ELSE 0
          /\ \A k \in 1 .. e - 1 + 1 : Part(b)[k] = row[1 + k - 1]
        BY <2>1, <2>3, <2>5, SubSeqProperties
    <2>7. Len(Part(b)) = e /\ \A k \in 1 .. e : Part(b)[k] = <<s, Pos(k)>>
        <3>1. e - 1 + 1 = e /\ 1 <= e /\ \A k \in 1 .. e : 1 + k - 1 = k
            BY <2>1
        <3> QED BY <2>2, <2>6, <3>1
    <2>8. \A x : x \in ToSet(Part(b)) <=> \E k \in 1 .. e : <<s, Pos(k)>> = x
        <3>1. \A x : x \in ToSet(Part(b)) <=> \E k \in 1 .. Len(Part(b)) : Part(b)[k] = x
            BY <2>6, Elements
        <3>2. Len(Part(b)) = e /\ \A k \in 1 .. e : Part(b)[k] = <<s, Pos(k)>>
            BY <2>7
        <3> QED BY <3>1, <3>2, Zenon
    <2>9. ToSet(Part(b)) = {<<s, Pos(k)>> : k \in 1 .. e}
        BY <2>8
    <2> QED BY <2>9 DEF e, Pos
<1> HIDE DEF Part, upto
<1>12. Found = Past(s, past)
    <2>1. ASSUME NEW b \in 1 .. needed, NEW k \in 1 .. End(b)
          PROVE  (b - 1) * BlockSize + k - 1 \in 0 .. past
        <3>1. End(b) \in 1 .. BlockSize /\ (b - 1) * BlockSize + End(b) <= past + 1
              /\ (b - 1) * BlockSize \in Nat
            BY <1>8
        <3> HIDE DEF End
        <3> DEFINE pb == (b - 1) * BlockSize
        <3>2. pb \in Nat /\ pb + End(b) <= past + 1
            BY <3>1
        <3> HIDE DEF pb
        <3>3. pb + k - 1 \in 0 .. past
            BY <1>1, <3>1, <3>2
        <3> QED BY <3>3 DEF pb
    <2>2. ASSUME NEW p \in 0 .. past
          PROVE  \E b \in 1 .. needed : \E k \in 1 .. End(b) : p = (b - 1) * BlockSize + k - 1
        <3> DEFINE d == p \div BlockSize
                   m == p % BlockSize
        <3>1. d \in Nat /\ m \in 0 .. (BlockSize - 1) /\ p = BlockSize * d + m
            BY <1>1
        <3>2. BlockSize * d = d * BlockSize /\ d * BlockSize \in Nat
            BY <1>1, <3>1
        <3> HIDE DEF d, m
        <3>3. d <= q
            <4>1. SUFFICES ASSUME q + 1 <= d PROVE FALSE
                BY <1>4, <3>1
            <4>2. PICK e \in Nat : d = q + 1 + e
                <5>1. d - q - 1 \in Nat /\ d = q + 1 + (d - q - 1)
                    BY <1>4, <3>1, <4>1
                <5> QED BY <5>1
            <4>3. d * BlockSize = q * BlockSize + BlockSize + e * BlockSize /\ e * BlockSize \in Nat
                BY <1>1, <1>4, <4>2
            <4> QED BY <1>1, <1>4, <3>1, <3>2, <4>3
        <3> DEFINE b == d + 1
                   k == m + 1
        <3>4. b \in 1 .. needed /\ b - 1 = d
            BY <1>4, <1>5, <3>1, <3>3
        <3>5. k \in 1 .. End(b)
            <4>1. CASE b = needed
                <5>1. d = q /\ End(b) = past + 1 - d * BlockSize
                    BY <1>2, <1>4, <1>5, <3>1, <3>4, <4>1
                <5> HIDE DEF End
                <5> DEFINE db == d * BlockSize
                <5>2. db \in Nat /\ p = db + m /\ End(b) = past + 1 - db
                    BY <3>1, <3>2, <5>1
                <5> HIDE DEF db
                <5> QED BY <1>1, <3>1, <5>2
            <4>2. CASE b # needed
                <5>1. End(b) = BlockSize
                    BY <4>2
                <5> HIDE DEF End
                <5> QED BY <1>1, <3>1, <5>1
            <4> QED BY <4>1, <4>2
        <3>6. p = (b - 1) * BlockSize + k - 1
            <4> DEFINE db == d * BlockSize
            <4>1. db \in Nat /\ p = db + m /\ (b - 1) * BlockSize = db
                BY <3>1, <3>2, <3>4
            <4> HIDE DEF db
            <4>2. p = db + k - 1
                BY <3>1, <4>1
            <4> QED BY <4>1, <4>2
        <3> HIDE DEF End, b, k
        <3> QED BY <3>4, <3>5, <3>6
    <2> HIDE DEF End
    <2>3. Found \subseteq Past(s, past)
        <3> SUFFICES ASSUME NEW b \in 1 .. needed, NEW x \in ToSet(Part(b)) PROVE x \in Past(s, past)
            BY <1>10
        <3>1. PICK k \in 1 .. End(b) : x = <<s, (b - 1) * BlockSize + k - 1>>
            BY <1>11
        <3>2. (b - 1) * BlockSize + k - 1 \in 0 .. past
            BY <2>1
        <3> QED BY <3>1, <3>2 DEF Past
    <2>4. Past(s, past) \subseteq Found
        <3> SUFFICES ASSUME NEW p \in 0 .. past PROVE <<s, p>> \in Found
            BY DEF Past
        <3>1. PICK b \in 1 .. needed : \E k \in 1 .. End(b) : p = (b - 1) * BlockSize + k - 1
            BY <2>2
        <3>2. <<s, p>> \in ToSet(Part(b))
            BY <1>11, <3>1
        <3> QED BY <1>10, <3>2
    <2> QED BY <2>3, <2>4
<1> QED BY <1>3, <1>12 DEF table, past, cache

\* A decode step, in both ways.
LEMMA DecodeIsOwnPast ==
    ASSUME NEW batch \in Batches, NEW s \in DOMAIN batch.lens, batch.lens[s] = 1, NEW device
    PROVE  <<DecodeAttention(BlockTable(batch, s), batch.past + 1, CacheOf(batch), device)>>
           = OwnPast(batch, s)
<1> DEFINE seen == Attends(Past(s, batch.past))
           own == OwnPast(batch, s)
<1>1. DecodeAttention(BlockTable(batch, s), batch.past + 1, CacheOf(batch), device) = seen
    BY TensorDecodeIs, PagedDecodeIs, Zenon DEF DecodeAttention
<1>2. own \in Seq(Attention0) /\ Len(own) = 1 /\ own[1] = Attends(Past(s, batch.past + 1 - 1))
    <2>1. /\ own \in Seq(Attention0) /\ Len(own) = batch.lens[s]
          /\ \A t \in 1 .. batch.lens[s] : own[t] = Attends(Past(s, batch.past + t - 1))
        BY OwnPastIs
    <2> HIDE DEF own
    <2>2. 1 \in 1 .. batch.lens[s]
        OBVIOUS
    <2> QED BY <2>1, <2>2
<1>3. batch.past + 1 - 1 = batch.past
    BY BatchIs
<1>4. own[1] = seen /\ seen \in Attention0
    <2>1. seen \in Attention0
        BY BatchIs, PastKeys
    <2> QED BY <1>2, <1>3, <2>1
<1> HIDE DEF own, seen
<1>5. <<seen>> = own
    BY <1>2, <1>4
<1> QED BY <1>1, <1>5 DEF own

\* Every way to run a batch.
LEMMA PlainIs ==
    ASSUME NEW batch \in Batches, batch.past = 0, NEW device
    PROVE  Attended(batch, "plain", device) = FlatOwn(batch)
<1> DEFINE rows == FlattenSeq([s \in DOMAIN batch.lens |-> NewKeys(batch, s)])
<1>1. Attended(batch, "plain", device) = PrefillAttention(rows, batch.lens, device)
    BY DEF Attended
<1>2. EqualWidth(device, batch.lens) => EqualWidthAttention(rows, batch.lens) = FlatOwn(batch)
    BY EqualWidthIsOwnPast
<1>3. VarlenAttention(rows, batch.lens) = FlatOwn(batch)
    BY VarlenIsOwnPast DEF FlatOwn
<1> HIDE DEF rows
<1> QED BY <1>1, <1>2, <1>3 DEF PrefillAttention

LEMMA CachedIs ==
    ASSUME ShortBatches, NEW batch \in Batches, NEW device
    PROVE  Attended(batch, "cached", device) = FlatOwn(batch)
<1> DEFINE Cached(s) == CachedAttention(History(batch, s),
                                        [t \in 1 .. batch.lens[s] |-> batch.past + t - 1])
<1>1. Attended(batch, "cached", device) = FlattenSeq([s \in DOMAIN batch.lens |-> Cached(s)])
    BY DEF Attended
<1>2. \A s \in DOMAIN batch.lens : Cached(s) = OwnPast(batch, s)
    BY CachedIsOwnPast
<1> HIDE DEF Cached
<1>3. [s \in DOMAIN batch.lens |-> Cached(s)] = [s \in DOMAIN batch.lens |-> OwnPast(batch, s)]
    BY <1>2
<1> QED BY <1>1, <1>3 DEF FlatOwn

LEMMA DecodeIs ==
    ASSUME NEW batch \in Batches, \A s \in DOMAIN batch.lens : batch.lens[s] = 1, NEW device
    PROVE  Attended(batch, "decode", device) = FlatOwn(batch)
<1> DEFINE Decoded(s) == DecodeAttention(BlockTable(batch, s), batch.past + 1, CacheOf(batch), device)
           n == Len(batch.lens)
           cu == CuSeqlens(batch.lens)
           own == FlatOwn(batch)
<1>1. Attended(batch, "decode", device) = [s \in DOMAIN batch.lens |-> Decoded(s)]
    BY DEF Attended
<1>2. n \in Nat /\ DOMAIN batch.lens = 1 .. n /\ \A s \in 1 .. n : batch.lens[s] = 1
    BY BatchIs
<1>3. \A s \in 1 .. n : OwnPast(batch, s)[1] = Decoded(s)
    <2>1. \A s \in 1 .. n : <<Decoded(s)>> = OwnPast(batch, s)
        BY <1>2, DecodeIsOwnPast
    <2>2. \A x : <<x>>[1] = x
        OBVIOUS
    <2> HIDE DEF Decoded
    <2> QED BY <2>1, <2>2
<1>4. /\ Begins(n, batch.lens, cu) /\ own \in Seq(Attention0) /\ Len(own) = cu[n]
      /\ \A s \in 1 .. n : \A t \in 1 .. batch.lens[s] : own[cu[s - 1] + t] = OwnPast(batch, s)[t]
    BY <1>2, FlatOwnIs
<1> HIDE DEF Decoded, n, cu, own
<1>5. \A i \in 0 .. n : cu[i] = i * 1
    BY <1>2, <1>4, EvenBegins
<1>6. cu[n] = n /\ \A s \in 1 .. n : cu[s - 1] + 1 = s
    <2>1. n \in 0 .. n /\ \A s \in 1 .. n : s - 1 \in 0 .. n
        BY <1>2
    <2> QED BY <1>2, <1>5, <2>1
<1>7. \A s \in 1 .. n : own[s] = Decoded(s)
    <2>1. \A s \in 1 .. n : own[cu[s - 1] + 1] = OwnPast(batch, s)[1]
        <3>1. \A s \in 1 .. n : 1 \in 1 .. batch.lens[s]
            BY <1>2
        <3> QED BY <1>4, <3>1
    <2> QED BY <1>3, <1>6, <2>1
<1>8. own \in [1 .. n -> Attention0]
    BY <1>4, <1>6, LenProperties
<1> QED BY <1>1, <1>2, <1>7, <1>8 DEF own

LEMMA AttendedIs ==
    ASSUME ShortBatches, NEW batch \in Batches, NEW way \in Ways(batch), NEW device
    PROVE  Attended(batch, way[1], device) = FlatOwn(batch)
<1>1. \/ way = <<"plain", FALSE>> /\ batch.past = 0
      \/ way = <<"cached", FALSE>>
      \/ way \in {<<"decode", g>> : g \in {FALSE} \cup {conf.device # "cpu"}} /\ Range(batch.lens) = {1}
    BY Zenon DEF Ways
<1>2. CASE way = <<"plain", FALSE>> /\ batch.past = 0
    <2>1. way[1] = "plain"
        BY <1>2
    <2> QED BY <1>2, <2>1, PlainIs
<1>3. CASE way = <<"cached", FALSE>>
    <2>1. way[1] = "cached"
        BY <1>3
    <2> QED BY <2>1, CachedIs
<1>4. CASE way \in {<<"decode", g>> : g \in {FALSE} \cup {conf.device # "cpu"}} /\ Range(batch.lens) = {1}
    <2>1. way[1] = "decode"
        <3>1. PICK g \in {FALSE} \cup {conf.device # "cpu"} : way = <<"decode", g>>
            BY <1>4, Zenon
        <3> QED BY <3>1
    <2>2. \A s \in DOMAIN batch.lens : batch.lens[s] \in Range(batch.lens)
        BY DEF Range
    <2>3. \A s \in DOMAIN batch.lens : batch.lens[s] = 1
        BY <1>4, <2>2
    <2> QED BY <2>1, <2>3, DecodeIs
<1> QED BY <1>1, <1>2, <1>3, <1>4

\* On each of the ways a batch can take through the decoder layer, a query attends to its own
\* sequence up to its own position, and its head reads the key/value head of its group, as long
\* as the float type of the mask tells the positions apart (models/llama.py, core/attention).
THEOREM QueriesAttendToTheirPast ==
    ASSUME ShortBatches PROVE ModelSpec => []AttendsOwnPast
<1>1. ModelInit => AttendsOwnPast
    BY DEF ModelInit, AttendsOwnPast, None
<1>2. ASSUME AttendsOwnPast, [ModelNext]_modelVars PROVE AttendsOwnPast'
    <2>1. CASE UNCHANGED output
        BY <1>2, <2>1 DEF AttendsOwnPast
    <2>2. CASE Forward
        <3>1. CASE UNCHANGED output
            BY <2>1, <3>1
        <3>2. CASE ~(UNCHANGED output)
            <4> DEFINE Answered(batch, way) ==
                         output' = [kind |-> "forward", batch |-> batch,
                                    qkv |-> Projections(weights.attn),
                                    attended |-> Attended(batch, way[1], conf.device),
                                    mlp |-> MlpForward(layers, weights.shared, weights.topk,
                                                       batch.tokens, conf.device, way[2])]
            <4>1. PICK batch \in Batches : \E way \in Ways(batch) : Answered(batch, way)
                BY <2>2, <3>2, Zenon DEF Forward
            <4>2. PICK way \in Ways(batch) : Answered(batch, way)
                BY <4>1
            <4>3. output'.batch = batch /\ output'.attended = Attended(batch, way[1], conf.device)
                BY <4>2
            <4>4. output'.attended = FlatOwn(batch)
                BY <4>3, AttendedIs
            <4> QED BY <4>3, <4>4 DEF AttendsOwnPast, FlatOwn
        <3> QED BY <3>1, <3>2
    <2>3. CASE RunKernel
        <3>1. output'.kind \in KernelKinds
            BY <2>3 DEF RunKernel
        <3> QED BY <3>1 DEF KernelKinds, AttendsOwnPast
    <2>4. CASE QuantiseRow
        <3>1. output'.kind = "row"
            BY <2>4 DEF QuantiseRow
        <3> QED BY <3>1 DEF AttendsOwnPast
    <2>5. CASE ~(Forward \/ RunKernel \/ QuantiseRow)
        <3>1. UNCHANGED output
            BY <1>2, <2>5 DEF ModelNext, modelVars, Open, ReadTopk, ReadPrimary, ReadExpertPart,
                              ReadHead, ReadEmbedding, ReadParameter, SkipEntry, Take,
                              Assemble, LoadPacked, Fuse, Quantise
        <3> QED BY <2>1, <3>1
    <2> QED BY <2>2, <2>3, <2>4, <2>5
<1> QED BY <1>1, <1>2, PTL DEF ModelSpec

-----------------------------------------------------------------------------
(* Weights of four and eight bits. *)

\* A place in a sequence of n parts of length w.
PlacedIn(n, w, j) ==
    /\ (j - 1) \div w + 1 \in 1 .. n
    /\ \E t \in 1 .. w : j = ((j - 1) \div w) * w + t

LEMMA EvenPlace ==
    ASSUME NEW n \in Nat, NEW w \in Nat \ {0}, NEW j \in 1 .. (n * w)
    PROVE  PlacedIn(n, w, j)
<1> DEFINE q == (j - 1) \div w
           r == (j - 1) % w
<1>0. n * w \in Nat /\ j \in Nat \ {0} /\ j <= n * w
    OBVIOUS
<1>1. q \in Nat /\ r \in 0 .. (w - 1) /\ j - 1 = w * q + r
    BY <1>0
<1>2. w * q = q * w /\ q * w \in Nat
    BY <1>1
<1> HIDE DEF q, r
<1>3. q < n
    <2>1. SUFFICES ASSUME n <= q PROVE FALSE
        BY <1>1
    <2>2. PICK e \in Nat : q = n + e
        <3>1. q - n \in Nat /\ q = n + (q - n)
            BY <1>1, <2>1
        <3> QED BY <3>1
    <2>3. q * w = n * w + e * w /\ e * w \in Nat
        BY <1>1, <2>2
    <2> QED BY <1>0, <1>1, <1>2, <2>3
<1>4. r + 1 \in 1 .. w /\ j = q * w + (r + 1)
    BY <1>0, <1>1, <1>2
<1> QED BY <1>1, <1>3, <1>4 DEF q, PlacedIn

\* Parts of one length, and the sequence they make.
Spot(i, w, t) == (i - 1) * w + t
Parted(seqs, w) == \A i \in 1 .. Len(seqs) : Len(seqs[i]) = w
Joined(S, seqs, w, all) ==
    /\ all \in Seq(S) /\ Len(all) = Len(seqs) * w
    /\ \A i \in 1 .. Len(seqs) : \A t \in 1 .. w : all[Spot(i, w, t)] = seqs[i][t]

\* Parts of one length, put together.
LEMMA EvenFlatten ==
    ASSUME NEW S, NEW w \in Nat, NEW seqs \in Seq(Seq(S)), Parted(seqs, w)
    PROVE  Joined(S, seqs, w, FlattenSeq(seqs))
<1> DEFINE n == Len(seqs)
           cu == [b \in 0 .. n |-> b * w]
           all == FlattenSeq(seqs)
<1>0. \A i \in 1 .. Len(seqs) : Len(seqs[i]) = w
    BY DEF Parted
<1>1. n \in Nat
    BY Elements
<1>2. Begins(Len(seqs), [b \in 1 .. Len(seqs) |-> Len(seqs[b])], cu)
    <2> HIDE DEF n
    <2>1. \A b \in 1 .. n : b * w = (b - 1) * w + w
        BY <1>1
    <2>2. \A b \in 0 .. n : b * w \in Nat
        BY <1>1
    <2>3. Begins(n, [b \in 1 .. n |-> w], cu)
        <3>1. \A b \in 1 .. n : b \in 0 .. n /\ b - 1 \in 0 .. n
            BY <1>1
        <3>2. cu \in [0 .. n -> Nat] /\ cu[0] = 0
            BY <1>1, <2>2
        <3>3. \A b \in 1 .. n : cu[b] = cu[b - 1] + w
            BY <2>1, <3>1
        <3> HIDE DEF cu
        <3> QED BY <3>2, <3>3 DEF Begins
    <2>4. [b \in 1 .. Len(seqs) |-> Len(seqs[b])] = [b \in 1 .. n |-> w]
        BY <1>0 DEF n
    <2> HIDE DEF cu
    <2>5. Begins(n, [b \in 1 .. Len(seqs) |-> Len(seqs[b])], cu)
        BY <2>3, <2>4, Zenon
    <2> QED BY <2>5 DEF n
<1>3. /\ all \in Seq(S) /\ Len(all) = cu[n]
      /\ \A b \in 1 .. n : \A k \in 1 .. w : all[cu[b - 1] + k] = seqs[b][k]
    <2>1. /\ all \in Seq(S) /\ Len(all) = cu[Len(seqs)]
          /\ \A b \in 1 .. Len(seqs) : \A k \in 1 .. Len(seqs[b]) : all[cu[b - 1] + k] = seqs[b][k]
        <3> HIDE DEF cu
        <3> QED BY <1>2, FlattenPlaces
    <2> HIDE DEF all, cu
    <2> QED BY <1>0, <2>1 DEF n
<1> HIDE DEF all, n
<1>4. cu[n] = n * w /\ \A b \in 1 .. n : cu[b - 1] = (b - 1) * w
    <2>1. n \in 0 .. n /\ \A b \in 1 .. n : b - 1 \in 0 .. n
        BY <1>1
    <2> QED BY <2>1
<1> HIDE DEF cu
<1>5. /\ all \in Seq(S) /\ Len(all) = n * w
      /\ \A b \in 1 .. n : \A k \in 1 .. w : all[Spot(b, w, k)] = seqs[b][k]
    BY <1>3, <1>4 DEF Spot
<1> QED BY <1>5 DEF all, n, Joined

\* Rounding is off by no more than a half.
LEMMA RoundIs ==
    ASSUME NEW a \in Int, NEW b \in Nat \ {0}
    PROVE  LET r == Packing!RoundDiv(a, b)
           IN r \in Int /\ 2 * (r * b - a) <= b /\ 2 * (a - r * b) <= b
<1> DEFINE q == a \div b
           rest == a % b
           r == Packing!RoundDiv(a, b)
<1>1. q \in Int /\ rest \in 0 .. (b - 1) /\ a = b * q + rest
    OBVIOUS
<1>2. r = IF 2 * rest > b \/ (2 * rest = b /\ q % 2 = 1) THEN q + 1 ELSE q
    BY DEF Packing!RoundDiv
<1> HIDE DEF q, rest, r
<1>3. b * q = q * b /\ (q + 1) * b = q * b + b /\ q * b \in Int
    BY <1>1
<1> DEFINE p == q * b
<1>4. CASE r = q + 1
    <2>1. 2 * rest >= b
        BY <1>1, <1>2, <1>4
    <2>2. r * b = p + b /\ a = p + rest /\ p \in Int
        BY <1>1, <1>3, <1>4
    <2> HIDE DEF p
    <2>3. 2 * (r * b - a) <= b /\ 2 * (a - r * b) <= b
        BY <1>1, <2>1, <2>2
    <2> QED BY <1>1, <1>4, <2>3 DEF r
<1>5. CASE r = q /\ r # q + 1
    <2>1. 2 * rest <= b
        BY <1>1, <1>2, <1>5
    <2>2. r * b = p /\ a = p + rest /\ p \in Int
        BY <1>1, <1>3, <1>5
    <2> HIDE DEF p
    <2>3. 2 * (r * b - a) <= b /\ 2 * (a - r * b) <= b
        BY <1>1, <2>1, <2>2
    <2> QED BY <1>1, <1>5, <2>3 DEF r
<1> QED BY <1>1, <1>2, <1>4, <1>5

\* Between two multiples, rounding stays between them.
LEMMA RoundWithin ==
    ASSUME NEW a \in Int, NEW b \in Nat \ {0}, NEW low \in Int, NEW high \in Int,
           low * b <= a, a <= high * b
    PROVE  /\ Packing!RoundDiv(a, b) >= low /\ Packing!RoundDiv(a, b) <= high
           /\ Packing!Bound(Packing!RoundDiv(a, b), low, high) = Packing!RoundDiv(a, b)
<1> DEFINE r == Packing!RoundDiv(a, b)
<1>1. r \in Int /\ 2 * (r * b - a) <= b /\ 2 * (a - r * b) <= b
    BY RoundIs
<1> HIDE DEF r
<1>2. ~(r < low)
    <2>1. SUFFICES ASSUME r < low PROVE FALSE
        OBVIOUS
    <2>2. PICK e \in Nat : low = r + 1 + e
        <3>1. low - r - 1 \in Nat /\ low = r + 1 + (low - r - 1)
            BY <1>1, <2>1
        <3> QED BY <3>1
    <2>3. low * b = r * b + b + e * b /\ e * b \in Nat /\ r * b \in Int
        BY <1>1, <2>2
    <2> QED BY <1>1, <2>3
<1>3. ~(r > high)
    <2>1. SUFFICES ASSUME r > high PROVE FALSE
        OBVIOUS
    <2>2. PICK e \in Nat : r = high + 1 + e
        <3>1. r - high - 1 \in Nat /\ r = high + 1 + (r - high - 1)
            BY <1>1, <2>1
        <3> QED BY <3>1
    <2>3. r * b = high * b + b + e * b /\ e * b \in Nat /\ high * b \in Int
        BY <1>1, <2>2
    <2> QED BY <1>1, <2>3
<1>4. Packing!Bound(r, low, high) = r
    BY <1>1, <1>2, <1>3 DEF Packing!Bound
<1> QED BY <1>1, <1>2, <1>3, <1>4 DEF r

\* Finitely many integers have a greatest and a least.
LEMMA Extremes ==
    ASSUME NEW n \in Nat \ {0}, NEW f \in [1 .. n -> Int]
    PROVE  LET S == {f[i] : i \in 1 .. n}
           IN /\ Max(S) \in S /\ \A x \in S : x <= Max(S)
              /\ Min(S) \in S /\ \A x \in S : Min(S) <= x
<1> DEFINE S == {f[i] : i \in 1 .. n}
           T == {m \in 0 .. n : m = 0 \/ /\ \E i \in 1 .. m : \A j \in 1 .. m : f[i] >= f[j]
                                         /\ \E i \in 1 .. m : \A j \in 1 .. m : f[i] <= f[j]}
<1>1. 0 \in T
    OBVIOUS
<1>2. ASSUME NEW m \in 1 .. n, m - 1 \in T PROVE m \in T
    <2>1. CASE m = 1
        <3>1. \A j \in 1 .. m : j = 1
            BY <2>1
        <3>2. f[1] \in Int /\ 1 \in 1 .. m /\ m \in 0 .. n
            BY <2>1
        <3>3. \A j \in 1 .. m : f[1] >= f[j] /\ f[1] <= f[j]
            BY <3>1, <3>2
        <3>4. \E i \in 1 .. m : \A j \in 1 .. m : f[i] >= f[j]
            BY <3>2, <3>3
        <3>5. \E i \in 1 .. m : \A j \in 1 .. m : f[i] <= f[j]
            BY <3>2, <3>3
        <3> QED BY <3>2, <3>4, <3>5
    <2>2. CASE m # 1
        <3>1. m - 1 # 0 /\ m - 1 \in 1 .. n /\ \A j \in 1 .. m : j = m \/ j \in 1 .. (m - 1)
            BY <2>2
        <3>2. PICK a \in 1 .. (m - 1) : \A j \in 1 .. (m - 1) : f[a] >= f[j]
            BY <1>2, <3>1
        <3>3. PICK b \in 1 .. (m - 1) : \A j \in 1 .. (m - 1) : f[b] <= f[j]
            BY <1>2, <3>1
        <3>4. /\ a \in 1 .. m /\ b \in 1 .. m /\ m \in 1 .. m /\ m \in 0 .. n
              /\ f[a] \in Int /\ f[b] \in Int /\ \A j \in 1 .. m : f[j] \in Int
            BY <3>1
        <3>5. \E i \in 1 .. m : \A j \in 1 .. m : f[i] >= f[j]
            <4>1. CASE f[a] >= f[m]
                BY <3>1, <3>2, <3>4, <4>1
            <4>2. CASE ~(f[a] >= f[m])
                <5>1. \A j \in 1 .. m : f[m] >= f[j]
                    BY <3>1, <3>2, <3>4, <4>2
                <5> QED BY <3>4, <5>1
            <4> QED BY <4>1, <4>2
        <3>6. \E i \in 1 .. m : \A j \in 1 .. m : f[i] <= f[j]
            <4>1. CASE f[b] <= f[m]
                BY <3>1, <3>3, <3>4, <4>1
            <4>2. CASE ~(f[b] <= f[m])
                <5>1. \A j \in 1 .. m : f[m] <= f[j]
                    BY <3>1, <3>3, <3>4, <4>2
                <5> QED BY <3>4, <5>1
            <4> QED BY <4>1, <4>2
        <3> QED BY <3>4, <3>5, <3>6
    <2> QED BY <2>1, <2>2
<1> HIDE DEF T
<1>3. n \in T
    <2>1. \A i \in 0 .. n : i \in T
        BY <1>1, <1>2, LoopInduction
    <2> QED BY <2>1
<1>4. PICK a \in 1 .. n : \A j \in 1 .. n : f[a] >= f[j]
    BY <1>3 DEF T
<1>5. PICK b \in 1 .. n : \A j \in 1 .. n : f[b] <= f[j]
    BY <1>3 DEF T
<1>6. \A x \in S : x \in Int
    OBVIOUS
<1>7. f[a] \in S /\ \A x \in S : f[a] >= x
    BY <1>4
<1>8. f[b] \in S /\ \A x \in S : f[b] <= x
    BY <1>5
<1> HIDE DEF S
<1>9. Max(S) \in S /\ \A x \in S : Max(S) >= x
    BY <1>7 DEF Max
<1>10. Min(S) \in S /\ \A x \in S : Min(S) <= x
    BY <1>8 DEF Min
<1>11. \A x \in S : x <= Max(S)
    BY <1>6, <1>9
<1> QED BY <1>9, <1>10, <1>11 DEF S

\* The operators of the packing are those of the community modules.
LEMMA PackingIs ==
    /\ \A S : Packing!Max(S) = Max(S) /\ Packing!Min(S) = Min(S)
    /\ \A s : Packing!ToSet(s) = ToSet(s)
    /\ \A s : Packing!FlattenSeq(s) = FlattenSeq(s)
<1>1. \A S : Packing!Max(S) = Max(S) /\ Packing!Min(S) = Min(S)
    BY DEF Packing!Max, Packing!Min, Max, Min
<1>2. \A s : Packing!ToSet(s) = ToSet(s)
    BY DEF Packing!ToSet, ToSet
<1>3. \A s : Packing!FlattenSeq(s) = FlattenSeq(s)
    BY DEF Packing!FlattenSeq, FlattenSeq
<1> QED BY <1>1, <1>2, <1>3

\* The ends of a group.
LEMMA GroupIs ==
    ASSUME NEW n \in Nat \ {0}, NEW group \in [1 .. n -> Int]
    PROVE  /\ Packing!Low(group) \in Int /\ Packing!Span(group) \in Nat
           /\ Min(Range(group)) = Packing!Low(group)
           /\ Max(Range(group)) = Packing!Low(group) + Packing!Span(group)
           /\ \A j \in 1 .. n : /\ Packing!Low(group) <= group[j]
                                /\ group[j] <= Packing!Low(group) + Packing!Span(group)
<1> DEFINE S == {group[i] : i \in 1 .. n}
<1>1. /\ Max(S) \in S /\ \A x \in S : x <= Max(S)
      /\ Min(S) \in S /\ \A x \in S : Min(S) <= x
    BY Extremes
<1>2. ToSet(group) = S /\ Range(group) = S
    BY DEF ToSet, Range
<1>3. Packing!Low(group) = Min(S) /\ Packing!Span(group) = Max(S) - Min(S)
    BY <1>2, PackingIs DEF Packing!Low, Packing!Span
<1>4. \A j \in 1 .. n : group[j] \in S
    OBVIOUS
<1>5. S \subseteq Int
    OBVIOUS
<1> HIDE DEF S
<1>6. Max(S) \in Int /\ Min(S) \in Int /\ Max(S) - Min(S) \in Nat
    <2> DEFINE a == Min(S)
               b == Max(S)
    <2>1. a \in Int /\ b \in Int /\ a <= b
        BY <1>1, <1>5
    <2> HIDE DEF a, b
    <2>2. b - a \in Nat
        BY <2>1
    <2> QED BY <2>1, <2>2 DEF a, b
<1>7. Max(S) = Min(S) + (Max(S) - Min(S))
    BY <1>6
<1> QED BY <1>1, <1>2, <1>3, <1>4, <1>6, <1>7

\* A value of a group, in fifteenths of its span.
LEMMA QuantisedIs ==
    ASSUME NEW n \in Nat \ {0}, NEW group \in [1 .. n -> Int]
    PROVE  /\ Packing!Quantised(group) \in [1 .. n -> 0 .. 15]
           /\ Packing!ZeroPoint(group) \in 0 .. 15
           /\ Packing!Low(group) <= 0 /\ Packing!Low(group) + Packing!Span(group) >= 0 =>
                \A j \in 1 .. n :
                   LET e == (Packing!Quantised(group)[j] - Packing!ZeroPoint(group))
                              * Packing!Span(group) - 15 * group[j]
                   IN e <= Packing!Span(group) /\ -e <= Packing!Span(group)
<1> DEFINE low == Packing!Low(group)
           span == Packing!Span(group)
           z == Packing!ZeroPoint(group)
           q == Packing!Quantised(group)
<1>1. low \in Int /\ span \in Nat /\ \A j \in 1 .. n : low <= group[j] /\ group[j] <= low + span
    BY GroupIs
<1>2. q = [j \in 1 .. n |-> IF span = 0 THEN 0
                            ELSE Packing!Bound(Packing!RoundDiv((group[j] - low) * 15, span), 0, 15)]
    BY DEF Packing!Quantised, Packing!Levels
<1>3. z = IF span = 0 THEN IF low < 0 THEN 15 ELSE 0
          ELSE Packing!Bound(Packing!RoundDiv((-low) * 15, span), 0, 15)
    <2>1. z = IF span = 0 THEN IF low < 0 THEN 15 ELSE 0
              ELSE Packing!Bound(Packing!RoundDiv(-low * 15, span), 0, 15)
        BY DEF Packing!ZeroPoint, Packing!Levels
    <2>2. -low * 15 = (-low) * 15
        BY <1>1
    <2> HIDE DEF z, low, span
    <2> QED BY <2>1, <2>2, Zenon
<1> HIDE DEF low, span, z, q
<1>4. CASE span = 0
    <2>1. q \in [1 .. n -> 0 .. 15] /\ z \in 0 .. 15
        BY <1>2, <1>3, <1>4
    <2>2. ASSUME low <= 0, low + span >= 0, NEW j \in 1 .. n
          PROVE  LET e == (q[j] - z) * span - 15 * group[j] IN e <= span /\ -e <= span
        <3>1. low = 0
            BY <1>1, <1>4, <2>2
        <3>2. z = 0 /\ q[j] = 0 /\ group[j] = 0
            <4>1. z = 0
                BY <1>3, <1>4, <3>1
            <4>2. q[j] = 0
                BY <1>2, <1>4
            <4>3. group[j] = 0
                <5> DEFINE x == group[j]
                <5>1. x \in Int /\ low <= x /\ x <= low + span
                    BY <1>1
                <5> HIDE DEF x
                <5>2. x = 0
                    BY <1>4, <3>1, <5>1
                <5> QED BY <5>2 DEF x
            <4> QED BY <4>1, <4>2, <4>3
        <3>3. (0 - 0) * 0 - 15 * 0 = 0
            OBVIOUS
        <3> HIDE DEF low, span, z, q
        <3>4. (q[j] - z) * span - 15 * group[j] = (0 - 0) * 0 - 15 * 0
            BY <1>4, <3>2, Zenon
        <3> DEFINE e == (q[j] - z) * span - 15 * group[j]
        <3>5. e = 0
            BY <3>3, <3>4, Zenon
        <3> HIDE DEF e
        <3>6. e <= span /\ -e <= span
            BY <1>4, <3>5
        <3> QED BY <3>6 DEF e
    <2> QED BY <2>1, <2>2 DEF low, span, z, q
<1>5. CASE span # 0
    <2> DEFINE Nearest(a) == Packing!RoundDiv(a, span)
    <2>1. \A a \in Int : /\ Packing!Bound(Nearest(a), 0, 15) \in 0 .. 15
                         /\ 0 <= a /\ a <= 15 * span =>
                              LET r == Packing!Bound(Nearest(a), 0, 15)
                              IN 2 * (r * span - a) <= span /\ 2 * (a - r * span) <= span
        <3> SUFFICES ASSUME NEW a \in Int
                     PROVE  /\ Packing!Bound(Nearest(a), 0, 15) \in 0 .. 15
                            /\ 0 <= a /\ a <= 15 * span =>
                                 LET r == Packing!Bound(Nearest(a), 0, 15)
                                 IN 2 * (r * span - a) <= span /\ 2 * (a - r * span) <= span
            OBVIOUS
        <3>1. Nearest(a) \in Int
              /\ 2 * (Nearest(a) * span - a) <= span /\ 2 * (a - Nearest(a) * span) <= span
            BY <1>1, <1>5, RoundIs
        <3>2. 0 <= a /\ a <= 15 * span => Packing!Bound(Nearest(a), 0, 15) = Nearest(a)
            <4> DEFINE none == 0
                       most == 15
            <4>1. /\ none \in Int /\ most \in Int /\ span \in Nat \ {0}
                  /\ none * span = 0 /\ most * span = 15 * span
                BY <1>1, <1>5
            <4>2. none * span <= a /\ a <= most * span
                  => Packing!Bound(Nearest(a), none, most) = Nearest(a)
                <5> HIDE DEF none, most
                <5> QED BY <4>1, RoundWithin
            <4> QED BY <4>1, <4>2
        <3>3. Packing!Bound(Nearest(a), 0, 15) \in 0 .. 15
            <4> DEFINE r == Nearest(a)
            <4>1. r \in Int
                BY <3>1
            <4> HIDE DEF r
            <4>2. Packing!Bound(r, 0, 15) \in 0 .. 15
                BY <4>1 DEF Packing!Bound
            <4> QED BY <4>2 DEF r
        <3> QED BY <3>1, <3>2, <3>3
    <2> DEFINE B(a) == Packing!Bound(Nearest(a), 0, 15)
    <2>2. (\A j \in 1 .. n : q[j] = B((group[j] - low) * 15)) /\ z = B((-low) * 15)
        BY <1>2, <1>3, <1>5
    <2>3. \A a \in Int : B(a) \in 0 .. 15
        BY <2>1
    <2>4. \A a \in Int : 0 <= a /\ a <= 15 * span =>
             2 * (B(a) * span - a) <= span /\ 2 * (a - B(a) * span) <= span
        BY <2>1
    <2>5. q \in [1 .. n -> 0 .. 15] /\ z \in 0 .. 15
        <3>1. \A j \in 1 .. n : (group[j] - low) * 15 \in Int
            BY <1>1
        <3>2. \A j \in 1 .. n : q[j] \in 0 .. 15
            <4> HIDE DEF B
            <4> QED BY <2>2, <2>3, <3>1
        <3>3. z \in 0 .. 15
            <4>1. (-low) * 15 \in Int
                BY <1>1
            <4> HIDE DEF B
            <4> QED BY <2>2, <2>3, <4>1
        <3>4. q = [j \in 1 .. n |-> q[j]]
            BY <1>2
        <3> QED BY <3>2, <3>3, <3>4
    <2>6. ASSUME low <= 0, low + span >= 0, NEW j \in 1 .. n
          PROVE  LET e == (q[j] - z) * span - 15 * group[j] IN e <= span /\ -e <= span
        <3> DEFINE a == (group[j] - low) * 15
                   b == (-low) * 15
        <3>1. /\ group[j] \in Int /\ low <= group[j] /\ group[j] <= low + span
              /\ a \in Int /\ b \in Int /\ a - b = 15 * group[j]
              /\ 0 <= a /\ a <= 15 * span /\ 0 <= b /\ b <= 15 * span
            BY <1>1, <2>6
        <3> HIDE DEF a, b, B
        <3>2. q[j] = B(a) /\ z = B(b)
            BY <2>2 DEF a, b
        <3>3. /\ 2 * (q[j] * span - a) <= span /\ 2 * (a - q[j] * span) <= span
              /\ 2 * (z * span - b) <= span /\ 2 * (b - z * span) <= span
            BY <2>4, <3>1, <3>2
        <3>4. (q[j] - z) * span = q[j] * span - z * span /\ q[j] * span \in Int /\ z * span \in Int
            <4> DEFINE qj == q[j]
            <4>1. qj \in Int /\ z \in Int /\ span \in Int
                <5>1. qj \in 0 .. 15
                    BY <2>5
                <5>2. z \in 0 .. 15
                    BY <2>5
                <5> HIDE DEF qj
                <5> QED BY <1>1, <5>1, <5>2
            <4> HIDE DEF qj
            <4>2. (qj - z) * span = qj * span - z * span /\ qj * span \in Int /\ z * span \in Int
                BY <4>1
            <4> QED BY <4>2 DEF qj
        <3> DEFINE c == q[j] * span
                   d == z * span
        <3>5. c \in Int /\ d \in Int /\ (q[j] - z) * span = c - d
            BY <3>4
        <3>6. /\ 2 * (c - a) <= span /\ 2 * (a - c) <= span
              /\ 2 * (d - b) <= span /\ 2 * (b - d) <= span
            BY <3>3
        <3> HIDE DEF c, d
        <3>7. (c - d) - (a - b) <= span /\ -((c - d) - (a - b)) <= span
            BY <1>1, <3>1, <3>5, <3>6
        <3> QED BY <3>1, <3>5, <3>7
    <2> QED BY <2>5, <2>6 DEF low, span, z, q
<1> QED BY <1>4, <1>5

\* A row on one symmetric scale.
LEMMA SymmetricIs ==
    ASSUME NEW n \in Nat \ {0}, NEW row \in [1 .. n -> Int], NEW j \in 1 .. n
    PROVE  LET e == 2 * (Packing!DequantizeInt8(Packing!QuantizeInt8(row))[j] - 127 * row[j])
               most == Max({row[k] : k \in DOMAIN row} \cup {-row[k] : k \in DOMAIN row})
           IN e <= most /\ -e <= most
<1> DEFINE g == [i \in 1 .. n |-> IF row[i] < 0 THEN -row[i] ELSE row[i]]
           S == {g[i] : i \in 1 .. n}
           B == {row[k] : k \in DOMAIN row} \cup {-row[k] : k \in DOMAIN row}
           m == Packing!Magnitude(row)
           x == row[j]
           v == Packing!DequantizeInt8(Packing!QuantizeInt8(row))[j]
<1>1. m = Max(S)
    <2>1. {IF w < 0 THEN -w ELSE w : w \in ToSet(row)} = S
        BY DEF ToSet
    <2> HIDE DEF S, g
    <2> QED BY <2>1, PackingIs DEF Packing!Magnitude
<1>2. /\ m \in Nat /\ \E i \in 1 .. n : m = row[i] \/ m = -row[i]
      /\ \A i \in 1 .. n : row[i] <= m /\ -row[i] <= m
    <2>1. \A i \in 1 .. n : g[i] \in Nat /\ row[i] <= g[i] /\ -row[i] <= g[i]
                            /\ (g[i] = row[i] \/ g[i] = -row[i])
        OBVIOUS
    <2>2. g \in [1 .. n -> Int]
        OBVIOUS
    <2> HIDE DEF g, m
    <2>3. m \in S /\ \A y \in S : y <= m
        BY <1>1, <2>2, Extremes
    <2>4. PICK i \in 1 .. n : m = g[i]
        BY <2>3
    <2>5. m \in Nat /\ (m = row[i] \/ m = -row[i])
        BY <2>1, <2>4
    <2>6. ASSUME NEW k \in 1 .. n PROVE row[k] <= m /\ -row[k] <= m
        <3>1. g[k] <= m
            BY <2>3
        <3>2. g[k] \in Nat /\ row[k] \in Int /\ row[k] <= g[k] /\ -row[k] <= g[k]
            BY <2>1
        <3> QED BY <2>5, <3>1, <3>2
    <2> QED BY <2>4, <2>5, <2>6
<1> HIDE DEF S, g, m
<1>3. Max(B) >= m
    <2>1. m \in B
        BY <1>2
    <2>2. \A y \in B : m >= y
        BY <1>2
    <2> HIDE DEF B
    <2>3. \A y \in B : Max(B) >= y
        BY <2>1, <2>2 DEF Max
    <2> QED BY <2>1, <2>3
<1>4. Max(B) \in Int
    <2>1. m \in B /\ B \subseteq Int
        BY <1>2
    <2>2. \A y \in B : m >= y
        BY <1>2
    <2> HIDE DEF B
    <2> QED BY <2>1, <2>2 DEF Max
<1>5. v = (IF m = 0 THEN 0 ELSE Packing!Bound(Packing!RoundDiv(x * 127, m), -128, 127)) * m
    BY DEF Packing!DequantizeInt8, Packing!QuantizeInt8, m
<1>6. x \in Int /\ x <= m /\ -x <= m
    BY <1>2
<1> HIDE DEF B, x, v
<1>7. v \in Int /\ 2 * (v - 127 * x) <= m /\ 2 * (127 * x - v) <= m
    <2>1. CASE m = 0
        <3>1. x = 0 /\ v = 0
            BY <1>2, <1>5, <1>6, <2>1
        <3> QED BY <2>1, <3>1
    <2>2. CASE m # 0
        <3> DEFINE a == x * 127
                   r == Packing!RoundDiv(a, m)
        <3>1. a \in Int /\ m \in Nat \ {0} /\ a = 127 * x
            BY <1>2, <1>6, <2>2
        <3> HIDE DEF a
        <3>2. r \in Int /\ 2 * (r * m - a) <= m /\ 2 * (a - r * m) <= m
            BY <3>1, RoundIs
        <3>3. r >= -127 /\ r <= 127
            <4> DEFINE least == -127
                       most == 127
            <4>1. /\ least \in Int /\ most \in Int
                  /\ least * m <= a /\ a <= most * m
                BY <1>6, <3>1 DEF a
            <4>2. r >= least /\ r <= most
                <5> HIDE DEF least, most
                <5> QED BY <3>1, <4>1, RoundWithin
            <4> QED BY <4>2
        <3> HIDE DEF r
        <3>4. Packing!Bound(r, -128, 127) = r
            BY <3>2, <3>3 DEF Packing!Bound
        <3>5. v = r * m
            BY <1>5, <2>2, <3>4 DEF r, a
        <3>6. r * m \in Int
            BY <3>1, <3>2
        <3> QED BY <3>1, <3>2, <3>5, <3>6
    <2> QED BY <2>1, <2>2
<1>8. 2 * (v - 127 * x) <= Max(B) /\ -(2 * (v - 127 * x)) <= Max(B)
    BY <1>2, <1>3, <1>4, <1>6, <1>7
<1> QED BY <1>8 DEF B, x, v

\* What is packed is unpacked.
LEMMA UnpackedIs ==
    ASSUME NEW qs \in Seq(0 .. 15), NEW h \in Nat, Len(qs) = h * 2
    PROVE  Packing!Unpacked(Packing!Packed(qs)) = qs
<1> DEFINE bytes == Packing!Packed(qs)
           pair(b) == <<(bytes[b] \div 16) % 16, bytes[b] % 16>>
           seqs == [b \in DOMAIN bytes |-> pair(b)]
           flat == FlattenSeq(seqs)
<1>1. qs \in [1 .. h * 2 -> 0 .. 15] /\ h * 2 \in Nat /\ (h * 2) \div 2 = h
    BY Elements
<1>2. bytes = [b \in 1 .. h |-> qs[2 * b - 1] * 16 + qs[2 * b]]
    BY <1>1 DEF Packing!Packed, Packing!Nibble
<1>3. Packing!Unpacked(bytes) = flat
    BY PackingIs DEF Packing!Unpacked, Packing!Nibble
<1>4. \A b \in 1 .. h : bytes[b] = qs[2 * b - 1] * 16 + qs[2 * b]
    BY <1>2
<1>5. DOMAIN bytes = 1 .. h
    BY <1>2
<1> HIDE DEF bytes
<1>6. \A b \in 1 .. h : pair(b) = <<qs[2 * b - 1], qs[2 * b]>> /\ pair(b) \in Seq(0 .. 15)
    <2> SUFFICES ASSUME NEW b \in 1 .. h
                 PROVE  pair(b) = <<qs[2 * b - 1], qs[2 * b]>> /\ pair(b) \in Seq(0 .. 15)
        OBVIOUS
    <2> DEFINE p == qs[2 * b - 1]
               q == qs[2 * b]
    <2>1. p \in 0 .. 15 /\ q \in 0 .. 15 /\ bytes[b] = p * 16 + q
        BY <1>1, <1>4
    <2> HIDE DEF p, q
    <2>2. (p * 16 + q) \div 16 = p /\ (p * 16 + q) % 16 = q /\ p % 16 = p
        BY <2>1
    <2>3. pair(b) = <<p, q>>
        BY <2>1, <2>2
    <2>4. <<p, q>> \in Seq(0 .. 15)
        BY <2>1
    <2> QED BY <2>3, <2>4 DEF p, q
<1>7. \A b \in 1 .. h : pair(b)[1] = qs[2 * b - 1] /\ pair(b)[2] = qs[2 * b] /\ Len(pair(b)) = 2
    <2> HIDE DEF pair
    <2> QED BY <1>6
<1> HIDE DEF pair
<1>8. seqs \in Seq(Seq(0 .. 15)) /\ Len(seqs) = h /\ \A b \in 1 .. h : seqs[b] = pair(b)
    <2>1. seqs = [b \in 1 .. h |-> pair(b)]
        BY <1>5
    <2> HIDE DEF seqs
    <2>2. \A b \in 1 .. h : pair(b) \in Seq(0 .. 15)
        BY <1>6
    <2> QED BY <2>1, <2>2
<1> HIDE DEF seqs
<1>9. /\ flat \in Seq(0 .. 15) /\ Len(flat) = h * 2
      /\ \A b \in 1 .. h : \A t \in 1 .. 2 : flat[(b - 1) * 2 + t] = pair(b)[t]
    <2> DEFINE two == 2
               S == 0 .. 15
    <2>1. two \in Nat /\ Parted(seqs, two) /\ seqs \in Seq(Seq(S))
        BY <1>7, <1>8 DEF Parted
    <2> HIDE DEF two, S
    <2>2. Joined(S, seqs, two, flat)
        BY <2>1, EvenFlatten
    <2> HIDE DEF flat
    <2> QED BY <1>8, <2>2 DEF Joined, two, S, Spot
<1> HIDE DEF flat
<1>10. \A j \in 1 .. h * 2 : flat[j] = qs[j]
    <2> SUFFICES ASSUME NEW j \in 1 .. h * 2 PROVE flat[j] = qs[j]
        OBVIOUS
    <2>1. PICK b \in 1 .. h : j = 2 * b - 1 \/ j = 2 * b
        <3>1. (j + 1) \div 2 \in 1 .. h /\ (j = 2 * ((j + 1) \div 2) - 1 \/ j = 2 * ((j + 1) \div 2))
            BY <1>1
        <3> QED BY <3>1
    <2>2. (b - 1) * 2 + 1 = 2 * b - 1 /\ (b - 1) * 2 + 2 = 2 * b
        OBVIOUS
    <2>3. flat[2 * b - 1] = pair(b)[1] /\ flat[2 * b] = pair(b)[2]
        BY <1>9, <2>2
    <2> QED BY <1>7, <2>1, <2>3
<1>11. flat = qs
    <2>1. flat \in [1 .. h * 2 -> 0 .. 15]
        BY <1>9, Elements
    <2> QED BY <1>1, <1>10, <2>1
<1> QED BY <1>3, <1>11 DEF bytes

\* The groups of a row.
LEMMA GroupsAre ==
    ASSUME NEW row \in Seq(Int), NEW size \in Nat \ {0}, NEW m \in Nat, Len(row) = m * size
    PROVE  LET gs == Packing!Groups(row, size)
           IN /\ gs \in [1 .. m -> [1 .. size -> Int]]
              /\ \A g \in 1 .. m : \A t \in 1 .. size : gs[g][t] = row[(g - 1) * size + t]
<1> DEFINE gs == Packing!Groups(row, size)
           from(g) == (g - 1) * size + 1
           to(g) == g * size
<1>1. m * size \in Nat /\ \A k \in 1 .. m * size : row[k] \in Int
    BY Elements
<1>2. (m * size) \div size = m
    <2>1. m * size + 0 = m * size /\ 0 \in 0 .. (size - 1)
        BY <1>1
    <2> DEFINE none == 0
    <2>2. none \in 0 .. (size - 1)
        BY <2>1
    <2> HIDE DEF none
    <2>3. (m * size + none) \div size = m
        BY <2>2, Divided
    <2> QED BY <2>1, <2>3 DEF none
<1>3. gs = [g \in 1 .. m |-> SubSeq(row, from(g), to(g))]
    BY <1>2 DEF Packing!Groups
<1>4. ASSUME NEW g \in 1 .. m
      PROVE  /\ SubSeq(row, from(g), to(g)) \in [1 .. size -> Int]
             /\ \A t \in 1 .. size : SubSeq(row, from(g), to(g))[t] = row[(g - 1) * size + t]
    <2> DEFINE p == (g - 1) * size
               a == from(g)
               b == to(g)
    <2>1. PICK e \in Nat : m = g + e
        <3>1. m - g \in Nat /\ m = g + (m - g)
            OBVIOUS
        <3> QED BY <3>1
    <2>2. p \in Nat /\ b = p + size /\ m * size = b + e * size /\ e * size \in Nat
        BY <2>1
    <2>3. a = p + 1
        OBVIOUS
    <2> HIDE DEF p, a, b
    <2>4. a \in Int /\ b \in Int /\ b - a + 1 = size /\ \A k \in a .. b : k \in 1 .. m * size
        BY <1>1, <2>2, <2>3
    <2>5. \A k \in a .. b : row[k] \in Int
        BY <1>1, <2>4
    <2>6. /\ SubSeq(row, a, b) \in Seq(Int)
          /\ Len(SubSeq(row, a, b)) = IF a <= b THEN b - a + 1 ELSE 0
          /\ \A k \in 1 .. b - a + 1 : SubSeq(row, a, b)[k] = row[a + k - 1]
        BY <2>4, <2>5, SubSeqProperties
    <2>7. a <= b
        BY <2>2, <2>3
    <2>8. SubSeq(row, a, b) \in [1 .. size -> Int]
        <3> DEFINE part == SubSeq(row, a, b)
        <3>1. part \in Seq(Int) /\ Len(part) = size
            BY <2>4, <2>6, <2>7
        <3> HIDE DEF part
        <3>2. part \in [1 .. size -> Int]
            BY <3>1, LenProperties
        <3> QED BY <3>2 DEF part
    <2>9. ASSUME NEW t \in 1 .. size PROVE SubSeq(row, a, b)[t] = row[p + t]
        <3>1. a + t - 1 = p + t /\ t \in 1 .. b - a + 1
            BY <2>2, <2>3, <2>4
        <3> QED BY <2>6, <3>1
    <2> QED BY <2>8, <2>9 DEF p, a, b
<1>5. \A g \in 1 .. m : gs[g] = SubSeq(row, from(g), to(g))
    BY <1>3
<1> HIDE DEF gs, from, to
<1>6. gs \in [1 .. m -> [1 .. size -> Int]]
    BY <1>3, <1>4
<1>7. \A g \in 1 .. m : \A t \in 1 .. size : gs[g][t] = row[(g - 1) * size + t]
    BY <1>4, <1>5
<1> QED BY <1>6, <1>7 DEF gs

\* Four bits, group by group.
LEMMA FourBitsAre ==
    ASSUME NEW row \in Seq(Int), NEW size \in Nat \ {0}, NEW m \in Nat, NEW h \in Nat,
           Len(row) = m * size, Len(row) = h * 2, NEW j \in 1 .. Len(row)
    PROVE  LET group == Packing!Groups(row, size)[GroupOf(j, size)]
               span == Max(Range(group)) - Min(Range(group))
               e == Packing!DequantizeInt4(Packing!QuantizeInt4(row, size), size)[j] - 15 * row[j]
           IN Min(Range(group)) <= 0 /\ Max(Range(group)) >= 0 => e <= span /\ -e <= span
<1> DEFINE gs == Packing!Groups(row, size)
           parts == [g \in DOMAIN gs |-> Packing!Quantised(gs[g])]
           qs == FlattenSeq(parts)
           four == Packing!QuantizeInt4(row, size)
           back == Packing!DequantizeInt4(four, size)
           g0 == GroupOf(j, size)
           group == gs[g0]
           n == m * size
<1>1. n \in Nat /\ Len(row) = n /\ j \in 1 .. n
    OBVIOUS
<1>2. /\ gs \in [1 .. m -> [1 .. size -> Int]]
      /\ \A g \in 1 .. m : \A t \in 1 .. size : gs[g][t] = row[(g - 1) * size + t]
    <2> HIDE DEF gs
    <2> QED BY GroupsAre DEF gs
<1>3. PICK t \in 1 .. size : g0 \in 1 .. m /\ j = (g0 - 1) * size + t
    <2>1. /\ (j - 1) \div size + 1 \in 1 .. m
          /\ \E t \in 1 .. size : j = ((j - 1) \div size) * size + t
        BY <1>1, EvenPlace DEF PlacedIn
    <2>2. g0 = (j - 1) \div size + 1
        BY DEF GroupOf
    <2> DEFINE d == (j - 1) \div size
    <2>3. d \in Int /\ g0 = d + 1 /\ d + 1 \in 1 .. m /\ \E t \in 1 .. size : j = d * size + t
        BY <2>1, <2>2
    <2> HIDE DEF d, g0
    <2>4. g0 - 1 = d
        BY <2>3
    <2> QED BY <2>3, <2>4
<1> HIDE DEF g0
<1>4. four = [packed |-> Packing!Packed(qs),
              scale |-> [g \in DOMAIN gs |-> Packing!Span(gs[g])],
              zero |-> [g \in DOMAIN gs |-> Packing!ZeroPoint(gs[g])]]
    BY PackingIs DEF Packing!QuantizeInt4
<1> HIDE DEF gs
<1>5. group \in [1 .. size -> Int] /\ group[t] = row[j]
    BY <1>2, <1>3
<1>6. parts \in Seq(Seq(0 .. 15)) /\ Len(parts) = m
      /\ \A g \in 1 .. m : Len(parts[g]) = size /\ parts[g] = Packing!Quantised(gs[g])
    <2>1. \A g \in 1 .. m : Packing!Quantised(gs[g]) \in [1 .. size -> 0 .. 15]
        BY <1>2, QuantisedIs
    <2>2. \A g \in 1 .. m : /\ Packing!Quantised(gs[g]) \in Seq(0 .. 15)
                            /\ Len(Packing!Quantised(gs[g])) = size
        BY <2>1, SeqDef
    <2>3. parts = [g \in 1 .. m |-> Packing!Quantised(gs[g])]
        BY <1>2
    <2> HIDE DEF parts
    <2> QED BY <2>2, <2>3
<1> HIDE DEF parts
<1>7. /\ qs \in Seq(0 .. 15) /\ Len(qs) = n
      /\ \A g \in 1 .. m : \A k \in 1 .. size : qs[Spot(g, size, k)] = parts[g][k]
    <2> DEFINE S == 0 .. 15
    <2>1. parts \in Seq(Seq(S)) /\ Parted(parts, size)
        BY <1>6 DEF Parted
    <2> HIDE DEF S
    <2>2. Joined(S, parts, size, qs)
        BY <2>1, EvenFlatten
    <2> HIDE DEF qs
    <2> QED BY <1>6, <2>2 DEF Joined, S, Spot
<1> HIDE DEF qs, n
<1>8. Packing!Unpacked(four.packed) = qs
    BY <1>1, <1>4, <1>7, UnpackedIs
<1>9. DOMAIN qs = 1 .. n
    BY <1>7, Elements
<1>10. back = [i \in DOMAIN qs |-> (qs[i] - four.zero[GroupOf(i, size)]) * four.scale[GroupOf(i, size)]]
    BY <1>8 DEF Packing!DequantizeInt4, GroupOf
<1>11. back[j] = (qs[j] - four.zero[g0]) * four.scale[g0]
    BY <1>1, <1>9, <1>10 DEF g0
<1>12. four.zero[g0] = Packing!ZeroPoint(group) /\ four.scale[g0] = Packing!Span(group)
    BY <1>2, <1>3, <1>4
<1>13. qs[j] = Packing!Quantised(group)[t]
    BY <1>3, <1>6, <1>7 DEF Spot
<1> HIDE DEF back, four, group
<1>14. /\ Min(Range(group)) = Packing!Low(group)
       /\ Max(Range(group)) = Packing!Low(group) + Packing!Span(group)
       /\ Packing!Low(group) \in Int /\ Packing!Span(group) \in Nat
    BY <1>5, GroupIs
<1>15. Packing!Low(group) <= 0 /\ Packing!Low(group) + Packing!Span(group) >= 0 =>
         LET e == (Packing!Quantised(group)[t] - Packing!ZeroPoint(group))
                    * Packing!Span(group) - 15 * group[t]
         IN e <= Packing!Span(group) /\ -e <= Packing!Span(group)
    BY <1>5, QuantisedIs
<1>16. Min(Range(group)) <= 0 /\ Max(Range(group)) >= 0 =>
         LET e == back[j] - 15 * row[j] IN e <= Packing!Span(group) /\ -e <= Packing!Span(group)
    BY <1>5, <1>11, <1>12, <1>13, <1>14, <1>15
<1>17. Max(Range(group)) - Min(Range(group)) = Packing!Span(group)
    BY <1>14
<1> QED BY <1>16, <1>17 DEF group, gs, g0, back, four

\* A number's digits below a place, and what is above them.
Above(x, w, q) == w \in Nat \ {0} /\ q \in Int /\ \E low \in 0 .. (w - 1) : x = q * w + low

\* A digit before a number, the next place, and the digit at a place.
Puts(p, n, q) == n \in 0 .. 15 /\ q \in Int /\ p = n + 16 * q
NextPlace(w, v) == w \in Nat \ {0} /\ v = 16 * w
DigitAt(x, w, n) == (x \div w) % 16 = n

\* One digit further.
LEMMA NextDigit ==
    ASSUME NEW x \in Int, NEW w, NEW v, NextPlace(w, v), NEW p, NEW n, NEW q, Puts(p, n, q),
           Above(x, w, p)
    PROVE  DigitAt(x, w, n) /\ Above(x, v, q)
<1>0. /\ w \in Nat \ {0} /\ v = 16 * w
      /\ n \in 0 .. 15 /\ q \in Int /\ p = n + 16 * q
    BY DEF NextPlace, Puts
<1>1. p \in Int /\ p % 16 = n
    BY <1>0
<1>2. PICK low \in 0 .. (w - 1) : x = p * w + low
    BY DEF Above
<1>3. (p * w + low) \div w = p
    BY <1>0, <1>1, <1>2, Divided
<1>4. (x \div w) % 16 = n
    BY <1>1, <1>2, <1>3
<1>5. Above(x, v, q)
    <2> DEFINE rest == n * w + low
    <2>1. v \in Nat \ {0} /\ w \in Int /\ low \in Int
        BY <1>0
    <2>2. n * w \in Nat /\ n * w <= 15 * w
        <3>1. PICK e \in Nat : 15 = n + e
            <4>1. 15 - n \in Nat /\ 15 = n + (15 - n)
                BY <1>0
            <4> QED BY <4>1
        <3>2. 15 * w = n * w + e * w /\ e * w \in Nat /\ n * w \in Nat
            BY <1>0, <3>1
        <3> QED BY <3>2
    <2>3. rest \in 0 .. (v - 1)
        <3> DEFINE m == n * w
        <3>1. m \in Nat /\ m <= 15 * w
            BY <2>2
        <3> HIDE DEF m
        <3>2. m + low \in 0 .. (v - 1)
            BY <1>0, <2>1, <3>1
        <3> QED BY <3>2 DEF m
    <2>4. x = q * v + rest
        <3>1. (n + 16 * q) * w = n * w + q * (16 * w) /\ q * (16 * w) \in Int /\ n * w \in Int
            BY <1>0
        <3> DEFINE m == n * w
                   k == q * v
        <3>2. p * w = m + k /\ m \in Int /\ k \in Int
            BY <1>0, <3>1
        <3> HIDE DEF m, k
        <3>3. x = k + (m + low)
            BY <1>2, <2>1, <3>2
        <3> QED BY <3>3 DEF m, k
    <2> HIDE DEF rest
    <2> QED BY <1>0, <2>1, <2>3, <2>4 DEF Above
<1> QED BY <1>4, <1>5 DEF DigitAt

\* The nibbles of a word are those it was made of.
LEMMA NibblesAre ==
    ASSUME NEW ns, \A k \in 1 .. 8 : ns[k] \in 0 .. 15
    PROVE  \A k \in 1 .. 8 : Packing!NibblesOf(Packing!WordOf(ns))[k] = ns[k]
<1> DEFINE top == IF ns[8] > 7 THEN ns[8] - 16 ELSE ns[8]
           p7 == ns[7] + 16 * top
           p6 == ns[6] + 16 * p7
           p5 == ns[5] + 16 * p6
           p4 == ns[4] + 16 * p5
           p3 == ns[3] + 16 * p4
           p2 == ns[2] + 16 * p3
           word == ns[1] + 16 * p2
           w1 == Packing!Places[1]
           w2 == Packing!Places[2]
           w3 == Packing!Places[3]
           w4 == Packing!Places[4]
           w5 == Packing!Places[5]
           w6 == Packing!Places[6]
           w7 == Packing!Places[7]
           w8 == Packing!Places[8]
           nibbles == Packing!NibblesOf(Packing!WordOf(ns))
<1>1. nibbles = [k \in 1 .. 8 |-> (word \div Packing!Places[k]) % 16]
    <2>1. Packing!WordOf(ns) = word
        BY DEF Packing!WordOf, Packing!Nibble
    <2> HIDE DEF word
    <2> QED BY <2>1 DEF Packing!NibblesOf, Packing!PerWord, Packing!Nibble
<1>2. /\ w1 = 1 /\ w2 = 16 * w1 /\ w3 = 16 * w2 /\ w4 = 16 * w3
      /\ w5 = 16 * w4 /\ w6 = 16 * w5 /\ w7 = 16 * w6 /\ w8 = 16 * w7
    BY SMT DEF Packing!Places
<1>3. ns[8] \in 0 .. 15 /\ top \in Int /\ top % 16 = ns[8]
    OBVIOUS
<1>4. ns[1] \in 0 .. 15 /\ ns[2] \in 0 .. 15 /\ ns[3] \in 0 .. 15 /\ ns[4] \in 0 .. 15
      /\ ns[5] \in 0 .. 15 /\ ns[6] \in 0 .. 15 /\ ns[7] \in 0 .. 15
    OBVIOUS
<1> HIDE DEF top, nibbles, w1, w2, w3, w4, w5, w6, w7, w8
<1>6. /\ p7 = ns[7] + 16 * top /\ p6 = ns[6] + 16 * p7 /\ p5 = ns[5] + 16 * p6
      /\ p4 = ns[4] + 16 * p5 /\ p3 = ns[3] + 16 * p4 /\ p2 = ns[2] + 16 * p3
      /\ word = ns[1] + 16 * p2
    OBVIOUS
<1> HIDE DEF p2, p3, p4, p5, p6, p7, word
<1>5. /\ p7 \in Int /\ p6 \in Int /\ p5 \in Int /\ p4 \in Int /\ p3 \in Int /\ p2 \in Int
      /\ word \in Int
    BY <1>3, <1>4, <1>6
<1>7. /\ w1 \in Nat \ {0} /\ w2 \in Nat \ {0} /\ w3 \in Nat \ {0} /\ w4 \in Nat \ {0}
      /\ w5 \in Nat \ {0} /\ w6 \in Nat \ {0} /\ w7 \in Nat \ {0} /\ w8 \in Nat \ {0}
    <2>1. w1 \in Nat \ {0} /\ w2 \in Nat \ {0} /\ w3 \in Nat \ {0} /\ w4 \in Nat \ {0}
        BY <1>2
    <2> QED BY <1>2, <2>1
<1>8. Above(word, w1, word)
    <2>1. 0 \in 0 .. (w1 - 1) /\ word = word * w1 + 0
        BY <1>2, <1>5
    <2> QED BY <1>5, <1>7, <2>1 DEF Above
<1>9. /\ NextPlace(w1, w2) /\ NextPlace(w2, w3) /\ NextPlace(w3, w4) /\ NextPlace(w4, w5)
      /\ NextPlace(w5, w6) /\ NextPlace(w6, w7) /\ NextPlace(w7, w8)
    BY <1>2, <1>7 DEF NextPlace
<1>10. /\ Puts(word, ns[1], p2) /\ Puts(p2, ns[2], p3) /\ Puts(p3, ns[3], p4) /\ Puts(p4, ns[4], p5)
       /\ Puts(p5, ns[5], p6) /\ Puts(p6, ns[6], p7) /\ Puts(p7, ns[7], top)
    BY <1>3, <1>4, <1>5, <1>6 DEF Puts
<1>11. DigitAt(word, w1, ns[1]) /\ Above(word, w2, p2)
    BY <1>5, <1>8, <1>9, <1>10, NextDigit
<1>12. DigitAt(word, w2, ns[2]) /\ Above(word, w3, p3)
    BY <1>5, <1>11, <1>9, <1>10, NextDigit
<1>13. DigitAt(word, w3, ns[3]) /\ Above(word, w4, p4)
    BY <1>5, <1>12, <1>9, <1>10, NextDigit
<1>14. DigitAt(word, w4, ns[4]) /\ Above(word, w5, p5)
    BY <1>5, <1>13, <1>9, <1>10, NextDigit
<1>15. DigitAt(word, w5, ns[5]) /\ Above(word, w6, p6)
    BY <1>5, <1>14, <1>9, <1>10, NextDigit
<1>16. DigitAt(word, w6, ns[6]) /\ Above(word, w7, p7)
    BY <1>5, <1>15, <1>9, <1>10, NextDigit
<1>17. DigitAt(word, w7, ns[7]) /\ Above(word, w8, top)
    BY <1>5, <1>16, <1>9, <1>10, NextDigit
<1>18. DigitAt(word, w8, ns[8])
    <2>1. PICK low \in 0 .. (w8 - 1) : word = top * w8 + low
        BY <1>17 DEF Above
    <2>2. (top * w8 + low) \div w8 = top
        BY <1>3, <1>7, <2>1, Divided
    <2> QED BY <1>3, <2>1, <2>2 DEF DigitAt
<1>19. \A k \in 1 .. 8 : k = 1 \/ k = 2 \/ k = 3 \/ k = 4 \/ k = 5 \/ k = 6 \/ k = 7 \/ k = 8
    OBVIOUS
<1>20. /\ nibbles[1] = (word \div w1) % 16 /\ nibbles[2] = (word \div w2) % 16
       /\ nibbles[3] = (word \div w3) % 16 /\ nibbles[4] = (word \div w4) % 16
       /\ nibbles[5] = (word \div w5) % 16 /\ nibbles[6] = (word \div w6) % 16
       /\ nibbles[7] = (word \div w7) % 16 /\ nibbles[8] = (word \div w8) % 16
    BY <1>1 DEF w1, w2, w3, w4, w5, w6, w7, w8
<1>21. \A k \in 1 .. 8 : nibbles[k] = ns[k]
    BY <1>11, <1>12, <1>13, <1>14, <1>15, <1>16, <1>17, <1>18, <1>19, <1>20 DEF DigitAt
<1> QED BY <1>21 DEF nibbles

\* Parts of eight that hold the values of a sequence, in its order.
Eights(n, parts, whole) ==
    /\ DOMAIN parts = 1 .. n
    /\ \A r \in 1 .. n : \A k \in 1 .. 8 : parts[r][k] = whole[Spot(r, 8, k)]

\* A function of the first naturals is a sequence.
LEMMA FirstNaturals ==
    ASSUME NEW S, NEW n \in Nat, NEW f \in [1 .. n -> S]
    PROVE  f \in Seq(S) /\ Len(f) = n
BY SeqDef

\* Parts of eight that hold the values of a sequence give the sequence.
LEMMA EightsAre ==
    ASSUME NEW S, NEW n \in Nat, NEW whole \in Seq(S), Len(whole) = n * 8, NEW parts,
           parts \in Seq(Seq(S)), Parted(parts, 8), Eights(n, parts, whole)
    PROVE  FlattenSeq(parts) = whole
<1> DEFINE flat == FlattenSeq(parts)
           w == 8
<1>1. Len(parts) = n /\ w \in Nat
    BY Elements DEF Eights
<1>2. Joined(S, parts, w, flat)
    <2>1. Parted(parts, w)
        OBVIOUS
    <2> HIDE DEF w
    <2> QED BY <1>1, <2>1, EvenFlatten
<1> HIDE DEF flat
<1>3. flat \in Seq(S) /\ Len(flat) = n * 8
      /\ \A r \in 1 .. n : \A k \in 1 .. 8 : flat[Spot(r, 8, k)] = parts[r][k]
    BY <1>1, <1>2 DEF Joined
<1> HIDE DEF w
<1>4. ASSUME NEW j \in 1 .. n * 8 PROVE flat[j] = whole[j]
    <2>1. PICK r \in 1 .. n : \E k \in 1 .. 8 : j = Spot(r, 8, k)
        <3>1. /\ (j - 1) \div w + 1 \in 1 .. n
              /\ \E t \in 1 .. w : j = ((j - 1) \div w) * w + t
            <4>1. w \in Nat \ {0} /\ j \in 1 .. n * w
                BY DEF w
            <4> QED BY <4>1, EvenPlace DEF PlacedIn
        <3> DEFINE d == (j - 1) \div w
        <3>2. d \in Int /\ d + 1 \in 1 .. n /\ \E t \in 1 .. 8 : j = d * 8 + t
            BY <3>1 DEF w
        <3> HIDE DEF d
        <3>3. (d + 1) - 1 = d
            BY <3>2
        <3> QED BY <3>2, <3>3 DEF Spot
    <2>2. PICK k \in 1 .. 8 : j = Spot(r, 8, k)
        BY <2>1
    <2>3. flat[Spot(r, 8, k)] = whole[Spot(r, 8, k)]
        BY <1>3 DEF Eights
    <2> QED BY <2>2, <2>3
<1>5. flat = whole
    <2>1. flat \in [1 .. n * 8 -> S] /\ whole \in [1 .. n * 8 -> S]
        BY <1>3, LenProperties
    <2> QED BY <1>4, <2>1
<1> QED BY <1>5 DEF flat

\* The weights of a layer.
LEMMA WeightsAre ==
    ASSUME NEW file, PackedLayer(file)
    PROVE  /\ Packing!UnpackQweight(file.qweight) = file.q
           /\ Len(file.qweight) \in Nat \ {0} /\ Len(file.q[1]) \in Nat \ {0}
           /\ file.q \in [1 .. 8 * Len(file.qweight) -> [1 .. Len(file.q[1]) -> 0 .. 15]]
<1> DEFINE words == Len(file.qweight)
           outs == Len(file.q[1])
           q == file.q
           Value(r, k, o) == q[8 * (r - 1) + k][o]
           S == [1 .. outs -> 0 .. 15]
           qweight == file.qweight
           parts == [r \in DOMAIN qweight |->
                       [k \in 1 .. 8 |-> [o \in DOMAIN qweight[r] |->
                          Packing!NibblesOf(qweight[r][o])[k]]]]
<1>1. /\ words \in Nat \ {0} /\ outs \in Nat \ {0} /\ q \in [1 .. 8 * words -> S]
      /\ qweight = [r \in 1 .. words |-> [o \in 1 .. outs |->
            Packing!WordOf([k \in 1 .. 8 |-> Value(r, k, o)])]]
    BY DEF PackedLayer, Packing!PerWord, Packing!Levels
<1>2. Packing!UnpackQweight(qweight) = FlattenSeq(parts)
    BY PackingIs DEF Packing!UnpackQweight, Packing!PerWord
<1> HIDE DEF words, outs, q, qweight
<1>3. DOMAIN qweight = 1 .. words /\ \A r \in 1 .. words : DOMAIN qweight[r] = 1 .. outs
    BY <1>1
<1>4. \A r \in 1 .. words : \A o \in 1 .. outs : \A k \in 1 .. 8 : Value(r, k, o) \in 0 .. 15
    <2>1. \A r \in 1 .. words : \A k \in 1 .. 8 : 8 * (r - 1) + k \in 1 .. 8 * words
        BY <1>1
    <2> QED BY <1>1, <2>1
<1>5. \A r \in 1 .. words : \A o \in 1 .. outs : \A k \in 1 .. 8 :
         Packing!NibblesOf(qweight[r][o])[k] = Value(r, k, o)
    <2> SUFFICES ASSUME NEW r \in 1 .. words, NEW o \in 1 .. outs
                 PROVE  \A k \in 1 .. 8 : Packing!NibblesOf(qweight[r][o])[k] = Value(r, k, o)
        OBVIOUS
    <2> DEFINE ns == [k \in 1 .. 8 |-> Value(r, k, o)]
    <2>1. qweight[r][o] = Packing!WordOf(ns)
        BY <1>1
    <2>2. \A k \in 1 .. 8 : ns[k] \in 0 .. 15 /\ ns[k] = Value(r, k, o)
        BY <1>4
    <2> HIDE DEF ns, Value
    <2>3. \A k \in 1 .. 8 : Packing!NibblesOf(Packing!WordOf(ns))[k] = ns[k]
        BY <2>2, NibblesAre
    <2> QED BY <2>1, <2>2, <2>3
<1>6. parts = [r \in 1 .. words |-> [k \in 1 .. 8 |-> [o \in 1 .. outs |-> Value(r, k, o)]]]
    <2> DEFINE row(r) == [k \in 1 .. 8 |-> [o \in 1 .. outs |-> Packing!NibblesOf(qweight[r][o])[k]]]
               own(r) == [k \in 1 .. 8 |-> [o \in 1 .. outs |-> Value(r, k, o)]]
    <2>1. parts = [r \in 1 .. words |-> row(r)]
        BY <1>3
    <2>2. \A r \in 1 .. words : row(r) = own(r)
        <3> HIDE DEF Value
        <3> QED BY <1>5
    <2>3. parts = [r \in 1 .. words |-> own(r)]
        <3> HIDE DEF row, own, parts
        <3> QED BY <2>1, <2>2
    <2> QED BY <2>3
<1>7. \A r \in 1 .. words : \A k \in 1 .. 8 : [o \in 1 .. outs |-> Value(r, k, o)] = q[Spot(r, 8, k)]
    <2> SUFFICES ASSUME NEW r \in 1 .. words, NEW k \in 1 .. 8
                 PROVE  [o \in 1 .. outs |-> Value(r, k, o)] = q[Spot(r, 8, k)]
        OBVIOUS
    <2>1. Spot(r, 8, k) = 8 * (r - 1) + k /\ Spot(r, 8, k) \in 1 .. 8 * words
        BY <1>1 DEF Spot
    <2>2. q[Spot(r, 8, k)] \in [1 .. outs -> 0 .. 15]
        BY <1>1, <2>1
    <2>3. \A o \in 1 .. outs : Value(r, k, o) = q[Spot(r, 8, k)][o]
        BY <2>1
    <2> HIDE DEF Value
    <2> QED BY <2>2, <2>3
<1> DEFINE rows == [r \in 1 .. words |-> [k \in 1 .. 8 |-> [o \in 1 .. outs |-> Value(r, k, o)]]]
<1>8. \A r \in 1 .. words : \A k \in 1 .. 8 : rows[r][k] = q[Spot(r, 8, k)] /\ rows[r][k] \in S
    <2>1. \A r \in 1 .. words : \A k \in 1 .. 8 : rows[r][k] = [o \in 1 .. outs |-> Value(r, k, o)]
        BY DEF rows
    <2>2. \A r \in 1 .. words : \A k \in 1 .. 8 : [o \in 1 .. outs |-> Value(r, k, o)] \in S
        BY <1>4
    <2> HIDE DEF rows, S, Value
    <2> QED BY <1>7, <2>1, <2>2
<1>9. rows \in Seq(Seq(S)) /\ Parted(rows, 8) /\ Eights(words, rows, q)
    <2>1. DOMAIN rows = 1 .. words /\ \A r \in 1 .. words : DOMAIN rows[r] = 1 .. 8
        OBVIOUS
    <2>2. rows = [r \in 1 .. words |-> rows[r]] /\ \A r \in 1 .. words : rows[r] = [k \in 1 .. 8 |-> rows[r][k]]
        OBVIOUS
    <2> DEFINE w == 8
    <2>3. w \in Nat
        OBVIOUS
    <2> HIDE DEF rows, S
    <2>4. \A r \in 1 .. words : rows[r] \in [1 .. w -> S]
        BY <1>8, <2>2
    <2>5. \A r \in 1 .. words : rows[r] \in Seq(S) /\ Len(rows[r]) = w
        <3> HIDE DEF w
        <3> QED BY <2>3, <2>4, FirstNaturals
    <2>6. rows \in [1 .. words -> Seq(S)]
        BY <2>2, <2>5
    <2>7. rows \in Seq(Seq(S)) /\ Len(rows) = words
        BY <1>1, <2>6, FirstNaturals
    <2> QED BY <1>8, <2>1, <2>5, <2>7 DEF Parted, Eights
<1> HIDE DEF rows, parts, S
<1>10. q \in Seq(S) /\ Len(q) = words * 8
    <2>1. q \in Seq(S) /\ Len(q) = 8 * words
        BY <1>1
    <2> QED BY <1>1, <2>1
<1>11. FlattenSeq(rows) = q
    BY <1>1, <1>9, <1>10, EightsAre
<1>12. parts = rows
    BY <1>6 DEF rows
<1> QED BY <1>1, <1>2, <1>11, <1>12 DEF words, outs, q, qweight, S

\* The zero points of a layer.
LEMMA ZerosAre ==
    ASSUME NEW file, PackedLayer(file), "qzeros" \in DOMAIN file
    PROVE  /\ file.z \in [1 .. Len(file.scales) -> [1 .. Len(file.q[1]) -> 0 .. 15]]
           /\ Packing!UnpackQzeros(file.qzeros) = file.z
<1> DEFINE outs == Len(file.q[1])
           groups == Len(file.scales)
           qzeros == file.qzeros
           z == file.z
           n == outs \div 8
           Value(g, w, k) == z[g][8 * (w - 1) + k]
<1>1. /\ outs \in Nat \ {0} /\ groups \in Nat \ {0} /\ outs % 8 = 0
      /\ z \in [1 .. groups -> [1 .. outs -> 0 .. 15]]
      /\ qzeros = [g \in 1 .. groups |-> [w \in 1 .. n |->
            Packing!WordOf([k \in 1 .. 8 |-> Value(g, w, k)])]]
    BY DEF PackedLayer, Packing!PerWord, Packing!Levels
<1> HIDE DEF outs, groups, qzeros, z
<1>2. n \in Nat /\ outs = n * 8
    BY <1>1
<1> HIDE DEF n
<1>3. ASSUME NEW g \in 1 .. groups
      PROVE  FlattenSeq([w \in DOMAIN qzeros[g] |-> Packing!NibblesOf(qzeros[g][w])]) = z[g]
    <2> DEFINE S == 0 .. 15
               parts == [w \in DOMAIN qzeros[g] |-> Packing!NibblesOf(qzeros[g][w])]
               whole == z[g]
    <2>1. /\ DOMAIN qzeros[g] = 1 .. n
          /\ \A w \in 1 .. n : qzeros[g][w] = Packing!WordOf([k \in 1 .. 8 |-> Value(g, w, k)])
        BY <1>1
    <2>2. whole \in [1 .. n * 8 -> S]
        BY <1>1, <1>2
    <2>3. \A w \in 1 .. n : \A k \in 1 .. 8 :
             Value(g, w, k) = whole[Spot(w, 8, k)] /\ Value(g, w, k) \in S
        <3>1. \A w \in 1 .. n : \A k \in 1 .. 8 :
                 Spot(w, 8, k) = 8 * (w - 1) + k /\ Spot(w, 8, k) \in 1 .. n * 8
            BY <1>2 DEF Spot
        <3> QED BY <2>2, <3>1
    <2>4. \A w \in 1 .. n : /\ Packing!NibblesOf(qzeros[g][w]) \in [1 .. 8 -> S]
                            /\ \A k \in 1 .. 8 : Packing!NibblesOf(qzeros[g][w])[k] = Value(g, w, k)
        <3> SUFFICES ASSUME NEW w \in 1 .. n
                     PROVE  /\ Packing!NibblesOf(qzeros[g][w]) \in [1 .. 8 -> S]
                            /\ \A k \in 1 .. 8 : Packing!NibblesOf(qzeros[g][w])[k] = Value(g, w, k)
            OBVIOUS
        <3> DEFINE ns == [k \in 1 .. 8 |-> Value(g, w, k)]
                   nibbles == Packing!NibblesOf(Packing!WordOf(ns))
        <3>1. qzeros[g][w] = Packing!WordOf(ns)
            BY <2>1
        <3>2. \A k \in 1 .. 8 : ns[k] \in 0 .. 15 /\ ns[k] = Value(g, w, k)
            BY <2>3
        <3>3. nibbles = [k \in 1 .. 8 |-> nibbles[k]]
            BY DEF Packing!NibblesOf, Packing!PerWord
        <3> HIDE DEF ns, Value
        <3>4. \A k \in 1 .. 8 : nibbles[k] = ns[k]
            BY <3>2, NibblesAre
        <3> HIDE DEF nibbles
        <3>5. nibbles \in [1 .. 8 -> S]
            BY <3>2, <3>3, <3>4
        <3> QED BY <3>1, <3>2, <3>4, <3>5 DEF nibbles
    <2>5. DOMAIN parts = 1 .. n /\ \A w \in 1 .. n : parts[w] = Packing!NibblesOf(qzeros[g][w])
        BY <2>1
    <2> HIDE DEF parts, S, whole, Value
    <2>6. \A w \in 1 .. n : parts[w] \in Seq(S) /\ Len(parts[w]) = 8
        <3> DEFINE eight == 8
        <3>1. eight \in Nat /\ \A w \in 1 .. n : parts[w] \in [1 .. eight -> S]
            BY <2>4, <2>5
        <3> HIDE DEF eight
        <3>2. \A w \in 1 .. n : parts[w] \in Seq(S) /\ Len(parts[w]) = eight
            BY <3>1, FirstNaturals
        <3> QED BY <3>2 DEF eight
    <2>7. parts \in Seq(Seq(S)) /\ Len(parts) = n
        <3>1. parts \in [1 .. n -> Seq(S)]
            <4>1. parts = [w \in DOMAIN parts |-> parts[w]]
                BY DEF parts
            <4> QED BY <2>5, <2>6, <4>1
        <3> QED BY <1>2, <3>1, FirstNaturals
    <2>8. Parted(parts, 8) /\ Eights(n, parts, whole)
        BY <2>3, <2>4, <2>5, <2>6, <2>7 DEF Parted, Eights
    <2>9. whole \in Seq(S) /\ Len(whole) = n * 8
        <3> DEFINE all == n * 8
        <3>1. all \in Nat /\ whole \in [1 .. all -> S]
            BY <1>2, <2>2
        <3> HIDE DEF all
        <3>2. whole \in Seq(S) /\ Len(whole) = all
            BY <3>1, FirstNaturals
        <3> QED BY <3>2 DEF all
    <2>10. FlattenSeq(parts) = whole
        BY <1>2, <2>7, <2>8, <2>9, EightsAre
    <2> QED BY <2>10 DEF parts, whole
<1>4. Packing!UnpackQzeros(qzeros)
        = [g \in 1 .. groups |->
             FlattenSeq([w \in DOMAIN qzeros[g] |-> Packing!NibblesOf(qzeros[g][w])])]
    <2>1. DOMAIN qzeros = 1 .. groups
        BY <1>1
    <2> QED BY <2>1, PackingIs DEF Packing!UnpackQzeros
<1>5. Packing!UnpackQzeros(qzeros) = z
    <2> DEFINE F(g) == FlattenSeq([w \in DOMAIN qzeros[g] |-> Packing!NibblesOf(qzeros[g][w])])
    <2>1. Packing!UnpackQzeros(qzeros) = [g \in 1 .. groups |-> F(g)] /\ \A g \in 1 .. groups : F(g) = z[g]
        BY <1>3, <1>4
    <2> HIDE DEF F
    <2> QED BY <1>1, <2>1
<1> QED BY <1>1, <1>5 DEF outs, groups, qzeros, z

\* A layer cut in groups of one size, and what a value of it means.
Layered(q, scales, zeros, groups, size, outs, n) ==
    /\ n = groups * size /\ \E h \in Nat : n = h * 2
    /\ q \in [1 .. n -> [1 .. outs -> 0 .. 15]]
    /\ DOMAIN scales = 1 .. groups /\ DOMAIN zeros = 1 .. groups
RowMeans(q, scales, zeros, groups, size, o, i) ==
    LET row == Packing!ConvertToInternal(q, scales, zeros)[o]
        g == GroupOf(i, size)
    IN /\ g \in 1 .. groups
       /\ Packing!DequantizeInt4(row, size)[i] = (q[i][o] - zeros[g][o]) * scales[g][o]

\* A converted layer has the weights, scales and zero points of its file.
LEMMA ConvertedRowIs ==
    ASSUME NEW weights0, NEW scales, NEW zeros, NEW groups \in Nat \ {0}, NEW size \in Nat \ {0},
           NEW outs \in Nat \ {0}, NEW n, Layered(weights0, scales, zeros, groups, size, outs, n),
           NEW o \in 1 .. outs, NEW i \in 1 .. n
    PROVE  RowMeans(weights0, scales, zeros, groups, size, o, i)
<1> DEFINE row == Packing!ConvertToInternal(weights0, scales, zeros)[o]
           qs == [j \in DOMAIN weights0 |-> weights0[j][o]]
           g0 == GroupOf(i, size)
           S == 0 .. 15
<1>0. /\ n = groups * size /\ \E h \in Nat : n = h * 2
      /\ weights0 \in [1 .. n -> [1 .. outs -> 0 .. 15]]
      /\ DOMAIN scales = 1 .. groups /\ DOMAIN zeros = 1 .. groups
    BY DEF Layered
<1>1. n \in Nat /\ DOMAIN weights0 = 1 .. n /\ 1 \in 1 .. n
    <2>1. n \in Nat /\ n >= 1
        <3>1. PICK e \in Nat : groups = e + 1
            <4>1. groups - 1 \in Nat /\ groups = (groups - 1) + 1
                OBVIOUS
            <4> QED BY <4>1
        <3>2. n = e * size + size /\ e * size \in Nat
            BY <1>0, <3>1
        <3> QED BY <3>2
    <2> QED BY <1>0, <2>1
<1>2. g0 \in 1 .. groups
    <2>1. (i - 1) \div size + 1 \in 1 .. groups
        BY <1>0, EvenPlace DEF PlacedIn
    <2> QED BY <2>1 DEF GroupOf
<1>3. row = [packed |-> Packing!Packed(qs), scale |-> [g \in 1 .. groups |-> scales[g][o]],
             zero |-> [g \in 1 .. groups |-> zeros[g][o]]]
    <2>1. DOMAIN weights0[1] = 1 .. outs
        BY <1>0, <1>1
    <2> QED BY <1>0, <2>1 DEF Packing!ConvertToInternal
<1>4. qs \in [1 .. n -> S] /\ qs[i] = weights0[i][o] /\ i \in 1 .. n
    BY <1>0, <1>1
<1>5. qs \in Seq(S) /\ Len(qs) = n
    <2> HIDE DEF qs, S
    <2> QED BY <1>1, <1>4, FirstNaturals
<1>6. Packing!Unpacked(Packing!Packed(qs)) = qs
    <2>1. \E h \in Nat : Len(qs) = h * 2
        BY <1>0, <1>5
    <2> HIDE DEF qs
    <2> QED BY <1>5, <2>1, UnpackedIs
<1>7. DOMAIN qs = 1 .. n
    BY <1>4
<1> HIDE DEF qs, row, g0, S
<1>8. row.packed = Packing!Packed(qs) /\ row.scale[g0] = scales[g0][o] /\ row.zero[g0] = zeros[g0][o]
    BY <1>2, <1>3
<1>9. Packing!DequantizeInt4(row, size)
        = [j \in 1 .. n |-> (qs[j] - row.zero[GroupOf(j, size)]) * row.scale[GroupOf(j, size)]]
    BY <1>6, <1>7, <1>8 DEF Packing!DequantizeInt4, GroupOf
<1>10. Packing!DequantizeInt4(row, size)[i] = (qs[i] - row.zero[g0]) * row.scale[g0]
    BY <1>4, <1>9 DEF g0
<1> QED BY <1>2, <1>4, <1>8, <1>10 DEF row, g0, RowMeans

\* What a converted layer means.
Meant(file, rows) ==
    LET size == Len(file.q) \div Len(file.scales)
        zero(g, o) == IF "qzeros" \in DOMAIN file THEN file.z[g][o] + 1 ELSE 8
    IN \A o \in DOMAIN file.q[1], i \in DOMAIN file.q :
         LET g == GroupOf(i, size)
         IN zero(g, o) <= 15 =>
              Packing!DequantizeInt4(rows[o], size)[i]
                = (file.q[i][o] - zero(g, o)) * file.scales[g][o]

LEMMA ConvertedLayerIs ==
    ASSUME NEW file, PackedLayer(file)
    PROVE  Meant(file, Packing!ConvertLayer(file, <<>>))
<1> DEFINE words == Len(file.qweight)
           outs == Len(file.q[1])
           groups == Len(file.scales)
           n == 8 * words
           size == Len(file.q) \div groups
           zeros == IF "qzeros" \in DOMAIN file
                    THEN Packing!CorrectedZeros(Packing!UnpackQzeros(file.qzeros))
                    ELSE Packing!MiddleZeros(file.scales)
           rows == Packing!ConvertLayer(file, <<>>)
           zero(g, o) == IF "qzeros" \in DOMAIN file THEN file.z[g][o] + 1 ELSE 8
<1>1. /\ words \in Nat \ {0} /\ outs \in Nat \ {0} /\ groups \in Nat \ {0}
      /\ file.q \in [1 .. n -> [1 .. outs -> 0 .. 15]] /\ n % groups = 0
      /\ file.scales \in [1 .. groups -> [1 .. outs -> Int]]
      /\ Packing!UnpackQweight(file.qweight) = file.q
    BY WeightsAre DEF PackedLayer, Packing!PerWord
<1>2. rows = Packing!ConvertToInternal(file.q, file.scales, zeros)
    BY <1>1 DEF Packing!ConvertLayer
<1>3. DOMAIN zeros = 1 .. groups
      /\ \A g \in 1 .. groups : \A o \in 1 .. outs : zero(g, o) <= 15 => zeros[g][o] = zero(g, o)
    <2>1. CASE "qzeros" \in DOMAIN file
        <3>1. /\ file.z \in [1 .. groups -> [1 .. outs -> 0 .. 15]]
              /\ Packing!UnpackQzeros(file.qzeros) = file.z
            BY <2>1, ZerosAre
        <3> HIDE DEF groups, outs
        <3>2. zeros = [g \in 1 .. groups |-> [o \in 1 .. outs |-> Packing!Bound(file.z[g][o] + 1, 0, 15)]]
            BY <2>1, <3>1 DEF Packing!CorrectedZeros, Packing!Levels
        <3>3. ASSUME NEW g \in 1 .. groups, NEW o \in 1 .. outs, zero(g, o) <= 15
              PROVE  zeros[g][o] = zero(g, o)
            <4> DEFINE z == file.z[g][o]
            <4>1. z \in 0 .. 15 /\ zeros[g][o] = Packing!Bound(z + 1, 0, 15) /\ z + 1 <= 15
                <5>1. zeros[g][o] = Packing!Bound(z + 1, 0, 15)
                    <6> HIDE DEF zeros
                    <6> QED BY <3>2
                <5>2. z \in 0 .. 15
                    BY <3>1
                <5>3. zero(g, o) = z + 1
                    BY <2>1
                <5> HIDE DEF z, zeros, zero
                <5> QED BY <3>3, <5>1, <5>2, <5>3
            <4> HIDE DEF z, zeros
            <4>2. zeros[g][o] = z + 1
                BY <4>1 DEF Packing!Bound
            <4> QED BY <2>1, <4>2 DEF z
        <3> HIDE DEF zeros, zero
        <3>4. DOMAIN zeros = 1 .. groups
            BY <3>2
        <3>5. \A g \in 1 .. groups : \A o \in 1 .. outs : zero(g, o) <= 15 => zeros[g][o] = zero(g, o)
            BY <3>3
        <3> QED BY <3>4, <3>5
    <2>2. CASE "qzeros" \notin DOMAIN file
        <3> HIDE DEF groups, outs
        <3>1. zeros = [g \in 1 .. groups |-> [o \in 1 .. outs |-> 8]]
            BY <1>1, <2>2 DEF Packing!MiddleZeros
        <3>2. \A g \in 1 .. groups : \A o \in 1 .. outs : zero(g, o) = 8
            BY <2>2
        <3> HIDE DEF zeros, zero
        <3> QED BY <3>1, <3>2
    <2> QED BY <2>1, <2>2
<1>4. Len(file.q) = n /\ n \in Nat \ {0}
    <2> HIDE DEF words
    <2>1. n \in Nat \ {0}
        BY <1>1
    <2> HIDE DEF n
    <2> QED BY <1>1, <2>1, FirstNaturals
<1>5. size \in Nat \ {0} /\ groups * size = n
    <2> HIDE DEF n, groups
    <2> DEFINE d == n \div groups
               m == n % groups
    <2>1. groups \in Nat \ {0} /\ n \in Nat /\ n # 0 /\ m = 0
        BY <1>1, <1>4
    <2>2. d \in Nat /\ groups * d = n
        <3>1. d \in Nat /\ n = groups * d + m
            BY <2>1
        <3> HIDE DEF d, m
        <3>2. groups * d \in Nat
            BY <2>1, <3>1
        <3> QED BY <2>1, <3>1, <3>2
    <2>3. size = d
        BY <1>4
    <2> HIDE DEF d, size
    <2>4. d # 0
        <3>1. groups * 0 = 0
            BY <1>1
        <3> QED BY <1>4, <2>2, <3>1
    <2> QED BY <2>2, <2>3, <2>4
<1>6. n = (4 * words) * 2 /\ 4 * words \in Nat
    BY <1>1
<1>7. DOMAIN file.q = 1 .. n /\ DOMAIN file.q[1] = 1 .. outs /\ DOMAIN file.scales = 1 .. groups
    <2>1. 1 \in 1 .. n
        BY <1>4
    <2> QED BY <1>1, <2>1
<1> HIDE DEF words, outs, groups, n, size, zeros, rows, zero
<1>8. ASSUME NEW o \in 1 .. outs, NEW i \in 1 .. n
      PROVE  LET g == GroupOf(i, size)
             IN zero(g, o) <= 15 =>
                  Packing!DequantizeInt4(rows[o], size)[i]
                    = (file.q[i][o] - zero(g, o)) * file.scales[g][o]
    <2> DEFINE g0 == GroupOf(i, size)
    <2>1. Layered(file.q, file.scales, zeros, groups, size, outs, n)
        BY <1>1, <1>3, <1>5, <1>6, <1>7 DEF Layered
    <2>2. RowMeans(file.q, file.scales, zeros, groups, size, o, i)
        BY <1>1, <1>5, <2>1, ConvertedRowIs
    <2>3. /\ g0 \in 1 .. groups
          /\ Packing!DequantizeInt4(rows[o], size)[i] = (file.q[i][o] - zeros[g0][o]) * file.scales[g0][o]
        BY <1>2, <2>2 DEF RowMeans
    <2> HIDE DEF g0
    <2>4. zero(g0, o) <= 15 => zeros[g0][o] = zero(g0, o)
        BY <1>3, <2>3
    <2>5. zero(g0, o) <= 15 =>
             Packing!DequantizeInt4(rows[o], size)[i] = (file.q[i][o] - zero(g0, o)) * file.scales[g0][o]
        BY <2>3, <2>4
    <2> QED BY <2>5 DEF g0
<1>9. \A o \in DOMAIN file.q[1], i \in DOMAIN file.q :
         LET g == GroupOf(i, size)
         IN zero(g, o) <= 15 =>
              Packing!DequantizeInt4(rows[o], size)[i] = (file.q[i][o] - zero(g, o)) * file.scales[g][o]
    BY <1>7, <1>8
<1> QED BY <1>9 DEF Meant, size, zero, rows, groups

\* A converted layer is the conversion of the file's, and a row is as it was quantised.
PackedInv ==
    /\ LoadingInv
    /\ weights.int4.kind = "int4" =>
          /\ PreQuantised(conf) /\ "scales" \in DOMAIN conf.quantised
          /\ weights.int4.rows = Packing!ConvertLayer(conf.quantised, weights.int4.order)
    /\ output.kind = "row" =>
          /\ output.row \in Rows
          /\ output.int4 = Packing!QuantizeInt4(output.row, GroupSize)
          /\ output.int8 = Packing!QuantizeInt8(output.row)

LEMMA PackedInit == ModelInit => PackedInv
<1> SUFFICES ASSUME ModelInit PROVE PackedInv
    OBVIOUS
<1>1. weights.int4.kind = "none" /\ output.kind = "none"
    BY DEF ModelInit, None
<1> QED BY <1>1, LoadingInit DEF PackedInv

LEMMA PackedKept ==
    ASSUME PackedInv, LoadingInv', conf' = conf, weights'.int4 = weights.int4, output' = output
    PROVE  PackedInv'
BY DEF PackedInv, PreQuantised, Quantised

LEMMA PackedNext == PackedInv /\ [ModelNext]_modelVars => PackedInv'
<1> SUFFICES ASSUME PackedInv, [ModelNext]_modelVars PROVE PackedInv'
    OBVIOUS
<1>1. DOMAIN weights = {"topk", "primary", "embed", "shared", "attn", "int4"} /\ LoadingInv
    BY DEF PackedInv, LoadingInv
<1>2. LoadingInv'
    BY <1>1, LoadingNext
<1>3. CASE conf' = conf /\ weights'.int4 = weights.int4 /\ output' = output
    BY <1>2, <1>3, PackedKept
<1>4. CASE conf' = conf /\ UNCHANGED weights /\ output'.kind # "row"
    BY <1>2, <1>4 DEF PackedInv, PreQuantised, Quantised
<1>5. CASE \/ Open \/ Assemble \/ SkipEntry \/ UNCHANGED modelVars
           \/ \E n \in DOMAIN Untrained : ReadExpertPart(n)
    <2>1. conf' = conf /\ UNCHANGED weights /\ output' = output
        BY <1>5 DEF Open, Assemble, SkipEntry, modelVars, ReadExpertPart, Take
    <2> QED BY <1>3, <2>1
<1>6. CASE ReadTopk
    <2>1. /\ weights' = [weights EXCEPT !.topk = Routes[todo["topk"]],
                                        !.primary = Routes[todo["topk"]][1]]
          /\ conf' = conf /\ output' = output
        BY <1>6 DEF ReadTopk, Take
    <2> QED BY <1>1, <1>3, <2>1
<1>7. CASE ReadPrimary
    <2>1. /\ \E x, y : weights' = [weights EXCEPT !.primary = x, !.topk = y]
          /\ conf' = conf /\ output' = output
        <3> DEFINE primary == Routes[todo["primary"]][1]
                   topk == IF Derives(topkRead) THEN Cyclic(primary) ELSE weights.topk
        <3>1. weights' = [weights EXCEPT !.primary = primary, !.topk = topk]
            BY <1>1, <1>7 DEF ReadPrimary
        <3> HIDE DEF primary, topk
        <3>2. conf' = conf /\ output' = output
            BY <1>7 DEF ReadPrimary, Take
        <3> QED BY <3>1, <3>2
    <2> QED BY <1>1, <1>3, <2>1
<1>8. CASE ReadHead \/ ReadEmbedding
    <2>1. /\ \E x : weights' = [weights EXCEPT !.embed = x] \/ weights' = weights
          /\ conf' = conf /\ output' = output
        BY <1>8 DEF ReadHead, ReadEmbedding, Take
    <2> QED BY <1>1, <1>3, <2>1
<1>9. CASE ReadParameter
    <2>1. /\ \/ weights' = [weights EXCEPT !.shared = Shared(todo["shared"])]
             \/ weights' = [weights EXCEPT !.attn = Attention(todo["attn"])]
          /\ conf' = conf /\ output' = output
        BY <1>9 DEF ReadParameter, Take
    <2> QED BY <1>1, <1>3, <2>1
<1>10. CASE Fuse
    <2>1. /\ \/ weights' = [weights EXCEPT !.shared = FuseGateUp(@), !.attn = FuseQkv(@)]
             \/ weights' = weights
          /\ conf' = conf /\ output' = output
        BY <1>10 DEF Fuse
    <2> QED BY <1>1, <1>3, <2>1
<1>11. CASE Quantise
    <2>1. /\ \/ weights' = [weights EXCEPT !.shared.packed = TRUE]
             \/ weights' = weights
          /\ conf' = conf /\ output' = output
        BY <1>11 DEF Quantise
    <2> QED BY <1>1, <1>3, <2>1
<1>12. CASE LoadPacked
    <2>1. PreQuantised(conf) /\ conf' = conf /\ output' = output
        BY <1>1, <1>12 DEF LoadPacked, LoadingInv
    <2>2. CASE UNCHANGED weights
        BY <1>3, <2>1, <2>2
    <2>3. CASE ~(UNCHANGED weights)
        <3> DEFINE layer == conf.quantised
                   packed == "qweight" \in DOMAIN todo /\ "scales" \in DOMAIN layer
                   int4(order) == IF packed THEN [kind |-> "int4", order |-> order,
                                                  rows |-> Packing!ConvertLayer(layer, order)]
                                  ELSE None
        <3>1. \E order \in PackedOrder : weights'.int4 = int4(order)
            BY <1>12, <2>3 DEF LoadPacked
        <3>2. PICK order \in PackedOrder : weights'.int4 = int4(order)
            BY <3>1
        <3>3. weights'.int4.kind = "int4" =>
                 /\ "scales" \in DOMAIN layer
                 /\ weights'.int4.rows = Packing!ConvertLayer(layer, weights'.int4.order)
            <4>1. CASE packed
                BY <3>2, <4>1
            <4>2. CASE ~packed
                BY <3>2, <4>2 DEF None
            <4> QED BY <4>1, <4>2
        <3> QED BY <1>2, <2>1, <3>3 DEF PackedInv, PreQuantised, Quantised
    <2> QED BY <2>2, <2>3
<1>13. CASE Forward
    <2>1. conf' = conf /\ UNCHANGED weights /\ (output' = output \/ output'.kind = "forward")
        BY <1>13 DEF Forward
    <2> QED BY <1>3, <1>4, <2>1
<1>14. CASE RunKernel
    <2>1. conf' = conf /\ UNCHANGED weights /\ output'.kind \in KernelKinds
        BY <1>14 DEF RunKernel
    <2>2. output'.kind # "row"
        BY <2>1 DEF KernelKinds
    <2> QED BY <1>4, <2>1, <2>2
<1>15. CASE QuantiseRow
    <2>1. conf' = conf /\ UNCHANGED weights
        BY <1>15 DEF QuantiseRow
    <2>2. PICK row \in Rows : output' = [kind |-> "row", row |-> row,
                                         int4 |-> Packing!QuantizeInt4(row, GroupSize),
                                         int8 |-> Packing!QuantizeInt8(row)]
        BY <1>15 DEF QuantiseRow
    <2>3. /\ output'.row \in Rows
          /\ output'.int4 = Packing!QuantizeInt4(output'.row, GroupSize)
          /\ output'.int8 = Packing!QuantizeInt8(output'.row)
        BY <2>2
    <2> QED BY <1>2, <2>1, <2>3 DEF PackedInv, PreQuantised, Quantised
<1> QED BY <1>5, <1>6, <1>7, <1>8, <1>9, <1>10, <1>11, <1>12, <1>13, <1>14, <1>15 DEF ModelNext

\* A row is cut in whole groups and whole bytes.
LEMMA RowIs ==
    ASSUME NEW row \in Rows
    PROVE  /\ row \in Seq(Int) /\ GroupSize \in Nat \ {0}
           /\ \E m \in Nat : Len(row) = m * GroupSize
           /\ \E h \in Nat : Len(row) = h * 2
<1> DEFINE n == Len(row)
           m == n \div GroupSize
           h == n \div 2
           rest == n % GroupSize
<1>1. row \in Seq(Int) /\ GroupSize \in Nat \ {0} /\ n \in Nat /\ rest = 0 /\ n % 2 = 0
    BY RowsAssumption
<1> HIDE DEF n
<1>2. h \in Nat /\ n = h * 2
    BY <1>1
<1>3. m \in Nat /\ n = GroupSize * m + rest
    BY <1>1
<1> HIDE DEF m, rest, h
<1>4. n = m * GroupSize
    <2>1. GroupSize * m = m * GroupSize /\ m * GroupSize \in Nat
        BY <1>1, <1>3
    <2> QED BY <1>1, <1>3, <2>1
<1> QED BY <1>1, <1>2, <1>3, <1>4 DEF n

\* Quantised to four bits, a weight of a group with values on both sides of zero is off by no
\* more than one step; quantised to eight, by no more than half a step.  A converted AWQ or GPTQ
\* layer holds (q - (stored zero + 1)) * scale for every stored zero below the last
\* (core/quantization.py:17-171, core/awq_gptq.py:114-330).
THEOREM PackedIsExact == ModelSpec => []PackedExact
<1>1. PackedInv => PackedExact
    <2> SUFFICES ASSUME PackedInv PROVE PackedExact
        OBVIOUS
    <2> DEFINE row == output.row
               four == Packing!DequantizeInt4(output.int4, GroupSize)
               eight == Packing!DequantizeInt8(output.int8)
               within(error, bound) == error <= bound /\ -error <= bound
               group(j) == Packing!Groups(row, GroupSize)[GroupOf(j, GroupSize)]
               span(g) == Max(Range(g)) - Min(Range(g))
               most == Max({row[k] : k \in DOMAIN row} \cup {-row[k] : k \in DOMAIN row})
    <2>1. ASSUME output.kind = "row", NEW j \in DOMAIN row
          PROVE  /\ Min(Range(group(j))) <= 0 /\ Max(Range(group(j))) >= 0
                      => within(four[j] - Packing!Levels * row[j], span(group(j)))
                 /\ within(2 * (eight[j] - 127 * row[j]), most)
        <3>1. /\ row \in Rows
              /\ four = Packing!DequantizeInt4(Packing!QuantizeInt4(row, GroupSize), GroupSize)
              /\ eight = Packing!DequantizeInt8(Packing!QuantizeInt8(row))
            BY <2>1 DEF PackedInv
        <3> HIDE DEF row, four, eight
        <3>2. /\ row \in Seq(Int) /\ GroupSize \in Nat \ {0}
              /\ \E m \in Nat : Len(row) = m * GroupSize
              /\ \E h \in Nat : Len(row) = h * 2
            BY <3>1, RowIs
        <3>3. j \in 1 .. Len(row) /\ Len(row) \in Nat /\ row \in [1 .. Len(row) -> Int]
            BY <2>1, <3>2, LenProperties
        <3>4. LET e == four[j] - 15 * row[j]
              IN Min(Range(group(j))) <= 0 /\ Max(Range(group(j))) >= 0
                   => e <= span(group(j)) /\ -e <= span(group(j))
            BY <3>1, <3>2, <3>3, FourBitsAre
        <3>5. LET e == 2 * (eight[j] - 127 * row[j]) IN e <= most /\ -e <= most
            <4> DEFINE n == Len(row)
            <4>1. n \in Nat \ {0} /\ row \in [1 .. n -> Int] /\ j \in 1 .. n
                BY <3>3
            <4> HIDE DEF n
            <4> QED BY <3>1, <4>1, SymmetricIs
        <3> QED BY <3>4, <3>5 DEF Packing!Levels
    <2>2. ASSUME weights.int4.kind = "int4", weights.int4.order = <<>>
          PROVE  Meant(conf.quantised, weights.int4.rows)
        <3>1. /\ PackedLayer(conf.quantised)
              /\ weights.int4.rows = Packing!ConvertLayer(conf.quantised, <<>>)
            BY <2>2, LayersAssumption DEF PackedInv, LoadingInv
        <3> QED BY <3>1, ConvertedLayerIs
    <2> QED BY <2>1, <2>2 DEF PackedExact, Meant
<1> QED BY <1>1, PackedInit, PackedNext, PTL DEF ModelSpec
=============================================================================
