--------------------------- MODULE MergedRequests ---------------------------
(***************************************************************************)
(* Merging of requests with the same prompt (I64Engine after               *)
(* enable_request_merging): a greedy request whose prompt a primary is     *)
(* already working on becomes a secondary, which the scheduler never sees  *)
(* and which is given copies of the primary's tokens.  step() is one       *)
(* action: on a GPU nothing comes between its parts.  The scheduler is     *)
(* reduced to its queues; preemption does not touch what is modelled here. *)
(*                                                                         *)
(* Results are collected by generate(), which steps until its own is there *)
(* and leaves scheduler.finished alone, or by AsyncI64Engine._engine_loop, *)
(* which serves many clients, steps while the scheduler has work, and      *)
(* empties scheduler.finished: step() then finds no primary that ended.    *)
(***************************************************************************)
EXTENDS Integers, Sequences, FiniteSets, SequencesExt

CONSTANTS
    NumRequests,    \* bound on the requests ever made
    Prompts,
    PromptOf,       \* the prompt of each request
    MaxNewOf,       \* max_new_tokens of each request
    Sampled,        \* requests with a temperature
    EosAt,          \* the model ends its answer with the EosAt-th token
    MaxBatch,       \* max_batch_size
    CanLeave,       \* requests may be cancelled, or be past their deadline
    Async           \* the results are collected by _engine_loop

Request == 1 .. NumRequests
Nobody  == 0

\* The model is deterministic: its k-th token for a prompt is k, or 0, the EOS.
TokenAt(k) == IF k = EosAt THEN 0 ELSE k

ASSUME MergedAssumption ==
    /\ NumRequests \in Nat \ {0}
    /\ PromptOf \in [Request -> Prompts]
    /\ MaxNewOf \in [Request -> Nat \ {0}]
    /\ Sampled \subseteq Request
    /\ EosAt \in Nat \ {0} /\ MaxBatch \in Nat \ {0}
    /\ CanLeave \in BOOLEAN /\ Async \in BOOLEAN

VARIABLES
    eng,        \* the engine, a record (see Engine)
    answer      \* what each client knows: "new", "waiting", or how it ended

vars == <<eng, answer>>

Engine == [
    pending   : SUBSET Request,
    running   : SUBSET Request,
    finished  : SUBSET Request,     \* scheduler.finished
    out       : [Request -> Seq(Nat)],  \* tokens of a request or secondary
    why       : [Request -> {"none", "cancelled", "timeout"}],  \* _finish_reason
    prim      : [Prompts -> [rid : Request \cup {Nobody}, secs : SUBSET Request]],
                                    \* _merge_primaries
    group     : SUBSET Request,     \* keys of _request_to_merge_group
    secs      : SUBSET Request,     \* keys of _merged_secondaries
    joined    : [Request -> Request \cup {Nobody}], \* history: a secondary's primary
    results   : SUBSET (Request \X {"length", "stop", "cancelled", "timeout"}),
                                    \* _merged_finished_results
    cancelled : SUBSET Request]     \* _cancelled_requests

NoGroup == [rid |-> Nobody, secs |-> {}]

Init ==
    /\ eng = [pending |-> {}, running |-> {}, finished |-> {},
              out |-> [r \in Request |-> <<>>], why |-> [r \in Request |-> "none"],
              prim |-> [p \in Prompts |-> NoGroup],
              group |-> {}, secs |-> {}, joined |-> [r \in Request |-> Nobody],
              results |-> {}, cancelled |-> {}]
    /\ answer = [r \in Request |-> "new"]

-----------------------------------------------------------------------------
(* Callers. *)

PrimaryOf(e, r) == e.prim[PromptOf[r]].rid

\* An identical, greedy prompt joins the primary that is still registered.
Joins(r) == r \notin Sampled /\ PrimaryOf(eng, r) \in eng.group

AsSecondary(r) ==
    [eng EXCEPT !.secs = @ \cup {r}, !.group = @ \cup {r},
                !.prim[PromptOf[r]].secs = @ \cup {r}, !.joined[r] = PrimaryOf(eng, r)]

\* Any other enters the scheduler and is the primary of its prompt from now on.
AsPrimary(r) ==
    [eng EXCEPT !.pending = @ \cup {r}, !.group = @ \cup {r},
                !.prim[PromptOf[r]] = [rid |-> r, secs |-> {}]]

AddRequest(r) ==
    /\ answer[r] = "new"
    /\ \A q \in Request : q < r => answer[q] # "new"
    /\ eng' = IF Joins(r) THEN AsSecondary(r) ELSE AsPrimary(r)
    /\ answer' = [answer EXCEPT ![r] = "waiting"]

CancelRequest(r) ==
    /\ CanLeave
    /\ answer[r] = "waiting" /\ r \notin eng.cancelled
    /\ eng' = [eng EXCEPT !.cancelled = @ \cup {r}]
    /\ UNCHANGED answer

-----------------------------------------------------------------------------
(* step() *)

Result(e, r) == IF e.out[r] # <<>> /\ Last(e.out[r]) = 0 THEN "stop" ELSE "length"

\* The groups of primaries that ended are dissolved, if they are still in
\* _request_to_merge_group: their secondaries end, why[s] says how.
Dissolved(e, R) == {p \in Prompts : e.prim[p].rid \in R \cap e.group}

\* Mutant: the group stays, without its primary.
DissolveLeaves(e, R, why) == [e EXCEPT !.group = @ \ R]

Dissolve(e, R, why) ==
    LET gone == UNION {e.prim[p].secs : p \in Dissolved(e, R)} IN
    [e EXCEPT !.group   = @ \ (R \cup gone),
              !.secs    = @ \ gone,
              !.results = @ \cup {<<s, why[s]>> : s \in gone \cap e.secs},
              !.prim    = [p \in Prompts |-> IF p \in Dissolved(e, R) THEN NoGroup ELSE @[p]]]

\* What finished in the step before is cleaned up.
CleanUp(e) ==
    [Dissolve(e, e.finished, [s \in Request |-> Result(e, s)]) EXCEPT !.finished = {}]

\* _check_timeouts_and_cancellations: requests that run and were cancelled or are
\* late end, with their group; those that wait end without it.
Why(e, late, r) == IF r \in e.cancelled THEN "cancelled" ELSE IF r \in late THEN "timeout" ELSE "length"

CheckRunning(e, late) ==
    LET over == e.running \cap (e.cancelled \cup late)
        \* how the primary of s ends
        why  == [s \in Request |-> Why(e, late, PrimaryOf(e, s))]
    IN  [Dissolve(e, over, why) EXCEPT
           !.running = @ \ over, !.finished = @ \cup over, !.cancelled = @ \ over,
           !.why = [r \in Request |-> IF r \in over THEN Why(e, late, r) ELSE @[r]]]

CheckPending(e) ==
    LET over == e.pending \cap e.cancelled IN
    [e EXCEPT !.pending = @ \ over, !.finished = @ \cup over, !.cancelled = @ \ over,
              !.why = [r \in Request |-> IF r \in over THEN "cancelled" ELSE @[r]]]

\* Secondaries that were cancelled, are late, or whose prompt has no primary.
Orphan(e, s) == s \notin e.group \/ PrimaryOf(e, s) = Nobody

\* Mutant: they stay in the list of their primary.
EndsStayListed(e, S, why) ==
    [e EXCEPT !.secs = @ \ S, !.group = @ \ S,
              !.results = @ \cup {<<s, why[s]>> : s \in S}]

Ends(e, S, why) ==
    [e EXCEPT !.secs = @ \ S, !.group = @ \ S,
              !.results = @ \cup {<<s, why[s]>> : s \in S},
              !.prim = [p \in Prompts |-> [rid |-> @[p].rid, secs |-> @[p].secs \ S]]]

CheckSecondaries(e, late) ==
    LET over == {s \in e.secs : s \in e.cancelled \cup late \/ Orphan(e, s)} IN
    [Ends(e, over, [s \in Request |-> Why(e, late, s)]) EXCEPT !.cancelled = @ \ over]

\* schedule(): ended requests leave the batch, pending ones fill it.
Ended(e, r)    == Len(e.out[r]) >= MaxNewOf[r] \/ Result(e, r) = "stop"
First(R, room) == {r \in R : Cardinality({q \in R : q < r}) < room}

Schedule(e) ==
    LET over  == {r \in e.running : Ended(e, r)}
        admit == First(e.pending, MaxBatch - Cardinality(e.running \ over))
    IN  [e EXCEPT !.finished = @ \cup over, !.running = (@ \ over) \cup admit, !.pending = @ \ admit]

\* Mutant: a secondary gets its copies from its second step on.
FedLate(e) == {s \in UNION {e.prim[p].secs : p \in {q \in Prompts : e.prim[q].rid \in e.running}} :
                 Len(e.out[PrimaryOf(e, s)]) # 1}

\* Each request of the batch gets a token, and its secondaries a copy; those that
\* have enough then, or got the EOS, end.
Fed(e) == UNION {e.prim[p].secs : p \in {q \in Prompts : e.prim[q].rid \in e.running}}

Copies(e) ==
    LET next(r) == TokenAt(Len(e.out[r]) + 1)
        x == [e EXCEPT !.out = [r \in Request |->
                IF r \in e.running THEN Append(@[r], next(r))
                ELSE IF r \in Fed(e) THEN Append(@[r], next(PrimaryOf(e, r)))
                ELSE @[r]]]
    IN  Ends(x, {s \in Fed(e) : Ended(x, s)}, [s \in Request |-> Result(x, s)])

\* Clients are told: what is in scheduler.finished, and the results of
\* secondaries.  generate() takes out its own result; the loop empties both.
Reason(e, r) == IF e.why[r] # "none" THEN e.why[r] ELSE Result(e, r)

Told(e) ==
    [r \in Request |->
       IF answer[r] # "waiting" THEN answer[r]
       ELSE IF \E x \in e.results : x[1] = r THEN (CHOOSE x \in e.results : x[1] = r)[2]
       ELSE IF r \in e.finished THEN Reason(e, r)
       ELSE "waiting"]

Collected(e) == [e EXCEPT !.results = {}, !.finished = IF Async THEN {} ELSE @]

HasWork == eng.pending \cup eng.running # {}

\* generate() adds a request and steps until its result is there.
InGenerate(r) == ~Async /\ answer[r] = "waiting" /\ \A q \in Request : q > r => answer[q] = "new"

\* _engine_loop and run_continuous step while there is work.
Steps == HasWork \/ \E r \in Request : InGenerate(r)

\* The parts of step() one after the other (each value is named by a quantifier
\* over it alone, so that it is computed once).
Step(late) ==
    /\ Steps
    /\ \E c \in {CheckRunning(CleanUp(eng), late)} :
       \E d \in {CheckSecondaries(CheckPending(c), late)} :
       \E s \in {Schedule(d)} :
       \E e \in {Copies(s)} :
          /\ eng' = Collected(e)
          /\ answer' = Told(e)

MayBeLate == IF CanLeave THEN SUBSET (eng.running \cup eng.secs) ELSE {{}}
SomeStep  == \E late \in MayBeLate : Step(late)

Next == SomeStep \/ \E r \in Request : AddRequest(r) \/ CancelRequest(r)

\* The loop goes on while there is work, generate() while its result is missing;
\* nobody has to be late.
GoesOn == (IF Async THEN HasWork ELSE \E r \in Request : InGenerate(r)) /\ Step({})

Spec == Init /\ [][Next]_vars /\ WF_vars(GoesOn)

-----------------------------------------------------------------------------
(* Properties. *)

\* A secondary is known everywhere or nowhere: it is not in the scheduler, it
\* waits, and its primary lists it, unless another request became the primary of
\* its prompt; no list has anyone else (i64_engine.py:203-208).
InScheduler == eng.pending \cup eng.running \cup eng.finished

GroupsExact ==
    /\ eng \in Engine
    /\ eng.secs \cap InScheduler = {}
    /\ \A p \in Prompts :
         eng.prim[p].secs = {s \in eng.secs : PromptOf[s] = p /\ eng.joined[s] = eng.prim[p].rid}
    /\ \A s \in eng.secs : s \in eng.group /\ eng.joined[s] # Nobody /\ answer[s] = "waiting"

\* A secondary of a registered primary misses no token after it joined: what it
\* has is what its primary generated last (i64_engine.py:1056-1093).
KeepsPace ==
    \A s \in eng.secs : eng.joined[s] = PrimaryOf(eng, s) =>
      LET n == Len(eng.out[s])
          own == eng.out[PrimaryOf(eng, s)] IN
      eng.out[s] = SubSeq(own, Len(own) - n + 1, Len(own))

\* A secondary does not outlive its primary
\* (i64_engine.py:808: "Primary finished - finish all remaining secondaries").
EndTogether == \A s \in eng.secs : eng.joined[s] \in InScheduler

\* A client of the loop gets an answer, in the end, unless its request is left
\* over: a secondary that did not end before its primary did, or that joined it
\* afterwards. The loop has emptied scheduler.finished when step() looks there
\* for primaries that ended, so nobody ends their secondaries and the group
\* stays (i64_engine.py:788-829, 1718-1721). Those of a primary that is
\* cancelled or late while it runs are ended with it, unless another request
\* took its place (i64_engine.py:699-718). A call of generate() gets its answer,
\* unless another request is added while it steps.
LeftOver(r) ==
    LET own == eng.joined[r] IN
    /\ r \in eng.secs /\ own \notin eng.pending \cup eng.running
    /\ \/ eng.why[own] = "none"       \* it ended by itself,
       \/ eng.out[own] = <<>>         \* was cancelled before it ran,
       \/ PrimaryOf(eng, r) # own     \* or is not the primary any more

EveryoneAnswered ==
    \A r \in Request :
        (IF Async THEN answer[r] = "waiting" ELSE InGenerate(r))
            ~> (answer[r] # "waiting" \/ (IF Async THEN LeftOver(r) ELSE ~InGenerate(r)))

\* Identical prompts get identical answers, up to their own limits
\* (i64_engine.py:1056: "no compute - just copy").
SameAnswer ==
    \A r \in Request :
      answer[r] \in {"stop", "length"} => eng.out[r] = [k \in DOMAIN eng.out[r] |-> TokenAt(k)]
=============================================================================
