----------------------------- MODULE ClientsProofs -----------------------------
(* The clients of the engine. First, the safety properties of AsyncEngine, for  *)
(* every number of requests, slots, batch places and errors: what becomes of a  *)
(* request between a client and the engine. Then those of Agents, for every     *)
(* number of workers, tasks, steps and tokens, and for every text: what becomes *)
(* of a task between the agents and the server, and of what they say.           *)
EXTENDS AsyncEngine, Agents, FiniteSetTheorems, SequenceTheorems, NaturalsInduction,
        WellFoundedInduction, TLAPS

-------------------------------------------------------------------------------
(* The asynchronous engine.                                                    *)

\* A request that is not in the scheduler yet is whole: nothing of it was
\* generated, and before its client came it is in no queue at all.
FreshWhole ==
    \A r \in Request :
        /\ client[r] = "new" => where[r] = "new"
        /\ where[r] \in {"new", "pending"} => left[r] = MaxNew

\* While a step is at its forward pass, each running request may still get a token.
StepHasTokens == loop = "stepping" => \A r \in In("running") : left[r] > 0

\* A loop that has not given up has an error left.
LoopErrors == loop # "off" => errors < MaxErrors

\* stop ends the loop, and counts nobody away who waits.
StoppedIsOff == stage = "stopped" => loop = "off" /\ Cardinality(Waiting) <= active

\* Until stop, a target is kept exactly for who waits, but for streams that have
\* their final item.
TargetsExact ==
    /\ stage # "stopped" => futures \subseteq Waiting /\ Waiting \ Streams \subseteq futures
    /\ \A r \in Waiting : r \in futures \/ final[r] # "none"

\* Between two steps nobody waits for a request that the next one forgets.
NothingUndelivered == intact /\ loop = "idle" => In("finished") \cap futures = {}

\* The inductive invariant. The count needs a target to be kept for waiting
\* clients only, or it would be counted down twice; an answer is coming because
\* what finished is delivered before the next step forgets it.
Inv ==
    /\ CountsExact
    /\ NoAnswerLost
    /\ FreshWhole
    /\ StepHasTokens
    /\ LoopErrors
    /\ StoppedIsOff
    /\ TargetsExact
    /\ NothingUndelivered

-----------------------------------------------------------------------------
(* Counting. *)

\* Any set of requests is finite, and counts up to the number of requests.
LEMMA Countable ==
    ASSUME NEW S \in SUBSET Request
    PROVE  IsFiniteSet(S) /\ Cardinality(S) \in Nat /\ Cardinality(S) <= NumRequests
<1>1. NumRequests \in Nat
    BY AsyncEngineAssumption
<1>2. IsFiniteSet(Request) /\ Cardinality(Request) = NumRequests
    BY <1>1, FS_Interval DEF Request
<1>3. IsFiniteSet(S) /\ Cardinality(S) <= Cardinality(Request)
    BY <1>2, FS_Subset
<1> QED BY <1>2, <1>3, FS_CardinalityType

LEMMA CountAdd ==
    ASSUME NEW S \in SUBSET Request, NEW r \in Request, r \notin S
    PROVE  Cardinality(S \cup {r}) = Cardinality(S) + 1
BY Countable, FS_AddElement

LEMMA CountRemove ==
    ASSUME NEW S \in SUBSET Request, NEW r \in S
    PROVE  Cardinality(S \ {r}) = Cardinality(S) - 1
BY Countable, FS_RemoveElement

LEMMA CountMinus ==
    ASSUME NEW S \in SUBSET Request, NEW T \in SUBSET S
    PROVE  Cardinality(S \ T) = Cardinality(S) - Cardinality(T)
<1>1. S \cap T = T
    OBVIOUS
<1> QED BY <1>1, Countable, FS_Difference

LEMMA CountSubset ==
    ASSUME NEW S \in SUBSET Request, NEW T \in SUBSET S
    PROVE  Cardinality(T) <= Cardinality(S)
BY Countable, FS_Subset

\* No client waits exactly if their number is 0.
LEMMA CountNone ==
    ASSUME NEW S \in SUBSET Request, Cardinality(S) = 0
    PROVE  S = {}
BY Countable, FS_EmptySet

-----------------------------------------------------------------------------
(* The initial state. *)

LEMMA InitInv == Init => Inv
<1> SUFFICES ASSUME Init PROVE Inv
    OBVIOUS
<1> USE AsyncEngineAssumption
<1>1. Waiting = {} /\ \A q : q # "new" => In(q) = {}
    BY DEF Init, Waiting, In
<1>2. Cardinality({}) = 0
    BY FS_EmptySet
<1>3. TypeOK
    BY <1>2 DEF Init, TypeOK
<1>4. ActiveCountExact /\ SlotsExact
    BY <1>1, <1>2 DEF Init, ActiveCountExact, SlotsExact
<1>5. NoAnswerLost /\ StepHasTokens /\ LoopErrors /\ StoppedIsOff /\ NothingUndelivered
    BY <1>1 DEF Init, NoAnswerLost, StepHasTokens, LoopErrors, StoppedIsOff, NothingUndelivered
<1>6. FreshWhole /\ TargetsExact
    BY <1>1 DEF Init, FreshWhole, TargetsExact
<1> QED BY <1>3, <1>4, <1>5, <1>6 DEF Inv, CountsExact

-----------------------------------------------------------------------------
(* Clients. *)

\* What an action that leaves the engine alone keeps of its invariant.
EngineParts == SlotsExact /\ StepHasTokens /\ LoopErrors

LEMMA EngineKept ==
    ASSUME Inv, UNCHANGED <<where, left, slots, loop, errors>>
    PROVE  EngineParts'
<1>1. \A q : In(q)' = In(q)
    BY DEF In
<1> QED BY <1>1 DEF EngineParts, Inv, CountsExact, SlotsExact, StepHasTokens, LoopErrors

LEMMA SubmitInv ==
    ASSUME Inv, NEW r \in Request, Submit(r)
    PROVE  Inv'
<1> USE AsyncEngineAssumption
<1>1. /\ TypeOK /\ stage # "stopped" /\ client[r] = "new" /\ where[r] = "new"
      /\ left[r] = MaxNew
    BY DEF Inv, CountsExact, Submit, IsNext, FreshWhole
<1>2. Waiting' = Waiting \cup {r} /\ r \notin Waiting
    BY <1>1 DEF Waiting, Submit, TypeOK
<1>3. /\ In("pending")' = In("pending") \cup {r}
      /\ In("running")' = In("running") /\ In("finished")' = In("finished")
      /\ r \notin In("running") /\ r \notin In("finished")
    BY <1>1 DEF In, Submit, TypeOK
<1>4. Waiting \in SUBSET Request /\ Waiting' \in SUBSET Request
    BY DEF Waiting
<1>5. active' = Cardinality(Waiting')
    BY <1>1, <1>2, <1>4, CountAdd DEF Submit, Inv, CountsExact, ActiveCountExact
<1>6. Cardinality(slots') <= NumSlots
    <2>1. IsFiniteSet(slots) /\ Cardinality(slots) \in Nat
        BY <1>1, Countable DEF TypeOK
    <2>2. Cardinality(slots \cup {r}) \in {Cardinality(slots), Cardinality(slots) + 1}
        BY <2>1, FS_AddElement
    <2>3. Cardinality(slots) < NumSlots /\ slots' = slots \cup {r} /\ NumSlots \in Nat
        BY DEF Submit, SlotFree
    <2> QED BY <2>1, <2>2, <2>3
<1>7. TypeOK'
    BY <1>1, <1>4, <1>5, <1>6, Countable DEF TypeOK, Submit
<1>8. ActiveCountExact' /\ SlotsExact'
    BY <1>3, <1>5 DEF ActiveCountExact, SlotsExact, Inv, CountsExact, Submit
<1>9. NoAnswerLost'
    BY <1>1, <1>2 DEF NoAnswerLost, AnswerComing, Inv, Submit, TypeOK
<1>10. FreshWhole'
    BY <1>1 DEF FreshWhole, Inv, Submit, TypeOK
<1>11. StepHasTokens' /\ LoopErrors'
    BY <1>3 DEF StepHasTokens, LoopErrors, Inv, Submit
<1>12. StoppedIsOff' /\ TargetsExact'
    BY <1>1, <1>2 DEF StoppedIsOff, TargetsExact, Inv, Submit
<1>13. NothingUndelivered'
    BY <1>3 DEF NothingUndelivered, Inv, Submit
<1> QED BY <1>7, <1>8, <1>9, <1>10, <1>11, <1>12, <1>13 DEF Inv, CountsExact

LEMMA RefuseInv ==
    ASSUME Inv, NEW r \in Request, Refuse(r)
    PROVE  Inv'
<1>1. TypeOK /\ client[r] = "new"
    BY DEF Inv, CountsExact, Refuse, IsNext
<1>2. Waiting' = Waiting
    BY <1>1 DEF Waiting, Refuse, TypeOK
<1>3. EngineParts'
    BY EngineKept DEF Refuse, engine
<1>4. TypeOK'
    BY <1>1 DEF TypeOK, Refuse, engine
<1>5. ActiveCountExact' /\ StoppedIsOff' /\ TargetsExact'
    BY <1>2 DEF ActiveCountExact, StoppedIsOff, TargetsExact, Inv, CountsExact, Refuse
<1>6. NoAnswerLost' /\ NothingUndelivered'
    BY <1>2 DEF NoAnswerLost, AnswerComing, NothingUndelivered, In, Inv, Refuse, engine
<1>7. FreshWhole'
    BY <1>1 DEF FreshWhole, Inv, Refuse, engine, TypeOK
<1> QED BY <1>3, <1>4, <1>5, <1>6, <1>7 DEF Inv, CountsExact, EngineParts

LEMMA CancelInv ==
    ASSUME Inv, NEW r \in Request, Cancel(r)
    PROVE  Inv'
<1>1. Waiting' = Waiting
    BY DEF Waiting, Cancel
<1>2. EngineParts'
    BY EngineKept DEF Cancel, engine
<1>3. TypeOK'
    BY DEF TypeOK, Inv, CountsExact, Cancel, engine
<1>4. ActiveCountExact' /\ StoppedIsOff' /\ TargetsExact'
    BY <1>1 DEF ActiveCountExact, StoppedIsOff, TargetsExact, Inv, CountsExact, Cancel
<1>5. NoAnswerLost' /\ NothingUndelivered' /\ FreshWhole'
    BY <1>1 DEF NoAnswerLost, AnswerComing, NothingUndelivered, FreshWhole, In, Inv, Cancel, engine
<1> QED BY <1>2, <1>3, <1>4, <1>5 DEF Inv, CountsExact, EngineParts

\* A stream that has its final item, or is closed: the same but for what the
\* client knows afterwards.
LEMMA StreamGone ==
    ASSUME Inv, NEW r \in Streams \cap Waiting,
           NEW v \in {"left", "done", "error", "cancelled"},
           client' = [client EXCEPT ![r] = v],
           active' = active - 1,
           futures' = futures \ {r},
           cancelled' = IF r \in futures THEN cancelled \cup {r} ELSE cancelled,
           UNCHANGED <<engine, final, loop, errors, stage, intact>>
    PROVE  Inv'
<1> USE AsyncEngineAssumption
<1>1. TypeOK /\ r \in Request /\ client[r] = "waiting"
    BY DEF Inv, CountsExact, Waiting
<1>2. Waiting' = Waiting \ {r} /\ r \in Waiting
    BY <1>1 DEF Waiting, TypeOK
<1>3. Waiting \in SUBSET Request /\ Waiting' \in SUBSET Request
    BY DEF Waiting
<1>4. Cardinality(Waiting') = Cardinality(Waiting) - 1
    BY <1>2, <1>3, CountRemove
<1>5. Cardinality(Waiting) <= active
    BY <1>1, <1>3, Countable DEF Inv, CountsExact, ActiveCountExact, StoppedIsOff, TypeOK
<1>6. active' \in 0 .. NumRequests
    BY <1>1, <1>3, <1>4, <1>5, Countable DEF TypeOK
<1>7. TypeOK'
    BY <1>1, <1>6 DEF TypeOK, engine
<1>8. EngineParts'
    BY EngineKept DEF engine
<1>9. ActiveCountExact' /\ StoppedIsOff'
    BY <1>1, <1>3, <1>4, Countable DEF ActiveCountExact, StoppedIsOff, Inv, CountsExact, TypeOK
<1>10. TargetsExact'
    BY <1>2 DEF TargetsExact, Inv
<1>11. NoAnswerLost' /\ NothingUndelivered'
    BY <1>2 DEF NoAnswerLost, AnswerComing, NothingUndelivered, In, Inv, engine
<1>12. FreshWhole'
    BY <1>1 DEF FreshWhole, Inv, engine, TypeOK
<1> QED BY <1>7, <1>8, <1>9, <1>10, <1>11, <1>12 DEF Inv, CountsExact, EngineParts

LEMMA StreamEndsInv ==
    ASSUME Inv, NEW r \in Request, StreamEnds(r)
    PROVE  Inv'
<1>1. final[r] \in {"left", "done", "error", "cancelled"}
    BY DEF StreamEnds, Inv, CountsExact, TypeOK
<1> QED BY <1>1, StreamGone DEF StreamEnds

LEMMA StreamLeavesInv ==
    ASSUME Inv, NEW r \in Request, StreamLeaves(r)
    PROVE  Inv'
BY StreamGone DEF StreamLeaves

-----------------------------------------------------------------------------
(* The engine loop. *)

\* Who is told is no longer waited for or has a final item; the others keep what
\* they had.
LEMMA Answering ==
    ASSUME Inv, stage # "stopped", NEW R \in SUBSET Request, NEW v \in {"done", "error"},
           Answer(R, v)
    PROVE  /\ futures' = futures \ R /\ futures' \subseteq Waiting'
           /\ Waiting' = Waiting \ ((R \cap futures) \ Streams)
           /\ Waiting' \ Streams \subseteq futures'
           /\ active' = Cardinality(Waiting') /\ active' \in 0 .. NumRequests
           /\ \A r \in Waiting' : r \in futures' \/ final'[r] # "none"
           /\ \A r \in Waiting' : r \in R \cap futures \/ final'[r] = final[r]
           /\ \A r \in Request : client'[r] = "new" => client[r] = "new"
           /\ \A r \in Request : r \in R \cap futures /\ r \in Waiting' => final'[r] # "none"
           /\ client' \in [Request -> {"new", "refused", "waiting", "left", "done", "error", "cancelled"}]
           /\ final' \in [Request -> {"none", "done", "error", "cancelled"}]
<1> DEFINE told == R \cap futures
<1>1. TypeOK /\ futures \subseteq Waiting /\ Waiting \ Streams \subseteq futures
      /\ active = Cardinality(Waiting)
    BY DEF Inv, CountsExact, ActiveCountExact, TargetsExact
<1>2. futures' = futures \ R /\ active' = active - Cardinality(told \ Streams)
    BY DEF Answer
<1>3. \A r \in Request : client'[r] = IF r \in told \ Streams THEN v ELSE client[r]
    BY DEF Answer, Put
<1>4. \A r \in Request : final'[r] = IF r \in told \cap Streams THEN v ELSE final[r]
    BY DEF Answer, Put
<1>5. Waiting' = Waiting \ (told \ Streams)
    BY <1>3 DEF Waiting
<1>6. Waiting \in SUBSET Request /\ told \ Streams \in SUBSET Waiting
    BY <1>1 DEF Waiting
<1>7. active' = Cardinality(Waiting')
    BY <1>1, <1>2, <1>5, <1>6, CountMinus
<1>8. active' \in 0 .. NumRequests
    BY <1>5, <1>6, <1>7, Countable, AsyncEngineAssumption
<1>9. /\ client' \in [Request -> {"new", "refused", "waiting", "left", "done", "error", "cancelled"}]
      /\ final' \in [Request -> {"none", "done", "error", "cancelled"}]
    BY <1>1 DEF Answer, Put, TypeOK
<1>10. futures' \subseteq Waiting' /\ Waiting' \ Streams \subseteq futures'
    BY <1>1, <1>2, <1>5
<1>11. \A r \in Waiting' : r \in futures' \/ final'[r] # "none"
    BY <1>2, <1>4, <1>5, <1>6 DEF Inv, TargetsExact
<1>12. \A r \in Request : r \in told /\ r \in Waiting' => final'[r] # "none"
    BY <1>4, <1>5
<1>13. \A r \in Waiting' : r \in told \/ final'[r] = final[r]
    BY <1>4, <1>5, <1>6
<1>14. \A r \in Request : client'[r] = "new" => client[r] = "new"
    BY <1>3
<1> QED BY <1>2, <1>5, <1>7, <1>8, <1>9, <1>10, <1>11, <1>12, <1>13, <1>14

LEMMA BeginInv ==
    ASSUME Inv, NEW late \in SUBSET In("running"), BeginStep(late)
    PROVE  Inv'
<1> DEFINE out   == late \cup (cancelled \cap (In("pending") \cup In("running")))
           over  == out \cup {r \in In("running") : left[r] = 0}
           stay  == In("running") \ over
           wait  == In("pending") \ over
           admit == Admitted(wait, MaxBatch - Cardinality(stay))
<1>1. TypeOK /\ loop = "idle"
    BY DEF Inv, CountsExact, BeginStep
<1>2. /\ where' = [r \in Request |-> CASE r \in In("finished") -> "gone"
                                         [] r \in over           -> "finished"
                                         [] r \in admit          -> "running"
                                         [] OTHER                -> where[r]]
      /\ slots' = slots \ (In("finished") \cup (out \cap In("running")))
      /\ cancelled' = cancelled \ out
      /\ loop' \in {"stepped", "stepping"}
      /\ UNCHANGED <<left, futures, final, client, active, errors, stage, intact>>
    BY DEF BeginStep
<1>3. out \subseteq In("pending") \cup In("running") /\ admit \subseteq wait
    BY DEF Admitted
<1> HIDE DEF admit
<1>4. /\ In("pending") \cap In("running") = {} /\ In("pending") \cap In("finished") = {}
      /\ In("running") \cap In("finished") = {}
    BY DEF In
<1>5. /\ In("pending")' = wait \ admit
      /\ In("running")' = stay \cup admit
      /\ In("finished")' = over
    <2>1. \A r \in Request : where'[r] = CASE r \in In("finished") -> "gone"
                                            [] r \in over           -> "finished"
                                            [] r \in admit          -> "running"
                                            [] OTHER                -> where[r]
        BY <1>2
    <2> QED BY <2>1, <1>3, <1>4 DEF In
<1>6. Waiting' = Waiting
    BY <1>2 DEF Waiting
<1>7. Cardinality(slots') <= NumSlots /\ slots' \subseteq slots
    <2>1. slots \in SUBSET Request /\ slots' \in SUBSET slots /\ NumSlots \in Nat
        BY <1>1, <1>2, AsyncEngineAssumption DEF TypeOK
    <2>2. Cardinality(slots') <= Cardinality(slots) /\ slots' \in SUBSET Request
        BY <2>1, CountSubset
    <2> QED BY <2>1, <2>2, <1>1, Countable DEF TypeOK
<1>8. TypeOK'
    <2>1. where' \in [Request -> {"new", "pending", "running", "finished", "gone"}]
        BY <1>1, <1>2 DEF TypeOK
    <2> QED BY <2>1, <1>1, <1>2, <1>7 DEF TypeOK
<1>9. SlotsExact'
    BY <1>2, <1>3, <1>4, <1>5 DEF SlotsExact, Inv, CountsExact
<1>10. ActiveCountExact' /\ StoppedIsOff' /\ TargetsExact'
    BY <1>1, <1>2, <1>6 DEF ActiveCountExact, StoppedIsOff, TargetsExact, Inv, CountsExact
<1>11. NoAnswerLost'
    <2>1. ASSUME intact, NEW r \in Waiting, final[r] = "none"
          PROVE  r \in futures /\ r \in In("pending") \cup In("running")
        BY <2>1, <1>1 DEF Inv, NoAnswerLost, AnswerComing, NothingUndelivered, In, Waiting
    <2>2. \A r \in In("pending") \cup In("running") :
              r \in In("pending")' \cup In("running")' \cup In("finished")'
        BY <1>5
    <2>3. \A r \in In("pending")' \cup In("running")' \cup In("finished")' :
              where'[r] \in {"pending", "running", "finished"}
        BY DEF In
    <2> QED BY <2>1, <2>2, <2>3, <1>2, <1>6 DEF NoAnswerLost, AnswerComing, Inv
<1>12. FreshWhole'
    BY <1>2, <1>3, <1>4 DEF FreshWhole, Inv, In
<1>13. StepHasTokens'
    <2>1. \A r \in stay : left[r] > 0
        BY <1>1 DEF In, TypeOK
    <2>2. \A r \in wait : left[r] > 0
        BY AsyncEngineAssumption DEF Inv, FreshWhole, In
    <2> QED BY <2>1, <2>2, <1>2, <1>3, <1>5 DEF StepHasTokens
<1>14. LoopErrors' /\ NothingUndelivered'
    BY <1>1, <1>2 DEF LoopErrors, NothingUndelivered, Inv
<1> QED BY <1>8, <1>9, <1>10, <1>11, <1>12, <1>13, <1>14 DEF Inv, CountsExact

LEMMA EndInv ==
    ASSUME Inv, NEW stopping \in SUBSET In("running"), EndStep(stopping)
    PROVE  Inv'
<1>1. TypeOK /\ loop = "stepping" /\ loop' = "stepped"
    BY DEF Inv, CountsExact, EndStep
<1>2. \A q : In(q)' = In(q)
    BY DEF In, EndStep
<1>3. Waiting' = Waiting
    BY DEF Waiting, EndStep
<1>4. \A r \in Request : left'[r] = CASE r \in stopping      -> 0
                                       [] r \in In("running") -> left[r] - 1
                                       [] OTHER               -> left[r]
    BY DEF EndStep
<1>5. left' \in [Request -> 0 .. MaxNew]
    <2>1. \A r \in In("running") : left[r] > 0
        BY <1>1 DEF Inv, StepHasTokens
    <2>2. \A r \in Request : left[r] \in 0 .. MaxNew /\ MaxNew \in Nat
        BY <1>1, AsyncEngineAssumption DEF TypeOK
    <2>3. \A r \in Request : left'[r] \in 0 .. MaxNew
        BY <2>1, <2>2, <1>4
    <2> QED BY <2>3 DEF EndStep
<1>6. TypeOK'
    BY <1>1, <1>5 DEF TypeOK, EndStep
<1>7. SlotsExact' /\ StepHasTokens' /\ LoopErrors' /\ NothingUndelivered'
    BY <1>1, <1>2 DEF SlotsExact, StepHasTokens, LoopErrors, NothingUndelivered,
                      Inv, CountsExact, EndStep
<1>8. ActiveCountExact' /\ StoppedIsOff' /\ TargetsExact'
    BY <1>1, <1>3 DEF ActiveCountExact, StoppedIsOff, TargetsExact, Inv, CountsExact, EndStep
<1>9. NoAnswerLost'
    BY <1>3 DEF NoAnswerLost, AnswerComing, Inv, EndStep
<1>10. FreshWhole'
    BY <1>4 DEF FreshWhole, Inv, EndStep, In
<1> QED BY <1>6, <1>7, <1>8, <1>9, <1>10 DEF Inv, CountsExact

LEMMA FailInv ==
    ASSUME Inv, FailStep
    PROVE  Inv'
<1>1. loop = "stepping" /\ loop' = "failed"
    BY DEF FailStep
<1>2. (\A q : In(q)' = In(q)) /\ Waiting' = Waiting
    BY DEF In, Waiting, FailStep, engine
<1>3. TypeOK'
    BY DEF TypeOK, Inv, CountsExact, FailStep, engine
<1>4. SlotsExact' /\ StepHasTokens' /\ LoopErrors' /\ NothingUndelivered'
    BY <1>1, <1>2 DEF SlotsExact, StepHasTokens, LoopErrors, NothingUndelivered,
                      Inv, CountsExact, FailStep, engine
<1>5. ActiveCountExact' /\ StoppedIsOff' /\ TargetsExact'
    BY <1>1, <1>2 DEF ActiveCountExact, StoppedIsOff, TargetsExact, Inv, CountsExact, FailStep
<1>6. NoAnswerLost' /\ FreshWhole'
    BY <1>2 DEF NoAnswerLost, AnswerComing, FreshWhole, Inv, FailStep, engine
<1> QED BY <1>3, <1>4, <1>5, <1>6 DEF Inv, CountsExact

LEMMA DeliverInv ==
    ASSUME Inv, Deliver
    PROVE  Inv'
<1> USE AsyncEngineAssumption
<1>1. /\ TypeOK /\ loop = "stepped" /\ loop' = "idle" /\ stage # "stopped" /\ stage' = stage
      /\ errors' = 0 /\ intact' = intact /\ left' = left /\ cancelled' = cancelled
    BY DEF Inv, CountsExact, StoppedIsOff, Deliver
<1>2. In("finished") \in SUBSET Request /\ Answer(In("finished"), "done")
    BY DEF In, Deliver
<1>3. /\ futures' = futures \ In("finished") /\ futures' \subseteq Waiting'
      /\ Waiting' = Waiting \ ((In("finished") \cap futures) \ Streams)
      /\ Waiting' \ Streams \subseteq futures'
      /\ active' = Cardinality(Waiting') /\ active' \in 0 .. NumRequests
      /\ \A r \in Waiting' : r \in futures' \/ final'[r] # "none"
      /\ \A r \in Waiting' : r \in In("finished") \cap futures \/ final'[r] = final[r]
      /\ \A r \in Request : client'[r] = "new" => client[r] = "new"
      /\ \A r \in Request : r \in In("finished") \cap futures /\ r \in Waiting' => final'[r] # "none"
      /\ client' \in [Request -> {"new", "refused", "waiting", "left", "done", "error", "cancelled"}]
      /\ final' \in [Request -> {"none", "done", "error", "cancelled"}]
    BY <1>1, <1>2, Answering
<1>4. \A r \in Request : where'[r] = IF r \in In("finished") THEN "gone" ELSE where[r]
    BY DEF Deliver, Put
<1>5. In("pending")' = In("pending") /\ In("running")' = In("running") /\ In("finished")' = {}
    BY <1>4 DEF In
<1>6. slots' = slots \ In("finished")
    BY DEF Deliver
<1>7. Cardinality(slots') <= NumSlots
    <2>1. slots \in SUBSET Request /\ slots' \in SUBSET slots /\ NumSlots \in Nat
        BY <1>1, <1>6 DEF TypeOK
    <2>2. Cardinality(slots') <= Cardinality(slots) /\ slots' \in SUBSET Request
        BY <2>1, CountSubset
    <2> QED BY <2>1, <2>2, <1>1, Countable DEF TypeOK
<1>8. TypeOK'
    <2>1. where' \in [Request -> {"new", "pending", "running", "finished", "gone"}]
        BY <1>1 DEF TypeOK, Deliver, Put
    <2> QED BY <2>1, <1>1, <1>3, <1>6, <1>7 DEF TypeOK
<1>9. SlotsExact'
    BY <1>5, <1>6 DEF SlotsExact, Inv, CountsExact, In
<1>10. ActiveCountExact' /\ StoppedIsOff' /\ TargetsExact'
    BY <1>1, <1>3 DEF ActiveCountExact, StoppedIsOff, TargetsExact
<1>11. NoAnswerLost'
    <2>1. ASSUME intact, NEW r \in Waiting' PROVE AnswerComing(r)'
        <3>1. r \in Waiting /\ r \in Request /\ AnswerComing(r)
            BY <2>1, <1>3 DEF Inv, NoAnswerLost, Waiting
        <3>2. CASE r \in In("finished") \cap futures
            BY <3>1, <3>2, <1>3, <2>1 DEF AnswerComing
        <3>3. CASE r \notin In("finished") \cap futures
            BY <3>1, <3>3, <1>3, <1>4, <2>1 DEF AnswerComing, In
        <3> QED BY <3>2, <3>3
    <2> QED BY <2>1, <1>1 DEF NoAnswerLost
<1>12. FreshWhole'
    <2>1. ASSUME NEW r \in Request, client'[r] = "new" PROVE where'[r] = "new"
        <3>1. where[r] = "new"
            BY <2>1, <1>3 DEF Inv, FreshWhole
        <3>2. r \notin In("finished")
            BY <3>1 DEF In
        <3> QED BY <3>1, <3>2, <1>4
    <2>2. ASSUME NEW r \in Request, where'[r] \in {"new", "pending"} PROVE left'[r] = MaxNew
        <3>1. where[r] = where'[r]
            BY <2>2, <1>4
        <3> QED BY <2>2, <3>1, <1>1 DEF Inv, FreshWhole
    <2> QED BY <2>1, <2>2 DEF FreshWhole
<1>13. StepHasTokens' /\ LoopErrors' /\ NothingUndelivered'
    BY <1>1, <1>5 DEF StepHasTokens, LoopErrors, NothingUndelivered
<1> QED BY <1>8, <1>9, <1>10, <1>11, <1>12, <1>13 DEF Inv, CountsExact

LEMMA HandleFailureInv ==
    ASSUME Inv, HandleFailure
    PROVE  Inv'
<1> USE AsyncEngineAssumption
<1>1. /\ TypeOK /\ loop = "failed" /\ stage # "stopped" /\ stage' = stage
      /\ errors < MaxErrors /\ errors' = errors + 1
      /\ loop' = IF errors' >= MaxErrors THEN "off" ELSE "idle"
      /\ intact' = (intact /\ In("finished") \cap futures = {})
      /\ left' = left /\ cancelled' = cancelled
    BY DEF Inv, CountsExact, StoppedIsOff, LoopErrors, HandleFailure
<1>2. In("running") \in SUBSET Request /\ Answer(In("running"), "error")
    BY DEF In, HandleFailure
<1>3. /\ futures' = futures \ In("running") /\ futures' \subseteq Waiting'
      /\ Waiting' = Waiting \ ((In("running") \cap futures) \ Streams)
      /\ Waiting' \ Streams \subseteq futures'
      /\ active' = Cardinality(Waiting') /\ active' \in 0 .. NumRequests
      /\ \A r \in Waiting' : r \in futures' \/ final'[r] # "none"
      /\ \A r \in Waiting' : r \in In("running") \cap futures \/ final'[r] = final[r]
      /\ \A r \in Request : client'[r] = "new" => client[r] = "new"
      /\ \A r \in Request : r \in In("running") \cap futures /\ r \in Waiting' => final'[r] # "none"
      /\ client' \in [Request -> {"new", "refused", "waiting", "left", "done", "error", "cancelled"}]
      /\ final' \in [Request -> {"none", "done", "error", "cancelled"}]
    BY <1>1, <1>2, Answering
<1>4. \A r \in Request : where'[r] = IF r \in In("running") THEN "gone" ELSE where[r]
    BY DEF HandleFailure, Put
<1>5. /\ In("pending")' = In("pending") /\ In("running")' = {}
      /\ In("finished")' = In("finished") /\ In("pending") \cap In("running") = {}
    BY <1>4 DEF In
<1>6. slots' = slots \ In("running")
    BY DEF HandleFailure
<1>7. Cardinality(slots') <= NumSlots
    <2>1. slots \in SUBSET Request /\ slots' \in SUBSET slots /\ NumSlots \in Nat
        BY <1>1, <1>6 DEF TypeOK
    <2>2. Cardinality(slots') <= Cardinality(slots) /\ slots' \in SUBSET Request
        BY <2>1, CountSubset
    <2> QED BY <2>1, <2>2, <1>1, Countable DEF TypeOK
<1>8. TypeOK'
    <2>1. where' \in [Request -> {"new", "pending", "running", "finished", "gone"}]
        BY <1>1 DEF TypeOK, HandleFailure, Put
    <2>2. errors' \in 0 .. MaxErrors
        BY <1>1 DEF TypeOK
    <2> QED BY <2>1, <2>2, <1>1, <1>3, <1>6, <1>7 DEF TypeOK
<1>9. SlotsExact'
    BY <1>5, <1>6 DEF SlotsExact, Inv, CountsExact
<1>10. ActiveCountExact' /\ StoppedIsOff' /\ TargetsExact'
    BY <1>1, <1>3 DEF ActiveCountExact, StoppedIsOff, TargetsExact
<1>11. NoAnswerLost'
    <2>1. ASSUME intact', NEW r \in Waiting' PROVE AnswerComing(r)'
        <3>1. r \in Waiting /\ r \in Request /\ AnswerComing(r)
            BY <2>1, <1>1, <1>3 DEF Inv, NoAnswerLost, Waiting
        <3>2. CASE r \in In("running") \cap futures
            BY <3>1, <3>2, <1>3, <2>1 DEF AnswerComing
        <3>3. CASE r \notin In("running") \cap futures
            BY <3>1, <3>3, <1>3, <1>4, <2>1 DEF AnswerComing, In
        <3> QED BY <3>2, <3>3
    <2> QED BY <2>1, <1>1 DEF NoAnswerLost
<1>12. FreshWhole'
    <2>1. ASSUME NEW r \in Request, client'[r] = "new" PROVE where'[r] = "new"
        <3>1. where[r] = "new"
            BY <2>1, <1>3 DEF Inv, FreshWhole
        <3>2. r \notin In("running")
            BY <3>1 DEF In
        <3> QED BY <3>1, <3>2, <1>4
    <2>2. ASSUME NEW r \in Request, where'[r] \in {"new", "pending"} PROVE left'[r] = MaxNew
        <3>1. where[r] = where'[r]
            BY <2>2, <1>4
        <3> QED BY <2>2, <3>1, <1>1 DEF Inv, FreshWhole
    <2> QED BY <2>1, <2>2 DEF FreshWhole
<1>13. StepHasTokens' /\ LoopErrors'
    BY <1>1 DEF StepHasTokens, LoopErrors, TypeOK
<1>14. NothingUndelivered'
    BY <1>1, <1>3, <1>5 DEF NothingUndelivered
<1> QED BY <1>8, <1>9, <1>10, <1>11, <1>12, <1>13, <1>14 DEF Inv, CountsExact

-----------------------------------------------------------------------------
(* stop *)

LEMMA DrainInv ==
    ASSUME Inv, Drain
    PROVE  Inv'
<1>1. stage = "up" /\ stage' = "draining"
    BY DEF Drain
<1>2. (\A q : In(q)' = In(q)) /\ Waiting' = Waiting
    BY DEF In, Waiting, Drain, engine
<1>3. EngineParts'
    BY EngineKept DEF Drain, engine
<1>4. TypeOK'
    BY DEF TypeOK, Inv, CountsExact, Drain, engine
<1>5. ActiveCountExact' /\ StoppedIsOff' /\ TargetsExact'
    BY <1>1, <1>2 DEF ActiveCountExact, StoppedIsOff, TargetsExact, Inv, CountsExact, Drain
<1>6. NoAnswerLost' /\ NothingUndelivered' /\ FreshWhole'
    BY <1>1, <1>2 DEF NoAnswerLost, AnswerComing, NothingUndelivered, FreshWhole, Inv, Drain, engine
<1> QED BY <1>3, <1>4, <1>5, <1>6 DEF Inv, CountsExact, EngineParts

LEMMA ShutDownInv ==
    ASSUME Inv, ShutDown
    PROVE  Inv'
<1> USE AsyncEngineAssumption
<1>1. /\ TypeOK /\ stage = "draining" /\ stage' = "stopped" /\ loop' = "off"
      /\ UNCHANGED <<where, left, slots, cancelled, futures, active, errors, intact>>
    BY DEF Inv, CountsExact, ShutDown, engine
<1>2. /\ futures \subseteq Waiting /\ Waiting \ Streams \subseteq futures
      /\ active = Cardinality(Waiting) /\ Waiting \in SUBSET Request
    BY <1>1 DEF Inv, CountsExact, TargetsExact, ActiveCountExact, Waiting
<1>3. /\ Waiting' \in SUBSET Waiting
      /\ \A r \in Waiting' : final'[r] # "none"
      /\ \A r \in Request : client'[r] = "new" => client[r] = "new"
      /\ client' \in [Request -> {"new", "refused", "waiting", "left", "done", "error", "cancelled"}]
      /\ final' \in [Request -> {"none", "done", "error", "cancelled"}]
    <2>1. CASE active = 0
        <3>1. Waiting = {} /\ client' = client /\ final' = final
            BY <2>1, <1>2, CountNone DEF ShutDown
        <3> QED BY <3>1, <1>1 DEF Waiting, TypeOK
    <2>2. CASE active # 0
        <3>1. \A r \in Request : client'[r] = IF r \in futures \ Streams THEN "cancelled" ELSE client[r]
            BY <2>2 DEF ShutDown, Put
        <3>2. \A r \in Request : final'[r] = IF r \in futures \cap Streams THEN "cancelled" ELSE final[r]
            BY <2>2 DEF ShutDown, Put
        <3>3. Waiting' = Waiting \ (futures \ Streams)
            BY <3>1 DEF Waiting
        <3>4. \A r \in Waiting' : final'[r] # "none"
            BY <3>2, <3>3, <1>2 DEF Inv, TargetsExact
        <3>5. /\ client' \in [Request -> {"new", "refused", "waiting", "left", "done", "error", "cancelled"}]
              /\ final' \in [Request -> {"none", "done", "error", "cancelled"}]
            BY <2>2, <1>1 DEF ShutDown, Put, TypeOK
        <3> QED BY <3>1, <3>3, <3>4, <3>5
    <2> QED BY <2>1, <2>2
<1>4. TypeOK'
    BY <1>1, <1>3 DEF TypeOK
<1>5. SlotsExact' /\ StepHasTokens' /\ LoopErrors' /\ NothingUndelivered'
    BY <1>1 DEF SlotsExact, In, StepHasTokens, LoopErrors, NothingUndelivered, Inv, CountsExact
<1>6. ActiveCountExact' /\ StoppedIsOff'
    BY <1>1, <1>2, <1>3, CountSubset DEF ActiveCountExact, StoppedIsOff
<1>7. TargetsExact' /\ NoAnswerLost'
    BY <1>1, <1>3 DEF TargetsExact, NoAnswerLost, AnswerComing
<1>8. FreshWhole'
    BY <1>1, <1>3 DEF FreshWhole, Inv
<1> QED BY <1>4, <1>5, <1>6, <1>7, <1>8 DEF Inv, CountsExact

-----------------------------------------------------------------------------
(* The theorems. *)

LEMMA NextInv ==
    ASSUME Inv, [Next]_vars
    PROVE  Inv'
<1>1. CASE Next
    <2>1. CASE \E r \in Request : Submit(r) \/ Refuse(r) \/ Cancel(r) \/ StreamEnds(r) \/ StreamLeaves(r)
        BY <2>1, SubmitInv, RefuseInv, CancelInv, StreamEndsInv, StreamLeavesInv
    <2>2. CASE Begin
        BY <2>2, BeginInv DEF Begin
    <2>3. CASE End
        BY <2>3, EndInv DEF End
    <2>4. CASE FailStep \/ Deliver \/ HandleFailure
        BY <2>4, FailInv, DeliverInv, HandleFailureInv
    <2>5. CASE Drain \/ ShutDown
        BY <2>5, DrainInv, ShutDownInv
    <2> QED BY <1>1, <2>1, <2>2, <2>3, <2>4, <2>5 DEF Next
<1>2. CASE UNCHANGED vars
    <2>1. (\A q : In(q)' = In(q)) /\ Waiting' = Waiting
        BY <1>2 DEF In, Waiting, vars
    <2>2. TypeOK' /\ ActiveCountExact' /\ SlotsExact'
        BY <1>2, <2>1 DEF vars, TypeOK, ActiveCountExact, SlotsExact, Inv, CountsExact
    <2>3. NoAnswerLost' /\ FreshWhole' /\ StepHasTokens' /\ LoopErrors'
        BY <1>2, <2>1 DEF vars, NoAnswerLost, AnswerComing, FreshWhole, StepHasTokens, LoopErrors, Inv
    <2>4. StoppedIsOff' /\ TargetsExact' /\ NothingUndelivered'
        BY <1>2, <2>1 DEF vars, StoppedIsOff, TargetsExact, NothingUndelivered, Inv
    <2> QED BY <2>2, <2>3, <2>4 DEF Inv, CountsExact
<1> QED BY <1>1, <1>2

\* The inductive invariant of the asynchronous engine.
THEOREM EngineInvariant == Spec => []Inv
<1>1. Init => Inv
    BY InitInv
<1>2. Inv /\ [Next]_vars => Inv'
    BY NextInv
<1> QED BY <1>1, <1>2, PTL DEF Spec

\* However many clients submit, stream, cancel, disconnect and fail, and whenever
\* stop comes, active_requests is the number of clients that wait, and the slots
\* are those of the requests being served (i64_engine.py:457-474, 1473-1691).
THEOREM CountsAreExact == Spec => []CountsExact
<1>1. Inv => CountsExact
    BY DEF Inv
<1> QED BY <1>1, EngineInvariant, PTL

\* Unless a step failed that had just finished a request, an answer is coming for
\* whoever waits; and after stop, for everybody (i64_engine.py:1461-1492, 1611-1700).
THEOREM NoAnswerIsLost == Spec => []NoAnswerLost
<1>1. Inv => NoAnswerLost
    BY DEF Inv
<1> QED BY <1>1, EngineInvariant, PTL

-----------------------------------------------------------------------------
(* Induction, and what folds compute. *)

\* A set of naturals has a least element.
LEMMA WellOrdered ==
    ASSUME NEW T \in SUBSET Nat, T # {}
    PROVE  \E m \in T : \A k \in T : m <= k
<1>1. PICK m \in T : \A k \in T : <<k, m>> \notin OpToRel(<, Nat)
    BY WFMin, NatLessThanWellFounded, Zenon
<1>2. \A k \in T : ~(k < m)
    BY <1>1, Zenon DEF OpToRel
<1>3. \A k \in T : m <= k
    BY <1>2
<1> QED BY <1>3

\* Induction over the turns of a loop.
LEMMA LoopInduction ==
    ASSUME NEW n \in Nat, NEW S, 0 \in S, \A i \in 1 .. n : i - 1 \in S => i \in S
    PROVE  \A i \in 0 .. n : i \in S
<1> DEFINE T == {i \in Nat : i <= n /\ i \notin S}
<1>1. SUFFICES ASSUME T # {} PROVE FALSE
    OBVIOUS
<1>2. PICK m \in T : \A k \in T : m <= k
    <2> HIDE DEF T
    <2> QED BY <1>1, WellOrdered DEF T
<1>3. m # 0 /\ m \in 1 .. n /\ m - 1 \in Nat /\ ~(m <= m - 1) /\ m - 1 <= n
    BY <1>2
<1>4. m - 1 \in S
    BY <1>2, <1>3
<1> QED BY <1>2, <1>3, <1>4

\* A loop of n turns: turn i makes the value g[v, i] of X of a value v of X.
IsLoop(n, X, base, g) == n \in Nat /\ base \in X /\ g \in [X \X (1 .. n) -> X]

LoopTurns(n, X, base, g) ==
    {turns \in [0 .. n -> X] :
        turns[0] = base /\ \A i \in 1 .. n : turns[i] = g[<<turns[i - 1], i>>]}

LEMMA TurnsExist ==
    ASSUME NEW n, NEW X, NEW base, NEW g, IsLoop(n, X, base, g)
    PROVE  LoopTurns(n, X, base, g) # {}
<1> USE DEF IsLoop
<1> DEFINE Runs(m) == {turns \in [0 .. m -> X] :
                         turns[0] = base /\ \A i \in 1 .. m : turns[i] = g[<<turns[i - 1], i>>]}
           T == {m \in 0 .. n : Runs(m) # {}}
<1>1. 0 \in T
    <2> DEFINE a == [i \in 0 .. 0 |-> base]
    <2>1. a \in Runs(0)
        OBVIOUS
    <2> QED BY <2>1
<1>2. ASSUME NEW m \in 1 .. n, m - 1 \in T PROVE m \in T
    <2>1. PICK a \in Runs(m - 1) : TRUE
        BY <1>2
    <2> DEFINE b == [i \in 0 .. m |-> IF i < m THEN a[i] ELSE g[<<a[m - 1], m>>]]
    <2>2. /\ a \in [0 .. (m - 1) -> X] /\ a[0] = base
          /\ \A i \in 1 .. (m - 1) : a[i] = g[<<a[i - 1], i>>]
        BY <2>1
    <2>3. m - 1 \in 0 .. (m - 1) /\ a[m - 1] \in X /\ g[<<a[m - 1], m>>] \in X
        BY <2>2
    <2>4. b \in [0 .. m -> X] /\ b[0] = base /\ b[m] = g[<<a[m - 1], m>>] /\ b[m - 1] = a[m - 1]
        BY <2>2, <2>3
    <2>5. ASSUME NEW i \in 1 .. m PROVE b[i] = g[<<b[i - 1], i>>]
        <3>1. CASE i = m
            BY <3>1, <2>4
        <3>2. CASE i < m
            <4>1. i \in 1 .. (m - 1) /\ b[i] = a[i] /\ b[i - 1] = a[i - 1]
                BY <3>2
            <4> QED BY <4>1, <2>2
        <3> QED BY <3>1, <3>2
    <2>6. b \in Runs(m)
        <3> HIDE DEF b
        <3> QED BY <2>4, <2>5
    <2> HIDE DEF Runs, b
    <2> QED BY <2>6
<1> HIDE DEF T
<1>3. n \in T
    BY <1>1, <1>2, LoopInduction
<1> QED BY <1>3 DEF T, LoopTurns

\* The same for the sets of indices a fold goes down.
LoopFolds(n, X, base, g) ==
    {f \in [SUBSET (1 .. n) -> X] :
        \A s \in SUBSET (1 .. n) :
            f[s] = IF s = {} THEN base ELSE g[<<f[s \ {Max(s)}], Max(s)>>]}

LEMMA FoldExists ==
    ASSUME NEW n, NEW X, NEW base, NEW g, IsLoop(n, X, base, g)
    PROVE  LoopFolds(n, X, base, g) # {}
<1> USE DEF IsLoop
<1> DEFINE Folds(m) == {f \in [SUBSET (1 .. m) -> X] :
                          \A s \in SUBSET (1 .. m) :
                             f[s] = IF s = {} THEN base ELSE g[<<f[s \ {Max(s)}], Max(s)>>]}
           T == {m \in 0 .. n : Folds(m) # {}}
<1>1. 0 \in T
    <2> DEFINE a == [s \in SUBSET (1 .. 0) |-> base]
    <2>1. \A s \in SUBSET (1 .. 0) : s = {}
        OBVIOUS
    <2>2. a \in Folds(0)
        BY <2>1
    <2> HIDE DEF Folds, a
    <2> QED BY <2>2
<1>2. ASSUME NEW m \in 1 .. n, m - 1 \in T PROVE m \in T
    <2>1. PICK a \in Folds(m - 1) : TRUE
        BY <1>2
    <2> DEFINE U == 1 .. (m - 1)
               b == [s \in SUBSET (1 .. m) |-> IF m \in s THEN g[<<a[s \ {m}], m>>] ELSE a[s]]
    <2>2. /\ a \in [SUBSET U -> X]
          /\ \A s \in SUBSET U : a[s] = IF s = {} THEN base ELSE g[<<a[s \ {Max(s)}], Max(s)>>]
        BY <2>1
    <2>3. \A s \in SUBSET (1 .. m) : s \ {m} \in SUBSET U /\ (m \notin s => s \in SUBSET U)
        BY SMT
    <2>4. b \in [SUBSET (1 .. m) -> X]
        <3>1. \A s \in SUBSET (1 .. m) : g[<<a[s \ {m}], m>>] \in X
            BY <2>2, <2>3
        <3> QED BY <2>2, <2>3, <3>1
    <2>5. ASSUME NEW s \in SUBSET (1 .. m), m \in s PROVE Max(s) = m
        <3>1. \A x \in s : x \in Int /\ m >= x
            OBVIOUS
        <3>2. \A x \in s : x >= m => x = m
            BY <3>1, <2>5
        <3>3. \A x \in s : (\A y \in s : x >= y) <=> x = m
            BY <2>5, <3>1, <3>2
        <3> QED BY <2>5, <3>3 DEF Max
    <2>6. ASSUME NEW s \in SUBSET (1 .. m), s # {}
          PROVE  b[s] = g[<<b[s \ {Max(s)}], Max(s)>>]
        <3>1. CASE m \in s
            <4>1. b[s \ {m}] = a[s \ {m}]
                BY <2>3
            <4> QED BY <3>1, <4>1, <2>5
        <3>2. CASE m \notin s
            <4>1. s \in SUBSET U /\ s \ {Max(s)} \in SUBSET (1 .. m) /\ m \notin s \ {Max(s)}
                BY <2>3, <3>2
            <4> QED BY <2>2, <2>6, <3>2, <4>1
        <3> QED BY <3>1, <3>2
    <2>7. b[{}] = base
        <3>1. {} \in SUBSET (1 .. m) /\ {} \in SUBSET U
            OBVIOUS
        <3> QED BY <2>2, <3>1
    <2>8. b \in Folds(m)
        <3> HIDE DEF b
        <3> QED BY <2>4, <2>6, <2>7
    <2> HIDE DEF Folds, b
    <2> QED BY <2>8
<1> HIDE DEF T
<1>3. n \in T
    BY <1>1, <1>2, LoopInduction
<1> QED BY <1>3 DEF T, LoopFolds

\* The sets of indices a fold goes down from all of them.
LEMMA Upto ==
    ASSUME NEW n \in Nat
    PROVE  \A k \in 1 .. n : /\ 1 .. k \in SUBSET (1 .. n) /\ 1 .. k # {}
                             /\ Max(1 .. k) = k /\ (1 .. k) \ {k} = 1 .. (k - 1)
<1> SUFFICES ASSUME NEW k \in 1 .. n
             PROVE  /\ 1 .. k \in SUBSET (1 .. n) /\ 1 .. k # {}
                    /\ Max(1 .. k) = k /\ (1 .. k) \ {k} = 1 .. (k - 1)
    OBVIOUS
<1>1. Max(1 .. k) = k
    BY DEF Max
<1> QED BY <1>1

\* The greatest of some indices is one of them.
LEMMA TopOf ==
    ASSUME NEW n \in Nat, NEW s \in SUBSET (1 .. n), s # {}
    PROVE  /\ Max(s) \in s /\ Max(s) \in 1 .. n /\ s \ {Max(s)} \in SUBSET (1 .. n)
           /\ \A x \in s : Max(s) >= x
<1> DEFINE T == {k \in Nat : \E x \in s : x = n - k}
<1>1. PICK x \in s : TRUE
    OBVIOUS
<1>2. T \in SUBSET Nat /\ n - x \in T
    OBVIOUS
<1>3. PICK k \in T : \A j \in T : k <= j
    <2> HIDE DEF T
    <2> QED BY <1>2, WellOrdered
<1>4. n - k \in s /\ \A y \in s : n - y \in T
    OBVIOUS
<1>5. \A y \in s : n - k >= y
    <2> SUFFICES ASSUME NEW y \in s PROVE n - k >= y
        OBVIOUS
    <2>1. n - y \in T /\ k \in Nat /\ y \in Nat
        BY <1>3, <1>4
    <2>2. k <= n - y
        BY <1>3, <2>1
    <2> HIDE DEF T
    <2> QED BY <2>1, <2>2
<1>6. \E m \in s : \A y \in s : m >= y
    BY <1>4, <1>5
<1>7. Max(s) \in s /\ \A y \in s : Max(s) >= y
    BY <1>6 DEF Max
<1> QED BY <1>7
-----------------------------------------------------------------------------
(* Sequences. *)

LEMMA Elements ==
    ASSUME NEW S, NEW s \in Seq(S)
    PROVE  /\ DOMAIN s = 1 .. Len(s) /\ Len(s) \in Nat
           /\ \A i \in 1 .. Len(s) : s[i] \in S /\ s[i] \in ToSet(s)
           /\ ToSet(s) \subseteq S
           /\ \A x : x \in ToSet(s) <=> \E i \in 1 .. Len(s) : s[i] = x
<1>1. DOMAIN s = 1 .. Len(s) /\ Len(s) \in Nat /\ s \in [1 .. Len(s) -> S]
    BY LenProperties
<1> QED BY <1>1 DEF ToSet

\* Append and concatenation, place by place.
LEMMA Appended ==
    ASSUME NEW S, NEW s \in Seq(S), NEW e \in S
    PROVE  /\ Append(s, e) \in Seq(S) /\ Len(Append(s, e)) = Len(s) + 1
           /\ \A i \in 1 .. Len(s) : Append(s, e)[i] = s[i]
           /\ Append(s, e)[Len(s) + 1] = e
           /\ ToSet(Append(s, e)) = ToSet(s) \cup {e}
<1> DEFINE t == Append(s, e)
           n == Len(s)
<1>1. /\ t \in Seq(S) /\ Len(t) = n + 1 /\ n \in Nat
      /\ \A i \in 1 .. n : t[i] = s[i]
      /\ t[n + 1] = e
    BY AppendProperties, Elements
<1>2. /\ \A x : x \in ToSet(t) <=> \E i \in 1 .. n + 1 : t[i] = x
      /\ \A x : x \in ToSet(s) <=> \E i \in 1 .. n : s[i] = x
    <2>1. \A x : x \in ToSet(s) <=> \E i \in 1 .. n : s[i] = x
        BY Elements
    <2> HIDE DEF t
    <2>2. \A x : x \in ToSet(t) <=> \E i \in 1 .. Len(t) : t[i] = x
        BY <1>1, Elements
    <2> QED BY <1>1, <2>1, <2>2
<1> HIDE DEF t, n
<1>3. (\A i \in 1 .. n + 1 : i \in 1 .. n \/ i = n + 1) /\ \A i \in 1 .. n : i \in 1 .. n + 1
    BY <1>1
<1>4. n + 1 \in 1 .. n + 1
    BY <1>1
<1>5. ToSet(t) = ToSet(s) \cup {e}
    BY <1>1, <1>2, <1>3, <1>4
<1> QED BY <1>1, <1>5 DEF t, n

LEMMA Joined ==
    ASSUME NEW S, NEW s \in Seq(S), NEW t \in Seq(S)
    PROVE  /\ s \o t \in Seq(S) /\ Len(s \o t) = Len(s) + Len(t)
           /\ \A i \in 1 .. Len(s) : (s \o t)[i] = s[i]
           /\ \A i \in 1 .. Len(t) : (s \o t)[Len(s) + i] = t[i]
           /\ ToSet(s \o t) = ToSet(s) \cup ToSet(t)
<1> DEFINE u == s \o t
           m == Len(s)
           n == Len(t)
<1>1. /\ m \in Nat /\ n \in Nat
      /\ \A x : x \in ToSet(s) <=> \E i \in 1 .. m : s[i] = x
      /\ \A x : x \in ToSet(t) <=> \E i \in 1 .. n : t[i] = x
    BY Elements
<1>2. /\ u \in Seq(S) /\ Len(u) = m + n
      /\ \A i \in 1 .. m + n : u[i] = IF i <= m THEN s[i] ELSE t[i - m]
    BY ConcatProperties
<1>3. \A x : x \in ToSet(u) <=> \E i \in 1 .. m + n : u[i] = x
    BY <1>2, Elements
<1> HIDE DEF u, m, n
<1>4. \A i \in 1 .. m : i \in 1 .. m + n /\ u[i] = s[i]
    BY <1>1, <1>2
<1>5. \A i \in 1 .. n : m + i \in 1 .. m + n /\ u[m + i] = t[i]
    <2> SUFFICES ASSUME NEW i \in 1 .. n PROVE m + i \in 1 .. m + n /\ u[m + i] = t[i]
        OBVIOUS
    <2>1. m + i \in 1 .. m + n /\ ~(m + i <= m) /\ (m + i) - m = i
        BY <1>1
    <2> QED BY <1>2, <2>1
<1>6. \A i \in 1 .. m + n : \/ i \in 1 .. m /\ u[i] = s[i]
                            \/ i - m \in 1 .. n /\ i = m + (i - m) /\ u[i] = t[i - m]
    BY <1>1, <1>2
<1>7. ToSet(u) = ToSet(s) \cup ToSet(t)
    BY <1>1, <1>3, <1>4, <1>5, <1>6
<1> QED BY <1>2, <1>4, <1>5, <1>7 DEF u, m, n

LEMMA Cut ==
    ASSUME NEW S, NEW s \in Seq(S), NEW a \in Nat \ {0}, NEW b \in Int, b <= Len(s)
    PROVE  /\ SubSeq(s, a, b) \in Seq(S)
           /\ Len(SubSeq(s, a, b)) = IF a <= b THEN b - a + 1 ELSE 0
           /\ \A i \in 1 .. Len(SubSeq(s, a, b)) :
                  SubSeq(s, a, b)[i] = s[a + i - 1] /\ a + i - 1 \in 1 .. Len(s)
           /\ ToSet(SubSeq(s, a, b)) \subseteq ToSet(s)
           /\ \A x \in ToSet(SubSeq(s, a, b)) : \E i \in a .. b : s[i] = x
<1>1. DOMAIN s = 1 .. Len(s) /\ Len(s) \in Nat /\ s \in [1 .. Len(s) -> S]
      /\ \A x : x \in ToSet(s) <=> \E i \in 1 .. Len(s) : s[i] = x
    BY Elements
<1> DEFINE u == SubSeq(s, a, b)
<1>2. u = [i \in 1 .. (b - a + 1) |-> s[a + i - 1]] /\ Len(u) = IF a <= b THEN b - a + 1 ELSE 0
    BY <1>1
<1>3. \A i \in 1 .. (b - a + 1) : a + i - 1 \in 1 .. Len(s) /\ a + i - 1 \in a .. b
    BY <1>1
<1>4. u \in Seq(S)
    BY <1>1, <1>2, <1>3
<1> HIDE DEF u
<1>5. 1 .. Len(u) = 1 .. (b - a + 1)
    <2>1. CASE a <= b
        BY <1>2, <2>1
    <2>2. CASE ~(a <= b)
        <3>1. Len(u) = 0
            BY <1>2, <2>2
        <3>2. ~(1 <= b - a + 1)
            BY <2>2
        <3> QED BY <3>1, <3>2
    <2> QED BY <2>1, <2>2
<1>6. \A i \in 1 .. Len(u) : u[i] = s[a + i - 1] /\ a + i - 1 \in 1 .. Len(s) /\ a + i - 1 \in a .. b
    BY <1>2, <1>3, <1>5
<1>7. \A x : x \in ToSet(u) <=> \E i \in 1 .. Len(u) : u[i] = x
    BY <1>4, Elements
<1> QED BY <1>1, <1>2, <1>4, <1>6, <1>7 DEF u

\* What Kept computes, element by element.
KeptLoops(S, s, I) ==
    {f \in [0 .. Len(s) -> Seq(S)] :
        /\ f[0] = <<>>
        /\ \A i \in 1 .. Len(s) : f[i] = IF i \in I THEN Append(f[i - 1], s[i]) ELSE f[i - 1]
        /\ Kept(s, I) = f[Len(s)]}

LEMMA KeptTurns ==
    ASSUME NEW S, NEW s \in Seq(S), NEW I
    PROVE  KeptLoops(S, s, I) # {}
<1> DEFINE n == Len(s)
           X == Seq(S)
           none == <<>>
           Grown(t, i) == IF i \in I THEN Append(t, s[i]) ELSE t
           g == [p \in X \X (1 .. n) |-> Grown(p[1], p[2])]
           Is(f) == f = [i \in 0 .. n |-> IF i = 0 THEN none ELSE Grown(f[i - 1], i)]
           F == CHOOSE f : Is(f)
<1>1. Kept(s, I) = F[n]
    <2>1. \A f : Is(f) <=> f = [i \in 0 .. n |-> IF i = 0 THEN <<>>
                                ELSE IF i \in I THEN Append(f[i - 1], s[i]) ELSE f[i - 1]]
        OBVIOUS
    <2> QED BY DEF Kept
<1>2. n \in Nat /\ \A i \in 1 .. n : s[i] \in S
    BY Elements
<1>3. \A t \in X, i \in 1 .. n : Grown(t, i) \in X /\ g[<<t, i>>] = Grown(t, i)
    <2>1. \A t \in X, i \in 1 .. n : Append(t, s[i]) \in X
        BY <1>2, AppendProperties
    <2> QED BY <2>1
<1>4. g \in [X \X (1 .. n) -> X] /\ none \in X
    BY <1>3
<1> HIDE DEF n, g, X, Grown, none
<1>5. PICK f \in [0 .. n -> X] : f[0] = none /\ \A i \in 1 .. n : f[i] = g[<<f[i - 1], i>>]
    <2>1. LoopTurns(n, X, none, g) # {}
        BY <1>2, <1>4, TurnsExist DEF IsLoop
    <2> QED BY <2>1 DEF LoopTurns
<1>6. \A i \in 1 .. n : f[i] = Grown(f[i - 1], i)
    <2>1. \A i \in 1 .. n : i - 1 \in 0 .. n
        BY <1>2
    <2> QED BY <1>3, <1>5, <2>1
<1>7. Is(f)
    <2>1. \A i \in 0 .. n : f[i] = IF i = 0 THEN none ELSE Grown(f[i - 1], i)
        BY <1>5, <1>6
    <2> QED BY <1>5, <2>1
<1>8. Is(F)
    <2> HIDE DEF Is
    <2> QED BY <1>7
<1> HIDE DEF F
<1>9. F[0] = none /\ \A i \in 1 .. n : F[i] = Grown(F[i - 1], i)
    BY <1>2, <1>8
<1>10. \A i \in 0 .. n : F[i] = f[i]
    <2> DEFINE T == {i \in 0 .. n : F[i] = f[i]}
    <2>1. 0 \in T /\ \A i \in 1 .. n : i - 1 \in T => i \in T
        BY <1>2, <1>5, <1>6, <1>9
    <2> HIDE DEF T
    <2>2. \A i \in 0 .. n : i \in T
        BY <1>2, <2>1, LoopInduction
    <2> QED BY <2>2 DEF T
<1>11. Kept(s, I) = f[n]
    BY <1>1, <1>2, <1>10
<1>12. f \in [0 .. Len(s) -> Seq(S)] /\ f[0] = <<>> /\ Kept(s, I) = f[Len(s)]
    BY <1>5, <1>11 DEF n, X, none
<1>13. \A i \in 1 .. Len(s) : f[i] = IF i \in I THEN Append(f[i - 1], s[i]) ELSE f[i - 1]
    BY <1>6 DEF Grown, n
<1> HIDE DEF Is
<1>14. f \in KeptLoops(S, s, I)
    BY <1>12, <1>13 DEF KeptLoops
<1> QED BY <1>14

\* What is kept of a sequence: the elements at I, none twice if none was.
LEMMA KeptIs ==
    ASSUME NEW S, NEW s \in Seq(S), NEW I
    PROVE  /\ Kept(s, I) \in Seq(S) /\ Len(Kept(s, I)) <= Len(s)
           /\ \A x : x \in ToSet(Kept(s, I)) <=> \E i \in 1 .. Len(s) : i \in I /\ s[i] = x
           /\ IsInjective(s) => IsInjective(Kept(s, I))
<1>0. PICK f \in KeptLoops(S, s, I) : TRUE
    BY KeptTurns
<1> DEFINE n == Len(s)
           Within(i) == {s[j] : j \in (1 .. i) \cap I}
<1>1. n \in Nat /\ DOMAIN s = 1 .. n /\ \A i \in 1 .. n : s[i] \in S
    BY Elements
<1>2. /\ f \in [0 .. n -> Seq(S)] /\ f[0] = <<>>
      /\ \A i \in 1 .. n : f[i] = IF i \in I THEN Append(f[i - 1], s[i]) ELSE f[i - 1]
      /\ Kept(s, I) = f[n]
    BY <1>0 DEF KeptLoops
<1> DEFINE T == {i \in 0 .. n : /\ ToSet(f[i]) = Within(i) /\ Len(f[i]) <= i
                                /\ IsInjective(s) => IsInjective(f[i])}
<1>3. 0 \in T
    <2>1. ToSet(<<>>) = {} /\ IsInjective(<<>>) /\ Len(<<>>) = 0 /\ Within(0) = {}
        BY DEF ToSet, IsInjective
    <2>2. f[0] = <<>> /\ 0 \in 0 .. n /\ Len(f[0]) <= 0
        BY <1>1, <1>2, <2>1
    <2> HIDE DEF Within, n
    <2> QED BY <2>1, <2>2
<1>4. ASSUME NEW i \in 1 .. n, i - 1 \in T PROVE i \in T
    <2>1. i - 1 \in 0 .. n /\ f[i - 1] \in Seq(S) /\ Len(f[i - 1]) \in Nat /\ s[i] \in S
        BY <1>1, <1>2
    <2>2. /\ ToSet(f[i - 1]) = Within(i - 1) /\ Len(f[i - 1]) <= i - 1
          /\ IsInjective(s) => IsInjective(f[i - 1])
        BY <1>4
    <2>3. 1 .. i = (1 .. (i - 1)) \cup {i}
        BY <1>1
    <2>4. CASE i \notin I
        <3>1. f[i] = f[i - 1] /\ Within(i) = Within(i - 1)
            BY <1>2, <2>3, <2>4
        <3> HIDE DEF Within
        <3> QED BY <1>1, <2>1, <2>2, <3>1
    <2>5. CASE i \in I
        <3>1. f[i] = Append(f[i - 1], s[i]) /\ Within(i) = Within(i - 1) \cup {s[i]}
            BY <1>2, <2>3, <2>5
        <3>2. IsInjective(s) => s[i] \notin Within(i - 1)
            <4>1. \A j \in 1 .. (i - 1) : j \in 1 .. n /\ j # i
                BY <1>1
            <4> QED BY <1>1, <4>1 DEF IsInjective
        <3> HIDE DEF Within
        <3>3. ToSet(f[i]) = Within(i) /\ Len(f[i]) <= i
            BY <1>1, <2>1, <2>2, <3>1, Appended
        <3>4. ASSUME IsInjective(s) PROVE IsInjective(f[i])
            <4> DEFINE t == f[i - 1]
                       m == Len(t)
            <4>1. /\ DOMAIN t = 1 .. m /\ m \in Nat /\ DOMAIN f[i] = 1 .. m + 1
                  /\ \A j \in 1 .. m : f[i][j] = t[j] /\ t[j] # s[i]
                  /\ f[i][m + 1] = s[i]
                <5>1. \A j \in 1 .. m : t[j] \in ToSet(t)
                    BY <2>1, Elements
                <5>2. s[i] \notin ToSet(t)
                    BY <2>2, <3>2, <3>4
                <5>3. f[i] \in Seq(S) /\ Len(f[i]) = m + 1 /\ DOMAIN t = 1 .. m /\ m \in Nat
                    BY <2>1, <3>1, Appended, Elements
                <5>4. DOMAIN f[i] = 1 .. m + 1
                    BY <5>3
                <5> QED BY <2>1, <3>1, <5>1, <5>2, <5>3, <5>4, Appended
            <4>2. \A j, k \in 1 .. m : t[j] = t[k] => j = k
                BY <2>2, <3>4, <4>1 DEF IsInjective
            <4> HIDE DEF t, m
            <4>3. \A j \in 1 .. m + 1 : j \in 1 .. m \/ j = m + 1
                BY <4>1
            <4>4. \A j, k \in 1 .. m + 1 : f[i][j] = f[i][k] => j = k
                BY <4>1, <4>2, <4>3
            <4> QED BY <4>1, <4>4 DEF IsInjective
        <3> QED BY <1>1, <3>3, <3>4
    <2> QED BY <2>4, <2>5
<1> HIDE DEF T
<1>5. \A i \in 0 .. n : i \in T
    BY <1>1, <1>3, <1>4, LoopInduction
<1>6. n \in T /\ n \in 0 .. n
    BY <1>1, <1>5
<1>7. ToSet(f[n]) = Within(n) /\ Len(f[n]) <= n /\ (IsInjective(s) => IsInjective(f[n]))
    BY <1>6 DEF T
<1> HIDE DEF n
<1>8. \A x : x \in Within(n) <=> \E i \in 1 .. n : i \in I /\ s[i] = x
    OBVIOUS
<1> QED BY <1>2, <1>6, <1>7, <1>8 DEF n

-----------------------------------------------------------------------------
(* The folds of the context manager and of the answer, as loops. *)

\* A function on the sets of indices that goes down from them like a fold is a
\* loop over the indices.
LEMMA FoldIsLoop ==
    ASSUME NEW n, NEW X, NEW base, NEW g, IsLoop(n, X, base, g), NEW F,
           F[{}] = base,
           \A k \in 1 .. n : F[1 .. (k - 1)] \in X => F[1 .. k] = g[<<F[1 .. (k - 1)], k>>]
    PROVE  [k \in 0 .. n |-> F[1 .. k]] \in LoopTurns(n, X, base, g)
<1>1. n \in Nat /\ base \in X /\ g \in [X \X (1 .. n) -> X]
    BY DEF IsLoop
<1> DEFINE T == {k \in 0 .. n : F[1 .. k] \in X}
<1>2. 1 .. 0 = {}
    OBVIOUS
<1>3. 0 \in T
    BY <1>1, <1>2
<1>4. \A k \in 1 .. n : k - 1 \in T => k \in T
    <2> SUFFICES ASSUME NEW k \in 1 .. n, F[1 .. (k - 1)] \in X PROVE k \in T
        BY <1>1
    <2>1. g[<<F[1 .. (k - 1)], k>>] \in X
        BY <1>1
    <2> QED BY <1>1, <2>1
<1> HIDE DEF T
<1>5. \A k \in 0 .. n : k \in T
    BY <1>1, <1>3, <1>4, LoopInduction
<1>6. \A k \in 0 .. n : F[1 .. k] \in X
    BY <1>5 DEF T
<1> DEFINE turns == [k \in 0 .. n |-> F[1 .. k]]
<1>7. \A k \in 1 .. n : turns[k] = g[<<turns[k - 1], k>>]
    <2>1. \A k \in 1 .. n : k - 1 \in 0 .. n /\ k \in 0 .. n
        BY <1>1
    <2> QED BY <1>6, <2>1
<1>8. turns[0] = base /\ turns \in [0 .. n -> X]
    BY <1>1, <1>2, <1>6
<1> HIDE DEF turns
<1>9. turns \in LoopTurns(n, X, base, g)
    BY <1>7, <1>8 DEF LoopTurns
<1> QED BY <1>9 DEF turns

Role == {"system", "user", "assistant", "tool"}
Msg(E) == [role : Role, content : Seq(E)]

LEMMA Fields ==
    ASSUME NEW E, NEW ms \in Seq(Msg(E))
    PROVE  /\ Len(ms) \in Nat /\ DOMAIN ms = 1 .. Len(ms)
           /\ \A i \in 1 .. Len(ms) : /\ ms[i] \in Msg(E) /\ ms[i].content \in Seq(E)
                                      /\ ms[i].role \in Role /\ Len(ms[i].content) \in Nat
<1>1. Len(ms) \in Nat /\ DOMAIN ms = 1 .. Len(ms) /\ \A i \in 1 .. Len(ms) : ms[i] \in Msg(E)
    BY Elements
<1> QED BY <1>1 DEF Msg

\* The size of messages, message by message.
SizeLoops(ms) ==
    {f \in [0 .. Len(ms) -> Nat] :
        /\ f[0] = Opening
        /\ \A i \in 1 .. Len(ms) : f[i] = f[i - 1] + Header + Len(ms[i].content)
        /\ Size(ms) = f[Len(ms)]}

LEMMA SizeTurns ==
    ASSUME NEW E, NEW ms \in Seq(Msg(E))
    PROVE  SizeLoops(ms) # {}
<1> DEFINE n == Len(ms)
           X == Nat
           base == Opening
           Op(v, i) == v + Header + Len(ms[i].content)
           g == [p \in X \X (1 .. n) |-> Op(p[1], p[2])]
           Is(f) == f = [u \in SUBSET (1 .. n) |->
                           IF u = {} THEN base ELSE Op(f[u \ {Max(u)}], Max(u))]
           F == CHOOSE f : Is(f)
<1>1. n \in Nat
    BY Fields
<1>2. Size(ms) = F[1 .. n]
    BY <1>1, Fields DEF Size, FoldLeft, MapThenFoldSet
<1>3. \A v \in X, i \in 1 .. n : Op(v, i) \in X
    <2> SUFFICES ASSUME NEW v \in Nat, NEW i \in 1 .. n PROVE Op(v, i) \in Nat
        OBVIOUS
    <2> DEFINE l == Len(ms[i].content)
    <2>1. l \in Nat /\ Header \in Nat
        BY Fields, ContextAssumption
    <2> HIDE DEF l
    <2>2. v + Header + l \in Nat
        BY <2>1
    <2> QED BY <2>2 DEF l
<1>4. base \in X
    BY ContextAssumption
<1> HIDE DEF n, X, Op, base
<1>5. IsLoop(n, X, base, g) /\ \A v \in X, i \in 1 .. n : g[<<v, i>>] = Op(v, i)
    BY <1>1, <1>3, <1>4 DEF IsLoop
<1> HIDE DEF g
<1>6. PICK f \in [SUBSET (1 .. n) -> X] :
          \A u \in SUBSET (1 .. n) : f[u] = IF u = {} THEN base ELSE g[<<f[u \ {Max(u)}], Max(u)>>]
    <2>1. LoopFolds(n, X, base, g) # {}
        BY <1>5, FoldExists
    <2> QED BY <2>1 DEF LoopFolds
<1>7. Is(f)
    <2>1. \A u \in SUBSET (1 .. n) : u # {} =>
              Max(u) \in 1 .. n /\ u \ {Max(u)} \in SUBSET (1 .. n)
        BY <1>1, TopOf
    <2>2. \A u \in SUBSET (1 .. n) : u # {} => f[u] = Op(f[u \ {Max(u)}], Max(u))
        BY <1>5, <1>6, <2>1
    <2> QED BY <1>6, <2>2
<1> HIDE DEF Is
<1>8. Is(F)
    BY <1>7
<1> HIDE DEF F
<1>9. F[{}] = base /\ \A k \in 1 .. n : F[1 .. k] = Op(F[1 .. (k - 1)], k)
    <2>1. \A u \in SUBSET (1 .. n) :
              F[u] = IF u = {} THEN base ELSE Op(F[u \ {Max(u)}], Max(u))
        BY <1>8, Zenon DEF Is
    <2>2. {} \in SUBSET (1 .. n)
        OBVIOUS
    <2>3. ASSUME NEW k \in 1 .. n PROVE F[1 .. k] = Op(F[1 .. (k - 1)], k)
        <3>1. 1 .. k \in SUBSET (1 .. n) /\ 1 .. k # {} /\ Max(1 .. k) = k
              /\ (1 .. k) \ {k} = 1 .. (k - 1)
            BY <1>1, Upto
        <3> QED BY <2>1, <3>1
    <2> QED BY <2>1, <2>2, <2>3
<1> DEFINE turns == [k \in 0 .. n |-> F[1 .. k]]
<1>10. turns \in LoopTurns(n, X, base, g)
    <2>1. \A k \in 1 .. n : F[1 .. (k - 1)] \in X => F[1 .. k] = g[<<F[1 .. (k - 1)], k>>]
        BY <1>5, <1>9
    <2> QED BY <1>5, <1>9, <2>1, FoldIsLoop
<1>11. /\ turns \in [0 .. n -> X] /\ turns[0] = base /\ turns[n] = F[1 .. n]
       /\ \A i \in 1 .. n : turns[i] = Op(turns[i - 1], i)
    <2>1. n \in 0 .. n /\ \A i \in 1 .. n : i \in 0 .. n /\ i - 1 \in 0 .. n
        BY <1>1
    <2>2. turns[n] = F[1 .. n]
        BY <2>1
    <2>3. \A i \in 1 .. n : turns[i] = F[1 .. i] /\ turns[i - 1] = F[1 .. (i - 1)]
        BY <2>1
    <2> HIDE DEF turns
    <2> QED BY <1>9, <1>10, <2>2, <2>3 DEF LoopTurns
<1>12. Size(ms) = turns[n]
    BY <1>2, <1>11
<1> HIDE DEF turns
<1>13. turns \in SizeLoops(ms)
    BY <1>11, <1>12 DEF SizeLoops, n, X, base, Op
<1> QED BY <1>13

\* The final blocks of a turn, token by token.
FinalBlocksLoops(E, s) ==
    {f \in [0 .. Len(s) -> [open : BOOLEAN, block : Seq(E), text : Seq(E)]] :
        /\ f[0] = NoBlock
        /\ \A i \in 1 .. Len(s) : f[i] = IF ~f[i - 1].open THEN [f[i - 1] EXCEPT !.open = (s[i] = "fs")]
                   ELSE IF s[i] = "fe" THEN [NoBlock EXCEPT !.text = f[i - 1].text \o f[i - 1].block]
                   ELSE [f[i - 1] EXCEPT !.block = Append(@, s[i])]
        /\ FinalBlocks(s) = f[Len(s)].text}

LEMMA FinalBlocksTurns ==
    ASSUME NEW E, NEW s \in Seq(E)
    PROVE  FinalBlocksLoops(E, s) # {}
<1> DEFINE n == Len(s)
           X == [open : BOOLEAN, block : Seq(E), text : Seq(E)]
           base == NoBlock
           Op(v, i) == IF ~v.open THEN [v EXCEPT !.open = (s[i] = "fs")]
                   ELSE IF s[i] = "fe" THEN [NoBlock EXCEPT !.text = v.text \o v.block]
                   ELSE [v EXCEPT !.block = Append(@, s[i])]
           g == [p \in X \X (1 .. n) |-> Op(p[1], p[2])]
           Is(f) == f = [u \in SUBSET (1 .. n) |->
                           IF u = {} THEN base ELSE Op(f[u \ {Max(u)}], Max(u))]
           F == CHOOSE f : Is(f)
<1>1. n \in Nat
    BY Elements
<1>2. FinalBlocks(s) = F[1 .. n].text
    BY <1>1, Elements DEF FinalBlocks, FoldLeft, MapThenFoldSet
<1>3. \A v \in X, i \in 1 .. n : Op(v, i) \in X
    <2> SUFFICES ASSUME NEW v \in X, NEW i \in 1 .. n PROVE Op(v, i) \in X
        OBVIOUS
    <2>1. s[i] \in E
        BY Elements
    <2>2. v.text \o v.block \in Seq(E) /\ Append(v.block, s[i]) \in Seq(E)
        BY <2>1, Joined, Appended
    <2> DEFINE text == v.text \o v.block
               block == Append(v.block, s[i])
    <2> HIDE DEF text, block
    <2>3. text \in Seq(E) /\ block \in Seq(E) /\ <<>> \in Seq(E) /\ (s[i] = "fs") \in BOOLEAN
        BY <2>2 DEF text, block
    <2>4. [v EXCEPT !.open = (s[i] = "fs")] \in X
        BY <2>3
    <2>5. [NoBlock EXCEPT !.text = text] \in X
        BY <2>3 DEF NoBlock
    <2>6. [v EXCEPT !.block = block] \in X
        BY <2>3
    <2> QED BY <2>4, <2>5, <2>6 DEF text, block
<1>4. base \in X
    BY DEF NoBlock
<1> HIDE DEF n, X, Op, base
<1>5. IsLoop(n, X, base, g) /\ \A v \in X, i \in 1 .. n : g[<<v, i>>] = Op(v, i)
    BY <1>1, <1>3, <1>4 DEF IsLoop
<1> HIDE DEF g
<1>6. PICK f \in [SUBSET (1 .. n) -> X] :
          \A u \in SUBSET (1 .. n) : f[u] = IF u = {} THEN base ELSE g[<<f[u \ {Max(u)}], Max(u)>>]
    <2>1. LoopFolds(n, X, base, g) # {}
        BY <1>5, FoldExists
    <2> QED BY <2>1 DEF LoopFolds
<1>7. Is(f)
    <2>1. \A u \in SUBSET (1 .. n) : u # {} =>
              Max(u) \in 1 .. n /\ u \ {Max(u)} \in SUBSET (1 .. n)
        BY <1>1, TopOf
    <2>2. \A u \in SUBSET (1 .. n) : u # {} => f[u] = Op(f[u \ {Max(u)}], Max(u))
        BY <1>5, <1>6, <2>1
    <2> QED BY <1>6, <2>2
<1> HIDE DEF Is
<1>8. Is(F)
    BY <1>7
<1> HIDE DEF F
<1>9. F[{}] = base /\ \A k \in 1 .. n : F[1 .. k] = Op(F[1 .. (k - 1)], k)
    <2>1. \A u \in SUBSET (1 .. n) :
              F[u] = IF u = {} THEN base ELSE Op(F[u \ {Max(u)}], Max(u))
        BY <1>8, Zenon DEF Is
    <2>2. {} \in SUBSET (1 .. n)
        OBVIOUS
    <2>3. ASSUME NEW k \in 1 .. n PROVE F[1 .. k] = Op(F[1 .. (k - 1)], k)
        <3>1. 1 .. k \in SUBSET (1 .. n) /\ 1 .. k # {} /\ Max(1 .. k) = k
              /\ (1 .. k) \ {k} = 1 .. (k - 1)
            BY <1>1, Upto
        <3> QED BY <2>1, <3>1
    <2> QED BY <2>1, <2>2, <2>3
<1> DEFINE turns == [k \in 0 .. n |-> F[1 .. k]]
<1>10. turns \in LoopTurns(n, X, base, g)
    <2>1. \A k \in 1 .. n : F[1 .. (k - 1)] \in X => F[1 .. k] = g[<<F[1 .. (k - 1)], k>>]
        BY <1>5, <1>9
    <2> QED BY <1>5, <1>9, <2>1, FoldIsLoop
<1>11. /\ turns \in [0 .. n -> X] /\ turns[0] = base /\ turns[n] = F[1 .. n]
       /\ \A i \in 1 .. n : turns[i] = Op(turns[i - 1], i)
    <2>1. n \in 0 .. n /\ \A i \in 1 .. n : i \in 0 .. n /\ i - 1 \in 0 .. n
        BY <1>1
    <2>2. turns[n] = F[1 .. n]
        BY <2>1
    <2>3. \A i \in 1 .. n : turns[i] = F[1 .. i] /\ turns[i - 1] = F[1 .. (i - 1)]
        BY <2>1
    <2> HIDE DEF turns
    <2> QED BY <1>9, <1>10, <2>2, <2>3 DEF LoopTurns
<1>12. FinalBlocks(s) = turns[n].text
    BY <1>2, <1>11
<1> HIDE DEF turns
<1>13. turns \in FinalBlocksLoops(E, s)
    BY <1>11, <1>12 DEF FinalBlocksLoops, n, X, base, Op
<1> QED BY <1>13

\* A turn without its thoughts, token by token.
DropThoughtsLoops(E, s) ==
    {f \in [0 .. Len(s) -> [open : BOOLEAN, text : Seq(E)]] :
        /\ f[0] = NoThought
        /\ \A i \in 1 .. Len(s) : f[i] = IF f[i - 1].open THEN [f[i - 1] EXCEPT !.open = (s[i] # "te")]
                   ELSE IF s[i] = "ts" THEN [f[i - 1] EXCEPT !.open = TRUE]
                   ELSE [f[i - 1] EXCEPT !.text = Append(@, s[i])]
        /\ DropThoughts(s) = f[Len(s)].text}

LEMMA DropThoughtsTurns ==
    ASSUME NEW E, NEW s \in Seq(E)
    PROVE  DropThoughtsLoops(E, s) # {}
<1> DEFINE n == Len(s)
           X == [open : BOOLEAN, text : Seq(E)]
           base == NoThought
           Op(v, i) == IF v.open THEN [v EXCEPT !.open = (s[i] # "te")]
                   ELSE IF s[i] = "ts" THEN [v EXCEPT !.open = TRUE]
                   ELSE [v EXCEPT !.text = Append(@, s[i])]
           g == [p \in X \X (1 .. n) |-> Op(p[1], p[2])]
           Is(f) == f = [u \in SUBSET (1 .. n) |->
                           IF u = {} THEN base ELSE Op(f[u \ {Max(u)}], Max(u))]
           F == CHOOSE f : Is(f)
<1>1. n \in Nat
    BY Elements
<1>2. DropThoughts(s) = F[1 .. n].text
    BY <1>1, Elements DEF DropThoughts, FoldLeft, MapThenFoldSet
<1>3. \A v \in X, i \in 1 .. n : Op(v, i) \in X
    <2> SUFFICES ASSUME NEW v \in X, NEW i \in 1 .. n PROVE Op(v, i) \in X
        OBVIOUS
    <2>1. s[i] \in E
        BY Elements
    <2>2. Append(v.text, s[i]) \in Seq(E)
        BY <2>1, Appended
    <2> QED BY <2>2
<1>4. base \in X
    BY DEF NoThought
<1> HIDE DEF n, X, Op, base
<1>5. IsLoop(n, X, base, g) /\ \A v \in X, i \in 1 .. n : g[<<v, i>>] = Op(v, i)
    BY <1>1, <1>3, <1>4 DEF IsLoop
<1> HIDE DEF g
<1>6. PICK f \in [SUBSET (1 .. n) -> X] :
          \A u \in SUBSET (1 .. n) : f[u] = IF u = {} THEN base ELSE g[<<f[u \ {Max(u)}], Max(u)>>]
    <2>1. LoopFolds(n, X, base, g) # {}
        BY <1>5, FoldExists
    <2> QED BY <2>1 DEF LoopFolds
<1>7. Is(f)
    <2>1. \A u \in SUBSET (1 .. n) : u # {} =>
              Max(u) \in 1 .. n /\ u \ {Max(u)} \in SUBSET (1 .. n)
        BY <1>1, TopOf
    <2>2. \A u \in SUBSET (1 .. n) : u # {} => f[u] = Op(f[u \ {Max(u)}], Max(u))
        BY <1>5, <1>6, <2>1
    <2> QED BY <1>6, <2>2
<1> HIDE DEF Is
<1>8. Is(F)
    BY <1>7
<1> HIDE DEF F
<1>9. F[{}] = base /\ \A k \in 1 .. n : F[1 .. k] = Op(F[1 .. (k - 1)], k)
    <2>1. \A u \in SUBSET (1 .. n) :
              F[u] = IF u = {} THEN base ELSE Op(F[u \ {Max(u)}], Max(u))
        BY <1>8, Zenon DEF Is
    <2>2. {} \in SUBSET (1 .. n)
        OBVIOUS
    <2>3. ASSUME NEW k \in 1 .. n PROVE F[1 .. k] = Op(F[1 .. (k - 1)], k)
        <3>1. 1 .. k \in SUBSET (1 .. n) /\ 1 .. k # {} /\ Max(1 .. k) = k
              /\ (1 .. k) \ {k} = 1 .. (k - 1)
            BY <1>1, Upto
        <3> QED BY <2>1, <3>1
    <2> QED BY <2>1, <2>2, <2>3
<1> DEFINE turns == [k \in 0 .. n |-> F[1 .. k]]
<1>10. turns \in LoopTurns(n, X, base, g)
    <2>1. \A k \in 1 .. n : F[1 .. (k - 1)] \in X => F[1 .. k] = g[<<F[1 .. (k - 1)], k>>]
        BY <1>5, <1>9
    <2> QED BY <1>5, <1>9, <2>1, FoldIsLoop
<1>11. /\ turns \in [0 .. n -> X] /\ turns[0] = base /\ turns[n] = F[1 .. n]
       /\ \A i \in 1 .. n : turns[i] = Op(turns[i - 1], i)
    <2>1. n \in 0 .. n /\ \A i \in 1 .. n : i \in 0 .. n /\ i - 1 \in 0 .. n
        BY <1>1
    <2>2. turns[n] = F[1 .. n]
        BY <2>1
    <2>3. \A i \in 1 .. n : turns[i] = F[1 .. i] /\ turns[i - 1] = F[1 .. (i - 1)]
        BY <2>1
    <2> HIDE DEF turns
    <2> QED BY <1>9, <1>10, <2>2, <2>3 DEF LoopTurns
<1>12. DropThoughts(s) = turns[n].text
    BY <1>2, <1>11
<1> HIDE DEF turns
<1>13. turns \in DropThoughtsLoops(E, s)
    BY <1>11, <1>12 DEF DropThoughtsLoops, n, X, base, Op
<1> QED BY <1>13

\* The turns of a conversation, message by message.
GroupingLoops(E, ms) ==
    {f \in [0 .. Len(ms) -> Seq(Seq(Msg(E)))] :
        /\ f[0] = <<>>
        /\ \A i \in 1 .. Len(ms) : f[i] = IF ms[i].role = "user" \/ f[i - 1] = <<>> THEN Append(f[i - 1], <<ms[i]>>)
                   ELSE Front(f[i - 1]) \o <<Append(Last(f[i - 1]), ms[i])>>
        /\ Turns(ms) = f[Len(ms)]}

LEMMA GroupingTurns ==
    ASSUME NEW E, NEW ms \in Seq(Msg(E))
    PROVE  GroupingLoops(E, ms) # {}
<1> DEFINE n == Len(ms)
           X == Seq(Seq(Msg(E)))
           base == <<>>
           Op(v, i) == IF ms[i].role = "user" \/ v = <<>> THEN Append(v, <<ms[i]>>)
                   ELSE Front(v) \o <<Append(Last(v), ms[i])>>
           g == [p \in X \X (1 .. n) |-> Op(p[1], p[2])]
           Is(f) == f = [u \in SUBSET (1 .. n) |->
                           IF u = {} THEN base ELSE Op(f[u \ {Max(u)}], Max(u))]
           F == CHOOSE f : Is(f)
<1>1. n \in Nat
    BY Fields
<1>2. Turns(ms) = F[1 .. n]
    BY <1>1, Fields DEF Turns, FoldLeft, MapThenFoldSet
<1>3. \A v \in X, i \in 1 .. n : Op(v, i) \in X
    <2> SUFFICES ASSUME NEW v \in X, NEW i \in 1 .. n PROVE Op(v, i) \in X
        OBVIOUS
    <2>1. ms[i] \in Msg(E)
        BY Fields
    <2>2. <<ms[i]>> \in Seq(Msg(E))
        BY <2>1
    <2>3. Append(v, <<ms[i]>>) \in X
        BY <2>2, AppendProperties
    <2>4. v # <<>> => Front(v) \o <<Append(Last(v), ms[i])>> \in X
        <3> SUFFICES ASSUME v # <<>> PROVE Front(v) \o <<Append(Last(v), ms[i])>> \in X
            OBVIOUS
        <3>1. Len(v) \in 1 .. Len(v) /\ Len(v) - 1 \in Nat
            BY EmptySeq, Elements
        <3>2. Last(v) \in Seq(Msg(E)) /\ Front(v) \in X
            BY <3>1, Elements, Cut DEF Last, Front
        <3>3. <<Append(Last(v), ms[i])>> \in X
            BY <2>1, <3>2, AppendProperties
        <3> QED BY <3>2, <3>3, ConcatProperties
    <2> QED BY <2>3, <2>4
<1>4. base \in X
    OBVIOUS
<1> HIDE DEF n, X, Op, base
<1>5. IsLoop(n, X, base, g) /\ \A v \in X, i \in 1 .. n : g[<<v, i>>] = Op(v, i)
    BY <1>1, <1>3, <1>4 DEF IsLoop
<1> HIDE DEF g
<1>6. PICK f \in [SUBSET (1 .. n) -> X] :
          \A u \in SUBSET (1 .. n) : f[u] = IF u = {} THEN base ELSE g[<<f[u \ {Max(u)}], Max(u)>>]
    <2>1. LoopFolds(n, X, base, g) # {}
        BY <1>5, FoldExists
    <2> QED BY <2>1 DEF LoopFolds
<1>7. Is(f)
    <2>1. \A u \in SUBSET (1 .. n) : u # {} =>
              Max(u) \in 1 .. n /\ u \ {Max(u)} \in SUBSET (1 .. n)
        BY <1>1, TopOf
    <2>2. \A u \in SUBSET (1 .. n) : u # {} => f[u] = Op(f[u \ {Max(u)}], Max(u))
        BY <1>5, <1>6, <2>1
    <2> QED BY <1>6, <2>2
<1> HIDE DEF Is
<1>8. Is(F)
    BY <1>7
<1> HIDE DEF F
<1>9. F[{}] = base /\ \A k \in 1 .. n : F[1 .. k] = Op(F[1 .. (k - 1)], k)
    <2>1. \A u \in SUBSET (1 .. n) :
              F[u] = IF u = {} THEN base ELSE Op(F[u \ {Max(u)}], Max(u))
        BY <1>8, Zenon DEF Is
    <2>2. {} \in SUBSET (1 .. n)
        OBVIOUS
    <2>3. ASSUME NEW k \in 1 .. n PROVE F[1 .. k] = Op(F[1 .. (k - 1)], k)
        <3>1. 1 .. k \in SUBSET (1 .. n) /\ 1 .. k # {} /\ Max(1 .. k) = k
              /\ (1 .. k) \ {k} = 1 .. (k - 1)
            BY <1>1, Upto
        <3> QED BY <2>1, <3>1
    <2> QED BY <2>1, <2>2, <2>3
<1> DEFINE turns == [k \in 0 .. n |-> F[1 .. k]]
<1>10. turns \in LoopTurns(n, X, base, g)
    <2>1. \A k \in 1 .. n : F[1 .. (k - 1)] \in X => F[1 .. k] = g[<<F[1 .. (k - 1)], k>>]
        BY <1>5, <1>9
    <2> QED BY <1>5, <1>9, <2>1, FoldIsLoop
<1>11. /\ turns \in [0 .. n -> X] /\ turns[0] = base /\ turns[n] = F[1 .. n]
       /\ \A i \in 1 .. n : turns[i] = Op(turns[i - 1], i)
    <2>1. n \in 0 .. n /\ \A i \in 1 .. n : i \in 0 .. n /\ i - 1 \in 0 .. n
        BY <1>1
    <2>2. turns[n] = F[1 .. n]
        BY <2>1
    <2>3. \A i \in 1 .. n : turns[i] = F[1 .. i] /\ turns[i - 1] = F[1 .. (i - 1)]
        BY <2>1
    <2> HIDE DEF turns
    <2> QED BY <1>9, <1>10, <2>2, <2>3 DEF LoopTurns
<1>12. Turns(ms) = turns[n]
    BY <1>2, <1>11
<1> HIDE DEF turns
<1>13. turns \in GroupingLoops(E, ms)
    BY <1>11, <1>12 DEF GroupingLoops, n, X, base, Op
<1> QED BY <1>13

LEMMA SizeTyped == ASSUME NEW E, NEW ms \in Seq(Msg(E)) PROVE Size(ms) \in Nat
<1>1. PICK f \in SizeLoops(ms) : TRUE
    BY SizeTurns
<1>2. Len(ms) \in 0 .. Len(ms)
    BY Fields
<1> QED BY <1>1, <1>2 DEF SizeLoops

\* A flattened sequence is built sequence by sequence.
FlattenLoops(S, seqs) ==
    {f \in [0 .. Len(seqs) -> Seq(S)] :
        /\ f[0] = <<>>
        /\ \A i \in 1 .. Len(seqs) : f[i] = f[i - 1] \o seqs[i]
        /\ FlattenSeq(seqs) = f[Len(seqs)]}

LEMMA FlattenTurns ==
    ASSUME NEW S, NEW seqs \in Seq(Seq(S))
    PROVE  FlattenLoops(S, seqs) # {}
<1> DEFINE n == Len(seqs)
           X == Seq(S)
           base == <<>>
           Op(v, i) == v \o seqs[i]
           g == [p \in X \X (1 .. n) |-> Op(p[1], p[2])]
           Is(f) == f = [i \in 1 .. n |-> IF i = 1 THEN seqs[i] ELSE f[i - 1] \o seqs[i]]
           F == CHOOSE f : Is(f)
<1>1. n \in Nat /\ \A i \in 1 .. n : seqs[i] \in X
    BY Elements
<1>2. FlattenSeq(seqs) = IF n = 0 THEN seqs ELSE F[n]
    BY DEF FlattenSeq
<1>3. \A v \in X, i \in 1 .. n : Op(v, i) \in X
    BY <1>1, ConcatProperties
<1>4. base \in X /\ \A i \in 1 .. n : Op(base, i) = seqs[i]
    BY <1>1, ConcatEmptySeq
<1>5. n = 0 => seqs = base
    BY EmptySeq
<1> HIDE DEF X, Op, base
<1>6. IsLoop(n, X, base, g) /\ \A v \in X, i \in 1 .. n : g[<<v, i>>] = Op(v, i)
    BY <1>1, <1>3, <1>4 DEF IsLoop
<1> HIDE DEF g, n
<1>7. PICK f \in [0 .. n -> X] : f[0] = base /\ \A i \in 1 .. n : f[i] = g[<<f[i - 1], i>>]
    <2>1. LoopTurns(n, X, base, g) # {}
        BY <1>6, TurnsExist
    <2> QED BY <2>1 DEF LoopTurns
<1>8. \A i \in 1 .. n : f[i] = Op(f[i - 1], i)
    <2>1. \A i \in 1 .. n : i - 1 \in 0 .. n
        BY <1>1
    <2> QED BY <1>6, <1>7, <2>1
<1> DEFINE h == [i \in 1 .. n |-> f[i]]
<1>9. Is(h)
    <2>1. \A i \in 1 .. n : h[i] = IF i = 1 THEN seqs[i] ELSE h[i - 1] \o seqs[i]
        <3> SUFFICES ASSUME NEW i \in 1 .. n
                     PROVE  h[i] = IF i = 1 THEN seqs[i] ELSE h[i - 1] \o seqs[i]
            OBVIOUS
        <3>1. CASE i = 1
            <4>1. f[i - 1] = base
                BY <1>7, <3>1
            <4> QED BY <1>4, <1>8, <3>1, <4>1
        <3>2. CASE i # 1
            <4>1. i - 1 \in 1 .. n /\ h[i - 1] = f[i - 1] /\ h[i] = f[i]
                BY <1>1, <3>2
            <4>2. f[i] = f[i - 1] \o seqs[i]
                BY <1>8, Zenon DEF Op
            <4> QED BY <3>2, <4>1, <4>2
        <3> QED BY <3>1, <3>2
    <2> QED BY <2>1, Zenon
<1>10. Is(F)
    <2> HIDE DEF Is
    <2> QED BY <1>9
<1> HIDE DEF F
<1>11. ASSUME n # 0 PROVE F[n] = f[n]
    <2> DEFINE T == {i \in 0 .. n : i = 0 \/ F[i] = f[i]}
    <2>1. 0 \in T
        BY <1>1
    <2>2. ASSUME NEW i \in 1 .. n, i - 1 \in T PROVE i \in T
        <3>1. F[i] = IF i = 1 THEN seqs[i] ELSE F[i - 1] \o seqs[i]
            BY <1>10, Zenon DEF Is
        <3>2. CASE i = 1
            <4>1. f[i - 1] = base
                BY <1>7, <3>2
            <4> QED BY <1>1, <1>4, <1>8, <3>1, <3>2, <4>1
        <3>3. CASE i # 1
            <4>1. i - 1 # 0 /\ F[i - 1] = f[i - 1]
                BY <2>2, <3>3
            <4>2. f[i] = f[i - 1] \o seqs[i]
                BY <1>8, Zenon DEF Op
            <4>3. F[i] = F[i - 1] \o seqs[i]
                BY <3>1, <3>3, Zenon
            <4>4. F[i] = f[i]
                BY <4>1, <4>2, <4>3, Zenon
            <4> QED BY <1>1, <4>4
        <3> QED BY <3>2, <3>3
    <2> HIDE DEF T
    <2>3. \A i \in 0 .. n : i \in T
        BY <1>1, <2>1, <2>2, LoopInduction
    <2>4. n \in T
        BY <1>1, <2>3
    <2> QED BY <1>11, <2>4 DEF T
<1>12. FlattenSeq(seqs) = f[n]
    BY <1>1, <1>2, <1>5, <1>7, <1>11
<1>13. f \in FlattenLoops(S, seqs)
    BY <1>7, <1>8, <1>12 DEF FlattenLoops, n, X, base, Op
<1> QED BY <1>13

LEMMA Flattened ==
    ASSUME NEW S, NEW seqs \in Seq(Seq(S))
    PROVE  FlattenSeq(seqs) \in Seq(S)
<1>1. PICK f \in FlattenLoops(S, seqs) : TRUE
    BY FlattenTurns
<1>2. Len(seqs) \in 0 .. Len(seqs)
    BY Elements
<1> QED BY <1>1, <1>2 DEF FlattenLoops

LEMMA Reversed ==
    ASSUME NEW S, NEW s \in Seq(S)
    PROVE  /\ Reverse(s) \in Seq(S) /\ Len(Reverse(s)) = Len(s)
           /\ \A i \in 1 .. Len(s) : Reverse(s)[i] = s[Len(s) - i + 1]
<1> DEFINE n == Len(s)
<1>1. n \in Nat /\ \A i \in 1 .. n : s[i] \in S
    BY Elements
<1>2. \A i \in 1 .. n : n - i + 1 \in 1 .. n
    BY <1>1
<1>3. Reverse(s) = [i \in 1 .. n |-> s[n - i + 1]]
    BY DEF Reverse
<1>4. [i \in 1 .. n |-> s[n - i + 1]] \in [1 .. n -> S]
    BY <1>1, <1>2
<1> HIDE DEF n
<1>5. Reverse(s) \in Seq(S)
    BY <1>1, <1>3, <1>4
<1>6. DOMAIN Reverse(s) = 1 .. n
    BY <1>3
<1>7. Len(Reverse(s)) = n
    BY <1>1, <1>5, <1>6, LenProperties
<1> QED BY <1>3, <1>5, <1>7 DEF n

\* A sequence of numbers has a greatest one.
LEMMA Greatest ==
    ASSUME NEW n \in Nat \ {0}, NEW f \in [1 .. n -> Nat]
    PROVE  \E i \in 1 .. n : f[i] = Max({f[j] : j \in 1 .. n}) /\ \A j \in 1 .. n : f[j] <= f[i]
<1> DEFINE T == {m \in 0 .. n : m = 0 \/ \E i \in 1 .. m : \A j \in 1 .. m : f[j] <= f[i]}
<1>1. 0 \in T
    OBVIOUS
<1>2. ASSUME NEW m \in 1 .. n, m - 1 \in T PROVE m \in T
    <2>1. CASE m = 1
        <3>1. \A j \in 1 .. m : j = m /\ f[j] \in Nat
            BY <2>1
        <3>2. m \in 1 .. m /\ \A j \in 1 .. m : f[j] <= f[m]
            BY <3>1
        <3> QED BY <3>2
    <2>2. CASE m # 1
        <3>1. PICK i \in 1 .. (m - 1) : \A j \in 1 .. (m - 1) : f[j] <= f[i]
            BY <1>2, <2>2
        <3>2. i \in 1 .. m /\ \A j \in 1 .. m : j \in 1 .. (m - 1) \/ j = m
            OBVIOUS
        <3>3. \A j \in 1 .. m : f[j] \in Nat
            OBVIOUS
        <3>4. CASE f[m] <= f[i]
            <4>1. \A j \in 1 .. m : f[j] <= f[i]
                BY <3>1, <3>2, <3>4
            <4> QED BY <3>2, <4>1
        <3>5. CASE ~(f[m] <= f[i])
            <4>1. \A j \in 1 .. m : f[j] <= f[m]
                BY <3>1, <3>2, <3>3, <3>5
            <4> QED BY <4>1
        <3> QED BY <3>4, <3>5
    <2> QED BY <2>1, <2>2
<1> HIDE DEF T
<1>3. \A m \in 0 .. n : m \in T
    BY <1>1, <1>2, LoopInduction
<1>4. n \in T
    BY <1>3
<1>5. PICK i \in 1 .. n : \A j \in 1 .. n : f[j] <= f[i]
    BY <1>4 DEF T
<1> DEFINE M == {f[j] : j \in 1 .. n}
<1>6. f[i] \in M /\ (\A x \in M : f[i] >= x) /\ \A x \in M : x \in Nat
    BY <1>5
<1> HIDE DEF M
<1>7. \A x \in M : (\A y \in M : x >= y) => x = f[i]
    <2> SUFFICES ASSUME NEW x \in M, \A y \in M : x >= y PROVE x = f[i]
        OBVIOUS
    <2>1. x >= f[i] /\ f[i] >= x /\ x \in Nat /\ f[i] \in Nat
        BY <1>6
    <2> QED BY <2>1
<1>8. Max(M) = f[i]
    BY <1>6, <1>7 DEF Max
<1> QED BY <1>5, <1>8 DEF M

LEMMA LeastMost ==
    ASSUME NEW a \in Int, NEW b \in Int
    PROVE  /\ Least(a, b) \in {a, b} /\ Least(a, b) <= a /\ Least(a, b) <= b
           /\ Most(a, b) \in {a, b} /\ Most(a, b) >= a /\ Most(a, b) >= b
           /\ Least(a, b) \in Int /\ Most(a, b) \in Int
BY DEF Least, Most

\* A cut text begins with the word the whole one begins with.
LEMMA HeadTailKeeps ==
    ASSUME NEW E, "marker" \in E, NEW content \in Seq(E), NEW target \in Nat \ {0}
    PROVE  /\ HeadTail(content, target) \in Seq(E)
           /\ content # <<>> => HeadTail(content, target) # <<>>
                                /\ Head(HeadTail(content, target)) = Head(content)
           /\ content = <<>> => HeadTail(content, target) = <<>>
<1> DEFINE kept == Most(1, target - 1)
           most == (kept * 65) \div 100
           head == Most(1, most)
           tail == kept - head
           n == Len(content)
<1>1. n \in Nat
    BY Elements
<1>2. kept \in Nat \ {0} /\ kept <= target
    BY DEF Most
<1>3. most \in Nat /\ most <= kept
    <2> HIDE DEF kept
    <2> QED BY <1>2
<1>4. head \in Nat \ {0} /\ head <= kept
    <2> HIDE DEF kept, most
    <2> QED BY <1>2, <1>3 DEF Most
<1>5. tail \in Nat /\ tail <= kept - 1
    <2> HIDE DEF kept, head
    <2> QED BY <1>2, <1>4
<1> DEFINE first == SubSeq(content, 1, head)
           last == SubSeq(content, n - tail + 1, n)
           rest == IF tail = 0 THEN <<>> ELSE <<"marker">> \o last
<1>6. HeadTail(content, target) = IF n <= target THEN content ELSE first \o rest
    BY DEF HeadTail
<1> HIDE DEF kept, most, head, tail
<1>7. CASE n <= target
    BY <1>6, <1>7
<1>8. CASE ~(n <= target)
    <2>1. head <= n /\ tail <= n - 1 /\ n - tail + 1 \in Nat \ {0} /\ n \in Nat \ {0}
        BY <1>1, <1>2, <1>4, <1>5, <1>8
    <2>2. first \in Seq(E) /\ Len(first) = head /\ first[1] = content[1]
        <3>1. first \in Seq(E) /\ Len(first) = head - 1 + 1
              /\ \A i \in 1 .. Len(first) : first[i] = content[1 + i - 1]
            BY <1>4, <2>1, Cut
        <3> HIDE DEF first, n
        <3>2. Len(first) = head /\ 1 \in 1 .. Len(first)
            BY <1>4, <3>1
        <3> QED BY <3>1, <3>2
    <2>3. last \in Seq(E)
        BY <1>1, <2>1, Cut
    <2>4. rest \in Seq(E)
        <3> HIDE DEF last
        <3>1. <<"marker">> \in Seq(E)
            OBVIOUS
        <3> QED BY <2>3, <3>1, ConcatProperties
    <2> HIDE DEF first, rest
    <2>5. first \o rest \in Seq(E) /\ (first \o rest)[1] = first[1] /\ Len(first \o rest) = head + Len(rest)
          /\ Len(rest) \in Nat
        <3>1. 1 \in 1 .. Len(first)
            BY <1>4, <2>2
        <3>2. Len(rest) \in Nat
            BY <2>4, Elements
        <3>3. /\ first \o rest \in Seq(E) /\ Len(first \o rest) = Len(first) + Len(rest)
              /\ \A j \in 1 .. Len(first) : (first \o rest)[j] = first[j]
            <4>1. \A j \in 1 .. Len(first) : j <= Len(first) /\ j \in 1 .. Len(first) + Len(rest)
                BY <1>4, <2>2, <3>2
            <4> QED BY <2>2, <2>4, <4>1, ConcatProperties
        <3> QED BY <2>2, <3>1, <3>2, <3>3
    <2>6. first \o rest # <<>>
        BY <1>4, <2>5, EmptySeq
    <2>7. Head(first \o rest) = (first \o rest)[1] /\ (content # <<>> => Head(content) = content[1])
        BY <2>5, <2>6, HeadTailProperties
    <2>8. content # <<>>
        <3>1. n # 0
            BY <2>1
        <3> QED BY <3>1
    <2> QED BY <1>6, <1>8, <2>2, <2>5, <2>6, <2>7, <2>8
<1> QED BY <1>7, <1>8

\* Cutting the longest message changes no role and no first word.
LEMMA CutTyped ==
    ASSUME NEW E, "marker" \in E, NEW n \in Nat, NEW ms \in [1 .. n -> Msg(E)], NEW budget \in Int
    PROVE  /\ CutLongest(ms, budget) \in [1 .. n -> Msg(E)]
           /\ \A i \in 1 .. n :
                 /\ CutLongest(ms, budget)[i].role = ms[i].role
                 /\ ms[i].content # <<>> =>
                      /\ CutLongest(ms, budget)[i].content # <<>>
                      /\ Head(CutLongest(ms, budget)[i].content) = Head(ms[i].content)
                 /\ ms[i].content = <<>> => CutLongest(ms, budget)[i].content = <<>>
<1> DEFINE longest == Max({Len(ms[i].content) : i \in DOMAIN ms})
           i == Min({j \in DOMAIN ms : Len(ms[j].content) = longest})
           target == Most(LeastContent, longest - (Size(ms) - budget) - LeastContent)
           text == HeadTail(ms[i].content, target)
           cut == [ms EXCEPT ![i] = [ms[i] EXCEPT !.content = text]]
<1>1. CutLongest(ms, budget) = IF Size(ms) <= budget \/ longest <= LeastContent THEN ms ELSE cut
    BY DEF CutLongest
<1>2. \A j \in 1 .. n : ms[j].content \in Seq(E) /\ ms[j].role \in Role
    BY DEF Msg
<1>3. CASE i \notin 1 .. n
    <2> HIDE DEF i, text
    <2>1. cut = ms
        BY <1>3
    <2> QED BY <1>1, <1>2, <2>1
<1>4. CASE i \in 1 .. n
    <2>1. longest \in Nat
        <3> DEFINE f == [j \in 1 .. n |-> Len(ms[j].content)]
        <3>1. f \in [1 .. n -> Nat] /\ n # 0
            BY <1>2, <1>4, Elements
        <3>2. {Len(ms[j].content) : j \in DOMAIN ms} = {f[j] : j \in 1 .. n}
            OBVIOUS
        <3>3. PICK j \in 1 .. n : f[j] = Max({f[k] : k \in 1 .. n})
            <4> HIDE DEF f
            <4> QED BY <3>1, Greatest
        <3> QED BY <3>1, <3>2, <3>3
    <2>2. Size(ms) \in Nat
        <3>1. ms \in Seq(Msg(E))
            OBVIOUS
        <3> QED BY <3>1, SizeTyped
    <2>3. target \in Nat \ {0}
        <3> HIDE DEF longest
        <3>1. longest - (Size(ms) - budget) - LeastContent \in Int
            BY <2>1, <2>2, ContextAssumption
        <3>2. LeastContent \in Nat \ {0}
            BY ContextAssumption
        <3> DEFINE other == longest - (Size(ms) - budget) - LeastContent
        <3> HIDE DEF other
        <3>3. Most(LeastContent, other) \in Nat \ {0}
            BY <3>1, <3>2 DEF Most, other
        <3> QED BY <3>3 DEF other
    <2> HIDE DEF i, target, longest
    <2>4. /\ text \in Seq(E)
          /\ ms[i].content # <<>> => text # <<>> /\ Head(text) = Head(ms[i].content)
          /\ ms[i].content = <<>> => text = <<>>
        BY <1>2, <1>4, <2>3, HeadTailKeeps
    <2> HIDE DEF text
    <2>5. /\ cut \in [1 .. n -> Msg(E)]
          /\ cut[i].role = ms[i].role /\ cut[i].content = text
          /\ \A j \in 1 .. n : j # i => cut[j] = ms[j]
        BY <1>2, <1>4, <2>4 DEF Msg
    <2> HIDE DEF cut
    <2> QED BY <1>1, <1>2, <2>4, <2>5
<1> QED BY <1>3, <1>4

\* The lines of a summary so far, of n messages.
SummaryState(E, n) == [lines : Seq(Seq(E)), message : {<<>>}, included : Nat, dropped : {n}]

LEMMA PickedTyped ==
    ASSUME NEW E, "line" \in E, NEW n \in Nat, NEW s \in SummaryState(E, n), NEW m \in Msg(E),
           NEW budget \in Int
    PROVE  /\ Picked(s, m, n, budget) \in SummaryState(E, n)
           /\ Picked(s, m, n, budget).included <= s.included + 1
<1> DEFINE L == Limits(s, m, n, budget)
<1>1. m.content \in Seq(E) /\ Len(m.content) \in Nat
    BY Elements DEF Msg
<1>2. CASE L = {}
    BY <1>2 DEF Picked, SummaryState
<1>3. CASE L # {}
    <2> DEFINE top == Least(SnippetMax, Len(m.content))
    <2>1. top \in Nat /\ top <= Len(m.content)
        <3> DEFINE l == Len(m.content)
        <3>1. l \in Nat /\ SnippetMax \in Nat
            BY <1>1, ContextAssumption
        <3> HIDE DEF l
        <3>2. Least(SnippetMax, l) \in Nat /\ Least(SnippetMax, l) <= l
            BY <3>1 DEF Least
        <3> QED BY <3>2 DEF l
    <2>2. L \in SUBSET (1 .. top)
        BY DEF Limits
    <2> HIDE DEF L, top
    <2>3. Max(L) \in 1 .. top
        BY <1>3, <2>1, <2>2, TopOf
    <2>4. SubSeq(m.content, 1, Max(L)) \in Seq(E)
        BY <1>1, <2>1, <2>3, Cut
    <2>5. Line(m, Max(L)) \in Seq(E)
        BY <2>4, ConcatProperties DEF Line
    <2>6. s.lines \in Seq(Seq(E)) /\ <<Line(m, Max(L))>> \in Seq(Seq(E))
        BY <2>5 DEF SummaryState
    <2>7. <<Line(m, Max(L))>> \o s.lines \in Seq(Seq(E))
        BY <2>6, ConcatProperties
    <2> DEFINE lines == <<Line(m, Max(L))>> \o s.lines
    <2>8. Picked(s, m, n, budget) = [s EXCEPT !.lines = lines, !.included = s.included + 1]
        BY <1>3 DEF Picked, L
    <2> HIDE DEF lines
    <2>9. lines \in Seq(Seq(E)) /\ s.included + 1 \in Nat
        BY <2>7 DEF SummaryState, lines
    <2>10. /\ Picked(s, m, n, budget).included = s.included + 1
           /\ Picked(s, m, n, budget) \in SummaryState(E, n)
        BY <2>8, <2>9 DEF SummaryState
    <2> QED BY <2>9, <2>10 DEF SummaryState
<1> QED BY <1>2, <1>3

LEMMA VisibleTyped ==
    ASSUME NEW E, NEW s \in Seq(E)
    PROVE  /\ Visible(s) \in Seq(E)
           /\ \A x : x \in ToSet(Visible(s)) <=> x \in ToSet(s) /\ x # "eos"
BY KeptIs, Elements DEF Visible, Without

LEMMA ShownTyped ==
    ASSUME NEW E, {"hh", "?"} \subseteq E, NEW text \in Seq(E), NEW x \in E
    PROVE  Shown(text, x) \in Seq(E)
<1>1. Append(text, x) \in Seq(E) /\ Append(text, "?") \in Seq(E)
    BY AppendProperties
<1>2. text # <<>> => Append(Front(text), "hh") \in Seq(E)
    <2> SUFFICES ASSUME text # <<>> PROVE Append(Front(text), "hh") \in Seq(E)
        OBVIOUS
    <2>1. Len(text) - 1 \in Int /\ Len(text) - 1 <= Len(text)
        BY Elements
    <2>2. Front(text) \in Seq(E)
        BY <2>1, Cut DEF Front
    <2> QED BY <2>2, AppendProperties
<1> QED BY <1>1, <1>2 DEF Shown

\* The lines of a summary, message by message.
ChoosingLoops(E, ms, budget) ==
    {f \in [0 .. Len(ms) -> SummaryState(E, Len(ms))] :
        /\ f[0] = NoSummary(Len(ms))
        /\ \A i \in 1 .. Len(ms) : f[i] = Picked(f[i - 1], Reverse(ms)[i], Len(ms), budget)
        /\ Chosen(ms, budget) = f[Len(ms)]}

LEMMA ChoosingTurns ==
    ASSUME NEW E, NEW ms \in Seq(Msg(E)), NEW budget \in Int, "line" \in E
    PROVE  ChoosingLoops(E, ms, budget) # {}
<1> DEFINE n == Len(ms)
           X == SummaryState(E, Len(ms))
           base == NoSummary(Len(ms))
           Op(v, i) == Picked(v, Reverse(ms)[i], Len(ms), budget)
           g == [p \in X \X (1 .. n) |-> Op(p[1], p[2])]
           Is(f) == f = [u \in SUBSET (1 .. n) |->
                           IF u = {} THEN base ELSE Op(f[u \ {Max(u)}], Max(u))]
           F == CHOOSE f : Is(f)
<1>1. n \in Nat
    BY Fields
<1>2. Chosen(ms, budget) = F[1 .. n]
    BY <1>1, Reversed, Fields DEF Chosen, Picked, FoldLeft, MapThenFoldSet
<1>3. \A v \in X, i \in 1 .. n : Op(v, i) \in X
    <2> SUFFICES ASSUME NEW v \in X, NEW i \in 1 .. n PROVE Op(v, i) \in X
        OBVIOUS
    <2>1. Reverse(ms) \in Seq(Msg(E)) /\ Len(Reverse(ms)) = n
        BY Reversed
    <2>2. Reverse(ms)[i] \in Msg(E)
        BY <2>1, Fields
    <2> QED BY <1>1, <2>2, PickedTyped
<1>4. base \in X
    BY <1>1 DEF NoSummary, SummaryState
<1> HIDE DEF n, X, Op, base
<1>5. IsLoop(n, X, base, g) /\ \A v \in X, i \in 1 .. n : g[<<v, i>>] = Op(v, i)
    BY <1>1, <1>3, <1>4 DEF IsLoop
<1> HIDE DEF g
<1>6. PICK f \in [SUBSET (1 .. n) -> X] :
          \A u \in SUBSET (1 .. n) : f[u] = IF u = {} THEN base ELSE g[<<f[u \ {Max(u)}], Max(u)>>]
    <2>1. LoopFolds(n, X, base, g) # {}
        BY <1>5, FoldExists
    <2> QED BY <2>1 DEF LoopFolds
<1>7. Is(f)
    <2>1. \A u \in SUBSET (1 .. n) : u # {} =>
              Max(u) \in 1 .. n /\ u \ {Max(u)} \in SUBSET (1 .. n)
        BY <1>1, TopOf
    <2>2. \A u \in SUBSET (1 .. n) : u # {} => f[u] = Op(f[u \ {Max(u)}], Max(u))
        BY <1>5, <1>6, <2>1
    <2> QED BY <1>6, <2>2
<1> HIDE DEF Is
<1>8. Is(F)
    BY <1>7
<1> HIDE DEF F
<1>9. F[{}] = base /\ \A k \in 1 .. n : F[1 .. k] = Op(F[1 .. (k - 1)], k)
    <2>1. \A u \in SUBSET (1 .. n) :
              F[u] = IF u = {} THEN base ELSE Op(F[u \ {Max(u)}], Max(u))
        BY <1>8, Zenon DEF Is
    <2>2. {} \in SUBSET (1 .. n)
        OBVIOUS
    <2>3. ASSUME NEW k \in 1 .. n PROVE F[1 .. k] = Op(F[1 .. (k - 1)], k)
        <3>1. 1 .. k \in SUBSET (1 .. n) /\ 1 .. k # {} /\ Max(1 .. k) = k
              /\ (1 .. k) \ {k} = 1 .. (k - 1)
            BY <1>1, Upto
        <3> QED BY <2>1, <3>1
    <2> QED BY <2>1, <2>2, <2>3
<1> DEFINE turns == [k \in 0 .. n |-> F[1 .. k]]
<1>10. turns \in LoopTurns(n, X, base, g)
    <2>1. \A k \in 1 .. n : F[1 .. (k - 1)] \in X => F[1 .. k] = g[<<F[1 .. (k - 1)], k>>]
        BY <1>5, <1>9
    <2> QED BY <1>5, <1>9, <2>1, FoldIsLoop
<1>11. /\ turns \in [0 .. n -> X] /\ turns[0] = base /\ turns[n] = F[1 .. n]
       /\ \A i \in 1 .. n : turns[i] = Op(turns[i - 1], i)
    <2>1. n \in 0 .. n /\ \A i \in 1 .. n : i \in 0 .. n /\ i - 1 \in 0 .. n
        BY <1>1
    <2>2. turns[n] = F[1 .. n]
        BY <2>1
    <2>3. \A i \in 1 .. n : turns[i] = F[1 .. i] /\ turns[i - 1] = F[1 .. (i - 1)]
        BY <2>1
    <2> HIDE DEF turns
    <2> QED BY <1>9, <1>10, <2>2, <2>3 DEF LoopTurns
<1>12. Chosen(ms, budget) = turns[n]
    BY <1>2, <1>11
<1> HIDE DEF turns
<1>13. turns \in ChoosingLoops(E, ms, budget)
    BY <1>11, <1>12 DEF ChoosingLoops, n, X, base, Op
<1> QED BY <1>13

\* The cuts of the essential messages, one after the other.
CuttingLoops(E, ms, budget) ==
    {f \in [0 .. Rounds -> [1 .. Len(ms) -> Msg(E)]] :
        /\ f[0] = ms
        /\ \A i \in 1 .. Rounds : f[i] = CutLongest(f[i - 1], budget)
        /\ FitEssential(ms, budget) = f[Rounds]}

LEMMA CuttingTurns ==
    ASSUME NEW E, NEW ms \in Seq(Msg(E)), NEW budget \in Int, "marker" \in E
    PROVE  CuttingLoops(E, ms, budget) # {}
<1> DEFINE n == Rounds
           X == [1 .. Len(ms) -> Msg(E)]
           base == ms
           Op(v, i) == CutLongest(v, budget)
           g == [p \in X \X (1 .. n) |-> Op(p[1], p[2])]
           Is(f) == f = [u \in SUBSET (1 .. n) |->
                           IF u = {} THEN base ELSE Op(f[u \ {Max(u)}], Max(u))]
           F == CHOOSE f : Is(f)
<1>1. n \in Nat
    BY ContextAssumption
<1>2. FitEssential(ms, budget) = F[1 .. n]
    BY <1>1, Elements DEF FitEssential, FoldLeft, MapThenFoldSet
<1>3. \A v \in X, i \in 1 .. n : Op(v, i) \in X
    <2>1. Len(ms) \in Nat
        BY Fields
    <2> DEFINE m == Len(ms)
    <2> HIDE DEF m
    <2>2. \A v \in [1 .. m -> Msg(E)] : CutLongest(v, budget) \in [1 .. m -> Msg(E)]
        BY <2>1, CutTyped DEF m
    <2> QED BY <2>2 DEF m
<1>4. base \in X
    BY Fields, SeqDef
<1> HIDE DEF n, X, Op, base
<1>5. IsLoop(n, X, base, g) /\ \A v \in X, i \in 1 .. n : g[<<v, i>>] = Op(v, i)
    BY <1>1, <1>3, <1>4 DEF IsLoop
<1> HIDE DEF g
<1>6. PICK f \in [SUBSET (1 .. n) -> X] :
          \A u \in SUBSET (1 .. n) : f[u] = IF u = {} THEN base ELSE g[<<f[u \ {Max(u)}], Max(u)>>]
    <2>1. LoopFolds(n, X, base, g) # {}
        BY <1>5, FoldExists
    <2> QED BY <2>1 DEF LoopFolds
<1>7. Is(f)
    <2>1. \A u \in SUBSET (1 .. n) : u # {} =>
              Max(u) \in 1 .. n /\ u \ {Max(u)} \in SUBSET (1 .. n)
        BY <1>1, TopOf
    <2>2. \A u \in SUBSET (1 .. n) : u # {} => f[u] = Op(f[u \ {Max(u)}], Max(u))
        BY <1>5, <1>6, <2>1
    <2> QED BY <1>6, <2>2
<1> HIDE DEF Is
<1>8. Is(F)
    BY <1>7
<1> HIDE DEF F
<1>9. F[{}] = base /\ \A k \in 1 .. n : F[1 .. k] = Op(F[1 .. (k - 1)], k)
    <2>1. \A u \in SUBSET (1 .. n) :
              F[u] = IF u = {} THEN base ELSE Op(F[u \ {Max(u)}], Max(u))
        BY <1>8, Zenon DEF Is
    <2>2. {} \in SUBSET (1 .. n)
        OBVIOUS
    <2>3. ASSUME NEW k \in 1 .. n PROVE F[1 .. k] = Op(F[1 .. (k - 1)], k)
        <3>1. 1 .. k \in SUBSET (1 .. n) /\ 1 .. k # {} /\ Max(1 .. k) = k
              /\ (1 .. k) \ {k} = 1 .. (k - 1)
            BY <1>1, Upto
        <3> QED BY <2>1, <3>1
    <2> QED BY <2>1, <2>2, <2>3
<1> DEFINE turns == [k \in 0 .. n |-> F[1 .. k]]
<1>10. turns \in LoopTurns(n, X, base, g)
    <2>1. \A k \in 1 .. n : F[1 .. (k - 1)] \in X => F[1 .. k] = g[<<F[1 .. (k - 1)], k>>]
        BY <1>5, <1>9
    <2> QED BY <1>5, <1>9, <2>1, FoldIsLoop
<1>11. /\ turns \in [0 .. n -> X] /\ turns[0] = base /\ turns[n] = F[1 .. n]
       /\ \A i \in 1 .. n : turns[i] = Op(turns[i - 1], i)
    <2>1. n \in 0 .. n /\ \A i \in 1 .. n : i \in 0 .. n /\ i - 1 \in 0 .. n
        BY <1>1
    <2>2. turns[n] = F[1 .. n]
        BY <2>1
    <2>3. \A i \in 1 .. n : turns[i] = F[1 .. i] /\ turns[i - 1] = F[1 .. (i - 1)]
        BY <2>1
    <2> HIDE DEF turns
    <2> QED BY <1>9, <1>10, <2>2, <2>3 DEF LoopTurns
<1>12. FitEssential(ms, budget) = turns[n]
    BY <1>2, <1>11
<1> HIDE DEF turns
<1>13. turns \in CuttingLoops(E, ms, budget)
    BY <1>11, <1>12 DEF CuttingLoops, n, X, base, Op
<1> QED BY <1>13

\* The text of tokens, token by token.
DecodingLoops(E, s) ==
    {f \in [0 .. Len(Visible(s)) -> Seq(E)] :
        /\ f[0] = <<>>
        /\ \A i \in 1 .. Len(Visible(s)) : f[i] = Shown(f[i - 1], Visible(s)[i])
        /\ Decode(s) = f[Len(Visible(s))]}

LEMMA DecodingTurns ==
    ASSUME NEW E, NEW s \in Seq(E), {"hh", "?"} \subseteq E
    PROVE  DecodingLoops(E, s) # {}
<1> DEFINE n == Len(Visible(s))
           X == Seq(E)
           base == <<>>
           Op(v, i) == Shown(v, Visible(s)[i])
           g == [p \in X \X (1 .. n) |-> Op(p[1], p[2])]
           Is(f) == f = [u \in SUBSET (1 .. n) |->
                           IF u = {} THEN base ELSE Op(f[u \ {Max(u)}], Max(u))]
           F == CHOOSE f : Is(f)
<1>1. n \in Nat
    BY VisibleTyped, Elements
<1>2. Decode(s) = F[1 .. n]
    BY <1>1, VisibleTyped, Elements DEF Decode, FoldLeft, MapThenFoldSet
<1>3. \A v \in X, i \in 1 .. n : Op(v, i) \in X
    <2> SUFFICES ASSUME NEW v \in X, NEW i \in 1 .. n PROVE Op(v, i) \in X
        OBVIOUS
    <2>1. Visible(s)[i] \in E
        BY VisibleTyped, Elements
    <2> QED BY <2>1, ShownTyped
<1>4. base \in X
    OBVIOUS
<1> HIDE DEF n, X, Op, base
<1>5. IsLoop(n, X, base, g) /\ \A v \in X, i \in 1 .. n : g[<<v, i>>] = Op(v, i)
    BY <1>1, <1>3, <1>4 DEF IsLoop
<1> HIDE DEF g
<1>6. PICK f \in [SUBSET (1 .. n) -> X] :
          \A u \in SUBSET (1 .. n) : f[u] = IF u = {} THEN base ELSE g[<<f[u \ {Max(u)}], Max(u)>>]
    <2>1. LoopFolds(n, X, base, g) # {}
        BY <1>5, FoldExists
    <2> QED BY <2>1 DEF LoopFolds
<1>7. Is(f)
    <2>1. \A u \in SUBSET (1 .. n) : u # {} =>
              Max(u) \in 1 .. n /\ u \ {Max(u)} \in SUBSET (1 .. n)
        BY <1>1, TopOf
    <2>2. \A u \in SUBSET (1 .. n) : u # {} => f[u] = Op(f[u \ {Max(u)}], Max(u))
        BY <1>5, <1>6, <2>1
    <2> QED BY <1>6, <2>2
<1> HIDE DEF Is
<1>8. Is(F)
    BY <1>7
<1> HIDE DEF F
<1>9. F[{}] = base /\ \A k \in 1 .. n : F[1 .. k] = Op(F[1 .. (k - 1)], k)
    <2>1. \A u \in SUBSET (1 .. n) :
              F[u] = IF u = {} THEN base ELSE Op(F[u \ {Max(u)}], Max(u))
        BY <1>8, Zenon DEF Is
    <2>2. {} \in SUBSET (1 .. n)
        OBVIOUS
    <2>3. ASSUME NEW k \in 1 .. n PROVE F[1 .. k] = Op(F[1 .. (k - 1)], k)
        <3>1. 1 .. k \in SUBSET (1 .. n) /\ 1 .. k # {} /\ Max(1 .. k) = k
              /\ (1 .. k) \ {k} = 1 .. (k - 1)
            BY <1>1, Upto
        <3> QED BY <2>1, <3>1
    <2> QED BY <2>1, <2>2, <2>3
<1> DEFINE turns == [k \in 0 .. n |-> F[1 .. k]]
<1>10. turns \in LoopTurns(n, X, base, g)
    <2>1. \A k \in 1 .. n : F[1 .. (k - 1)] \in X => F[1 .. k] = g[<<F[1 .. (k - 1)], k>>]
        BY <1>5, <1>9
    <2> QED BY <1>5, <1>9, <2>1, FoldIsLoop
<1>11. /\ turns \in [0 .. n -> X] /\ turns[0] = base /\ turns[n] = F[1 .. n]
       /\ \A i \in 1 .. n : turns[i] = Op(turns[i - 1], i)
    <2>1. n \in 0 .. n /\ \A i \in 1 .. n : i \in 0 .. n /\ i - 1 \in 0 .. n
        BY <1>1
    <2>2. turns[n] = F[1 .. n]
        BY <2>1
    <2>3. \A i \in 1 .. n : turns[i] = F[1 .. i] /\ turns[i - 1] = F[1 .. (i - 1)]
        BY <2>1
    <2> HIDE DEF turns
    <2> QED BY <1>9, <1>10, <2>2, <2>3 DEF LoopTurns
<1>12. Decode(s) = turns[n]
    BY <1>2, <1>11
<1> HIDE DEF turns
<1>13. turns \in DecodingLoops(E, s)
    BY <1>11, <1>12 DEF DecodingLoops, n, X, base, Op
<1> QED BY <1>13

-----------------------------------------------------------------------------
(* What the context manager makes of messages. *)

Words(E) == {"line", "summary", "omitted", "marker"} \subseteq E

LEMMA NormalizeTyped ==
    ASSUME NEW D, NEW E, NEW ms \in Seq(Msg(D)),
           \A i \in 1 .. Len(ms) :
               IF ms[i].role = "assistant" THEN Sanitize(ms[i].content) \in Seq(E)
               ELSE ms[i].content \in Seq(E)
    PROVE  Normalize(ms) \in Seq(Msg(E))
<1> DEFINE clean == [i \in DOMAIN ms |->
                       IF ms[i].role # "assistant" THEN ms[i]
                       ELSE [ms[i] EXCEPT !.content = Sanitize(@)]]
           I == {i \in DOMAIN clean : clean[i].role # "assistant" \/ clean[i].content # <<>>}
<1>1. Normalize(ms) = Kept(clean, I)
    BY DEF Normalize
<1>2. Len(ms) \in Nat /\ DOMAIN ms = 1 .. Len(ms) /\ \A i \in 1 .. Len(ms) : ms[i] \in Msg(D)
    BY Fields
<1>3. ASSUME NEW i \in 1 .. Len(ms) PROVE clean[i] \in Msg(E)
    <2>1. CASE ms[i].role # "assistant"
        <3>1. clean[i] = ms[i] /\ ms[i].content \in Seq(E) /\ ms[i].role \in Role
            BY <1>2, <2>1 DEF Msg
        <3> QED BY <1>2, <3>1 DEF Msg
    <2>2. CASE ms[i].role = "assistant"
        <3>1. clean[i] = [ms[i] EXCEPT !.content = Sanitize(ms[i].content)]
              /\ Sanitize(ms[i].content) \in Seq(E)
            BY <1>2, <2>2
        <3> DEFINE c == Sanitize(ms[i].content)
        <3> HIDE DEF c, clean
        <3> QED BY <1>2, <3>1 DEF Msg, c
    <2> QED BY <2>1, <2>2
<1>4. clean \in Seq(Msg(E))
    <2>1. clean = [i \in 1 .. Len(ms) |-> clean[i]]
        BY <1>2
    <2> HIDE DEF clean
    <2> QED BY <1>2, <1>3, <2>1
<1> HIDE DEF clean, I
<1> QED BY <1>1, <1>4, KeptIs

LEMMA TurnsTyped ==
    ASSUME NEW E, NEW ms \in Seq(Msg(E))
    PROVE  Turns(ms) \in Seq(Seq(Msg(E)))
<1>1. PICK f \in GroupingLoops(E, ms) : TRUE
    BY GroupingTurns
<1>2. Len(ms) \in 0 .. Len(ms)
    BY Fields
<1> QED BY <1>1, <1>2 DEF GroupingLoops

LEMMA RecentTyped ==
    ASSUME NEW S, NEW turns \in Seq(Seq(S)), NEW k \in 0 .. Len(turns)
    PROVE  Recent(turns, k) \in Seq(S) /\ Older(turns, k) \in Seq(S)
<1> DEFINE n == Len(turns)
<1>1. n \in Nat
    BY Elements
<1>2. n - k + 1 \in Nat \ {0} /\ n - k \in Int /\ n - k <= n
    BY <1>1
<1>3. SubSeq(turns, n - k + 1, n) \in Seq(Seq(S)) /\ SubSeq(turns, 1, n - k) \in Seq(Seq(S))
    BY <1>1, <1>2, Cut
<1> QED BY <1>3, Flattened DEF Recent, Older

\* A summary, or none.
SummaryOf(E) == [lines : Seq(Seq(E)), message : Seq(Msg(E)), included : Nat, dropped : Int]

LEMMA NoSummaryTyped == ASSUME NEW E, NEW n \in Nat PROVE NoSummary(n) \in SummaryOf(E)
BY DEF NoSummary, SummaryOf

LEMMA SummaryTextTyped ==
    ASSUME NEW E, Words(E), NEW lines \in Seq(Seq(E)), NEW dropped \in Int, NEW budget \in Nat
    PROVE  SummaryText(lines, dropped, budget) \in Seq(E)
<1>1. <<"summary">> \in Seq(E) /\ <<"omitted">> \in Seq(E) /\ <<"summary", "omitted">> \in Seq(E)
      /\ <<>> \in Seq(E)
    BY DEF Words
<1>2. FlattenSeq(lines) \in Seq(E)
    BY Flattened
<1>3. <<"summary">> \o FlattenSeq(lines) \in Seq(E)
    BY <1>1, <1>2, ConcatProperties
<1>4. /\ <<"summary">> \o FlattenSeq(lines) \o <<"omitted">> \in Seq(E)
      /\ <<"summary">> \o FlattenSeq(lines) \o <<>> \in Seq(E)
    BY <1>1, <1>3, ConcatProperties
<1>5. SubSeq(<<"summary", "omitted">>, 1, Least(2, budget)) \in Seq(E)
    <2>1. Least(2, budget) \in Int /\ Least(2, budget) <= 2
        BY DEF Least
    <2>2. Len(<<"summary", "omitted">>) = 2
        OBVIOUS
    <2> DEFINE b == Least(2, budget)
               s == <<"summary", "omitted">>
    <2> HIDE DEF b, s
    <2>3. SubSeq(s, 1, b) \in Seq(E)
        BY <1>1, <2>1, <2>2, Cut DEF b, s
    <2> QED BY <2>3 DEF b, s
<1> QED BY <1>4, <1>5 DEF SummaryText

LEMMA ChosenTyped ==
    ASSUME NEW E, Words(E), NEW ms \in Seq(Msg(E)), NEW budget \in Int
    PROVE  /\ Chosen(ms, budget) \in SummaryState(E, Len(ms))
           /\ Chosen(ms, budget).included <= Len(ms)
<1> DEFINE n == Len(ms)
<1>1. n \in Nat
    BY Fields
<1>2. PICK f \in ChoosingLoops(E, ms, budget) : TRUE
    BY ChoosingTurns DEF Words
<1>3. /\ f \in [0 .. n -> SummaryState(E, n)] /\ f[0] = NoSummary(n) /\ Chosen(ms, budget) = f[n]
      /\ \A i \in 1 .. n : f[i] = Picked(f[i - 1], Reverse(ms)[i], n, budget)
    BY <1>2 DEF ChoosingLoops
<1>4. \A i \in 1 .. n : Reverse(ms)[i] \in Msg(E)
    <2>1. Reverse(ms) \in Seq(Msg(E)) /\ Len(Reverse(ms)) = n
        BY Reversed
    <2> QED BY <2>1, Fields
<1> HIDE DEF n
<1> DEFINE T == {i \in 0 .. n : f[i].included <= i}
<1>5. 0 \in T
    BY <1>1, <1>3 DEF NoSummary
<1>6. ASSUME NEW i \in 1 .. n, i - 1 \in T PROVE i \in T
    <2>1. i - 1 \in 0 .. n /\ f[i - 1] \in SummaryState(E, n) /\ f[i] \in SummaryState(E, n)
        BY <1>1, <1>3
    <2>2. f[i].included <= f[i - 1].included + 1
        BY <1>1, <1>3, <1>4, <2>1, PickedTyped DEF Words
    <2>3. f[i].included \in Nat /\ f[i - 1].included \in Nat /\ f[i - 1].included <= i - 1
        BY <1>6, <2>1 DEF SummaryState
    <2> QED BY <1>1, <2>2, <2>3
<1> HIDE DEF T
<1>7. \A i \in 0 .. n : i \in T
    BY <1>1, <1>5, <1>6, LoopInduction
<1>8. n \in T /\ n \in 0 .. n
    BY <1>1, <1>7
<1>9. f[n].included <= n
    BY <1>8 DEF T
<1> QED BY <1>3, <1>8, <1>9 DEF n

\* A summary, and how many of the messages it includes and drops.
LEMMA BuildSummaryTyped ==
    ASSUME NEW E, Words(E), NEW ms \in Seq(Msg(E)), NEW budget \in Int
    PROVE  /\ BuildSummary(ms, budget) \in SummaryOf(E)
           /\ BuildSummary(ms, budget).included + BuildSummary(ms, budget).dropped = Len(ms)
           /\ BuildSummary(ms, budget).included <= Len(ms)
<1> DEFINE n == Len(ms)
           chosen == Chosen(ms, budget)
           dropped == n - chosen.included
           text == SummaryText(chosen.lines, dropped, budget)
           whole == [chosen EXCEPT !.dropped = dropped,
                                   !.message = <<[role |-> "system", content |-> text]>>]
<1>1. n \in Nat
    BY Fields
<1>2. BuildSummary(ms, budget) = IF n = 0 \/ budget < StopSummary THEN NoSummary(n) ELSE whole
    BY DEF BuildSummary
<1>3. chosen \in SummaryState(E, n) /\ chosen.included <= n
    BY ChosenTyped
<1> HIDE DEF n, chosen
<1>4. chosen.included \in Nat /\ chosen.lines \in Seq(Seq(E)) /\ dropped \in Int
    BY <1>1, <1>3 DEF SummaryState
<1>5. CASE n = 0 \/ budget < StopSummary
    <2>1. /\ NoSummary(n).included + NoSummary(n).dropped = n /\ NoSummary(n).included <= n
        BY <1>1 DEF NoSummary
    <2> QED BY <1>1, <1>2, <1>5, <2>1, NoSummaryTyped DEF n
<1>6. CASE ~(n = 0 \/ budget < StopSummary)
    <2>1. budget \in Nat
        BY <1>6, ContextAssumption
    <2>2. text \in Seq(E)
        BY <1>4, <2>1, SummaryTextTyped
    <2> DEFINE message == <<[role |-> "system", content |-> text]>>
    <2>3. message \in Seq(Msg(E))
        <3> HIDE DEF text
        <3>1. "system" \in Role
            BY DEF Role
        <3>2. [role |-> "system", content |-> text] \in [role : Role, content : Seq(E)]
            BY <2>2, <3>1
        <3>3. [role |-> "system", content |-> text] \in Msg(E)
            BY <3>2 DEF Msg
        <3> QED BY <3>3
    <2> HIDE DEF message, dropped
    <2>4. whole = [chosen EXCEPT !.dropped = dropped, !.message = message]
        BY DEF message
    <2> HIDE DEF whole
    <2>5. whole \in SummaryOf(E) /\ whole.included = chosen.included /\ whole.dropped = dropped
        BY <1>3, <1>4, <2>3, <2>4 DEF SummaryOf, SummaryState
    <2>6. chosen.included + dropped = n
        BY <1>1, <1>4 DEF dropped
    <2> QED BY <1>2, <1>3, <1>6, <2>5, <2>6 DEF n
<1> QED BY <1>5, <1>6

\* Going down until a value is good enough.
IsDescent(m, X, last, v, down) ==
    /\ m \in Nat /\ v \in [0 .. m -> X] /\ down \in [0 .. m -> Int]
    /\ \A b \in (0 .. m) \ last : down[b] \in 0 .. (b - 1)

Descents(m, X, last, v, down) ==
    {f \in [0 .. m -> X] : \A b \in 0 .. m : f[b] = IF b \in last THEN v[b] ELSE f[down[b]]}

LEMMA DescentExists ==
    ASSUME NEW m, NEW X, NEW last, NEW v, NEW down, IsDescent(m, X, last, v, down)
    PROVE  Descents(m, X, last, v, down) # {}
<1> USE DEF IsDescent
<1> DEFINE D(j) == {f \in [0 .. j -> X] :
                      \A b \in 0 .. j : f[b] = IF b \in last THEN v[b] ELSE f[down[b]]}
           T == {j \in 0 .. m : D(j) # {}}
<1>1. 0 \in T
    <2> DEFINE a == [b \in 0 .. 0 |-> v[0]]
    <2>1. 0 \in 0 .. m /\ ~(down[0] \in 0 .. (0 - 1)) /\ v[0] \in X
        OBVIOUS
    <2>2. 0 \in last
        BY <2>1
    <2>3. \A b \in 0 .. 0 : b = 0
        OBVIOUS
    <2>4. a \in [0 .. 0 -> X] /\ \A b \in 0 .. 0 : a[b] = IF b \in last THEN v[b] ELSE a[down[b]]
        BY <2>1, <2>2, <2>3
    <2> HIDE DEF a
    <2>5. a \in D(0)
        BY <2>4
    <2> QED BY <2>5
<1>2. ASSUME NEW j \in 1 .. m, j - 1 \in T PROVE j \in T
    <2>1. PICK a \in D(j - 1) : TRUE
        BY <1>2
    <2>2. /\ a \in [0 .. (j - 1) -> X]
          /\ \A b \in 0 .. (j - 1) : a[b] = IF b \in last THEN v[b] ELSE a[down[b]]
        BY <2>1
    <2> DEFINE f == [b \in 0 .. j |-> IF b < j THEN a[b] ELSE IF j \in last THEN v[j] ELSE a[down[j]]]
    <2>3. j \in 0 .. m /\ v[j] \in X /\ (j \notin last => down[j] \in 0 .. (j - 1))
        OBVIOUS
    <2>4. j \notin last => a[down[j]] \in X
        BY <2>2, <2>3
    <2>5. f \in [0 .. j -> X]
        BY <2>2, <2>3, <2>4
    <2>6. ASSUME NEW b \in 0 .. j PROVE f[b] = IF b \in last THEN v[b] ELSE f[down[b]]
        <3>1. CASE b = j
            <4>1. j \notin last => f[down[j]] = a[down[j]]
                BY <2>3
            <4> QED BY <3>1, <4>1
        <3>2. CASE b < j
            <4>1. b \in 0 .. (j - 1) /\ f[b] = a[b] /\ b \in 0 .. m
                BY <3>2
            <4>2. b \notin last => down[b] \in 0 .. (b - 1)
                BY <4>1
            <4>3. b \notin last => down[b] \in 0 .. j /\ down[b] < j
                BY <3>2, <4>2
            <4>4. b \notin last => f[down[b]] = a[down[b]]
                BY <4>3
            <4> QED BY <2>2, <4>1, <4>4
        <3> QED BY <3>1, <3>2
    <2> HIDE DEF f
    <2>7. f \in D(j)
        BY <2>5, <2>6
    <2> HIDE DEF D
    <2> QED BY <2>7
<1> HIDE DEF T
<1>3. m \in T
    <2>1. \A j \in 0 .. m : j \in T
        BY <1>1, <1>2, LoopInduction
    <2> QED BY <2>1
<1> QED BY <1>3 DEF T, Descents

LEMMA WithTyped ==
    ASSUME NEW E, NEW systems \in Seq(Msg(E)), NEW turns \in Seq(Seq(Msg(E))),
           NEW k \in 0 .. Len(turns), NEW s \in SummaryOf(E)
    PROVE  /\ With(systems, turns, k, s) \in Seq(Msg(E))
           /\ Size(With(systems, turns, k, s)) \in Nat
<1>1. Recent(turns, k) \in Seq(Msg(E)) /\ s.message \in Seq(Msg(E))
    BY RecentTyped DEF SummaryOf
<1>2. systems \o s.message \in Seq(Msg(E))
    BY <1>1, ConcatProperties
<1>3. With(systems, turns, k, s) \in Seq(Msg(E))
    BY <1>1, <1>2, ConcatProperties DEF With
<1> QED BY <1>3, SizeTyped

\* A summary of n messages that includes some and drops the others.
Splits(s, n) == s.included + s.dropped = n /\ s.included <= n

LEMMA ShrinkTyped ==
    ASSUME NEW E, Words(E), NEW systems \in Seq(Msg(E)), NEW turns \in Seq(Seq(Msg(E))),
           NEW k \in 0 .. Len(turns), NEW budget \in Nat
    PROVE  /\ Shrink(systems, turns, k, budget) \in SummaryOf(E)
           /\ Splits(Shrink(systems, turns, k, budget), Len(Older(turns, k)))
<1> DEFINE m == SummaryBudget(budget)
           older == Older(turns, k)
           B(b) == BuildSummary(older, b)
           over(b) == Size(With(systems, turns, k, B(b))) - budget
           next(b) == Most(0, b - Most(StopSummary, over(b)))
           Is(f) == f = [b \in 0 .. m |-> IF b < StopSummary THEN NoSummary(Len(older))
                                          ELSE IF over(b) <= 0 THEN B(b) ELSE f[next(b)]]
           F == CHOOSE f : Is(f)
           X == {s \in SummaryOf(E) : Splits(s, Len(older))}
           last == {b \in 0 .. m : b < StopSummary \/ over(b) <= 0}
           v == [b \in 0 .. m |-> IF b < StopSummary THEN NoSummary(Len(older)) ELSE B(b)]
           down == [b \in 0 .. m |-> IF b \in last THEN 0 ELSE next(b)]
<1>1. Shrink(systems, turns, k, budget) = F[m]
    BY DEF Shrink
<1>2. m \in Nat
    <2> DEFINE quarter == budget \div 4
    <2>1. quarter \in Nat /\ LeastSummary \in Nat /\ MaxSummary \in Nat
        BY ContextAssumption
    <2> HIDE DEF quarter
    <2>2. Least(MaxSummary, Most(LeastSummary, quarter)) \in Nat
        BY <2>1 DEF Least, Most
    <2> QED BY <2>2 DEF SummaryBudget, quarter
<1>3. older \in Seq(Msg(E)) /\ Len(older) \in Nat
    BY RecentTyped, Fields
<1>4. StopSummary \in Nat \ {0}
    BY ContextAssumption
<1> HIDE DEF m, older
<1>5. NoSummary(Len(older)) \in X
    BY <1>3, NoSummaryTyped DEF NoSummary, Splits
<1>6. \A b \in 0 .. m : B(b) \in X
    BY <1>3, BuildSummaryTyped DEF Splits
<1>7. ASSUME NEW b \in 0 .. m PROVE over(b) \in Int
    BY <1>6, WithTyped
<1> HIDE DEF B, X
<1>8. ASSUME NEW b \in (0 .. m) \ last PROVE next(b) \in 0 .. (b - 1)
    <2>1. b >= StopSummary /\ over(b) \in Int
        BY <1>4, <1>7
    <2> HIDE DEF over
    <2>2. Most(StopSummary, over(b)) \in Int /\ Most(StopSummary, over(b)) >= StopSummary
        BY <1>4, <2>1 DEF Most
    <2> DEFINE step == Most(StopSummary, over(b))
    <2> HIDE DEF step
    <2>3. Most(0, b - step) \in 0 .. (b - 1)
        BY <1>4, <2>1, <2>2 DEF Most, step
    <2> QED BY <2>3 DEF step
<1> HIDE DEF next, over
<1>9. IsDescent(m, X, last, v, down)
    <2>1. v \in [0 .. m -> X]
        BY <1>5, <1>6
    <2>2. \A b \in 0 .. m : (b \in last => down[b] = 0) /\ (b \notin last => down[b] = next(b))
        OBVIOUS
    <2>3. \A b \in 0 .. m : b \notin last => next(b) \in Int /\ next(b) \in 0 .. (b - 1)
        BY <1>8
    <2> HIDE DEF last
    <2>4. down \in [0 .. m -> Int]
        BY <2>3
    <2> HIDE DEF down, v
    <2> QED BY <1>2, <2>1, <2>2, <2>3, <2>4 DEF IsDescent
<1>10. PICK f \in [0 .. m -> X] : \A b \in 0 .. m : f[b] = IF b \in last THEN v[b] ELSE f[down[b]]
    <2>1. Descents(m, X, last, v, down) # {}
        BY <1>9, DescentExists
    <2> HIDE DEF last, v, down
    <2> QED BY <2>1 DEF Descents
<1>11. Is(f)
    <2>1. ASSUME NEW b \in 0 .. m
          PROVE  f[b] = IF b < StopSummary THEN NoSummary(Len(older))
                        ELSE IF over(b) <= 0 THEN B(b) ELSE f[next(b)]
        BY <1>10
    <2> QED BY <1>10, <2>1, Zenon
<1>12. Is(F)
    <2> HIDE DEF Is
    <2> QED BY <1>11
<1> HIDE DEF F
<1>13. \A b \in 0 .. m : F[b] = IF b < StopSummary THEN NoSummary(Len(older))
                                ELSE IF over(b) <= 0 THEN B(b) ELSE F[next(b)]
    BY <1>12, Zenon DEF Is
<1> HIDE DEF Is
<1> DEFINE Bad == {b \in 0 .. m : F[b] \notin X}
<1>14. Bad = {}
    <2> SUFFICES ASSUME Bad # {} PROVE FALSE
        OBVIOUS
    <2>1. Bad \in SUBSET Nat
        BY <1>2
    <2>2. PICK b \in Bad : \A c \in Bad : b <= c
        <3> HIDE DEF Bad
        <3> QED BY <2>1, WellOrdered
    <2>3. b \in 0 .. m /\ F[b] \notin X
        OBVIOUS
    <2>4. b \notin last /\ F[b] = F[next(b)]
        BY <1>5, <1>6, <1>13, <2>3
    <2>5. next(b) \in 0 .. (b - 1)
        BY <1>8, <2>3, <2>4
    <2>6. next(b) \in 0 .. m /\ ~(b <= next(b))
        BY <1>2, <2>3, <2>5
    <2>7. next(b) \in Bad
        BY <2>3, <2>4, <2>6
    <2> QED BY <2>2, <2>6, <2>7
<1>15. F[m] \in X
    BY <1>2, <1>14
<1> QED BY <1>1, <1>15 DEF X, older

LEMMA SummaryTyped ==
    ASSUME NEW E, Words(E), NEW systems \in Seq(Msg(E)), NEW turns \in Seq(Seq(Msg(E))),
           NEW k \in 0 .. Len(turns), NEW budget \in Nat
    PROVE  /\ Summary(systems, turns, k, budget) \in SummaryOf(E)
           /\ Splits(Summary(systems, turns, k, budget), Len(Older(turns, k)))
<1>1. Older(turns, k) \in Seq(Msg(E))
    BY RecentTyped
<1>2. SummaryBudget(budget) \in Int
    <2> DEFINE quarter == budget \div 4
    <2>1. quarter \in Nat /\ LeastSummary \in Nat /\ MaxSummary \in Nat
        BY ContextAssumption
    <2> HIDE DEF quarter
    <2>2. Least(MaxSummary, Most(LeastSummary, quarter)) \in Int
        BY <2>1 DEF Least, Most
    <2> QED BY <2>2 DEF SummaryBudget, quarter
<1>3. /\ BuildSummary(Older(turns, k), SummaryBudget(budget)) \in SummaryOf(E)
      /\ Splits(BuildSummary(Older(turns, k), SummaryBudget(budget)), Len(Older(turns, k)))
    BY <1>1, <1>2, BuildSummaryTyped DEF Splits
<1> QED BY <1>3, ShrinkTyped DEF Summary

LEMMA EssentialTyped ==
    ASSUME NEW E, Words(E), NEW ms \in Seq(Msg(E)), NEW budget \in Int
    PROVE  FitEssential(ms, budget) \in Seq(Msg(E)) /\ Len(FitEssential(ms, budget)) = Len(ms)
<1>1. PICK f \in CuttingLoops(E, ms, budget) : TRUE
    BY CuttingTurns DEF Words
<1>2. Rounds \in 0 .. Rounds /\ Len(ms) \in Nat
    BY ContextAssumption, Fields
<1>3. FitEssential(ms, budget) \in [1 .. Len(ms) -> Msg(E)]
    BY <1>1, <1>2 DEF CuttingLoops
<1> DEFINE t == FitEssential(ms, budget)
<1> HIDE DEF t
<1>4. t \in Seq(Msg(E))
    BY <1>2, <1>3 DEF t
<1>5. DOMAIN t = 1 .. Len(ms) /\ DOMAIN t = 1 .. Len(t) /\ Len(t) \in Nat
    BY <1>3, <1>4, LenProperties DEF t
<1>6. Len(t) = Len(ms)
    BY <1>2, <1>5
<1> QED BY <1>4, <1>6 DEF t

PlanOf(E) == [messages : Seq(Msg(E)), retained : Int, summarized : Int, dropped : Int]

\* The plan of a request whose messages, normalized, are words of E: it is made
\* of words of E, it fits, and it accounts for every message.
LEMMA FitTyped ==
    ASSUME NEW E, Words(E), NEW given, Normalize(given) \in Seq(Msg(E)), NEW maxOutput \in Nat
    PROVE  LET plan == Fit(given, maxOutput)
           IN /\ plan \in PlanOf(E)
              /\ plan # NoPlan => Fits(plan.messages, Budget(maxOutput))
<1> DEFINE budget == Budget(maxOutput)
           all == Normalize(given)
           system == {i \in DOMAIN all : all[i].role = "system"}
           systems == Kept(all, system)
           turns == Turns(Kept(all, DOMAIN all \ system))
           S(k) == Summary(systems, turns, k, budget)
           W(k) == With(systems, turns, k, S(k))
           roomy == {k \in 1 .. Least(RecentTurns, Len(turns)) : Fits(W(k), budget)}
           cut == FitEssential(systems \o Recent(turns, Least(1, Len(turns))), budget)
           whole == [messages |-> all, retained |-> Len(all), summarized |-> 0, dropped |-> 0]
           summed(k) == [messages |-> W(k), retained |-> Len(systems) + Len(Recent(turns, k)),
                         summarized |-> S(k).included, dropped |-> S(k).dropped]
           short == [messages |-> cut, retained |-> Len(cut), summarized |-> 0,
                     dropped |-> Most(0, Len(all) - Len(cut))]
           plan == Fit(given, maxOutput)
<1>1. plan = IF maxOutput < 1 \/ budget < 1 \/ all = <<>> THEN NoPlan
             ELSE IF Fits(all, budget) THEN whole
             ELSE IF roomy # {} THEN summed(Max(roomy))
             ELSE IF Fits(cut, budget) THEN short ELSE NoPlan
    BY DEF Fit, Planned, Roomy, Compacted, Whole
<1>2. all \in Seq(Msg(E)) /\ Len(all) \in Nat
    BY Elements
<1>3. systems \in Seq(Msg(E)) /\ Len(systems) \in Nat
    BY <1>2, KeptIs, Elements
<1>4. turns \in Seq(Seq(Msg(E))) /\ Len(turns) \in Nat
    <2>1. Kept(all, DOMAIN all \ system) \in Seq(Msg(E))
        BY <1>2, KeptIs
    <2> QED BY <2>1, TurnsTyped, Elements
<1>5. budget \in Int
    BY ContextAssumption DEF Budget, Least
<1>6. NoPlan \in PlanOf(E)
    BY DEF NoPlan, PlanOf
<1> HIDE DEF all, systems, turns, budget, system
<1>7. CASE maxOutput < 1 \/ budget < 1 \/ all = <<>>
    BY <1>1, <1>6, <1>7
<1>8. CASE ~(maxOutput < 1 \/ budget < 1 \/ all = <<>>) /\ Fits(all, budget)
    <2>1. plan = whole /\ whole \in PlanOf(E)
        BY <1>1, <1>2, <1>8 DEF PlanOf
    <2> QED BY <1>8, <2>1 DEF budget
<1>9. CASE ~(maxOutput < 1 \/ budget < 1 \/ all = <<>>) /\ ~Fits(all, budget) /\ roomy # {}
    <2>1. budget \in Nat
        BY <1>5, <1>9
    <2>2. PICK k \in 1 .. Len(turns) : k = Max(roomy) /\ k \in roomy
        <3> DEFINE top == Least(RecentTurns, Len(turns))
        <3>1. top \in Nat /\ top <= Len(turns)
            BY <1>4, ContextAssumption DEF Least
        <3>2. roomy \in SUBSET (1 .. top)
            OBVIOUS
        <3> HIDE DEF roomy, top
        <3>3. Max(roomy) \in roomy /\ Max(roomy) \in 1 .. top
            BY <1>9, <3>1, <3>2, TopOf
        <3> QED BY <1>4, <3>1, <3>3
    <2>3. Fits(W(k), budget)
        BY <2>2
    <2>4. k \in 0 .. Len(turns)
        BY <2>2
    <2>5. S(k) \in SummaryOf(E)
        BY <1>3, <1>4, <2>1, <2>4, SummaryTyped
    <2>6. W(k) \in Seq(Msg(E)) /\ Recent(turns, k) \in Seq(Msg(E))
        BY <1>3, <1>4, <2>4, <2>5, WithTyped, RecentTyped
    <2> DEFINE recent == Len(Recent(turns, k))
    <2>7. recent \in Nat /\ S(k).included \in Int /\ S(k).dropped \in Int
        BY <2>5, <2>6, Elements DEF SummaryOf
    <2>8. plan = summed(k)
        BY <1>1, <1>9, <2>2
    <2> HIDE DEF S, W, recent
    <2>9. summed(k) \in PlanOf(E) /\ summed(k).messages = W(k)
        BY <1>3, <2>6, <2>7 DEF PlanOf, recent
    <2> QED BY <2>3, <2>8, <2>9 DEF budget
<1>10. CASE ~(maxOutput < 1 \/ budget < 1 \/ all = <<>>) /\ ~Fits(all, budget) /\ roomy = {}
    <2>1. Least(1, Len(turns)) \in 0 .. Len(turns)
        BY <1>4 DEF Least
    <2>2. Recent(turns, Least(1, Len(turns))) \in Seq(Msg(E))
        BY <1>4, <2>1, RecentTyped
    <2>3. systems \o Recent(turns, Least(1, Len(turns))) \in Seq(Msg(E))
        BY <1>3, <2>2, ConcatProperties
    <2>4. cut \in Seq(Msg(E)) /\ Len(cut) \in Nat
        <3> DEFINE essential == systems \o Recent(turns, Least(1, Len(turns)))
        <3> HIDE DEF essential
        <3>1. essential \in Seq(Msg(E))
            BY <2>3 DEF essential
        <3>2. FitEssential(essential, budget) \in Seq(Msg(E))
            BY <1>5, <3>1, EssentialTyped
        <3>3. cut \in Seq(Msg(E))
            BY <3>2 DEF essential
        <3> QED BY <3>3, Elements
    <2> HIDE DEF cut, roomy
    <2>5. Most(0, Len(all) - Len(cut)) \in Int
        BY <1>2, <2>4 DEF Most
    <2>6. short \in PlanOf(E) /\ short.messages = cut
        BY <2>4, <2>5 DEF PlanOf
    <2> QED BY <1>1, <1>6, <1>10, <2>6 DEF budget
<1> QED BY <1>7, <1>8, <1>9, <1>10

-----------------------------------------------------------------------------
(* What an answer is made of. *)

LEMMA DecodeTyped ==
    ASSUME NEW E, {"hh", "?"} \subseteq E, NEW s \in Seq(E)
    PROVE  Decode(s) \in Seq(E) /\ Len(Decode(s)) \in Nat
<1>1. PICK f \in DecodingLoops(E, s) : TRUE
    BY DecodingTurns
<1>2. Len(Visible(s)) \in 0 .. Len(Visible(s))
    BY VisibleTyped, Elements
<1>3. Decode(s) \in Seq(E)
    BY <1>1, <1>2 DEF DecodingLoops
<1> QED BY <1>3, Elements

\* The least of some numbers is one of them.
LEMMA MinOf ==
    ASSUME NEW T \in SUBSET Nat, T # {}
    PROVE  Min(T) \in T /\ \A x \in T : Min(T) <= x
<1>1. PICK m \in T : \A x \in T : m <= x
    BY WellOrdered
<1> QED BY <1>1 DEF Min

LEMMA GeneratedTyped ==
    ASSUME NEW E, NEW speech \in Seq(E), NEW budget \in Nat
    PROVE  /\ Generated(speech, budget) \in Seq(E)
           /\ Len(Generated(speech, budget)) \in Nat
           /\ Len(Generated(speech, budget)) <= budget
           /\ \E n \in 0 .. Len(speech) : Generated(speech, budget) = SubSeq(speech, 1, n)
<1> DEFINE stops == {i \in DOMAIN speech : speech[i] \in Ends}
           T == {budget, Len(speech)} \cup stops
           n == Min(T)
<1>1. T \in SUBSET Nat /\ Len(speech) \in T /\ budget \in T /\ Len(speech) \in Nat
    BY Elements
<1> HIDE DEF T
<1>2. n \in Nat /\ n <= Len(speech) /\ n <= budget
    BY <1>1, MinOf
<1>3. Generated(speech, budget) = SubSeq(speech, 1, n)
    BY DEF Generated, T
<1> HIDE DEF n
<1>4. SubSeq(speech, 1, n) \in Seq(E) /\ Len(SubSeq(speech, 1, n)) = n
    BY <1>1, <1>2, Cut
<1> QED BY <1>1, <1>2, <1>3, <1>4

\* Stop sequences are a list of sequences.
StopList(stops) == DOMAIN stops \subseteq Nat /\ \A k \in DOMAIN stops : Len(stops[k]) \in Nat

LEMMA Beginning ==
    ASSUME NEW E, NEW s \in Seq(E), NEW n \in 0 .. Len(s)
    PROVE  /\ SubSeq(s, 1, n) \in Seq(E) /\ Len(SubSeq(s, 1, n)) = n
           /\ \A i \in 1 .. n : SubSeq(s, 1, n)[i] = s[i]
<1>1. n \in Int /\ n <= Len(s) /\ n \in Nat
    BY Elements
<1>2. /\ SubSeq(s, 1, n) \in Seq(E) /\ Len(SubSeq(s, 1, n)) = IF 1 <= n THEN n - 1 + 1 ELSE 0
      /\ \A i \in 1 .. Len(SubSeq(s, 1, n)) : SubSeq(s, 1, n)[i] = s[1 + i - 1]
    BY <1>1, Cut
<1>3. Len(SubSeq(s, 1, n)) = n
    BY <1>1, <1>2
<1>4. \A i \in 1 .. n : 1 + i - 1 = i
    BY <1>1
<1> QED BY <1>2, <1>3, <1>4

\* The beginning of a beginning, that may be empty.
LEMMA BeginningTwice ==
    ASSUME NEW E, NEW s \in Seq(E), NEW n \in 0 .. Len(s), NEW m \in Int, m <= n
    PROVE  \E l \in 0 .. n : SubSeq(SubSeq(s, 1, n), 1, m) = SubSeq(s, 1, l)
<1>1. n \in Nat /\ n <= Len(s) /\ n \in Int
    BY Elements
<1> DEFINE p == SubSeq(s, 1, n)
           l == IF m < 0 THEN 0 ELSE m
<1>2. /\ p \in Seq(E) /\ Len(p) = n
      /\ \A i \in 1 .. n : p[i] = s[i]
    <2>1. /\ p \in Seq(E) /\ Len(p) = IF 1 <= n THEN n - 1 + 1 ELSE 0
          /\ \A i \in 1 .. Len(p) : p[i] = s[1 + i - 1]
        BY <1>1, Cut
    <2> HIDE DEF p
    <2> QED BY <1>1, <2>1
<1> HIDE DEF p
<1>3. l \in 0 .. n
    BY <1>1
<1>4. m <= Len(p) /\ l \in Int /\ l <= Len(s)
    BY <1>1, <1>2
<1>5. /\ SubSeq(p, 1, m) \in Seq(E) /\ Len(SubSeq(p, 1, m)) = IF 1 <= m THEN m - 1 + 1 ELSE 0
      /\ \A i \in 1 .. Len(SubSeq(p, 1, m)) : SubSeq(p, 1, m)[i] = p[1 + i - 1]
    BY <1>2, <1>4, Cut
<1>6. /\ SubSeq(s, 1, l) \in Seq(E) /\ Len(SubSeq(s, 1, l)) = IF 1 <= l THEN l - 1 + 1 ELSE 0
      /\ \A i \in 1 .. Len(SubSeq(s, 1, l)) : SubSeq(s, 1, l)[i] = s[1 + i - 1]
    BY <1>4, Cut
<1> DEFINE x == SubSeq(p, 1, m)
           y == SubSeq(s, 1, l)
<1>7. x \in Seq(E) /\ Len(x) = l /\ \A i \in 1 .. l : x[i] = p[i]
    <2> HIDE DEF x
    <2>1. x \in Seq(E) /\ Len(x) = (IF 1 <= m THEN m - 1 + 1 ELSE 0)
          /\ \A i \in 1 .. Len(x) : x[i] = p[1 + i - 1]
        BY <1>5 DEF x
    <2> QED BY <2>1
<1>8. y \in Seq(E) /\ Len(y) = l /\ \A i \in 1 .. l : y[i] = s[i]
    <2> HIDE DEF y
    <2>1. y \in Seq(E) /\ Len(y) = (IF 1 <= l THEN l - 1 + 1 ELSE 0)
          /\ \A i \in 1 .. Len(y) : y[i] = s[1 + i - 1]
        BY <1>6 DEF y
    <2> QED BY <1>4, <2>1
<1> HIDE DEF x, y
<1>9. x = y
    <2>1. \A i \in 1 .. l : x[i] = y[i]
        BY <1>2, <1>3, <1>7, <1>8
    <2> HIDE DEF l
    <2> QED BY <1>7, <1>8, <2>1, SeqEqual
<1> QED BY <1>3, <1>9 DEF x, y, p

\* A pass of so much speech within a budget.
IsPass(E, speech, budget, p) ==
    /\ p \in Seq(E) /\ Len(p) \in Nat /\ Len(p) <= budget
    /\ \E n \in 0 .. Len(speech) : p = SubSeq(speech, 1, n)

\* What a pass leaves a client, whether it waits or streams.
LEMMA PassTyped ==
    ASSUME NEW E, NEW speech \in Seq(E), NEW budget \in Nat, NEW stops, StopList(stops),
           NEW who \in {"kept", "pushed"}
    PROVE  IsPass(E, speech, budget, Pass(speech, budget, stops)[who])
<1> DEFINE p == Pass(speech, budget, stops)[who]
           tokens == Generated(speech, budget)
           seen == {n \in 0 .. Len(tokens) - 1 : Ending(stops, SubSeq(tokens, 1, n)) # {}}
           n == Min(seen)
           k == Min(Ending(stops, SubSeq(tokens, 1, n)))
           cut == n - Len(stops[k])
<1>1. PICK N \in 0 .. Len(speech) : tokens = SubSeq(speech, 1, N)
    BY GeneratedTyped
<1>2. tokens \in Seq(E) /\ Len(tokens) = N /\ N <= budget /\ N \in Nat
    BY <1>1, GeneratedTyped, Beginning
<1>3. p = IF seen = {} THEN tokens
          ELSE IF who = "kept" THEN SubSeq(tokens, 1, cut) ELSE SubSeq(tokens, 1, n + 1)
    <2> DEFINE early == SubSeq(tokens, 1, cut)
               late == SubSeq(tokens, 1, n + 1)
    <2>1. Pass(speech, budget, stops) =
             IF seen = {} THEN [kept |-> tokens, pushed |-> tokens, stopped |-> FALSE]
             ELSE [kept |-> early, pushed |-> late, stopped |-> TRUE]
        BY DEF Pass
    <2> HIDE DEF tokens, seen, early, late
    <2>2. p = IF seen = {} THEN tokens ELSE IF who = "kept" THEN early ELSE late
        <3>1. CASE who = "kept"
            BY <2>1, <3>1
        <3>2. CASE who = "pushed"
            BY <2>1, <3>2
        <3> QED BY <3>1, <3>2
    <2> HIDE DEF p
    <2> QED BY <2>2 DEF early, late
<1>4. ASSUME seen # {}
      PROVE  n \in Nat /\ n + 1 <= N /\ cut \in Int /\ cut <= N
    <2>1. \A m \in seen : m \in Nat /\ m <= N - 1 /\ Ending(stops, SubSeq(tokens, 1, m)) # {}
        BY <1>2
    <2> HIDE DEF seen
    <2>2. n \in seen
        BY <1>4, <2>1, MinOf
    <2> HIDE DEF n
    <2>3. n \in Nat /\ n <= N - 1 /\ Ending(stops, SubSeq(tokens, 1, n)) # {}
        BY <2>1, <2>2
    <2>4. Ending(stops, SubSeq(tokens, 1, n)) \in SUBSET DOMAIN stops
        BY DEF Ending
    <2>5. k \in DOMAIN stops
        BY <2>3, <2>4, MinOf DEF StopList
    <2> HIDE DEF k
    <2>6. Len(stops[k]) \in Nat
        BY <2>5 DEF StopList
    <2> QED BY <1>2, <2>3, <2>6
<1> HIDE DEF tokens, seen, n, cut
<1>5. \E l \in 0 .. N : p = SubSeq(speech, 1, l)
    <2>1. CASE seen = {}
        BY <1>1, <1>2, <1>3, <2>1
    <2>2. CASE seen # {} /\ who = "kept"
        <3>1. \E l \in 0 .. N : SubSeq(SubSeq(speech, 1, N), 1, cut) = SubSeq(speech, 1, l)
            BY <1>4, <2>2, BeginningTwice
        <3> QED BY <1>1, <1>3, <2>2, <3>1
    <2>3. CASE seen # {} /\ who # "kept"
        <3> DEFINE m == n + 1
        <3>1. m \in Int /\ m <= N
            BY <1>4, <2>3
        <3> HIDE DEF m
        <3>2. \E l \in 0 .. N : SubSeq(SubSeq(speech, 1, N), 1, m) = SubSeq(speech, 1, l)
            BY <3>1, BeginningTwice
        <3>3. p = SubSeq(tokens, 1, m)
            BY <1>3, <2>3 DEF m
        <3> QED BY <1>1, <3>2, <3>3
    <2> QED BY <2>1, <2>2, <2>3
<1>6. PICK l \in 0 .. N : p = SubSeq(speech, 1, l)
    BY <1>5
<1>7. l \in 0 .. Len(speech) /\ l \in Nat /\ l <= budget
    BY <1>1, <1>2, Elements
<1> HIDE DEF p
<1>8. p \in Seq(E) /\ Len(p) = l
    BY <1>6, <1>7, Beginning
<1>9. IsPass(E, speech, budget, p)
    BY <1>6, <1>7, <1>8 DEF IsPass
<1> QED BY <1>9 DEF p

\* Both passes of a client, and their numbers.
IsTurn(E, F, prompt, maxTokens, speech1, t) ==
    /\ t.first \in Seq(E) /\ t.second \in Seq(F) /\ t.closing \in {<<>>, <<"fe">>}
    /\ \E n \in 0 .. Len(speech1) : t.first = SubSeq(speech1, 1, n)
    /\ t.budget \in Nat /\ Len(t.first) \in Nat /\ Len(t.second) \in Nat
    /\ Len(t.first) <= maxTokens
    /\ t.budget > 0 => Len(t.first) + Len(Transition) + Len(t.second) <= maxTokens
    /\ t.budget > 0 => prompt + Len(Decode(t.first)) + Len(Transition) + t.budget <= MaxSeqLen

LEMMA TurnTyped ==
    ASSUME NEW E, {"hh", "?"} \subseteq E, NEW F, NEW prefill, NEW prompt \in Nat,
           NEW maxTokens \in Nat, NEW thinking \in Nat, NEW speech1 \in Seq(E), NEW speech2 \in Seq(F),
           NEW stops, StopList(stops), NEW who \in {"kept", "pushed"}
    PROVE  IsTurn(E, F, prompt, maxTokens, speech1,
                  Turn(who, prefill, prompt, maxTokens, thinking, speech1, speech2, stops))
<1> DEFINE t == Turn(who, prefill, prompt, maxTokens, thinking, speech1, speech2, stops)
           b1 == FirstBudget(prefill, maxTokens, thinking)
           first == Pass(speech1, b1, stops)[who]
           raw == Decode(first)
           again == Unclosed(prefill, raw)
           b2 == SecondBudget(maxTokens, prompt, first)
           budget == IF again THEN b2 ELSE 0
           second == IF budget > 0 THEN Pass(speech2, budget, stops)[who] ELSE <<>>
<1>1. /\ t.first = first /\ t.budget = budget /\ t.second = second
      /\ t.closing \in {<<>>, <<"fe">>}
    BY DEF Turn
<1>2. b1 \in Nat /\ b1 <= maxTokens
    BY DEF FirstBudget
<1> HIDE DEF b1
<1>3. /\ first \in Seq(E) /\ Len(first) \in Nat /\ Len(first) <= b1
      /\ \E n \in 0 .. Len(speech1) : first = SubSeq(speech1, 1, n)
    <2>1. IsPass(E, speech1, b1, first)
        BY <1>2, PassTyped
    <2> HIDE DEF first
    <2> QED BY <2>1 DEF IsPass
<1> HIDE DEF first
<1>4. raw \in Seq(E) /\ Len(raw) \in Nat
    BY <1>3, DecodeTyped
<1>5. Len(Transition) = 2
    BY DEF Transition
<1>6. /\ b2 \in Nat
      /\ b2 > 0 => /\ b2 <= maxTokens - Len(first) - 2
                   /\ b2 <= MaxSeqLen - (prompt + Len(raw) + 2)
    <2> DEFINE l == Len(first)
               r == Len(raw)
               remaining == maxTokens - l - Len(Transition)
               available == MaxSeqLen - (prompt + r + Len(Transition))
               most == Max({0, available})
    <2>1. b2 = IF remaining <= 0 THEN 0 ELSE Min({remaining, most})
        BY DEF SecondBudget
    <2> HIDE DEF l, r
    <2>2. l \in Nat /\ r \in Nat /\ MaxSeqLen \in Nat
        BY <1>3, <1>4, ContextAssumption DEF l, r
    <2>3. /\ remaining \in Int /\ available \in Int /\ remaining = maxTokens - l - 2
          /\ available = MaxSeqLen - (prompt + r + 2)
        BY <1>5, <2>2
    <2> HIDE DEF remaining, available
    <2>4. most = IF available >= 0 THEN available ELSE 0
        <3>1. \A x \in {0, available} : (\A y \in {0, available} : x >= y)
                  <=> x = IF available >= 0 THEN available ELSE 0
            BY <2>3
        <3> QED BY <2>3, <3>1 DEF Max
    <2> HIDE DEF most
    <2>5. most \in Nat /\ (most > 0 => most = available)
        BY <2>3, <2>4
    <2>6. ASSUME remaining > 0
          PROVE  /\ Min({remaining, most}) \in Nat
                 /\ Min({remaining, most}) <= remaining /\ Min({remaining, most}) <= most
        <3> DEFINE both == {remaining, most}
        <3>1. both \in SUBSET Nat /\ both # {} /\ remaining \in both /\ most \in both
            BY <2>3, <2>5, <2>6
        <3> HIDE DEF both
        <3>2. Min(both) \in Nat /\ Min(both) <= remaining /\ Min(both) <= most
            BY <3>1, MinOf
        <3> QED BY <3>2 DEF both
    <2> HIDE DEF b2
    <2> QED BY <2>1, <2>3, <2>5, <2>6 DEF l, r
<1> HIDE DEF again, b2
<1>7. budget \in Nat /\ (budget > 0 => budget = b2)
    BY <1>6
<1> HIDE DEF budget
<1>8. second \in Seq(F) /\ Len(second) \in Nat /\ (budget > 0 => Len(second) <= budget)
    <2> DEFINE p == Pass(speech2, budget, stops)[who]
    <2>1. IsPass(F, speech2, budget, p)
        BY <1>7, PassTyped
    <2> HIDE DEF p
    <2>2. <<>> \in Seq(F) /\ Len(<<>>) \in Nat
        OBVIOUS
    <2>3. second = IF budget > 0 THEN p ELSE <<>>
        BY DEF p
    <2> HIDE DEF second
    <2> QED BY <2>1, <2>2, <2>3 DEF IsPass
<1> HIDE DEF second
<1>9. budget > 0 => Len(first) + Len(Transition) + Len(second) <= maxTokens
    BY <1>2, <1>3, <1>5, <1>6, <1>7, <1>8
<1>10. budget > 0 => prompt + Len(raw) + Len(Transition) + budget <= MaxSeqLen
    <2> DEFINE r == Len(raw)
               l == Len(Transition)
    <2>1. budget > 0 => budget <= MaxSeqLen - (prompt + r + 2)
        BY <1>6, <1>7
    <2>2. r \in Nat /\ l = 2 /\ MaxSeqLen \in Nat
        BY <1>4, <1>5, ContextAssumption
    <2> HIDE DEF r, l
    <2>3. budget > 0 => prompt + r + l + budget <= MaxSeqLen
        BY <1>7, <2>1, <2>2
    <2> QED BY <2>3 DEF r, l
<1>11. Len(first) <= maxTokens
    BY <1>2, <1>3
<1>12. /\ t.first \in Seq(E) /\ t.second \in Seq(F) /\ t.closing \in {<<>>, <<"fe">>}
       /\ \E n \in 0 .. Len(speech1) : t.first = SubSeq(speech1, 1, n)
       /\ t.budget \in Nat /\ Len(t.first) \in Nat /\ Len(t.second) \in Nat
       /\ Len(t.first) <= maxTokens
    BY <1>1, <1>3, <1>7, <1>8, <1>11
<1> HIDE DEF t
<1>13. /\ t.budget > 0 => Len(t.first) + Len(Transition) + Len(t.second) <= maxTokens
       /\ t.budget > 0 => prompt + Len(Decode(t.first)) + Len(Transition) + t.budget <= MaxSeqLen
    BY <1>1, <1>9, <1>10 DEF raw
<1>14. IsTurn(E, F, prompt, maxTokens, speech1, t)
    BY <1>12, <1>13 DEF IsTurn
<1> QED BY <1>14 DEF t

\* An answer and its numbers.
LEMMA CompletionTyped ==
    ASSUME NEW E, {"hh", "?", "te", "fs", "fe"} \subseteq E, NEW prefill \in Seq(E), NEW prompt \in Nat,
           NEW maxTokens \in Nat, NEW thinking \in Nat, NEW speech1 \in Seq(E), NEW speech2 \in Seq(E),
           NEW stops, StopList(stops)
    PROVE  LET a == Completion(prefill, prompt, maxTokens, thinking, speech1, speech2, stops)
           IN /\ a.text \in Seq(E) /\ a.used \in Nat /\ a.used <= maxTokens
              /\ a.budget \in Nat /\ a.prompt = prompt
              /\ a.budget > 0 =>
                   a.prompt + Len(Decode(a.first)) + Len(Transition) + a.budget <= MaxSeqLen
<1> DEFINE a == Completion(prefill, prompt, maxTokens, thinking, speech1, speech2, stops)
           one == Turn("kept", prefill, prompt, maxTokens, thinking, speech1, speech2, stops)
           raw == Decode(one.first)
           ending == Decode(one.second)
           shown == IF Len(prefill) > 0 /\ IsPrefix(prefill, raw) THEN raw ELSE prefill \o raw
           closed == shown \o Transition \o ending \o one.closing
<1>1. /\ a.text = IF one.again THEN closed ELSE shown
      /\ a.used = IF one.again /\ one.budget > 0
                  THEN Len(one.first) + Len(Transition) + Len(one.second) ELSE Len(one.first)
      /\ a.budget = one.budget /\ a.prompt = prompt /\ a.first = one.first
    BY DEF Completion
<1>2. IsTurn(E, E, prompt, maxTokens, speech1, one)
    BY TurnTyped
<1> HIDE DEF one
<1>3. raw \in Seq(E) /\ ending \in Seq(E)
    <2>1. one.first \in Seq(E) /\ one.second \in Seq(E)
        BY <1>2 DEF IsTurn
    <2> QED BY <2>1, DecodeTyped
<1>4. Len(Transition) = 2 /\ Transition \in Seq(E) /\ one.closing \in Seq(E)
    <2>1. one.closing \in {<<>>, <<"fe">>}
        BY <1>2 DEF IsTurn
    <2>2. <<>> \in Seq(E) /\ <<"fe">> \in Seq(E)
        OBVIOUS
    <2>3. one.closing \in Seq(E)
        <3>1. CASE one.closing = <<>>
            BY <2>2, <3>1
        <3>2. CASE one.closing = <<"fe">>
            BY <2>2, <3>2
        <3> QED BY <2>1, <3>1, <3>2
    <2>4. Len(Transition) = 2 /\ Transition \in Seq(E)
        BY DEF Transition
    <2> QED BY <2>3, <2>4
<1>5. shown \in Seq(E)
    BY <1>3, ConcatProperties
<1> HIDE DEF ending, shown
<1>6. closed \in Seq(E)
    <2>1. shown \o Transition \in Seq(E)
        BY <1>4, <1>5, ConcatProperties
    <2>2. shown \o Transition \o ending \in Seq(E)
        BY <1>3, <2>1, ConcatProperties
    <2> QED BY <1>4, <2>2, ConcatProperties
<1> HIDE DEF closed, a
<1>7. a.used \in Nat /\ a.used <= maxTokens
    <2>1. /\ one.budget \in Nat /\ Len(one.first) \in Nat /\ Len(one.second) \in Nat
          /\ Len(one.first) <= maxTokens
          /\ one.budget > 0 => Len(one.first) + Len(Transition) + Len(one.second) <= maxTokens
        BY <1>2 DEF IsTurn
    <2>2. \/ a.used = Len(one.first)
          \/ one.budget > 0 /\ a.used = Len(one.first) + Len(Transition) + Len(one.second)
        BY <1>1
    <2> DEFINE l == Len(Transition)
               x == Len(one.first)
               y == Len(one.second)
               used == a.used
    <2>3. x \in Nat /\ y \in Nat /\ x <= maxTokens /\ (one.budget > 0 => x + l + y <= maxTokens)
        BY <2>1, Zenon
    <2>4. \/ used = x
          \/ one.budget > 0 /\ used = x + l + y
        BY <2>2, Zenon
    <2>5. l \in Nat
        BY <1>4
    <2> HIDE DEF l, x, y, used
    <2>6. used \in Nat /\ used <= maxTokens
        BY <2>3, <2>4, <2>5
    <2> QED BY <2>6 DEF used
<1>8. a.budget > 0 => a.prompt + Len(Decode(a.first)) + Len(Transition) + a.budget <= MaxSeqLen
    BY <1>1, <1>2 DEF IsTurn
<1>9. a.budget \in Nat
    BY <1>1, <1>2 DEF IsTurn
<1> QED BY <1>1, <1>5, <1>6, <1>7, <1>8, <1>9 DEF a

\* No stop sequence: both clients have the same passes.
LEMMA TurnsAlike ==
    ASSUME NEW prefill, NEW prompt, NEW maxTokens, NEW thinking, NEW speech1, NEW speech2, NEW stops
    PROVE  LET one  == Turn("kept", prefill, prompt, maxTokens, thinking, speech1, speech2, stops)
               live == Turn("pushed", prefill, prompt, maxTokens, thinking, speech1, speech2, stops)
           IN /\ ~one.stopped =>
                   /\ live.first = one.first /\ live.second = one.second
                   /\ (live.again <=> one.again)
                   /\ live.closing = one.closing
<1> DEFINE b1 == FirstBudget(prefill, maxTokens, thinking)
           p == Pass(speech1, b1, stops)
           Again(c) == Unclosed(prefill, Decode(p[c]))
           Left(c) == IF Again(c) THEN SecondBudget(maxTokens, prompt, p[c]) ELSE 0
           Next1(c) == IF Left(c) > 0 THEN Pass(speech2, Left(c), stops)
                       ELSE [kept |-> <<>>, pushed |-> <<>>, stopped |-> FALSE]
           Closing(c) == IF "fe" \in ToSet(Decode(Next1(c)[c])) THEN <<>> ELSE <<"fe">>
           one  == Turn("kept", prefill, prompt, maxTokens, thinking, speech1, speech2, stops)
           live == Turn("pushed", prefill, prompt, maxTokens, thinking, speech1, speech2, stops)
<1>1. /\ one.first = p["kept"] /\ (one.again <=> Again("kept"))
      /\ one.second = Next1("kept")["kept"] /\ one.closing = Closing("kept")
      /\ one.stopped <=> (p.stopped \/ Next1("kept").stopped)
    BY DEF Turn
<1>2. /\ live.first = p["pushed"] /\ (live.again <=> Again("pushed"))
      /\ live.second = Next1("pushed")["pushed"] /\ live.closing = Closing("pushed")
    BY DEF Turn
<1>3. ~p.stopped => p["kept"] = p["pushed"]
    BY DEF Pass
<1>4. ~Next1("kept").stopped => Next1("kept")["kept"] = Next1("kept")["pushed"]
    BY DEF Pass
<1> HIDE DEF p, one, live
<1>5. ~p.stopped => Left("pushed") = Left("kept") /\ (Again("pushed") <=> Again("kept"))
    BY <1>3
<1>6. ~p.stopped => Next1("pushed") = Next1("kept")
    BY <1>5
<1>7. ~one.stopped => live.first = one.first /\ (live.again <=> one.again)
    BY <1>1, <1>2, <1>3, <1>5
<1> HIDE DEF Next1
<1>8. ~one.stopped => Next1("pushed")["pushed"] = Next1("kept")["kept"]
    BY <1>1, <1>4, <1>6
<1>9. ~one.stopped => live.second = one.second /\ live.closing = one.closing
    BY <1>1, <1>2, <1>8
<1> QED BY <1>7, <1>9 DEF one, live

-----------------------------------------------------------------------------
(* The inductive invariant of the orchestrator and the agents. *)

\* Every word that is said or made up.
Word == {"line", "summary", "omitted", "marker", "hh", "?", "ts", "te", "fs", "fe"}
        \cup UNION {ToSet(said) : said \in Said}

Message ==
    [role : {"system", "user"}, content : Seq(Word)]
    \cup [role : {"assistant"}, content : Seq(Word), calls : Nat]
    \cup [role : {"tool"}, content : Seq(Word), call : Nat]

Places == {"gone", "idle", "prompt", "calling", "answered", "tools"}
Outcomes == {"none", "answer", "error", "raised", "max steps"}

IsWorker(r) ==
    /\ DOMAIN r = {"at", "task", "step", "history", "calls", "back", "plan", "answer"}
    /\ r.at \in Places /\ r.task \in Nat /\ r.step \in Nat /\ r.history \in Seq(Message)
    /\ r.calls \in Nat /\ r.back \in SUBSET Nat

ToolMessages(n) == [i \in 1 .. n |-> [role |-> "tool", content |-> ToolOutput, call |-> i]]

\* Each tool call of a history is followed by its result.
Paired(history) ==
    LET Of(role) == {i \in DOMAIN history : history[i].role = role}
    IN {<<i, history[i].call>> : i \in Of("tool")}
         = UNION {{<<i + n, n>> : n \in 1 .. history[i].calls} : i \in Of("assistant")}

\* What agent w may be at: the steps are counted, only the first answer to a line
\* of a talk may have tools, and every call in its history is followed by its
\* result, the calls of the last answer by those that are to come.
Fine(w, r) ==
    /\ IsWorker(r)
    /\ r.at = "answered" => r.answer.text \in Seq(Word)
    /\ r.step <= IF w = Terminal /\ r.task = 0 THEN 2 ELSE MaxSteps
    /\ r.at = "tools" /\ w = Terminal /\ r.task = 0 => r.step <= 1
    /\ r.at \in {"calling", "answered", "prompt"} => Paired(r.history)
    /\ r.at = "tools" => Paired(r.history \o ToolMessages(r.calls))

Typed ==
    /\ tasks \in Seq([status : {"pending", "running", "completed", "failed"}, result : Outcomes])
    /\ queue \in Seq(Nat)
    /\ results \in Seq([task : Nat, success : BOOLEAN])
    /\ worker \in [Agent -> {worker[w] : w \in Agent}]

\* The queue holds each pending task of the run, once.
Queued ==
    /\ IsInjective(queue) /\ ToSet(queue) \subseteq run /\ run \subseteq Ids
    /\ \A t \in run : t \in ToSet(queue) <=> tasks[t].status = "pending"

Done(t) == tasks[t].status \in {"completed", "failed"}

\* Each task that is done has one result, which says how it ended.
Recorded ==
    /\ \A i \in DOMAIN results :
          /\ results[i].task \in Ids /\ Done(results[i].task)
          /\ results[i].success = (tasks[results[i].task].status = "completed")
    /\ \A i, j \in DOMAIN results : results[i].task = results[j].task => i = j
    /\ \A t \in Ids : Done(t) => \E i \in DOMAIN results : results[i].task = t

\* Each running task has one worker, and each busy worker a running task.
Busy(w) == worker[w].at \notin {"gone", "idle"}
Staffed ==
    /\ \A w \in Workers : /\ ~At(w, "prompt") /\ (~Busy(w) => worker[w].task = 0)
                          /\ Busy(w) => worker[w].task \in Ids
                                        /\ tasks[worker[w].task].status = "running"
    /\ \A v, w \in Workers : Busy(v) /\ worker[v].task = worker[w].task => v = w
    /\ \A t \in Ids : tasks[t].status = "running" => \E w \in Workers : worker[w].task = t
    /\ run = {} => \A w \in Workers : At(w, "gone")
    /\ ~At(Terminal, "idle")

AgentsInv == Typed /\ Queued /\ Recorded /\ Staffed /\ \A w \in Agent : Fine(w, worker[w])

-----------------------------------------------------------------------------
(* What is said and made up is made of words. *)

LEMMA Numbers ==
    /\ {MaxWorkers, MaxTasks, MaxAsks, MaxSteps, MaxTokens} \subseteq Nat \ {0}
    /\ Thinking \subseteq Nat
BY AgentsAssumption

LEMMA StopsAre == \A stops \in Stops : StopList(stops)
<1> SUFFICES ASSUME NEW stops \in Stops PROVE StopList(stops)
    OBVIOUS
<1>1. stops \in Seq(ToSet(stops)) /\ \A stop \in ToSet(stops) : stop \in Seq(ToSet(stop))
    BY AgentsAssumption
<1>2. DOMAIN stops = 1 .. Len(stops) /\ Len(stops) \in Nat /\ \A k \in DOMAIN stops : stops[k] \in ToSet(stops)
    BY <1>1, Elements
<1>3. ASSUME NEW k \in DOMAIN stops PROVE Len(stops[k]) \in Nat
    <2>1. stops[k] \in Seq(ToSet(stops[k]))
        BY <1>1, <1>2
    <2> QED BY <2>1, Elements
<1> QED BY <1>2, <1>3 DEF StopList

LEMMA WordsAre == Words(Word) /\ {"hh", "?", "te", "fs", "fe"} \subseteq Word
BY DEF Words, Word

LEMMA SaidTyped == \A said \in Said : said \in Seq(Word)
<1> SUFFICES ASSUME NEW said \in Said PROVE said \in Seq(Word)
    OBVIOUS
<1>1. said \in Seq(ToSet(said))
    BY AgentsAssumption
<1>2. ToSet(said) \subseteq Word
    BY DEF Word
<1> HIDE DEF Word
<1> QED BY <1>1, <1>2, SeqMonotonic

LEMMA SaidAre ==
    /\ {Prefill, Tools, System, Task, ToolOutput} \subseteq Seq(Word)
    /\ Speech \subseteq Seq(Word) /\ Final \subseteq Seq(Word)
BY SaidTyped DEF Said

\* Where a word stands first, and what follows it.
LEMMA PlaceIs ==
    ASSUME NEW E, NEW s \in Seq(E), NEW x \in ToSet(s)
    PROVE  /\ Place(s, x) \in 1 .. Len(s) /\ s[Place(s, x)] = x
           /\ \A i \in 1 .. Len(s) : s[i] = x => Place(s, x) <= i
<1> DEFINE T == {i \in DOMAIN s : s[i] = x}
<1>1. T \in SUBSET Nat /\ T # {} /\ DOMAIN s = 1 .. Len(s)
    BY Elements
<1>2. Place(s, x) = Min(T)
    BY DEF Place
<1> HIDE DEF T
<1>3. Min(T) \in T /\ \A i \in T : Min(T) <= i
    BY <1>1, MinOf
<1> QED BY <1>1, <1>2, <1>3 DEF T

LEMMA AfterIs ==
    ASSUME NEW E, NEW s \in Seq(E), NEW x \in ToSet(s)
    PROVE  /\ After(s, x) \in Seq(E)
           /\ Len(After(s, x)) = Len(s) - Place(s, x)
           /\ \A i \in 1 .. Len(After(s, x)) :
                 After(s, x)[i] = s[Place(s, x) + i] /\ Place(s, x) + i \in 1 .. Len(s)
<1> DEFINE p == Place(s, x)
           n == Len(s)
<1>1. p \in 1 .. n /\ n \in Nat
    BY PlaceIs, Elements
<1> HIDE DEF p, n
<1>2. p + 1 \in Nat \ {0} /\ n \in Int /\ n <= n
    BY <1>1
<1>3. /\ SubSeq(s, p + 1, n) \in Seq(E)
      /\ Len(SubSeq(s, p + 1, n)) = IF p + 1 <= n THEN n - (p + 1) + 1 ELSE 0
      /\ \A i \in 1 .. Len(SubSeq(s, p + 1, n)) :
            SubSeq(s, p + 1, n)[i] = s[p + 1 + i - 1] /\ p + 1 + i - 1 \in 1 .. n
    BY <1>2, Cut DEF n
<1>4. After(s, x) = SubSeq(s, p + 1, n)
    BY DEF After, p, n
<1> DEFINE a == After(s, x)
<1>5. /\ a \in Seq(E) /\ Len(a) = IF p + 1 <= n THEN n - (p + 1) + 1 ELSE 0
      /\ \A i \in 1 .. Len(a) : a[i] = s[p + 1 + i - 1] /\ p + 1 + i - 1 \in 1 .. n
    BY <1>3, <1>4
<1> HIDE DEF a
<1>6. Len(a) = n - p
    BY <1>1, <1>5
<1>7. \A i \in 1 .. Len(a) : p + 1 + i - 1 = p + i
    BY <1>1
<1> QED BY <1>5, <1>6, <1>7 DEF a, p, n

LEMMA WithoutTyped ==
    ASSUME NEW E, NEW s \in Seq(E), NEW X
    PROVE  /\ Without(s, X) \in Seq(E)
           /\ \A x : x \in ToSet(Without(s, X)) <=> x \in ToSet(s) /\ x \notin X
BY KeptIs, Elements DEF Without

LEMMA BlocksTyped ==
    ASSUME NEW E, NEW s \in Seq(E)
    PROVE  FinalBlocks(s) \in Seq(E) /\ DropThoughts(s) \in Seq(E)
<1>1. Len(s) \in 0 .. Len(s)
    BY Elements
<1>2. FinalBlocks(s) \in Seq(E)
    <2>1. PICK f \in FinalBlocksLoops(E, s) : TRUE
        BY FinalBlocksTurns
    <2> QED BY <1>1, <2>1 DEF FinalBlocksLoops
<1>3. DropThoughts(s) \in Seq(E)
    <2>1. PICK f \in DropThoughtsLoops(E, s) : TRUE
        BY DropThoughtsTurns
    <2> QED BY <1>1, <2>1 DEF DropThoughtsLoops
<1> QED BY <1>2, <1>3

LEMMA SanitizeTyped ==
    ASSUME NEW E, NEW s \in Seq(E)
    PROVE  Sanitize(s) \in Seq(E)
<1>1. FinalBlocks(s) \in Seq(E) /\ Without(DropThoughts(s), {"te"}) \in Seq(E)
    BY BlocksTyped, WithoutTyped
<1>2. "fs" \in ToSet(s) => Without(After(s, "fs"), {"fe"}) \in Seq(E)
    BY AfterIs, WithoutTyped
<1> QED BY <1>1, <1>2 DEF Sanitize

-----------------------------------------------------------------------------
(* Histories. *)

LEMMA HistoryIs ==
    ASSUME NEW h \in Seq(Message)
    PROVE  /\ Len(h) \in Nat /\ DOMAIN h = 1 .. Len(h)
           /\ \A i \in 1 .. Len(h) :
                 /\ h[i] \in Message /\ h[i].role \in Role /\ h[i].content \in Seq(Word)
                 /\ h[i].role = "tool" => h[i].call \in Nat
                 /\ h[i].role = "assistant" => h[i].calls \in Nat
<1>1. Len(h) \in Nat /\ DOMAIN h = 1 .. Len(h) /\ \A i \in 1 .. Len(h) : h[i] \in Message
    BY Elements
<1>2. ASSUME NEW m \in Message
      PROVE  /\ m.role \in Role /\ m.content \in Seq(Word)
             /\ m.role = "tool" => m.call \in Nat
             /\ m.role = "assistant" => m.calls \in Nat
    BY DEF Message, Role
<1> QED BY <1>1, <1>2

\* The messages of a history as the server gets them.
Plain(h) == [i \in DOMAIN h |-> [role |-> h[i].role, content |-> h[i].content]]

LEMMA PlainTyped ==
    ASSUME NEW h \in Seq(Message)
    PROVE  Plain(h) \in Seq(Msg(Word)) /\ Len(Plain(h)) = Len(h)
<1>1. Plain(h) = [i \in 1 .. Len(h) |-> Plain(h)[i]] /\ Len(h) \in Nat
    BY HistoryIs DEF Plain
<1>2. \A i \in 1 .. Len(h) : Plain(h)[i] \in Msg(Word)
    BY HistoryIs DEF Plain, Msg
<1> DEFINE p == Plain(h)
<1> HIDE DEF p
<1>3. p \in Seq(Msg(Word))
    BY <1>1, <1>2 DEF p
<1>4. DOMAIN p = 1 .. Len(h) /\ DOMAIN p = 1 .. Len(p) /\ Len(p) \in Nat
    BY <1>1, <1>3, LenProperties DEF p
<1> QED BY <1>1, <1>3, <1>4 DEF p

LEMMA NormalizeKeepsWords ==
    ASSUME NEW E, NEW ms \in Seq(Msg(E))
    PROVE  Normalize(ms) \in Seq(Msg(E))
<1>1. \A i \in 1 .. Len(ms) : IF ms[i].role = "assistant" THEN Sanitize(ms[i].content) \in Seq(E)
                              ELSE ms[i].content \in Seq(E)
    BY Fields, SanitizeTyped
<1> QED BY <1>1, NormalizeTyped

LEMMA SentTyped ==
    ASSUME NEW w, worker[w].history \in Seq(Message)
    PROVE  Sent(w) \in Seq(Msg(Word))
<1> DEFINE first == <<[role |-> "system", content |-> Tools]>>
<1>1. first \in Seq(Msg(Word))
    <2>1. [role |-> "system", content |-> Tools] \in Msg(Word)
        BY SaidAre DEF Msg, Role
    <2> QED BY <2>1
<1>2. Normalize(Plain(worker[w].history)) \in Seq(Msg(Word))
    BY PlainTyped, NormalizeKeepsWords
<1>3. Sent(w) = first \o Normalize(Plain(worker[w].history))
    BY DEF Sent, Plain
<1> HIDE DEF first
<1> QED BY <1>1, <1>2, <1>3, ConcatProperties

\* The answer of a call.
LEMMA AnswerTyped ==
    ASSUME NEW w, worker[w].history \in Seq(Message),
           NEW thinking \in Thinking, NEW speech \in Speech, NEW ending \in Final, NEW stops \in Stops
    PROVE  LET plan == Fit(Sent(w), MaxTokens)
               a == Completion(Prefill, Size(plan.messages), MaxTokens, thinking, speech, ending, stops)
           IN a.text \in Seq(Word)
<1> DEFINE plan == Fit(Sent(w), MaxTokens)
           size == Size(plan.messages)
<1>1. Normalize(Sent(w)) \in Seq(Msg(Word))
    BY SentTyped, NormalizeKeepsWords
<1>2. plan \in PlanOf(Word)
    BY <1>1, FitTyped, WordsAre, Numbers
<1> HIDE DEF plan
<1>3. size \in Nat
    BY <1>2, SizeTyped DEF PlanOf
<1> HIDE DEF size
<1>4. Prefill \in Seq(Word) /\ speech \in Seq(Word) /\ ending \in Seq(Word)
    BY SaidAre
<1>5. MaxTokens \in Nat /\ thinking \in Nat
    BY Numbers
<1>6. Completion(Prefill, size, MaxTokens, thinking, speech, ending, stops).text \in Seq(Word)
    BY <1>3, <1>4, <1>5, CompletionTyped, WordsAre, StopsAre
<1> QED BY <1>6 DEF size, plan

\* A result of call n at j, and call n of the message at i whose result is due at j.
IsResult(h, j, n) == j \in 1 .. Len(h) /\ h[j].role = "tool" /\ h[j].call = n
IsCall(h, j, n, i) ==
    i \in 1 .. Len(h) /\ h[i].role = "assistant" /\ n \in 1 .. h[i].calls /\ j = i + n

LEMMA PairedIs ==
    ASSUME NEW h \in Seq(Message)
    PROVE  Paired(h) <=> \A j \in Nat, n \in Nat : IsResult(h, j, n) <=> \E i : IsCall(h, j, n, i)
<1> DEFINE L == Len(h)
           A == {<<i, h[i].call>> : i \in {i \in DOMAIN h : h[i].role = "tool"}}
           B == UNION {{<<i + n, n>> : n \in 1 .. h[i].calls} : i \in {i \in DOMAIN h : h[i].role = "assistant"}}
<1>1. DOMAIN h = 1 .. L /\ L \in Nat
      /\ \A i \in 1 .. L : /\ h[i].role = "tool" => h[i].call \in Nat
                           /\ h[i].role = "assistant" => h[i].calls \in Nat
    BY HistoryIs
<1>2. Paired(h) <=> A = B
    BY DEF Paired
<1>3. \A j, n : <<j, n>> \in A <=> IsResult(h, j, n)
    BY <1>1 DEF IsResult
<1>4. \A j, n : <<j, n>> \in B <=> \E i : IsCall(h, j, n, i)
    BY <1>1 DEF IsCall
<1> HIDE DEF L
<1>5. \A p \in A : \E j \in Nat, n \in Nat : p = <<j, n>>
    BY <1>1
<1>6. \A p \in B : \E j \in Nat, n \in Nat : p = <<j, n>>
    <2> SUFFICES ASSUME NEW i \in 1 .. L, h[i].role = "assistant", NEW n \in 1 .. h[i].calls
                 PROVE  i + n \in Nat /\ n \in Nat
        BY <1>1
    <2>1. h[i].calls \in Nat
        BY <1>1
    <2> QED BY <1>1, <2>1
<1> HIDE DEF A, B
<1>7. A = B <=> \A j \in Nat, n \in Nat : IsResult(h, j, n) <=> \E i : IsCall(h, j, n, i)
    <2>1. ASSUME A = B PROVE \A j \in Nat, n \in Nat : IsResult(h, j, n) <=> \E i : IsCall(h, j, n, i)
        BY <1>3, <1>4, <2>1
    <2>2. ASSUME \A j \in Nat, n \in Nat : IsResult(h, j, n) <=> \E i : IsCall(h, j, n, i)
          PROVE  A = B
        <3>1. \A p \in A : p \in B
            BY <1>3, <1>4, <1>5, <2>2
        <3>2. \A p \in B : p \in A
            BY <1>3, <1>4, <1>6, <2>2
        <3> QED BY <3>1, <3>2
    <2> QED BY <2>1, <2>2
<1> QED BY <1>2, <1>7

\* A message without calls changes nothing; neither do calls with their results.
LEMMA PairedAppend ==
    ASSUME NEW h \in Seq(Message), Paired(h), NEW m \in Message,
           m.role \in {"system", "user"} \/ (m.role = "assistant" /\ m.calls = 0)
    PROVE  Paired(Append(h, m)) /\ Append(h, m) \in Seq(Message)
<1> DEFINE u == Append(h, m)
           L == Len(h)
<1>1. u \in Seq(Message) /\ Len(u) = L + 1 /\ L \in Nat /\ u[L + 1] = m
      /\ \A i \in 1 .. L : u[i] = h[i]
    BY Appended, Elements
<1>2. \A j \in Nat, n \in Nat : IsResult(h, j, n) <=> \E i : IsCall(h, j, n, i)
    BY PairedIs
<1> HIDE DEF u, L
<1>3. m.role # "tool" /\ ~\E n \in Nat : m.role = "assistant" /\ n \in 1 .. m.calls
    OBVIOUS
<1>4. \A j \in 1 .. Len(u) : j \in 1 .. L \/ (j = L + 1 /\ j \notin 1 .. L)
    BY <1>1
<1>5. \A j \in 1 .. L : j \in 1 .. Len(u)
    BY <1>1
<1>6. \A j \in Nat, n \in Nat : IsResult(u, j, n) <=> IsResult(h, j, n)
    BY <1>1, <1>3, <1>4, <1>5 DEF L, IsResult
<1>7. \A j \in Nat, n \in Nat : \A i : IsCall(u, j, n, i) <=> IsCall(h, j, n, i)
    BY <1>1, <1>3, <1>4, <1>5 DEF L, IsCall
<1>8. \A j \in Nat, n \in Nat : IsResult(u, j, n) <=> \E i : IsCall(u, j, n, i)
    BY <1>2, <1>6, <1>7
<1>9. Paired(u)
    BY <1>1, <1>8, PairedIs
<1> QED BY <1>1, <1>9 DEF u

LEMMA PairedCalls ==
    ASSUME NEW h \in Seq(Message), Paired(h), NEW m \in Message, m.role = "assistant",
           NEW t \in Seq(Message), Len(t) = m.calls,
           \A k \in 1 .. Len(t) : t[k].role = "tool" /\ t[k].call = k
    PROVE  Paired(Append(h, m) \o t)
<1> DEFINE a == Append(h, m)
           u == a \o t
           L == Len(h)
           K == Len(t)
<1>1. a \in Seq(Message) /\ Len(a) = L + 1 /\ L \in Nat /\ a[L + 1] = m
      /\ \A i \in 1 .. L : a[i] = h[i]
    BY Appended, Elements
<1>2. \A j \in Nat, n \in Nat : IsResult(h, j, n) <=> \E i : IsCall(h, j, n, i)
    BY PairedIs
<1> HIDE DEF a
<1>3. u \in Seq(Message) /\ Len(u) = L + 1 + K /\ K \in Nat
      /\ (\A i \in 1 .. L + 1 : u[i] = a[i]) /\ \A k \in 1 .. K : u[L + 1 + k] = t[k]
    <2>1. u \in Seq(Message) /\ Len(u) = Len(a) + Len(t) /\ Len(t) \in Nat
          /\ (\A i \in 1 .. Len(a) : u[i] = a[i]) /\ \A k \in 1 .. Len(t) : u[Len(a) + k] = t[k]
        <3>1. /\ a \o t \in Seq(Message) /\ Len(a \o t) = Len(a) + Len(t)
              /\ \A i \in 1 .. Len(a) : (a \o t)[i] = a[i]
              /\ \A i \in 1 .. Len(t) : (a \o t)[Len(a) + i] = t[i]
            <4>1. a \in Seq(Message) /\ t \in Seq(Message)
                BY <1>1
            <4>2. ASSUME NEW S, NEW x \in Seq(S), NEW y \in Seq(S)
                  PROVE  /\ x \o y \in Seq(S) /\ Len(x \o y) = Len(x) + Len(y)
                         /\ \A i \in 1 .. Len(x) : (x \o y)[i] = x[i]
                         /\ \A i \in 1 .. Len(y) : (x \o y)[Len(x) + i] = y[i]
                BY Joined
            <4> QED BY <4>1, <4>2
        <3>2. Len(t) \in Nat
            BY Elements
        <3> QED BY <3>1, <3>2
    <2> HIDE DEF u, L
    <2> QED BY <1>1, <2>1
<1> HIDE DEF u, L, K
<1>4. /\ \A i \in 1 .. L : i \in 1 .. Len(u) /\ u[i] = h[i]
      /\ L + 1 \in 1 .. Len(u) /\ u[L + 1] = m
      /\ \A k \in 1 .. K : L + 1 + k \in 1 .. Len(u) /\ u[L + 1 + k] = t[k]
    BY <1>1, <1>3
<1>5. ASSUME NEW i \in 1 .. Len(u), i \notin 1 .. L, i # L + 1
      PROVE  i - (L + 1) \in 1 .. K /\ i = L + 1 + (i - (L + 1))
    BY <1>1, <1>3, <1>5
<1>6. /\ \A k \in 1 .. K : u[L + 1 + k].role = "tool" /\ u[L + 1 + k].call = k
      /\ m.calls = K
    BY <1>4 DEF K
<1>7. ASSUME NEW j \in Nat, NEW n \in Nat, NEW i, IsCall(h, j, n, i)
      PROVE  j \in 1 .. L /\ IsResult(h, j, n)
    <2>1. IsResult(h, j, n)
        BY <1>2, <1>7
    <2> QED BY <2>1 DEF L, IsResult
<1>8. ASSUME NEW j \in Nat, NEW n \in Nat, IsResult(u, j, n) PROVE \E i : IsCall(u, j, n, i)
    <2>0. j \in 1 .. Len(u) /\ u[j].role = "tool" /\ u[j].call = n
        BY <1>8 DEF IsResult
    <2>1. CASE j \in 1 .. L
        <3>1. IsResult(h, j, n)
            BY <1>4, <2>0, <2>1 DEF L, IsResult
        <3>2. PICK i : IsCall(h, j, n, i)
            BY <1>2, <3>1
        <3>3. IsCall(u, j, n, i)
            BY <1>4, <3>2 DEF L, IsCall
        <3> QED BY <3>3
    <2>2. CASE j = L + 1
        BY <1>4, <2>0, <2>2
    <2>3. CASE j \notin 1 .. L /\ j # L + 1
        <3>1. n = j - (L + 1) /\ n \in 1 .. K /\ j = L + 1 + n
            BY <1>5, <1>6, <2>0, <2>3
        <3>2. IsCall(u, j, n, L + 1)
            BY <1>1, <1>4, <1>6, <3>1 DEF IsCall
        <3> QED BY <3>2
    <2> QED BY <2>1, <2>2, <2>3
<1>9. ASSUME NEW j \in Nat, NEW n \in Nat, NEW i, IsCall(u, j, n, i) PROVE IsResult(u, j, n)
    <2> USE <1>9 DEF IsResult, IsCall
    <2>1. CASE i \in 1 .. L
        <3>1. IsCall(h, j, n, i)
            BY <1>4, <2>1 DEF L
        <3>2. j \in 1 .. L /\ IsResult(h, j, n)
            BY <1>7, <3>1
        <3> QED BY <1>4, <3>2
    <2>2. CASE i = L + 1
        <3>1. n \in 1 .. K /\ j = L + 1 + n
            BY <1>4, <1>6, <2>2
        <3> QED BY <1>4, <1>6, <3>1
    <2>3. CASE i \notin 1 .. L /\ i # L + 1
        BY <1>5, <1>6, <2>3
    <2> QED BY <2>1, <2>2, <2>3
<1>10. \A j \in Nat, n \in Nat : IsResult(u, j, n) <=> \E i : IsCall(u, j, n, i)
    BY <1>8, <1>9
<1>11. Paired(u)
    BY <1>3, <1>10, PairedIs
<1> QED BY <1>11 DEF u, a

-----------------------------------------------------------------------------
(* What the agents are at, step by step. *)

LEMMA AgentsAre == Workers \subseteq Agent /\ Terminal \in Agent /\ Terminal \notin Workers
                   /\ Agent = Workers \cup {Terminal}
BY Numbers DEF Workers, Agent, Terminal

LEMMA InstructionsPaired == Instructions \in Seq(Message) /\ Paired(Instructions)
<1>1. Instructions \in Seq(Message)
    <2>1. [role |-> "system", content |-> System] \in Message
        BY SaidAre DEF Message
    <2> QED BY <2>1 DEF Instructions
<1>2. Len(Instructions) = 1 /\ Instructions[1].role = "system"
    BY DEF Instructions
<1>3. \A i \in 1 .. Len(Instructions) : Instructions[i].role = "system"
    BY <1>2
<1>4. \A j, n, i : ~IsResult(Instructions, j, n) /\ ~IsCall(Instructions, j, n, i)
    BY <1>3 DEF IsResult, IsCall
<1> QED BY <1>1, <1>4, PairedIs

LEMMA AskPaired ==
    ASSUME NEW h \in Seq(Message), Paired(h)
    PROVE  Ask(h) \in Seq(Message) /\ Paired(Ask(h))
<1>1. [role |-> "user", content |-> Task] \in Message
    BY SaidAre DEF Message
<1> QED BY <1>1, PairedAppend DEF Ask

\* An agent that waits, that has left, that begins.
LEMMA WaitingFine ==
    ASSUME NEW w, NEW at \in {"gone", "idle", "prompt"}, NEW h \in Seq(Message),
           at = "prompt" => Paired(h)
    PROVE  Fine(w, [Gone EXCEPT !.at = at, !.history = h])
<1> DEFINE r == [Gone EXCEPT !.at = at, !.history = h]
<1>1. /\ DOMAIN r = {"at", "task", "step", "history", "calls", "back", "plan", "answer"}
      /\ r.at = at /\ r.task = 0 /\ r.step = 0 /\ r.history = h /\ r.calls = 0 /\ r.back = {}
    BY DEF Gone
<1> HIDE DEF r
<1>2. IsWorker(r)
    BY <1>1 DEF IsWorker, Places
<1>3. r.step <= 2 /\ r.step <= MaxSteps
    BY <1>1, Numbers
<1> QED BY <1>1, <1>2, <1>3 DEF Fine, r

LEMMA GoneFine ==
    ASSUME NEW w, NEW at \in {"gone", "idle"}
    PROVE  Fine(w, [Gone EXCEPT !.at = at]) /\ Fine(w, Gone)
<1>1. ASSUME NEW r, DOMAIN r = {"at", "task", "step", "history", "calls", "back", "plan", "answer"},
             r.at \in {"gone", "idle"}, r.task = 0, r.step = 0, r.history = <<>>, r.calls = 0, r.back = {}
      PROVE  Fine(w, r)
    <2>1. IsWorker(r)
        BY <1>1 DEF IsWorker, Places
    <2>2. r.step <= 2 /\ r.step <= MaxSteps
        BY <1>1, Numbers
    <2> QED BY <1>1, <2>1, <2>2 DEF Fine
<1>2. Fine(w, [Gone EXCEPT !.at = at])
    <2> DEFINE r == [Gone EXCEPT !.at = at]
    <2>1. /\ DOMAIN r = {"at", "task", "step", "history", "calls", "back", "plan", "answer"}
          /\ r.at = at /\ r.task = 0 /\ r.step = 0 /\ r.history = <<>> /\ r.calls = 0 /\ r.back = {}
        BY DEF Gone
    <2> HIDE DEF r
    <2>2. Fine(w, r)
        BY <1>1, <2>1
    <2> QED BY <2>2 DEF r
<1>3. Fine(w, Gone)
    <2>1. /\ DOMAIN Gone = {"at", "task", "step", "history", "calls", "back", "plan", "answer"}
          /\ Gone.at = "gone" /\ Gone.task = 0 /\ Gone.step = 0 /\ Gone.history = <<>>
          /\ Gone.calls = 0 /\ Gone.back = {}
        BY DEF Gone
    <2> QED BY <1>1, <2>1
<1> QED BY <1>2, <1>3

LEMMA CallingFine ==
    ASSUME NEW w, NEW t \in Nat, NEW h \in Seq(Message), Paired(h), NEW step \in Nat,
           step <= IF w = Terminal /\ t = 0 THEN 2 ELSE MaxSteps
    PROVE  Fine(w, [Begun(t, h) EXCEPT !.step = step])
<1> DEFINE r == [Begun(t, h) EXCEPT !.step = step]
<1>1. /\ DOMAIN r = {"at", "task", "step", "history", "calls", "back", "plan", "answer"}
      /\ r.at = "calling" /\ r.task = t /\ r.step = step /\ r.history = h /\ r.calls = 0 /\ r.back = {}
    BY DEF Begun, Gone
<1> HIDE DEF r
<1>2. IsWorker(r)
    BY <1>1 DEF IsWorker, Places
<1> QED BY <1>1, <1>2 DEF Fine, r

LEMMA BegunFine ==
    ASSUME NEW w, NEW t \in Nat, NEW h \in Seq(Message), Paired(h)
    PROVE  Fine(w, Begun(t, h)) /\ Begun(t, h).task = t /\ Begun(t, h).at = "calling"
<1> DEFINE r == Begun(t, h)
<1>1. /\ DOMAIN r = {"at", "task", "step", "history", "calls", "back", "plan", "answer"}
      /\ r.at = "calling" /\ r.task = t /\ r.step = 1 /\ r.history = h /\ r.calls = 0 /\ r.back = {}
    BY DEF Begun, Gone
<1> HIDE DEF r
<1>2. IsWorker(r)
    BY <1>1 DEF IsWorker, Places
<1>3. 1 <= IF w = Terminal /\ t = 0 THEN 2 ELSE MaxSteps
    BY Numbers
<1>4. Fine(w, r)
    BY <1>1, <1>2, <1>3 DEF Fine
<1> QED BY <1>1, <1>4 DEF r

\* The fields of a fine agent.
LEMMA FineFields ==
    ASSUME NEW w, NEW r, Fine(w, r)
    PROVE  /\ r.at \in Places /\ r.task \in Nat /\ r.step \in Nat /\ r.history \in Seq(Message)
           /\ r.calls \in Nat /\ r.back \subseteq Nat
BY DEF Fine, IsWorker

LEMMA ToolMessagesAre ==
    ASSUME NEW n \in Nat
    PROVE  /\ ToolMessages(n) \in Seq(Message) /\ Len(ToolMessages(n)) = n
           /\ \A k \in 1 .. n : ToolMessages(n)[k].role = "tool" /\ ToolMessages(n)[k].call = k
<1> DEFINE m(k) == [role |-> "tool", content |-> ToolOutput, call |-> k]
<1>1. \A k \in 1 .. n : m(k) \in Message
    BY SaidAre DEF Message
<1>2. ToolMessages(n) = [k \in 1 .. n |-> m(k)]
    BY DEF ToolMessages
<1>3. \A k \in 1 .. n : m(k).role = "tool" /\ m(k).call = k
    OBVIOUS
<1> HIDE DEF m
<1>4. ToolMessages(n) \in Seq(Message) /\ DOMAIN ToolMessages(n) = 1 .. n
    BY <1>1, <1>2
<1>5. Len(ToolMessages(n)) = n
    BY <1>4, LenProperties
<1> QED BY <1>2, <1>3, <1>4, <1>5

LEMMA ResultsAre == \A w : Results(w) = ToolMessages(worker[w].calls)
BY DEF Results, ToolMessages

\* The step of one agent that stays at its task.
LEMMA OneAgent ==
    ASSUME AgentsInv, UNCHANGED orchestration, NEW w \in Agent, NEW r, Fine(w, r),
           worker' = [worker EXCEPT ![w] = r],
           w \in Workers => /\ r.task = worker[w].task /\ Busy(w)
                            /\ r.at \notin {"gone", "idle", "prompt"},
           w = Terminal => r.at # "idle"
    PROVE  AgentsInv'
<1> USE DEF AgentsInv, orchestration
<1>1. worker[w] = worker[w] /\ worker'[w] = r /\ DOMAIN worker' = Agent
      /\ \A v \in Agent : v # w => worker'[v] = worker[v]
    BY DEF Typed
<1>2. Typed'
    <2>1. worker' \in [Agent -> {worker'[v] : v \in Agent}]
        <3>1. worker' = [v \in Agent |-> worker'[v]]
            BY DEF Typed
        <3> QED BY <3>1
    <2> QED BY <2>1 DEF Typed
<1>3. Queued'
    BY DEF Queued, Ids
<1>4. Recorded'
    BY DEF Recorded, Ids, Done
<1>5. Staffed'
    <2>1. \A v \in Workers : /\ worker'[v].task = worker[v].task
                             /\ (worker'[v].at \in {"gone", "idle"} <=> worker[v].at \in {"gone", "idle"})
                             /\ (worker'[v].at = "gone" <=> worker[v].at = "gone")
                             /\ (worker[v].at # "prompt" => worker'[v].at # "prompt")
        BY <1>1, AgentsAre DEF Busy
    <2>2. worker'[Terminal].at # "idle"
        BY <1>1, AgentsAre DEF Staffed, At
    <2> QED BY <2>1, <2>2 DEF Staffed, At, Busy, Ids
<1>6. \A v \in Agent : Fine(v, worker[v])'
    <2> SUFFICES ASSUME NEW v \in Agent PROVE Fine(v, worker'[v])
        BY DEF Fine, IsWorker
    <2>1. CASE v = w
        BY <1>1, <2>1
    <2>2. CASE v # w
        BY <1>1, <2>2
    <2> QED BY <2>1, <2>2
<1> QED BY <1>2, <1>3, <1>4, <1>5, <1>6

\* A worker ends its task.
LEMMA WorkerEnds ==
    ASSUME AgentsInv, NEW w \in Workers, Busy(w), NEW result \in Outcomes \ {"none"}, NEW h,
           EndsWith(w, result, h)
    PROVE  AgentsInv'
<1> USE DEF AgentsInv
<1> DEFINE t == worker[w].task
           status == IF result = "raised" THEN "failed" ELSE "completed"
           one == [status |-> status, result |-> result]
           new == [task |-> t, success |-> status = "completed"]
           idle == [Gone EXCEPT !.at = "idle"]
<1>1. /\ tasks' = [tasks EXCEPT ![t] = one]
      /\ results' = Append(results, new)
      /\ worker' = [worker EXCEPT ![w] = idle]
      /\ queue' = queue /\ run' = run
    BY AgentsAre DEF EndsWith
<1>2. t \in Ids /\ tasks[t].status = "running"
    BY DEF Staffed
<1>3. /\ Ids = 1 .. Len(tasks) /\ Len(tasks) \in Nat /\ t \in Nat
      /\ DOMAIN tasks' = Ids /\ tasks'[t] = one
      /\ \A u \in Ids : u # t => tasks'[u] = tasks[u]
    BY <1>1, <1>2, Elements DEF Typed, Ids
<1>4. /\ worker'[w] = idle /\ DOMAIN worker' = Agent
      /\ \A v \in Agent : v # w => worker'[v] = worker[v]
    BY <1>1, AgentsAre DEF Typed
<1>5. idle.at = "idle" /\ idle.task = 0
    BY DEF Gone
<1>6. /\ DOMAIN results = 1 .. Len(results) /\ DOMAIN results' = 1 .. Len(results) + 1
      /\ Len(results) \in Nat
      /\ (\A i \in 1 .. Len(results) : results'[i] = results[i]) /\ results'[Len(results) + 1] = new
      /\ results' \in Seq([task : Nat, success : BOOLEAN])
    <2>1. new \in [task : Nat, success : BOOLEAN]
        BY <1>3
    <2> HIDE DEF new
    <2>2. /\ results' \in Seq([task : Nat, success : BOOLEAN]) /\ Len(results') = Len(results) + 1
          /\ (\A i \in 1 .. Len(results) : results'[i] = results[i]) /\ results'[Len(results) + 1] = new
          /\ Len(results) \in Nat
        BY <1>1, <2>1, AppendProperties, Elements DEF Typed
    <2> QED BY <2>2, Elements DEF Typed
<1> HIDE DEF idle
<1>7. one.status = status /\ status \in {"failed", "completed"} /\ one.result = result
    OBVIOUS
<1>8. Typed'
    <2>1. tasks' \in Seq([status : {"pending", "running", "completed", "failed"}, result : Outcomes])
        <3>1. one \in [status : {"pending", "running", "completed", "failed"}, result : Outcomes]
            OBVIOUS
        <3> HIDE DEF one, t
        <3>2. t \in 1 .. Len(tasks)
            BY <1>2, <1>3
        <3> QED BY <1>1, <3>1, <3>2, ExceptSeq DEF Typed
    <2>2. worker' \in [Agent -> {worker'[v] : v \in Agent}]
        <3>1. worker' = [v \in Agent |-> worker'[v]]
            BY <1>1 DEF Typed
        <3> QED BY <3>1
    <2> QED BY <1>1, <1>6, <2>1, <2>2 DEF Typed
<1>9. Queued'
    <2>1. t \notin ToSet(queue)
        BY <1>2, <1>3 DEF Queued
    <2>2. Ids' = Ids
        BY <1>3 DEF Ids
    <2> QED BY <1>1, <1>2, <1>3, <1>7, <2>1, <2>2 DEF Queued
<1>10. Recorded'
    <2> DEFINE Over(u) == tasks'[u].status \in {"completed", "failed"}
    <2>1. Ids' = Ids /\ ~Done(t) /\ Over(t) /\ \A u \in Ids : u # t => (Over(u) <=> Done(u))
        BY <1>2, <1>3, <1>7 DEF Ids, Done
    <2>2. \A i \in 1 .. Len(results) : results[i].task # t /\ results[i].task \in Ids
        BY <1>6, <2>1 DEF Recorded
    <2>3. \A i \in 1 .. Len(results) + 1 : i \in 1 .. Len(results) \/ i = Len(results) + 1
        BY <1>6
    <2>4. new.task = t /\ new.success = (one.status = "completed")
        OBVIOUS
    <2> HIDE DEF new, one, t, status, Over
    <2>5. \A i \in DOMAIN results' :
             /\ results'[i].task \in Ids /\ Over(results'[i].task)
             /\ results'[i].success = (tasks'[results'[i].task].status = "completed")
        <3> SUFFICES ASSUME NEW i \in DOMAIN results'
                     PROVE  /\ results'[i].task \in Ids /\ Over(results'[i].task)
                            /\ results'[i].success = (tasks'[results'[i].task].status = "completed")
            OBVIOUS
        <3>1. CASE i \in 1 .. Len(results)
            <4>1. /\ results[i].task \in Ids /\ Done(results[i].task) /\ results[i].task # t
                  /\ results[i].success = (tasks[results[i].task].status = "completed")
                BY <1>6, <2>2, <3>1 DEF Recorded
            <4>2. results'[i] = results[i]
                BY <1>6, <3>1
            <4>3. tasks'[results[i].task] = tasks[results[i].task]
                BY <1>3, <4>1
            <4> QED BY <2>1, <4>1, <4>2, <4>3
        <3>2. CASE i = Len(results) + 1
            <4>1. results'[i] = new
                BY <1>6, <3>2
            <4> QED BY <1>2, <1>3, <2>1, <2>4, <4>1
        <3> QED BY <1>6, <2>3, <3>1, <3>2
    <2>6. \A i, j \in DOMAIN results' : results'[i].task = results'[j].task => i = j
        <3> SUFFICES ASSUME NEW i \in DOMAIN results', NEW j \in DOMAIN results',
                            results'[i].task = results'[j].task
                     PROVE  i = j
            OBVIOUS
        <3>1. CASE i \in 1 .. Len(results) /\ j \in 1 .. Len(results)
            BY <1>6, <3>1 DEF Recorded
        <3>2. CASE i = Len(results) + 1 /\ j \in 1 .. Len(results)
            BY <1>6, <2>2, <2>4, <3>2
        <3>3. CASE j = Len(results) + 1 /\ i \in 1 .. Len(results)
            BY <1>6, <2>2, <2>4, <3>3
        <3> QED BY <1>6, <2>3, <3>1, <3>2, <3>3
    <2>7. \A u \in Ids : Over(u) => \E i \in DOMAIN results' : results'[i].task = u
        <3> SUFFICES ASSUME NEW u \in Ids, Over(u)
                     PROVE  \E i \in DOMAIN results' : results'[i].task = u
            OBVIOUS
        <3>1. CASE u = t
            <4>1. Len(results) + 1 \in DOMAIN results'
                BY <1>6
            <4> QED BY <1>6, <2>4, <3>1, <4>1
        <3>2. CASE u # t
            <4>1. PICK i \in DOMAIN results : results[i].task = u
                BY <2>1, <3>2 DEF Recorded
            <4>2. i \in DOMAIN results' /\ results'[i] = results[i]
                BY <1>6
            <4> QED BY <4>1, <4>2
        <3> QED BY <3>1, <3>2
    <2> QED BY <2>1, <2>5, <2>6, <2>7 DEF Recorded, Done, Over
<1>11. Staffed'
    <2>1. Ids' = Ids /\ w \in Agent /\ w # Terminal
        BY <1>3, AgentsAre DEF Ids
    <2>2. run # {}
        BY DEF Staffed, Busy, At
    <2>3. \A v \in Workers : v # w => worker'[v] = worker[v] /\ worker[v].task # t
        <3> SUFFICES ASSUME NEW v \in Workers, v # w PROVE worker'[v] = worker[v] /\ worker[v].task # t
            OBVIOUS
        <3> QED BY <1>4, AgentsAre DEF Staffed
    <2>4. worker'[Terminal].at # "idle"
        BY <1>4, <2>1, AgentsAre DEF Staffed, At
    <2>5. \A v \in Workers : /\ worker'[v].at # "prompt"
                             /\ worker'[v].at \in {"gone", "idle"} => worker'[v].task = 0
                             /\ worker'[v].at \notin {"gone", "idle"} =>
                                  worker'[v].task \in Ids /\ tasks'[worker'[v].task].status = "running"
        BY <1>2, <1>3, <1>4, <1>5, <2>3 DEF Staffed, Busy, At
    <2>6. \A u, v \in Workers : worker'[u].at \notin {"gone", "idle"} /\ worker'[u].task = worker'[v].task
                                => u = v
        <3> SUFFICES ASSUME NEW u \in Workers, NEW v \in Workers,
                            worker'[u].at \notin {"gone", "idle"}, worker'[u].task = worker'[v].task
                     PROVE  u = v
            OBVIOUS
        <3>1. u # w /\ worker'[u] = worker[u] /\ worker[u].task \in Ids
            BY <1>4, <1>5, <2>3 DEF Staffed, Busy
        <3>2. worker[u].task # 0
            BY <1>3, <3>1
        <3>3. v # w
            BY <1>4, <1>5, <3>1, <3>2
        <3> QED BY <2>3, <3>1, <3>3 DEF Staffed, Busy
    <2>7. \A u \in Ids : tasks'[u].status = "running" => \E v \in Workers : worker'[v].task = u
        <3> SUFFICES ASSUME NEW u \in Ids, tasks'[u].status = "running"
                     PROVE  \E v \in Workers : worker'[v].task = u
            OBVIOUS
        <3>1. u # t /\ tasks[u].status = "running"
            BY <1>3, <1>7
        <3>2. PICK v \in Workers : worker[v].task = u
            BY <3>1 DEF Staffed
        <3> QED BY <2>3, <3>1, <3>2
    <2> QED BY <1>1, <2>1, <2>2, <2>4, <2>5, <2>6, <2>7 DEF Staffed, At, Busy
<1>12. \A v \in Agent : Fine(v, worker[v])'
    <2> SUFFICES ASSUME NEW v \in Agent PROVE Fine(v, worker'[v])
        BY DEF Fine, IsWorker
    <2>1. Fine(w, idle)
        BY GoneFine DEF idle
    <2> QED BY <1>4, <2>1
<1> QED BY <1>8, <1>9, <1>10, <1>11, <1>12

-----------------------------------------------------------------------------
(* Every action keeps the invariant. *)

LEMMA AgentsStay ==
    ASSUME AgentsInv, UNCHANGED worker
    PROVE  worker' \in [Agent -> {worker'[v] : v \in Agent}] /\ \A v \in Agent : Fine(v, worker[v])'
<1>1. \A v \in Agent : Fine(v, worker'[v])
    BY DEF AgentsInv
<1> QED BY <1>1 DEF AgentsInv, Typed, Fine, IsWorker

LEMMA SubmitTaskKeeps == AgentsInv /\ SubmitTask => AgentsInv'
<1> SUFFICES ASSUME AgentsInv, SubmitTask PROVE AgentsInv'
    OBVIOUS
<1> DEFINE S == [status : {"pending", "running", "completed", "failed"}, result : Outcomes]
           new == [status |-> "pending", result |-> "none"]
<1>1. tasks \in Seq(S) /\ tasks' = Append(tasks, new) /\ UNCHANGED <<queue, results, worker, run>>
    BY DEF AgentsInv, Typed, SubmitTask
<1>2. new \in S /\ new.status = "pending"
    BY DEF Outcomes
<1> HIDE DEF S, new
<1>3. /\ tasks' \in Seq(S) /\ Ids = 1 .. Len(tasks) /\ Ids' = 1 .. Len(tasks) + 1 /\ Len(tasks) \in Nat
      /\ tasks'[Len(tasks) + 1] = new /\ \A t \in Ids : tasks'[t] = tasks[t]
    BY <1>1, <1>2, Appended, Elements DEF Ids
<1>4. \A t \in Ids' : t \in Ids \/ (t \notin Ids /\ tasks'[t].status = "pending")
    BY <1>2, <1>3
<1>5. Ids \subseteq Ids'
    BY <1>3
<1>6. Typed' /\ \A w \in Agent : Fine(w, worker[w])'
    BY <1>1, <1>3, AgentsStay DEF AgentsInv, Typed, S
<1>7. Queued'
    BY <1>1, <1>3, <1>5 DEF AgentsInv, Queued
<1>8. Recorded'
    BY <1>1, <1>3, <1>4, <1>5 DEF AgentsInv, Recorded, Done
<1>9. Staffed'
    BY <1>1, <1>3, <1>4, <1>5 DEF AgentsInv, Staffed, Busy, At
<1> QED BY <1>6, <1>7, <1>8, <1>9 DEF AgentsInv

LEMMA PendingQueue ==
    ASSUME AgentsInv
    PROVE  LET q == Kept([t \in Ids |-> t], Pending) IN
           /\ q \in Seq(Nat) /\ IsInjective(q) /\ ToSet(q) = Pending /\ Cardinality(Pending) \in Nat
<1> DEFINE s == [t \in Ids |-> t]
<1>1. Ids = 1 .. Len(tasks) /\ Len(tasks) \in Nat
    BY Elements DEF AgentsInv, Typed, Ids
<1>2. s \in Seq(Nat) /\ DOMAIN s = Ids /\ \A t \in Ids : s[t] = t
    BY <1>1
<1>3. Len(s) = Len(tasks) /\ IsInjective(s)
    BY <1>1, <1>2, LenProperties DEF IsInjective
<1> HIDE DEF s
<1>4. /\ Kept(s, Pending) \in Seq(Nat)
      /\ (\A x : x \in ToSet(Kept(s, Pending)) <=> \E i \in 1 .. Len(s) : i \in Pending /\ s[i] = x)
      /\ IsInjective(Kept(s, Pending))
    BY <1>2, <1>3, KeptIs
<1>5. \A x : x \in Pending <=> \E i \in 1 .. Len(s) : i \in Pending /\ s[i] = x
    BY <1>1, <1>2, <1>3 DEF Pending
<1>6. ToSet(Kept(s, Pending)) = Pending
    BY <1>4, <1>5
<1>7. Cardinality(Pending) \in Nat
    <2>1. IsFiniteSet(1 .. Len(tasks))
        BY <1>1, FS_Interval
    <2> QED BY <1>1, <2>1, FS_Subset, FS_CardinalityType DEF Pending
<1> QED BY <1>4, <1>6, <1>7 DEF s

LEMMA RunKeeps == AgentsInv /\ Run => AgentsInv'
<1> SUFFICES ASSUME AgentsInv, Run PROVE AgentsInv'
    OBVIOUS
<1> DEFINE n == Cardinality(Pending)
           idle == [Gone EXCEPT !.at = "idle"]
<1>1. /\ run = {} /\ run' = Pending /\ tasks' = tasks /\ results' = results /\ Pending # {}
      /\ queue' \in Seq(Nat) /\ IsInjective(queue') /\ ToSet(queue') = Pending /\ n \in Nat
    BY PendingQueue DEF Run
<1>2. worker' = [w \in Agent |-> IF w \in 1 .. n THEN idle ELSE worker[w]]
    BY DEF Run
<1>3. Pending \subseteq Ids /\ \A t \in Pending : tasks[t].status = "pending"
    BY DEF Pending
<1>4. idle.at = "idle" /\ idle.task = 0
    BY DEF Gone
<1> HIDE DEF n, idle
<1>5. \A w \in Workers : worker[w].at = "gone" /\ worker[w].task = 0
    BY <1>1 DEF AgentsInv, Staffed, At, Busy
<1>6. worker'[Terminal] = worker[Terminal]
    BY <1>1, <1>2, AgentsAre DEF Terminal
<1>7. \A w \in Workers : worker'[w].at \in {"idle", "gone"} /\ worker'[w].task = 0
    BY <1>2, <1>4, <1>5, AgentsAre
<1>8. \A t \in Ids : tasks[t].status # "running"
    <2>1. 0 \notin Ids
        BY Elements DEF AgentsInv, Typed, Ids
    <2> QED BY <1>5, <2>1 DEF AgentsInv, Staffed
<1>9. Typed'
    <2>1. worker' \in [Agent -> {worker'[v] : v \in Agent}]
        <3>1. worker' = [v \in Agent |-> worker'[v]]
            BY <1>2
        <3> QED BY <3>1
    <2> QED BY <1>1, <2>1 DEF AgentsInv, Typed
<1>10. Queued'
    BY <1>1, <1>3 DEF Queued, Ids
<1>11. Recorded'
    BY <1>1 DEF AgentsInv, Recorded, Ids, Done
<1>12. Staffed'
    <2>1. Ids' = Ids
        BY <1>1 DEF Ids
    <2> QED BY <1>1, <1>6, <1>7, <1>8, <2>1 DEF AgentsInv, Staffed, At, Busy
<1>13. \A v \in Agent : Fine(v, worker[v])'
    <2> SUFFICES ASSUME NEW v \in Agent PROVE Fine(v, worker'[v])
        BY DEF Fine, IsWorker
    <2>1. Fine(v, idle)
        BY GoneFine DEF idle
    <2> QED BY <1>2, <2>1 DEF AgentsInv
<1> QED BY <1>9, <1>10, <1>11, <1>12, <1>13 DEF AgentsInv

LEMMA HeadOf ==
    ASSUME NEW q \in Seq(Nat), IsInjective(q), q # <<>>
    PROVE  /\ Tail(q) \in Seq(Nat) /\ IsInjective(Tail(q))
           /\ Head(q) \in ToSet(q) /\ ToSet(Tail(q)) = ToSet(q) \ {Head(q)}
<1> DEFINE t == Tail(q)
           n == Len(q)
<1>1. /\ DOMAIN q = 1 .. n /\ n \in Nat \ {0} /\ Head(q) = q[1]
      /\ \A x : x \in ToSet(q) <=> \E i \in 1 .. n : q[i] = x
    BY Elements, EmptySeq, HeadTailProperties
<1>2. /\ t \in Seq(Nat) /\ Len(t) = n - 1 /\ \A i \in 1 .. n - 1 : t[i] = q[i + 1]
    BY HeadTailProperties
<1>3. DOMAIN t = 1 .. n - 1 /\ \A x : x \in ToSet(t) <=> \E i \in 1 .. n - 1 : t[i] = x
    BY <1>2, Elements
<1> HIDE DEF t, n
<1>4. \A i, j \in 1 .. n : q[i] = q[j] => i = j
    BY <1>1 DEF IsInjective
<1>5. IsInjective(t)
    <2> SUFFICES ASSUME NEW i \in 1 .. n - 1, NEW j \in 1 .. n - 1, t[i] = t[j] PROVE i = j
        BY <1>3 DEF IsInjective
    <2>1. i + 1 \in 1 .. n /\ j + 1 \in 1 .. n /\ q[i + 1] = q[j + 1]
        BY <1>1, <1>2
    <2>2. i + 1 = j + 1
        BY <1>4, <2>1
    <2> QED BY <1>1, <2>2
<1>6. ASSUME NEW x PROVE x \in ToSet(t) <=> x \in ToSet(q) /\ x # q[1]
    <2>1. ASSUME x \in ToSet(t) PROVE x \in ToSet(q) /\ x # q[1]
        <3>1. PICK i \in 1 .. n - 1 : t[i] = x
            BY <1>3, <2>1
        <3>2. i + 1 \in 1 .. n /\ i + 1 # 1 /\ q[i + 1] = x /\ 1 \in 1 .. n
            BY <1>1, <1>2, <3>1
        <3> QED BY <1>1, <1>4, <3>2
    <2>2. ASSUME x \in ToSet(q), x # q[1] PROVE x \in ToSet(t)
        <3>1. PICK i \in 1 .. n : q[i] = x
            BY <1>1, <2>2
        <3>2. i - 1 \in 1 .. n - 1 /\ (i - 1) + 1 = i
            BY <1>1, <2>2, <3>1
        <3> QED BY <1>2, <1>3, <3>1, <3>2
    <2> QED BY <2>1, <2>2
<1>7. Head(q) \in ToSet(q)
    BY <1>1
<1> QED BY <1>1, <1>2, <1>5, <1>6, <1>7 DEF t

LEMMA TakeTaskKeeps ==
    ASSUME AgentsInv, NEW w \in Agent, TakeTask(w) PROVE AgentsInv'
<1> DEFINE t == Head(queue)
           r == Begun(t, Ask(Instructions))
           S == [status : {"pending", "running", "completed", "failed"}, result : Outcomes]
<1>1. /\ worker[w].at = "idle" /\ queue # <<>> /\ queue' = Tail(queue)
      /\ tasks' = [tasks EXCEPT ![t].status = "running"] /\ worker' = [worker EXCEPT ![w] = r]
      /\ results' = results /\ run' = run
    BY DEF TakeTask
<1>2. w \in Workers /\ w # Terminal
    BY <1>1, AgentsAre DEF AgentsInv, Staffed, At
<1>3. /\ queue' \in Seq(Nat) /\ IsInjective(queue') /\ t \in ToSet(queue)
      /\ ToSet(queue') = ToSet(queue) \ {t}
    BY <1>1, HeadOf DEF AgentsInv, Typed, Queued
<1>4. /\ t \in run /\ t \in Ids /\ tasks[t].status = "pending" /\ run \subseteq Ids
      /\ \A u \in run : u \in ToSet(queue) <=> tasks[u].status = "pending"
    BY <1>3 DEF AgentsInv, Queued
<1>5. Ids = 1 .. Len(tasks) /\ Len(tasks) \in Nat /\ tasks \in Seq(S) /\ t \in Nat
      /\ \A u \in Ids : tasks[u] \in S
    <2>1. tasks \in Seq(S)
        BY DEF AgentsInv, Typed
    <2> HIDE DEF S
    <2>2. DOMAIN tasks = 1 .. Len(tasks) /\ Len(tasks) \in Nat /\ \A i \in 1 .. Len(tasks) : tasks[i] \in S
        BY <2>1, Elements
    <2> QED BY <1>4, <2>1, <2>2 DEF Ids
<1> HIDE DEF t, r
<1>6. /\ DOMAIN tasks' = Ids /\ Ids' = Ids /\ tasks'[t].status = "running"
      /\ tasks'[t].result = tasks[t].result
      /\ \A u \in Ids : u # t => tasks'[u] = tasks[u]
    BY <1>1, <1>4, <1>5 DEF Ids
<1>7. /\ worker'[w] = r /\ DOMAIN worker' = Agent
      /\ \A v \in Agent : v # w => worker'[v] = worker[v]
    BY <1>1 DEF AgentsInv, Typed
<1>8. Fine(w, r) /\ r.task = t /\ r.at = "calling"
    BY <1>5, BegunFine, AskPaired, InstructionsPaired DEF r
<1>9. Typed'
    <2>1. tasks' \in Seq(S)
        <3> DEFINE new == [tasks[t] EXCEPT !.status = "running"]
        <3>1. new \in S
            <4>1. tasks[t] \in S
                BY <1>4, <1>5
            <4> QED BY <4>1
        <3>2. tasks' = [tasks EXCEPT ![t] = new] /\ t \in 1 .. Len(tasks)
            BY <1>1, <1>4, <1>5
        <3> HIDE DEF new, S
        <3> QED BY <1>5, <3>1, <3>2, ExceptSeq
    <2>2. worker' \in [Agent -> {worker'[v] : v \in Agent}]
        <3>1. worker' = [v \in Agent |-> worker'[v]]
            BY <1>1, <1>7 DEF AgentsInv, Typed
        <3> QED BY <3>1
    <2> QED BY <1>1, <1>3, <2>1, <2>2 DEF AgentsInv, Typed
<1>10. Queued'
    <2>1. \A u \in run : u \in ToSet(queue') <=> tasks'[u].status = "pending"
        BY <1>3, <1>4, <1>6
    <2>2. ToSet(queue') \subseteq run
        BY <1>3, <1>4 DEF AgentsInv, Queued
    <2> QED BY <1>1, <1>3, <1>4, <1>6, <2>1, <2>2 DEF Queued
<1>11. Recorded'
    BY <1>1, <1>4, <1>6 DEF AgentsInv, Recorded, Done
<1>12. Staffed'
    <2>1. run # {}
        BY <1>4
    <2>2. worker[w].task = 0 /\ t # 0
        BY <1>1, <1>2, <1>4, <1>5 DEF AgentsInv, Staffed, Busy
    <2>3. \A v \in Workers : v # w => worker'[v] = worker[v] /\ worker[v].task # t
        <3> SUFFICES ASSUME NEW v \in Workers, v # w PROVE worker'[v] = worker[v] /\ worker[v].task # t
            OBVIOUS
        <3>1. Busy(v) => tasks[worker[v].task].status = "running"
            BY DEF AgentsInv, Staffed
        <3>2. ~Busy(v) => worker[v].task = 0
            BY DEF AgentsInv, Staffed
        <3> QED BY <1>4, <1>7, <2>2, <3>1, <3>2, AgentsAre
    <2>4. worker'[Terminal].at # "idle"
        BY <1>2, <1>7, AgentsAre DEF AgentsInv, Staffed, At
    <2>5. \A v \in Workers : /\ worker'[v].at # "prompt"
                             /\ worker'[v].at \in {"gone", "idle"} => worker'[v].task = 0
                             /\ worker'[v].at \notin {"gone", "idle"} =>
                                  worker'[v].task \in Ids /\ tasks'[worker'[v].task].status = "running"
        <3> SUFFICES ASSUME NEW v \in Workers
                     PROVE  /\ worker'[v].at # "prompt"
                            /\ worker'[v].at \in {"gone", "idle"} => worker'[v].task = 0
                            /\ worker'[v].at \notin {"gone", "idle"} =>
                                 worker'[v].task \in Ids /\ tasks'[worker'[v].task].status = "running"
            OBVIOUS
        <3>1. CASE v = w
            BY <1>4, <1>6, <1>7, <1>8, <3>1
        <3>2. CASE v # w
            BY <1>6, <2>3, <3>2 DEF AgentsInv, Staffed, Busy, At
        <3> QED BY <3>1, <3>2
    <2>6. \A u, v \in Workers : worker'[u].at \notin {"gone", "idle"} /\ worker'[u].task = worker'[v].task
                                => u = v
        <3> SUFFICES ASSUME NEW u \in Workers, NEW v \in Workers,
                            worker'[u].at \notin {"gone", "idle"}, worker'[u].task = worker'[v].task
                     PROVE  u = v
            OBVIOUS
        <3>1. CASE u = w \/ v = w
            BY <1>7, <1>8, <2>3, <3>1
        <3>2. CASE u # w /\ v # w
            BY <2>3, <3>2 DEF AgentsInv, Staffed, Busy
        <3> QED BY <3>1, <3>2
    <2>7. \A u \in Ids : tasks'[u].status = "running" => \E v \in Workers : worker'[v].task = u
        <3> SUFFICES ASSUME NEW u \in Ids, tasks'[u].status = "running"
                     PROVE  \E v \in Workers : worker'[v].task = u
            OBVIOUS
        <3>1. CASE u = t
            BY <1>2, <1>7, <1>8, <3>1
        <3>2. CASE u # t
            <4>1. PICK v \in Workers : worker[v].task = u
                BY <1>6, <3>2 DEF AgentsInv, Staffed
            <4>2. v # w
                BY <1>5, <2>2, <4>1
            <4> QED BY <2>3, <4>1, <4>2
        <3> QED BY <3>1, <3>2
    <2> QED BY <1>1, <1>6, <2>1, <2>4, <2>5, <2>6, <2>7 DEF Staffed, At, Busy
<1>13. \A v \in Agent : Fine(v, worker[v])'
    <2> SUFFICES ASSUME NEW v \in Agent PROVE Fine(v, worker'[v])
        BY DEF Fine, IsWorker
    <2> QED BY <1>7, <1>8 DEF AgentsInv
<1> QED BY <1>9, <1>10, <1>11, <1>12, <1>13 DEF AgentsInv

LEMMA LeaveKeeps ==
    ASSUME AgentsInv, NEW w \in Agent, Leave(w) PROVE AgentsInv'
<1>1. /\ worker[w].at = "idle" /\ queue = <<>> /\ worker' = [worker EXCEPT ![w] = Gone]
      /\ run' = (IF \A v \in Workers \ {w} : worker[v].at = "gone" THEN {} ELSE run)
      /\ tasks' = tasks /\ queue' = queue /\ results' = results
    BY DEF Leave
<1>2. w \in Workers /\ w # Terminal
    BY <1>1, AgentsAre DEF AgentsInv, Staffed, At
<1>3. /\ worker'[w] = Gone /\ DOMAIN worker' = Agent
      /\ \A v \in Agent : v # w => worker'[v] = worker[v]
    BY <1>1 DEF AgentsInv, Typed
<1>4. Gone.at = "gone" /\ Gone.task = 0 /\ Fine(w, Gone)
    BY GoneFine DEF Gone
<1>5. Ids' = Ids
    BY <1>1 DEF Ids
<1>6. Typed'
    <2>1. worker' \in [Agent -> {worker'[v] : v \in Agent}]
        <3>1. worker' = [v \in Agent |-> worker'[v]]
            BY <1>1, <1>3 DEF AgentsInv, Typed
        <3> QED BY <3>1
    <2> QED BY <1>1, <2>1 DEF AgentsInv, Typed
<1>7. Queued'
    <2>1. ToSet(queue) = {}
        BY <1>1 DEF ToSet
    <2> QED BY <1>1, <1>5, <2>1 DEF AgentsInv, Queued
<1>8. Recorded'
    BY <1>1, <1>5 DEF AgentsInv, Recorded, Done
<1>9. Staffed'
    <2>1. worker[w].task = 0 /\ 0 \notin Ids
        BY <1>1, <1>2, Elements DEF AgentsInv, Typed, Staffed, Busy, Ids
    <2>2. \A v \in Workers : v # w => worker'[v] = worker[v]
        BY <1>3, AgentsAre
    <2>3. \A v \in Workers : worker'[v].task = worker[v].task
        BY <1>3, <1>4, <2>1, <2>2
    <2>4. worker'[Terminal].at # "idle"
        BY <1>2, <1>3, AgentsAre DEF AgentsInv, Staffed, At
    <2>5. run' = {} => \A v \in Workers : worker'[v].at = "gone"
        <3>1. run # {}
            BY <1>1, <1>2 DEF AgentsInv, Staffed, At
        <3> QED BY <1>1, <1>3, <1>4, <2>2, <3>1
    <2>6. \A v \in Workers : /\ worker'[v].at # "prompt"
                             /\ worker'[v].at \in {"gone", "idle"} => worker'[v].task = 0
                             /\ worker'[v].at \notin {"gone", "idle"} =>
                                  v # w /\ worker[v].at \notin {"gone", "idle"}
        BY <1>3, <1>4, <2>2 DEF AgentsInv, Staffed, Busy, At
    <2> QED BY <1>1, <1>5, <2>3, <2>4, <2>5, <2>6 DEF AgentsInv, Staffed, At, Busy
<1>10. \A v \in Agent : Fine(v, worker[v])'
    <2> SUFFICES ASSUME NEW v \in Agent PROVE Fine(v, worker'[v])
        BY DEF Fine, IsWorker
    <2> QED BY <1>3, <1>4 DEF AgentsInv
<1> QED BY <1>6, <1>7, <1>8, <1>9, <1>10 DEF AgentsInv

\* The terminal: OneAgent at the prompt.
LEMMA PromptKeeps == AgentsInv /\ (Say \/ SayTask \/ Clear) => AgentsInv'
<1> SUFFICES ASSUME AgentsInv, Say \/ SayTask \/ Clear PROVE AgentsInv'
    OBVIOUS
<1> DEFINE at == worker[Terminal]
<1>1. Terminal \in Agent /\ Terminal \notin Workers /\ UNCHANGED orchestration
    BY AgentsAre DEF Say, SayTask, Clear
<1>2. at.at = "prompt" /\ Fine(Terminal, at) /\ at.history \in Seq(Message) /\ Paired(at.history)
    BY <1>1 DEF Say, SayTask, Clear, AtPrompt, AgentsInv, Fine, IsWorker
<1>3. CASE Say
    <2> DEFINE r == Begun(0, Ask(at.history))
    <2>1. worker' = [worker EXCEPT ![Terminal] = r]
        BY <1>3 DEF Say
    <2>2. Fine(Terminal, r) /\ r.at # "idle"
        BY <1>2, AskPaired, BegunFine
    <2> HIDE DEF r
    <2> QED BY <1>1, <2>1, <2>2, OneAgent
<1>4. CASE SayTask
    <2> DEFINE r == Begun(1, Ask(Instructions))
    <2>1. worker' = [worker EXCEPT ![Terminal] = r]
        BY <1>4 DEF SayTask
    <2>2. Fine(Terminal, r) /\ r.at # "idle"
        BY <1>2, AskPaired, BegunFine, InstructionsPaired
    <2> HIDE DEF r
    <2> QED BY <1>1, <2>1, <2>2, OneAgent
<1>5. CASE Clear
    <2> DEFINE r == [worker[Terminal] EXCEPT !.history = Instructions]
    <2>1. worker' = [worker EXCEPT ![Terminal] = r]
        BY <1>5 DEF Clear
    <2>2. /\ DOMAIN r = {"at", "task", "step", "history", "calls", "back", "plan", "answer"}
          /\ r.at = "prompt" /\ r.task = at.task /\ r.step = at.step /\ r.history = Instructions
          /\ r.calls = at.calls /\ r.back = at.back
        BY <1>2 DEF Fine, IsWorker
    <2> HIDE DEF r
    <2>3. Fine(Terminal, r)
        BY <1>2, <2>2, InstructionsPaired DEF Fine, IsWorker
    <2> QED BY <1>1, <2>1, <2>2, <2>3, OneAgent
<1> QED BY <1>3, <1>4, <1>5

LEMMA EndsKeeps ==
    ASSUME AgentsInv, NEW w \in Agent, At(w, "calling") \/ At(w, "answered") \/ At(w, "tools"),
           NEW result \in Outcomes \ {"none"}, NEW h \in Seq(Message),
           result # "raised" => Paired(h), EndsWith(w, result, h)
    PROVE  AgentsInv'
<1>1. CASE w \in Workers
    <2>1. Busy(w)
        BY DEF At, Busy
    <2> QED BY <1>1, <2>1, WorkerEnds
<1>2. CASE w = Terminal
    <2> DEFINE at == IF result = "raised" THEN "gone" ELSE "prompt"
               r == [Gone EXCEPT !.at = at, !.history = h]
    <2>1. worker' = [worker EXCEPT ![w] = r] /\ UNCHANGED orchestration
        BY <1>2 DEF EndsWith
    <2>2. at \in {"gone", "idle", "prompt"} /\ (at = "prompt" => Paired(h)) /\ at # "idle"
        OBVIOUS
    <2>3. r.at = at
        BY DEF Gone
    <2> HIDE DEF at
    <2>4. Fine(w, r)
        BY <2>2, WaitingFine
    <2> HIDE DEF r
    <2>5. w \notin Workers
        BY <1>2, AgentsAre
    <2> QED BY <2>1, <2>2, <2>3, <2>4, <2>5, OneAgent
<1> QED BY <1>1, <1>2, AgentsAre

LEMMA CallingIs ==
    ASSUME AgentsInv, NEW w \in Agent
    PROVE  /\ Fine(w, worker[w]) /\ IsWorker(worker[w])
           /\ At(w, "calling") \/ At(w, "answered") => Paired(worker[w].history)
           /\ At(w, "tools") => Paired(worker[w].history \o Results(w))
                                /\ worker[w].history \o Results(w) \in Seq(Message)
<1>1. Fine(w, worker[w]) /\ IsWorker(worker[w])
    BY DEF AgentsInv, Fine
<1>2. worker[w].history \in Seq(Message) /\ Results(w) \in Seq(Message)
    BY <1>1, ResultsAre, ToolMessagesAre DEF IsWorker
<1>3. worker[w].history \o Results(w) \in Seq(Message)
    BY <1>2, ConcatProperties
<1> QED BY <1>1, <1>3, ResultsAre DEF Fine, At

LEMMA FailuresKeep ==
    ASSUME AgentsInv, NEW w \in Agent, CallFails(w) \/ TooLong(w) PROVE AgentsInv'
<1>1. PICK result \in {"error", "raised"} : EndsWith(w, result, worker[w].history)
    BY DEF CallFails, TooLong
<1>2. result \in Outcomes \ {"none"} /\ At(w, "calling")
    BY DEF Outcomes, CallFails, TooLong, At
<1>3. worker[w].history \in Seq(Message) /\ Paired(worker[w].history)
    BY <1>2, CallingIs DEF IsWorker
<1> QED BY <1>1, <1>2, <1>3, EndsKeeps

\* The step of a busy agent that stays at its task.
LEMMA BusyKeeps ==
    ASSUME AgentsInv, NEW w \in Agent, At(w, "calling") \/ At(w, "answered") \/ At(w, "tools"),
           UNCHANGED orchestration, NEW r, Fine(w, r), worker' = [worker EXCEPT ![w] = r],
           r.task = worker[w].task, r.at \in {"calling", "answered", "tools"}
    PROVE  AgentsInv'
BY OneAgent DEF At, Busy

\* An answered call: its plan, and what the model said.
LEMMA CallIs ==
    ASSUME NEW w, Call(w)
    PROVE  LET plan == Fit(Sent(w), MaxTokens)
               size == Size(plan.messages)
           IN \E thinking \in Thinking, speech \in Speech, ending \in Final, stops \in Stops :
                /\ plan # NoPlan
                /\ worker' = [worker EXCEPT ![w] =
                     [worker[w] EXCEPT !.at = "answered", !.plan = plan,
                        !.answer = Completion(Prefill, size, MaxTokens, thinking, speech, ending, stops)]]
<1> DEFINE Fitted == Fit(Sent(w), MaxTokens)
           Said1(p, x, y, z, u) == Completion(Prefill, Size(p.messages), MaxTokens, x, y, z, u)
           After1(p, a) == [worker EXCEPT ![w] =
                              [worker[w] EXCEPT !.at = "answered", !.plan = p, !.answer = a]]
<1>1. PICK p \in {Fitted}, thinking \in Thinking, speech \in Speech, ending \in Final, stops \in Stops :
         p # NoPlan /\ \E a \in {Said1(p, thinking, speech, ending, stops)} : worker' = After1(p, a)
    BY Zenon DEF Call
<1>2. p = Fitted /\ p # NoPlan /\ worker' = After1(p, Said1(p, thinking, speech, ending, stops))
    <2> HIDE DEF After1, Fitted, Said1
    <2> QED BY <1>1
<1>3. Fitted # NoPlan /\ worker' = After1(Fitted, Said1(Fitted, thinking, speech, ending, stops))
    <2> HIDE DEF After1, Fitted, Said1
    <2> QED BY <1>2
<1> QED BY <1>3, Zenon

LEMMA CallKeeps ==
    ASSUME AgentsInv, NEW w \in Agent, Call(w) PROVE AgentsInv'
<1> DEFINE at == worker[w]
           plan == Fit(Sent(w), MaxTokens)
           Answer1(x, y, z, u) == Completion(Prefill, Size(plan.messages), MaxTokens, x, y, z, u)
<1>1. PICK thinking \in Thinking, speech \in Speech, ending \in Final, stops \in Stops :
         /\ plan # NoPlan
         /\ worker' = [worker EXCEPT ![w] =
              [worker[w] EXCEPT !.at = "answered", !.plan = plan, !.answer = Answer1(thinking, speech, ending, stops)]]
    BY CallIs
<1>2. At(w, "calling") /\ UNCHANGED orchestration
    BY DEF Call, At
<1>3. IsWorker(at) /\ Paired(at.history) /\ Fine(w, at)
    BY <1>2, CallingIs
<1> DEFINE a == Answer1(thinking, speech, ending, stops)
<1>4. a.text \in Seq(Word)
    BY <1>3, AnswerTyped DEF IsWorker
<1> HIDE DEF Answer1, plan, a
<1> DEFINE r == [worker[w] EXCEPT !.at = "answered", !.plan = plan, !.answer = a]
<1>5. worker' = [worker EXCEPT ![w] = r]
    BY <1>1 DEF a
<1>6. /\ DOMAIN r = {"at", "task", "step", "history", "calls", "back", "plan", "answer"}
      /\ r.at = "answered" /\ r.answer = a
      /\ r.task = at.task /\ r.step = at.step /\ r.history = at.history
      /\ r.calls = at.calls /\ r.back = at.back
    BY <1>3 DEF IsWorker
<1> HIDE DEF r
<1>7. Fine(w, r)
    BY <1>3, <1>4, <1>6 DEF Fine, IsWorker, Places
<1> QED BY <1>2, <1>5, <1>6, <1>7, BusyKeeps

LEMMA CallsTyped == \A s \in Seq(Word) : Calls(s) \in Nat
<1> SUFFICES ASSUME NEW s \in Seq(Word) PROVE Calls(s) \in Nat
    OBVIOUS
<1> DEFINE C == {i \in DOMAIN s : s[i] = "c"}
<1>1. DOMAIN s = 1 .. Len(s) /\ Len(s) \in Nat
    BY Elements
<1>2. IsFiniteSet(1 .. Len(s)) /\ C \subseteq 1 .. Len(s)
    BY <1>1, FS_Interval
<1> HIDE DEF C
<1>3. Cardinality(C) \in Nat
    BY <1>2, FS_Subset, FS_CardinalityType
<1> QED BY <1>3 DEF Calls, C

LEMMA WithAnswerIs ==
    ASSUME AgentsInv, NEW w \in Agent, At(w, "answered"), NEW n \in Nat
    PROVE  /\ WithAnswer(w, n) \in Seq(Message)
           /\ n = 0 => Paired(WithAnswer(w, n))
           /\ Paired(WithAnswer(w, n) \o ToolMessages(n))
<1> DEFINE h == worker[w].history
           m == [role |-> "assistant", content |-> worker[w].answer.text, calls |-> n]
<1>1. h \in Seq(Message) /\ Paired(h) /\ worker[w].answer.text \in Seq(Word)
    BY CallingIs DEF Fine, IsWorker, At
<1>2. m \in Message /\ m.role = "assistant" /\ m.calls = n
    BY <1>1 DEF Message
<1>3. WithAnswer(w, n) = Append(h, m)
    BY DEF WithAnswer
<1> HIDE DEF h, m
<1>4. Append(h, m) \in Seq(Message)
    BY <1>1, <1>2, Appended
<1>5. n = 0 => Paired(Append(h, m))
    BY <1>1, <1>2, PairedAppend
<1>6. Paired(Append(h, m) \o ToolMessages(n))
    BY <1>1, <1>2, ToolMessagesAre, PairedCalls
<1> QED BY <1>3, <1>4, <1>5, <1>6

LEMMA FinalAnswerKeeps ==
    ASSUME AgentsInv, NEW w \in Agent, FinalAnswer(w) PROVE AgentsInv'
<1>1. At(w, "answered") /\ EndsWith(w, "answer", WithAnswer(w, 0))
    BY DEF FinalAnswer, At
<1>2. WithAnswer(w, 0) \in Seq(Message) /\ Paired(WithAnswer(w, 0))
    BY <1>1, WithAnswerIs
<1>3. "answer" \in Outcomes \ {"none"} /\ "answer" # "raised"
    BY DEF Outcomes
<1> QED BY <1>1, <1>2, <1>3, EndsKeeps

LEMMA CallToolsKeeps ==
    ASSUME AgentsInv, NEW w \in Agent, CallTools(w) PROVE AgentsInv'
<1> DEFINE at == worker[w]
           n == ToCarryOut(w)
           h == WithAnswer(w, n)
<1>1. At(w, "answered") /\ UNCHANGED orchestration /\ n > 0
      /\ worker' = [worker EXCEPT ![w] =
            [worker[w] EXCEPT !.at = "tools", !.calls = n, !.back = {}, !.history = h,
                              !.plan = NoPlan, !.answer = <<>>]]
    BY DEF CallTools, At
<1>2. IsWorker(at) /\ Fine(w, at)
    BY CallingIs
<1>3. n \in Nat /\ (Talks(w) => ~(at.step > 1))
    <2>1. Calls(at.answer.text) \in Nat
        BY <1>1, <1>2, CallsTyped DEF Fine, At
    <2> QED BY <1>1, <2>1 DEF ToCarryOut
<1>4. h \in Seq(Message) /\ Paired(h \o ToolMessages(n))
    BY <1>1, <1>3, WithAnswerIs
<1> HIDE DEF n, h
<1> DEFINE r == [worker[w] EXCEPT !.at = "tools", !.calls = n, !.back = {}, !.history = h,
                                  !.plan = NoPlan, !.answer = <<>>]
<1>5. /\ DOMAIN r = {"at", "task", "step", "history", "calls", "back", "plan", "answer"}
      /\ r.at = "tools" /\ r.task = at.task /\ r.step = at.step /\ r.history = h
      /\ r.calls = n /\ r.back = {}
    BY <1>2 DEF IsWorker
<1>6. worker' = [worker EXCEPT ![w] = r]
    BY <1>1
<1> HIDE DEF r
<1>7. w = Terminal /\ r.task = 0 => r.step <= 1
    BY <1>2, <1>3, <1>5 DEF Talks, IsWorker
<1>8. Fine(w, r)
    BY <1>2, <1>3, <1>4, <1>5, <1>7 DEF Fine, IsWorker, Places
<1> QED BY <1>1, <1>5, <1>6, <1>8, BusyKeeps

LEMMA ToolReturnsKeeps ==
    ASSUME AgentsInv, NEW w \in Agent, NEW i \in 1 .. worker[w].calls, ToolReturns(w, i)
    PROVE  AgentsInv'
<1> DEFINE at == worker[w]
           r == [worker[w] EXCEPT !.back = worker[w].back \cup {i}]
<1>1. At(w, "tools") /\ UNCHANGED orchestration /\ worker' = [worker EXCEPT ![w] = r]
    BY DEF ToolReturns, At
<1>2. IsWorker(at) /\ Fine(w, at)
    BY CallingIs
<1>3. /\ DOMAIN r = {"at", "task", "step", "history", "calls", "back", "plan", "answer"}
      /\ r.at = at.at /\ r.task = at.task /\ r.step = at.step /\ r.history = at.history
      /\ r.calls = at.calls /\ r.back = at.back \cup {i} /\ r.answer = at.answer
    BY <1>2 DEF IsWorker
<1> HIDE DEF r
<1>4. at.back \cup {i} \in SUBSET Nat
    BY <1>2 DEF IsWorker
<1>5. Fine(w, r)
    BY <1>2, <1>3, <1>4 DEF Fine, IsWorker
<1> QED BY <1>1, <1>3, <1>5, BusyKeeps DEF At

LEMMA ToolRaisesKeeps ==
    ASSUME AgentsInv, NEW w \in Agent, NEW i \in 1 .. worker[w].calls, ToolRaises(w, i)
    PROVE  AgentsInv'
<1>1. At(w, "tools") /\ EndsWith(w, "raised", worker[w].history)
    BY DEF ToolRaises, At
<1>2. worker[w].history \in Seq(Message) /\ "raised" \in Outcomes \ {"none"}
    BY CallingIs DEF IsWorker, Outcomes
<1> QED BY <1>1, <1>2, EndsKeeps

LEMMA AllBackKeeps ==
    ASSUME AgentsInv, NEW w \in Agent, AllBack(w) PROVE AgentsInv'
<1> DEFINE at == worker[w]
           h == worker[w].history \o Results(w)
<1>1. At(w, "tools")
      /\ IF Talks(w) \/ at.step < MaxSteps THEN NextCall(w, h, at.step + 1)
         ELSE EndsWith(w, "max steps", h)
    BY DEF AllBack, At
<1>2. IsWorker(at) /\ Fine(w, at) /\ h \in Seq(Message) /\ Paired(h)
    BY <1>1, CallingIs
<1> HIDE DEF h
<1>3. CASE Talks(w) \/ at.step < MaxSteps
    <2> DEFINE r == [Begun(at.task, h) EXCEPT !.step = at.step + 1]
    <2>1. UNCHANGED orchestration /\ worker' = [worker EXCEPT ![w] = r]
        BY <1>1, <1>3 DEF NextCall
    <2>2. r.at = "calling" /\ r.task = at.task
        BY DEF Begun, Gone
    <2>3. /\ at.task \in Nat /\ at.step + 1 \in Nat
          /\ at.step + 1 <= IF w = Terminal /\ at.task = 0 THEN 2 ELSE MaxSteps
        <3>1. at.task \in Nat /\ at.step \in Nat /\ MaxSteps \in Nat /\ at.at = "tools"
            BY <1>1, <1>2, Numbers DEF IsWorker, At
        <3>2. w = Terminal /\ at.task = 0 => at.step <= 1
            BY <1>2, <3>1 DEF Fine
        <3>3. ~(w = Terminal /\ at.task = 0) => at.step < MaxSteps
            BY <1>3 DEF Talks
        <3> QED BY <3>1, <3>2, <3>3
    <2>4. Fine(w, r)
        <3> DEFINE n == at.step + 1
        <3>1. n \in Nat /\ n <= IF w = Terminal /\ at.task = 0 THEN 2 ELSE MaxSteps
            BY <2>3
        <3> HIDE DEF n
        <3>2. Fine(w, [Begun(at.task, h) EXCEPT !.step = n])
            BY <1>2, <2>3, <3>1, CallingFine
        <3> QED BY <3>2 DEF n
    <2> HIDE DEF r
    <2> QED BY <1>1, <2>1, <2>2, <2>4, BusyKeeps
<1>4. CASE ~(Talks(w) \/ at.step < MaxSteps)
    <2>1. "max steps" \in Outcomes \ {"none"} /\ EndsWith(w, "max steps", h)
        BY <1>1, <1>4 DEF Outcomes
    <2> QED BY <1>1, <1>2, <2>1, EndsKeeps
<1> QED BY <1>3, <1>4

LEMMA AgentsBegin == AgentsInit => AgentsInv
<1> SUFFICES ASSUME AgentsInit PROVE AgentsInv
    OBVIOUS
<1> DEFINE first == [Gone EXCEPT !.at = "prompt", !.history = Instructions]
<1>1. /\ tasks = <<>> /\ queue = <<>> /\ results = <<>> /\ run = {}
      /\ worker = [w \in Agent |-> IF w # Terminal THEN Gone ELSE first]
    BY DEF AgentsInit
<1>2. first.at = "prompt" /\ Gone.at = "gone" /\ Gone.task = 0
    BY DEF Gone
<1>3. Fine(Terminal, first)
    BY InstructionsPaired, WaitingFine
<1> HIDE DEF first
<1>4. \A w \in Workers : worker[w] = Gone
    BY <1>1, AgentsAre
<1>5. worker[Terminal] = first
    BY <1>1, AgentsAre
<1>6. Typed
    <2>1. worker \in [Agent -> {worker[v] : v \in Agent}]
        <3>1. worker = [v \in Agent |-> worker[v]]
            BY <1>1
        <3> QED BY <3>1
    <2> QED BY <1>1, <2>1 DEF Typed
<1>7. Ids = {} /\ DOMAIN results = {} /\ ToSet(queue) = {} /\ IsInjective(queue)
    BY <1>1 DEF Ids, ToSet, IsInjective
<1>8. Queued /\ Recorded
    BY <1>1, <1>7 DEF Queued, Recorded
<1>9. Staffed
    BY <1>2, <1>4, <1>5, <1>7 DEF Staffed, Busy, At
<1>10. \A w \in Agent : Fine(w, worker[w])
    BY <1>3, <1>4, <1>5, GoneFine, AgentsAre
<1> QED BY <1>6, <1>8, <1>9, <1>10 DEF AgentsInv

LEMMA AgentsGoOn == AgentsInv /\ [AgentsNext]_agentVars => AgentsInv'
<1> SUFFICES ASSUME AgentsInv, [AgentsNext]_agentVars PROVE AgentsInv'
    OBVIOUS
<1>1. CASE UNCHANGED agentVars
    <2>1. tasks' = tasks /\ queue' = queue /\ results' = results /\ run' = run /\ UNCHANGED worker
        BY <1>1 DEF agentVars
    <2>2. Typed' /\ \A w \in Agent : Fine(w, worker[w])'
        BY <2>1, AgentsStay DEF AgentsInv, Typed
    <2>3. Queued' /\ Recorded' /\ Staffed'
        BY <2>1 DEF AgentsInv, Queued, Recorded, Staffed, Ids, Done, Busy, At
    <2> QED BY <2>2, <2>3 DEF AgentsInv
<1>2. ASSUME NEW w \in Agent, Step(w) PROVE AgentsInv'
    BY <1>2, TakeTaskKeeps, LeaveKeeps, FailuresKeep, CallKeeps, FinalAnswerKeeps, CallToolsKeeps,
       ToolReturnsKeeps, ToolRaisesKeeps, AllBackKeeps DEF Step
<1> QED BY <1>1, <1>2, SubmitTaskKeeps, RunKeeps, PromptKeeps DEF AgentsNext

\* Queue, results, workers and histories agree in every reachable state.
THEOREM AgentsHold == AgentsSpec => []AgentsInv
BY AgentsBegin, AgentsGoOn, PTL DEF AgentsSpec

\* The invariant says what TasksAccounted says.
LEMMA AccountedFor == AgentsInv => TasksAccounted
<1> SUFFICES ASSUME AgentsInv PROVE TasksAccounted
    OBVIOUS
<1>1. Ids = 1 .. Len(tasks) /\ Len(tasks) \in Nat
      /\ \A t \in Ids : tasks[t].status \in {"pending", "running", "completed", "failed"}
    <2> DEFINE S == [status : {"pending", "running", "completed", "failed"}, result : Outcomes]
    <2>1. tasks \in Seq(S)
        BY DEF AgentsInv, Typed
    <2>2. \A s \in S : s.status \in {"pending", "running", "completed", "failed"}
        OBVIOUS
    <2> HIDE DEF S
    <2>3. DOMAIN tasks = 1 .. Len(tasks) /\ Len(tasks) \in Nat /\ \A i \in 1 .. Len(tasks) : tasks[i] \in S
        BY <2>1, Elements
    <2> QED BY <2>2, <2>3 DEF Ids
<1>2. TasksTyped
    BY <1>1 DEF TasksTyped, AgentsInv, Queued, Fine, Talks
<1>3. ASSUME NEW t \in Ids
      PROVE  LET its == {i \in DOMAIN results : results[i].task = t} IN
             CASE tasks[t].status \in {"completed", "failed"} ->
                    /\ Cardinality(its) = 1
                    /\ \A i \in its : results[i].success = (tasks[t].status = "completed")
               [] tasks[t].status = "running" ->
                    its = {} /\ Cardinality({w \in Workers : worker[w].task = t}) = 1
               [] OTHER -> its = {} /\ (t \in run => t \in ToSet(queue))
    <2> DEFINE its == {i \in DOMAIN results : results[i].task = t}
               at == {w \in Workers : worker[w].task = t}
    <2>1. tasks[t].status \notin {"completed", "failed"} => its = {}
        BY DEF AgentsInv, Recorded, Done
    <2>2. CASE tasks[t].status \in {"completed", "failed"}
        <3>1. PICK i \in DOMAIN results : results[i].task = t
            BY <2>2 DEF AgentsInv, Recorded, Done
        <3>2. its = {i}
            BY <3>1 DEF AgentsInv, Recorded
        <3>3. Cardinality(its) = 1
            BY <3>2, FS_Singleton
        <3>4. \A j \in its : results[j].success = (tasks[t].status = "completed")
            BY DEF AgentsInv, Recorded
        <3> QED BY <2>2, <3>3, <3>4
    <2>3. CASE tasks[t].status = "running"
        <3>1. PICK w \in Workers : worker[w].task = t
            BY <2>3 DEF AgentsInv, Staffed
        <3>2. Busy(w)
            BY <1>1, <3>1 DEF AgentsInv, Staffed
        <3>3. at = {w}
            BY <3>1, <3>2 DEF AgentsInv, Staffed
        <3>4. Cardinality(at) = 1
            BY <3>3, FS_Singleton
        <3> QED BY <2>1, <2>3, <3>4
    <2>4. CASE tasks[t].status = "pending"
        <3>1. t \in run => t \in ToSet(queue)
            BY <2>4 DEF AgentsInv, Queued
        <3> QED BY <2>1, <2>4, <3>1
    <2> QED BY <1>1, <2>2, <2>3, <2>4
<1>4. \A w \in Agent : At(w, "calling") => Paired(worker[w].history)
    BY CallingIs
<1> QED BY <1>2, <1>3, <1>4 DEF TasksAccounted, Paired

\* However many workers take from one queue and whatever ends a task, the tasks
\* and their results stay in step; and no history the model is shown has a tool
\* call without its result, or one out of place.
THEOREM TasksAlwaysAccounted == AgentsSpec => []TasksAccounted
BY AgentsHold, AccountedFor, PTL

-----------------------------------------------------------------------------
(* Speech: no thought is left in what the server makes of a tidy answer. *)

Silent == Word \ {"t"}

LEMMA SilentAre == Words(Silent) /\ {"hh", "?", "te", "fs", "fe"} \subseteq Silent
BY DEF Words, Silent, Word

LEMMA Retyped ==
    ASSUME NEW E, NEW D, NEW s \in Seq(E), \A i \in 1 .. Len(s) : s[i] \in D
    PROVE  s \in Seq(D)
<1>1. Len(s) \in Nat /\ s = [i \in 1 .. Len(s) |-> s[i]]
    BY LenProperties
<1> DEFINE n == Len(s)
<1> HIDE DEF n
<1>2. n \in Nat /\ s = [i \in 1 .. n |-> s[i]] /\ \A i \in 1 .. n : s[i] \in D
    BY <1>1 DEF n
<1>3. s \in [1 .. n -> D]
    BY <1>2
<1> QED BY <1>2, <1>3

LEMMA Hushed ==
    ASSUME NEW s \in Seq(Word), "t" \notin ToSet(s)
    PROVE  s \in Seq(Silent)
<1>1. \A i \in 1 .. Len(s) : s[i] \in Word /\ s[i] \in ToSet(s)
    BY Elements
<1>2. \A i \in 1 .. Len(s) : s[i] \in Silent
    BY <1>1 DEF Silent
<1> QED BY <1>2, Retyped

LEMMA TidyBlocks ==
    ASSUME NEW s \in Seq(Word), Tidy(s)
    PROVE  FinalBlocks(s) \in Seq(Silent)
<1>1. PICK f \in FinalBlocksLoops(Word, s) : TRUE
    BY FinalBlocksTurns
<1> DEFINE n == Len(s)
<1>2. n \in Nat /\ DOMAIN s = 1 .. n /\ \A i \in 1 .. n : s[i] \in Word
    BY Elements
<1>3. /\ f \in [0 .. n -> [open : BOOLEAN, block : Seq(Word), text : Seq(Word)]] /\ f[0] = NoBlock
      /\ \A i \in 1 .. n : f[i] = IF ~f[i - 1].open THEN [f[i - 1] EXCEPT !.open = (s[i] = "fs")]
                   ELSE IF s[i] = "fe" THEN [NoBlock EXCEPT !.text = f[i - 1].text \o f[i - 1].block]
                   ELSE [f[i - 1] EXCEPT !.block = Append(@, s[i])]
      /\ FinalBlocks(s) = f[n].text
    BY <1>1 DEF FinalBlocksLoops
<1> HIDE DEF n
<1> DEFINE T == {i \in 0 .. n : /\ f[i].block \in Seq(Silent) /\ f[i].text \in Seq(Silent)
                                /\ f[i].open => \E j \in 1 .. i : s[j] = "fs"}
<1>4. 0 \in T
    BY <1>2, <1>3 DEF NoBlock
<1>5. ASSUME NEW i \in 1 .. n, i - 1 \in T PROVE i \in T
    <2> DEFINE b == f[i - 1]
    <2>1. /\ i - 1 \in 0 .. n /\ i \in 0 .. n /\ b \in [open : BOOLEAN, block : Seq(Word), text : Seq(Word)]
          /\ b.block \in Seq(Silent) /\ b.text \in Seq(Silent)
          /\ b.open => \E j \in 1 .. (i - 1) : s[j] = "fs"
        BY <1>2, <1>3, <1>5
    <2>2. 1 .. (i - 1) \subseteq 1 .. i /\ i \in 1 .. i
        BY <1>2
    <2>3. f[i] = IF ~b.open THEN [b EXCEPT !.open = (s[i] = "fs")]
                 ELSE IF s[i] = "fe" THEN [NoBlock EXCEPT !.text = b.text \o b.block]
                 ELSE [b EXCEPT !.block = Append(b.block, s[i])]
        BY <1>3
    <2> HIDE DEF b
    <2>4. CASE ~b.open
        <3>1. f[i].block = b.block /\ f[i].text = b.text /\ f[i].open = (s[i] = "fs")
            BY <2>1, <2>3, <2>4
        <3> QED BY <2>1, <2>2, <3>1
    <2>5. CASE b.open /\ s[i] = "fe"
        <3>1. b.text \o b.block \in Seq(Silent) /\ <<>> \in Seq(Silent)
            BY <2>1, ConcatProperties
        <3> DEFINE u == b.text \o b.block
        <3> HIDE DEF u
        <3>2. f[i] = [NoBlock EXCEPT !.text = u]
            BY <2>3, <2>5 DEF u
        <3>3. f[i].block = <<>> /\ f[i].text = u /\ f[i].open = FALSE
            BY <3>2 DEF NoBlock
        <3> QED BY <2>1, <3>1, <3>3 DEF u
    <2>6. CASE b.open /\ s[i] # "fe"
        <3>1. s[i] # "t" /\ s[i] \in Word
            BY <1>2, <2>1, <2>2, <2>6 DEF Tidy
        <3>2. Append(b.block, s[i]) \in Seq(Silent)
            BY <2>1, <3>1, AppendProperties DEF Silent
        <3> DEFINE u == Append(b.block, s[i])
        <3> HIDE DEF u
        <3>3. f[i] = [b EXCEPT !.block = u]
            BY <2>3, <2>6 DEF u
        <3>4. f[i].block = u /\ f[i].text = b.text /\ f[i].open = b.open
            BY <2>1, <3>3
        <3> QED BY <2>1, <2>2, <3>2, <3>4 DEF u
    <2> QED BY <2>4, <2>5, <2>6
<1> HIDE DEF T
<1>6. n \in T
    BY <1>2, <1>4, <1>5, LoopInduction
<1> QED BY <1>3, <1>6 DEF T

LEMMA TidyDropped ==
    ASSUME NEW s \in Seq(Word), Tidy(s)
    PROVE  DropThoughts(s) \in Seq(Silent)
<1>1. PICK f \in DropThoughtsLoops(Word, s) : TRUE
    BY DropThoughtsTurns
<1> DEFINE n == Len(s)
<1>2. n \in Nat /\ DOMAIN s = 1 .. n /\ \A i \in 1 .. n : s[i] \in Word
    BY Elements
<1>3. /\ f \in [0 .. n -> [open : BOOLEAN, text : Seq(Word)]] /\ f[0] = NoThought
      /\ \A i \in 1 .. n : f[i] = IF f[i - 1].open THEN [f[i - 1] EXCEPT !.open = (s[i] # "te")]
                   ELSE IF s[i] = "ts" THEN [f[i - 1] EXCEPT !.open = TRUE]
                   ELSE [f[i - 1] EXCEPT !.text = Append(@, s[i])]
      /\ DropThoughts(s) = f[n].text
    BY <1>1 DEF DropThoughtsLoops
<1> HIDE DEF n
<1> DEFINE T == {i \in 0 .. n : f[i].text \in Seq(Silent) /\ (Open(s, i) => f[i].open)}
<1>4. 0 \in T
    BY <1>2, <1>3 DEF NoThought, Open
<1>5. ASSUME NEW i \in 1 .. n, i - 1 \in T PROVE i \in T
    <2> DEFINE b == f[i - 1]
    <2>1. /\ i - 1 \in 0 .. n /\ i \in 0 .. n /\ b \in [open : BOOLEAN, text : Seq(Word)]
          /\ b.text \in Seq(Silent) /\ (Open(s, i - 1) => b.open)
        BY <1>2, <1>3, <1>5
    <2>2. f[i] = IF b.open THEN [b EXCEPT !.open = (s[i] # "te")]
                 ELSE IF s[i] = "ts" THEN [b EXCEPT !.open = TRUE]
                 ELSE [b EXCEPT !.text = Append(b.text, s[i])]
        BY <1>3
    <2>3. ASSUME Open(s, i) PROVE (s[i] = "ts" \/ b.open) /\ s[i] # "te"
        <3>1. PICK k \in 1 .. i : s[k] = "ts" /\ \A j \in k .. i : s[j] # "te"
            BY <2>3 DEF Open
        <3>2. i \in k .. i
            BY <1>2, <3>1
        <3>3. CASE k = i
            BY <3>1, <3>2, <3>3
        <3>4. CASE k # i
            <4>1. k \in 1 .. (i - 1) /\ \A j \in k .. (i - 1) : j \in k .. i
                BY <1>2, <3>1, <3>4
            <4>2. Open(s, i - 1)
                BY <3>1, <4>1 DEF Open
            <4> QED BY <2>1, <3>1, <3>2, <4>2
        <3> QED BY <3>3, <3>4
    <2> HIDE DEF b
    <2>4. CASE b.open
        <3>1. f[i].text = b.text /\ f[i].open = (s[i] # "te")
            BY <2>1, <2>2, <2>4
        <3> QED BY <2>1, <2>3, <3>1
    <2>5. CASE ~b.open /\ s[i] = "ts"
        <3>1. f[i].text = b.text /\ f[i].open = TRUE
            BY <2>1, <2>2, <2>5
        <3> QED BY <2>1, <3>1
    <2>6. CASE ~b.open /\ s[i] # "ts"
        <3>1. ~Open(s, i) /\ s[i] \in Word
            BY <1>2, <2>3, <2>6
        <3>2. s[i] # "t"
            BY <1>2, <3>1 DEF Tidy
        <3>3. Append(b.text, s[i]) \in Seq(Silent)
            BY <2>1, <3>1, <3>2, AppendProperties DEF Silent
        <3> DEFINE u == Append(b.text, s[i])
        <3> HIDE DEF u
        <3>4. f[i] = [b EXCEPT !.text = u]
            BY <2>2, <2>6 DEF u
        <3>5. f[i].text = u
            BY <2>1, <3>4
        <3> QED BY <2>1, <3>1, <3>3, <3>5 DEF u
    <2> QED BY <2>4, <2>5, <2>6
<1> HIDE DEF T
<1>6. n \in T
    BY <1>2, <1>4, <1>5, LoopInduction
<1> QED BY <1>3, <1>6 DEF T

LEMMA TidySanitized ==
    ASSUME NEW s \in Seq(Word), Tidy(s)
    PROVE  Sanitize(s) \in Seq(Silent)
<1>1. FinalBlocks(s) \in Seq(Silent) /\ Without(DropThoughts(s), {"te"}) \in Seq(Silent)
    BY TidyBlocks, TidyDropped, WithoutTyped
<1>2. ASSUME "fs" \in ToSet(s) PROVE Without(After(s, "fs"), {"fe"}) \in Seq(Silent)
    <2> DEFINE p == Place(s, "fs")
               a == After(s, "fs")
    <2>1. /\ p \in 1 .. Len(s) /\ s[p] = "fs" /\ a \in Seq(Word)
          /\ \A i \in 1 .. Len(a) : a[i] = s[p + i] /\ p + i \in 1 .. Len(s)
        BY <1>2, PlaceIs, AfterIs
    <2>2. DOMAIN s = 1 .. Len(s) /\ Len(s) \in Nat /\ \A i \in 1 .. Len(s) : s[i] \in Word
        BY Elements
    <2> HIDE DEF p, a
    <2>3. ASSUME NEW i \in 1 .. Len(a) PROVE a[i] \in Silent
        <3>1. p \in 1 .. (p + i) /\ p + i \in 1 .. Len(s)
            BY <2>1, <2>2
        <3>2. s[p + i] # "t"
            BY <2>1, <2>2, <3>1 DEF Tidy
        <3> QED BY <2>1, <2>2, <3>1, <3>2 DEF Silent
    <2>4. a \in Seq(Silent)
        BY <2>1, <2>3, Retyped
    <2> QED BY <2>4, WithoutTyped DEF a
<1> QED BY <1>1, <1>2 DEF Sanitize

-----------------------------------------------------------------------------
(* Text that is decoded token after token. *)

LEMMA KeptPrefix ==
    ASSUME NEW E, NEW s \in Seq(E), NEW I, NEW J, NEW n \in 0 .. Len(s), NEW f \in KeptLoops(E, s, I),
           \A i \in 1 .. n : i \in I <=> i \in J
    PROVE  Kept(SubSeq(s, 1, n), J) = f[n]
<1> DEFINE p == SubSeq(s, 1, n)
<1>1. p \in Seq(E) /\ Len(p) = n /\ (\A i \in 1 .. n : p[i] = s[i]) /\ n \in Nat /\ Len(s) \in Nat
      /\ 1 .. n \subseteq 1 .. Len(s)
    BY Beginning, Elements
<1> HIDE DEF p
<1>2. PICK g \in KeptLoops(E, p, J) : TRUE
    BY <1>1, KeptTurns
<1>3. /\ g[0] = <<>> /\ Kept(p, J) = g[n]
      /\ \A i \in 1 .. n : g[i] = IF i \in J THEN Append(g[i - 1], p[i]) ELSE g[i - 1]
    BY <1>1, <1>2 DEF KeptLoops
<1>4. /\ f[0] = <<>>
      /\ \A i \in 1 .. n : f[i] = IF i \in I THEN Append(f[i - 1], s[i]) ELSE f[i - 1]
    BY <1>1 DEF KeptLoops
<1> DEFINE T == {i \in 0 .. n : g[i] = f[i]}
<1>5. 0 \in T
    BY <1>1, <1>3, <1>4
<1>6. ASSUME NEW i \in 1 .. n, i - 1 \in T PROVE i \in T
    <2>1. g[i - 1] = f[i - 1] /\ i \in 0 .. n /\ p[i] = s[i] /\ (i \in I <=> i \in J)
        BY <1>1, <1>6
    <2>2. g[i] = f[i]
        BY <1>3, <1>4, <2>1
    <2> QED BY <2>1, <2>2
<1> HIDE DEF T
<1>7. n \in T
    <2>1. n \in Nat
        BY <1>1
    <2>2. \A i \in 0 .. n : i \in T
        BY <1>5, <1>6, <2>1, LoopInduction
    <2> QED BY <2>1, <2>2
<1> QED BY <1>3, <1>7 DEF T, p

\* What the tokenizer hides, token after token.
LEMMA VisibleSteps ==
    ASSUME NEW E, NEW s \in Seq(E)
    PROVE  /\ Visible(SubSeq(s, 1, 0)) = <<>>
           /\ \A n \in 1 .. Len(s) :
                 Visible(SubSeq(s, 1, n)) = IF s[n] = "eos" THEN Visible(SubSeq(s, 1, n - 1))
                                            ELSE Append(Visible(SubSeq(s, 1, n - 1)), s[n])
<1> DEFINE I == {i \in 1 .. Len(s) : s[i] \notin {"eos"}}
           J(n) == {i \in DOMAIN SubSeq(s, 1, n) : SubSeq(s, 1, n)[i] \notin {"eos"}}
<1>1. PICK f \in KeptLoops(E, s, I) : TRUE
    BY KeptTurns
<1>2. /\ f[0] = <<>> /\ Len(s) \in Nat
      /\ \A i \in 1 .. Len(s) : f[i] = IF i \in I THEN Append(f[i - 1], s[i]) ELSE f[i - 1]
    BY <1>1, Elements DEF KeptLoops
<1>3. \A n \in 0 .. Len(s) : \A i \in 1 .. n : i \in I <=> i \in J(n)
    <2> SUFFICES ASSUME NEW n \in 0 .. Len(s), NEW i \in 1 .. n PROVE i \in I <=> i \in J(n)
        OBVIOUS
    <2> DEFINE p == SubSeq(s, 1, n)
    <2>1. p \in Seq(E) /\ Len(p) = n /\ p[i] = s[i]
        BY Beginning
    <2> HIDE DEF p
    <2>2. DOMAIN p = 1 .. n /\ i \in 1 .. Len(s)
        BY <1>2, <2>1, Elements
    <2> QED BY <2>1, <2>2 DEF p
<1>4. \A n \in 0 .. Len(s) : Visible(SubSeq(s, 1, n)) = Kept(SubSeq(s, 1, n), J(n))
    BY DEF Visible, Without
<1> HIDE DEF J
<1>5. ASSUME NEW n \in 0 .. Len(s) PROVE Visible(SubSeq(s, 1, n)) = f[n]
    <2> DEFINE K == J(n)
    <2>1. \A i \in 1 .. n : i \in I <=> i \in K
        BY <1>3
    <2> HIDE DEF K, I
    <2>2. Kept(SubSeq(s, 1, n), K) = f[n]
        BY <1>1, <2>1, KeptPrefix
    <2> QED BY <1>4, <2>2 DEF K
<1>6. 0 \in 0 .. Len(s) /\ \A n \in 1 .. Len(s) : n \in 0 .. Len(s) /\ n - 1 \in 0 .. Len(s)
    BY <1>2
<1>7. \A n \in 1 .. Len(s) : n \in I <=> s[n] # "eos"
    OBVIOUS
<1> HIDE DEF I
<1> QED BY <1>2, <1>5, <1>6, <1>7

LEMMA DecodeAppend ==
    ASSUME NEW E, {"hh", "?"} \subseteq E, NEW p \in Seq(E), NEW q \in Seq(E), NEW x,
           Visible(q) = Append(Visible(p), x)
    PROVE  Decode(q) = Shown(Decode(p), x)
<1> DEFINE v == Visible(p)
           u == Visible(q)
           m == Len(v)
<1>1. v \in Seq(E) /\ u \in Seq(E) /\ u = Append(v, x) /\ m \in Nat
    BY VisibleTyped, Elements
<1>2. PICK f \in DecodingLoops(E, p) : TRUE
    BY DecodingTurns
<1>3. PICK g \in DecodingLoops(E, q) : TRUE
    BY DecodingTurns
<1>4. f[0] = <<>> /\ (\A i \in 1 .. m : f[i] = Shown(f[i - 1], v[i])) /\ Decode(p) = f[m]
    BY <1>2 DEF DecodingLoops
<1>5. g[0] = <<>> /\ (\A i \in 1 .. Len(u) : g[i] = Shown(g[i - 1], u[i])) /\ Decode(q) = g[Len(u)]
    BY <1>3 DEF DecodingLoops
<1> HIDE DEF v, u
<1>6. /\ DOMAIN v = 1 .. m /\ Len(u) = m + 1
      /\ (\A i \in 1 .. m : u[i] = v[i]) /\ u[m + 1] = x
    BY <1>1
<1> HIDE DEF m
<1> DEFINE T == {i \in 0 .. m : g[i] = f[i]}
<1>7. 0 \in T
    BY <1>1, <1>4, <1>5
<1>8. ASSUME NEW i \in 1 .. m, i - 1 \in T PROVE i \in T
    <2>1. g[i - 1] = f[i - 1] /\ i \in 0 .. m /\ u[i] = v[i] /\ i \in 1 .. Len(u)
        BY <1>1, <1>6, <1>8
    <2>2. g[i] = f[i]
        BY <1>4, <1>5, <2>1
    <2> QED BY <2>1, <2>2
<1> HIDE DEF T
<1>9. m \in T
    <2>1. m \in Nat
        BY <1>1
    <2>2. \A i \in 0 .. m : i \in T
        BY <1>7, <1>8, <2>1, LoopInduction
    <2> QED BY <2>1, <2>2
<1>10. m + 1 \in 1 .. Len(u) /\ (m + 1) - 1 = m
    BY <1>1, <1>6
<1>11. g[m] = f[m]
    BY <1>9 DEF T
<1> QED BY <1>4, <1>5, <1>6, <1>10, <1>11

\* The text of the first n tokens.
LEMMA DecodeSteps ==
    ASSUME NEW E, {"hh", "?"} \subseteq E, NEW s \in Seq(E)
    PROVE  /\ Decode(SubSeq(s, 1, 0)) = <<>>
           /\ \A n \in 1 .. Len(s) :
                 Decode(SubSeq(s, 1, n)) = IF s[n] = "eos" THEN Decode(SubSeq(s, 1, n - 1))
                                           ELSE Shown(Decode(SubSeq(s, 1, n - 1)), s[n])
           /\ \A n \in 0 .. Len(s) : Decode(SubSeq(s, 1, n)) \in Seq(E)
<1>1. Len(s) \in Nat /\ 0 \in 0 .. Len(s)
    BY Elements
<1>2. \A n \in 0 .. Len(s) : SubSeq(s, 1, n) \in Seq(E)
    BY Beginning
<1>3. \A n \in 0 .. Len(s) : Decode(SubSeq(s, 1, n)) \in Seq(E)
    BY <1>2, DecodeTyped
<1>4. Decode(SubSeq(s, 1, 0)) = <<>>
    <2> DEFINE p == SubSeq(s, 1, 0)
    <2>1. p \in Seq(E) /\ Visible(p) = <<>>
        BY <1>1, <1>2, VisibleSteps
    <2> HIDE DEF p
    <2>2. PICK f \in DecodingLoops(E, p) : TRUE
        BY <2>1, DecodingTurns
    <2>3. Len(Visible(p)) = 0
        BY <2>1
    <2>4. f[0] = <<>> /\ Decode(p) = f[Len(Visible(p))]
        BY <2>2 DEF DecodingLoops
    <2> QED BY <2>3, <2>4 DEF p
<1>5. ASSUME NEW n \in 1 .. Len(s)
      PROVE  Decode(SubSeq(s, 1, n)) = IF s[n] = "eos" THEN Decode(SubSeq(s, 1, n - 1))
                                       ELSE Shown(Decode(SubSeq(s, 1, n - 1)), s[n])
    <2> DEFINE p == SubSeq(s, 1, n - 1)
               q == SubSeq(s, 1, n)
    <2>1. p \in Seq(E) /\ q \in Seq(E)
        BY <1>1, <1>2
    <2>2. Visible(q) = IF s[n] = "eos" THEN Visible(p) ELSE Append(Visible(p), s[n])
        BY VisibleSteps
    <2> HIDE DEF p, q
    <2>3. CASE s[n] = "eos"
        BY <2>2, <2>3 DEF Decode, p, q
    <2>4. CASE s[n] # "eos"
        <3>1. Decode(q) = Shown(Decode(p), s[n])
            BY <2>1, <2>2, <2>4, DecodeAppend
        <3> QED BY <2>4, <3>1 DEF p, q
    <2> QED BY <2>3, <2>4
<1> QED BY <1>3, <1>4, <1>5

\* What is shown of one more token: it follows, or half a character becomes one.
LEMMA ShownIs ==
    ASSUME NEW E, {"hh", "?"} \subseteq E, NEW y \in Seq(E), NEW x \in E
    PROVE  \/ x # "h" /\ Shown(y, x) = Append(y, x)
           \/ x = "h" /\ Shown(y, x) = Append(y, "?")
           \/ x = "h" /\ \E z \in Seq(E) : y = Append(z, "?") /\ Shown(y, x) = Append(z, "hh")
<1>1. CASE y # <<>> /\ Last(y) = "?"
    <2> DEFINE z == Front(y)
    <2>1. Len(y) \in Nat \ {0} /\ Len(y) - 1 \in 0 .. Len(y)
        BY <1>1, EmptySeq, Elements
    <2>2. z \in Seq(E) /\ Len(z) = Len(y) - 1 /\ \A i \in 1 .. Len(y) - 1 : z[i] = y[i]
        BY <2>1, Beginning DEF Front
    <2>3. y[Len(y)] = "?"
        BY <1>1 DEF Last
    <2> HIDE DEF z
    <2>4. Append(z, "?") \in Seq(E) /\ Len(Append(z, "?")) = Len(y)
          /\ \A i \in 1 .. Len(y) : Append(z, "?")[i] = y[i]
        <3>1. /\ Append(z, "?") \in Seq(E) /\ Len(Append(z, "?")) = Len(z) + 1
              /\ (\A i \in 1 .. Len(z) : Append(z, "?")[i] = z[i]) /\ Append(z, "?")[Len(z) + 1] = "?"
            BY <2>2, Appended
        <3> DEFINE n == Len(y)
        <3> HIDE DEF n
        <3>2. n \in Nat \ {0} /\ Len(z) = n - 1 /\ (\A i \in 1 .. n - 1 : z[i] = y[i]) /\ y[n] = "?"
            BY <2>1, <2>2, <2>3 DEF n
        <3>3. \A i \in 1 .. n : i \in 1 .. n - 1 \/ i = n
            BY <3>2
        <3> QED BY <3>1, <3>2, <3>3 DEF n
    <2>5. y = Append(z, "?")
        <3>1. /\ y = [i \in 1 .. Len(y) |-> y[i]]
              /\ Append(z, "?") = [i \in 1 .. Len(Append(z, "?")) |-> Append(z, "?")[i]]
            BY <2>4, LenProperties
        <3> QED BY <2>4, <3>1
    <2>6. Shown(y, x) = IF x # "h" THEN Append(y, x) ELSE Append(z, "hh")
        BY <1>1 DEF Shown, z
    <2> QED BY <2>2, <2>5, <2>6
<1>2. CASE ~(y # <<>> /\ Last(y) = "?")
    BY <1>2 DEF Shown
<1> QED BY <1>1, <1>2

-----------------------------------------------------------------------------
(* What a client that streams is sent. *)

StableAt(y) == Max({0} \cup {i \in DOMAIN y : y[i] # "?"})

LEMMA StableIs ==
    ASSUME NEW E, NEW y \in Seq(E)
    PROVE  /\ StableAt(y) \in 0 .. Len(y) /\ (StableAt(y) # 0 => y[StableAt(y)] # "?")
           /\ \A i \in 1 .. Len(y) : y[i] # "?" => i <= StableAt(y)
           /\ Stable(y) = SubSeq(y, 1, StableAt(y)) /\ Stable(y) \in Seq(E)
           /\ Len(Stable(y)) = StableAt(y) /\ \A i \in 1 .. StableAt(y) : Stable(y)[i] = y[i]
<1> DEFINE n == Len(y)
           T == {i \in 1 .. n : y[i] # "?"}
           k == StableAt(y)
<1>1. DOMAIN y = 1 .. n /\ n \in Nat
    BY Elements
<1>2. k = Max({0} \cup T)
    BY <1>1 DEF StableAt
<1>3. k \in {0} \cup T /\ \A i \in {0} \cup T : k >= i
    <2>1. \E m \in {0} \cup T : \A i \in {0} \cup T : m >= i
        <3>1. CASE T = {}
            BY <3>1
        <3>2. CASE T # {}
            <4>1. T \in SUBSET (1 .. n)
                OBVIOUS
            <4> HIDE DEF T, n
            <4>2. Max(T) \in T /\ Max(T) \in 1 .. n /\ \A i \in T : Max(T) >= i
                BY <1>1, <3>2, <4>1, TopOf
            <4> QED BY <1>1, <4>2
        <3> QED BY <3>1, <3>2
    <2> HIDE DEF k, T
    <2> QED BY <1>2, <2>1 DEF Max
<1>4. k \in 0 .. n /\ (k # 0 => y[k] # "?") /\ \A i \in 1 .. n : y[i] # "?" => i <= k
    BY <1>1, <1>3
<1>5. Stable(y) = SubSeq(y, 1, k)
    BY DEF Stable, StableAt
<1> HIDE DEF k, T
<1>6. SubSeq(y, 1, k) \in Seq(E) /\ Len(SubSeq(y, 1, k)) = k /\ \A i \in 1 .. k : SubSeq(y, 1, k)[i] = y[i]
    BY <1>4, Beginning
<1> QED BY <1>4, <1>5, <1>6 DEF k

\* s is how t begins.
Begins(s, t) == Len(s) <= Len(t) /\ \A i \in 1 .. Len(s) : s[i] = t[i]

\* What is stable stays when more is shown.
LEMMA StableGrows ==
    ASSUME NEW E, {"hh", "?"} \subseteq E, NEW y \in Seq(E), NEW x \in E
    PROVE  Begins(Stable(y), Stable(Shown(y, x)))
<1> DEFINE k == StableAt(y)
           v == Shown(y, x)
           m == StableAt(v)
<1>1. k \in 0 .. Len(y) /\ (k # 0 => y[k] # "?") /\ Len(Stable(y)) = k
      /\ (\A i \in 1 .. k : Stable(y)[i] = y[i]) /\ Len(y) \in Nat
    BY StableIs, Elements
<1>2. v \in Seq(E)
    BY ShownTyped
<1> HIDE DEF v
<1>3. m \in 0 .. Len(v) /\ (\A i \in 1 .. Len(v) : v[i] # "?" => i <= m) /\ Len(Stable(v)) = m
      /\ \A i \in 1 .. m : Stable(v)[i] = v[i]
    BY <1>2, StableIs
<1>4. k <= Len(v) /\ \A i \in 1 .. k : v[i] = y[i]
    <2>1. CASE v = Append(y, x) \/ v = Append(y, "?")
        <3>1. Len(v) = Len(y) + 1 /\ \A i \in 1 .. Len(y) : v[i] = y[i]
            BY <2>1, Appended
        <3> HIDE DEF k
        <3> QED BY <1>1, <3>1
    <2>2. ASSUME NEW z \in Seq(E), y = Append(z, "?"), v = Append(z, "hh") PROVE k <= Len(v) /\ \A i \in 1 .. k : v[i] = y[i]
        <3>1. /\ Len(y) = Len(z) + 1 /\ Len(v) = Len(z) + 1 /\ y[Len(z) + 1] = "?" /\ Len(z) \in Nat
              /\ \A i \in 1 .. Len(z) : v[i] = z[i] /\ y[i] = z[i]
            BY <2>2, Appended, Elements
        <3> DEFINE l == Len(z)
        <3> HIDE DEF k, l
        <3>2. k \in 0 .. l + 1 /\ k # l + 1 /\ l \in Nat
            BY <1>1, <3>1 DEF l
        <3>3. k <= l
            BY <3>2
        <3> QED BY <3>1, <3>2, <3>3 DEF l
    <2> QED BY <2>1, <2>2, ShownIs DEF v
<1> HIDE DEF k, m
<1>5. k <= m
    <2>1. CASE k = 0
        BY <1>3, <2>1
    <2>2. CASE k # 0
        <3>1. k \in 1 .. k /\ k \in 1 .. Len(v)
            BY <1>1, <1>2, <1>4, <2>2, Elements
        <3>2. v[k] # "?"
            BY <1>1, <1>4, <2>2, <3>1
        <3> QED BY <1>3, <3>1, <3>2
    <2> QED BY <2>1, <2>2
<1>6. \A i \in 1 .. k : i \in 1 .. m
    BY <1>1, <1>2, <1>3, <1>5, Elements
<1> QED BY <1>1, <1>3, <1>4, <1>5, <1>6 DEF Begins, v

\* What was sent and what is new make the text.
LEMMA DeltaIs ==
    ASSUME NEW E, NEW s \in Seq(E), NEW t \in Seq(E), Begins(s, t)
    PROVE  s \o Delta(t, s) = t
<1> DEFINE m == Len(s)
           n == Len(t)
           d == Delta(t, s)
<1>1. m \in Nat /\ n \in Nat /\ m <= n /\ \A i \in 1 .. m : s[i] = t[i]
    BY Elements DEF Begins
<1>2. d = SubSeq(t, m + 1, n)
    BY DEF Delta
<1> HIDE DEF d
<1>3. m + 1 \in Nat \ {0} /\ n \in Int
    BY <1>1
<1>4. /\ d \in Seq(E) /\ Len(d) = IF m + 1 <= n THEN n - (m + 1) + 1 ELSE 0
      /\ \A i \in 1 .. Len(d) : d[i] = t[m + 1 + i - 1]
    <2>1. n <= Len(t)
        BY <1>1
    <2> HIDE DEF m, n
    <2> QED BY <1>2, <1>3, <2>1, Cut
<1>5. /\ s \o d \in Seq(E) /\ Len(s \o d) = Len(s) + Len(d)
      /\ (\A i \in 1 .. Len(s) : (s \o d)[i] = s[i]) /\ \A i \in 1 .. Len(d) : (s \o d)[Len(s) + i] = d[i]
    BY <1>4, Joined
<1> DEFINE u == s \o d
           l == Len(d)
<1>6. l = n - m /\ Len(u) = m + l /\ (\A i \in 1 .. m : u[i] = s[i]) /\ \A i \in 1 .. l : u[m + i] = t[m + 1 + i - 1]
    <2> HIDE DEF m, n
    <2>1. l = n - m
        BY <1>1, <1>4
    <2>2. \A i \in 1 .. l : u[m + i] = t[m + 1 + i - 1]
        BY <1>4, <1>5 DEF m
    <2> QED BY <1>5, <2>1, <2>2 DEF m
<1>7. u \in Seq(E)
    BY <1>5
<1> HIDE DEF u, l, m, n
<1>8. ASSUME NEW i \in 1 .. n PROVE u[i] = t[i]
    <2>1. CASE i <= m
        BY <1>1, <1>6, <2>1
    <2>2. CASE ~(i <= m)
        <3>1. i - m \in 1 .. l /\ m + (i - m) = i /\ m + 1 + (i - m) - 1 = i
            BY <1>1, <1>6, <2>2
        <3>2. u[m + (i - m)] = t[m + 1 + (i - m) - 1]
            BY <1>6, <3>1
        <3> QED BY <3>1, <3>2
    <2> QED BY <2>1, <2>2
<1>9. Len(u) = n
    BY <1>1, <1>6
<1>10. u = [i \in 1 .. Len(u) |-> u[i]] /\ t = [i \in 1 .. n |-> t[i]]
    BY <1>7, LenProperties DEF n
<1> QED BY <1>8, <1>9, <1>10 DEF u, d

LEMMA BeginsItself ==
    ASSUME NEW E, NEW y \in Seq(E)
    PROVE  Begins(y, y) /\ Begins(Stable(y), y)
<1>1. Len(y) \in Nat
    BY Elements
<1>2. StableAt(y) \in 0 .. Len(y) /\ Len(Stable(y)) = StableAt(y)
      /\ \A i \in 1 .. StableAt(y) : Stable(y)[i] = y[i]
    BY StableIs
<1>3. StableAt(y) <= Len(y)
    BY <1>1, <1>2
<1> QED BY <1>1, <1>2, <1>3 DEF Begins

Streamed(texts) == FoldLeft(Emit, [sent |-> <<>>, emitted |-> <<>>], texts)

\* What is sent, text after text.
EmittingLoops(E, texts) ==
    {f \in [0 .. Len(texts) -> [sent : Seq(E), emitted : Seq(E)]] :
        /\ f[0] = [sent |-> <<>>, emitted |-> <<>>]
        /\ \A i \in 1 .. Len(texts) : f[i] = Emit(f[i - 1], texts[i])
        /\ Streamed(texts) = f[Len(texts)]}

LEMMA EmittingTurns ==
    ASSUME NEW E, NEW texts \in Seq(Seq(E))
    PROVE  EmittingLoops(E, texts) # {}
<1> DEFINE n == Len(texts)
           X == [sent : Seq(E), emitted : Seq(E)]
           base == [sent |-> <<>>, emitted |-> <<>>]
           Op(v, i) == Emit(v, texts[i])
           g == [p \in X \X (1 .. n) |-> Op(p[1], p[2])]
           Is(f) == f = [u \in SUBSET (1 .. n) |->
                           IF u = {} THEN base ELSE Op(f[u \ {Max(u)}], Max(u))]
           F == CHOOSE f : Is(f)
<1>1. n \in Nat
    BY Elements
<1>2. Streamed(texts) = F[1 .. n]
    <2>1. DOMAIN texts = 1 .. Len(texts)
        BY Elements
    <2> QED BY <1>1, <2>1 DEF Streamed, FoldLeft, MapThenFoldSet
<1>3. \A v \in X, i \in 1 .. n : Op(v, i) \in X
    <2> SUFFICES ASSUME NEW v \in X, NEW i \in 1 .. n PROVE Op(v, i) \in X
        OBVIOUS
    <2>1. texts[i] \in Seq(E) /\ v.sent \in Seq(E) /\ v.emitted \in Seq(E)
        BY Elements
    <2>2. Len(v.emitted) + 1 \in Nat \ {0} /\ Len(texts[i]) \in Int /\ Len(texts[i]) <= Len(texts[i])
        BY <2>1, Elements
    <2>3. Delta(texts[i], v.emitted) \in Seq(E)
        BY <2>1, <2>2, Cut DEF Delta
    <2>4. v.sent \o Delta(texts[i], v.emitted) \in Seq(E)
        BY <2>1, <2>3, ConcatProperties
    <2> QED BY <2>1, <2>4 DEF Emit
<1>4. base \in X
    OBVIOUS
<1> HIDE DEF n, X, Op, base
<1>5. IsLoop(n, X, base, g) /\ \A v \in X, i \in 1 .. n : g[<<v, i>>] = Op(v, i)
    BY <1>1, <1>3, <1>4 DEF IsLoop
<1> HIDE DEF g
<1>6. PICK f \in [SUBSET (1 .. n) -> X] :
          \A u \in SUBSET (1 .. n) : f[u] = IF u = {} THEN base ELSE g[<<f[u \ {Max(u)}], Max(u)>>]
    <2>1. LoopFolds(n, X, base, g) # {}
        BY <1>5, FoldExists
    <2> QED BY <2>1 DEF LoopFolds
<1>7. Is(f)
    <2>1. \A u \in SUBSET (1 .. n) : u # {} =>
              Max(u) \in 1 .. n /\ u \ {Max(u)} \in SUBSET (1 .. n)
        BY <1>1, TopOf
    <2>2. \A u \in SUBSET (1 .. n) : u # {} => f[u] = Op(f[u \ {Max(u)}], Max(u))
        BY <1>5, <1>6, <2>1
    <2> QED BY <1>6, <2>2
<1> HIDE DEF Is
<1>8. Is(F)
    BY <1>7
<1> HIDE DEF F
<1>9. F[{}] = base /\ \A k \in 1 .. n : F[1 .. k] = Op(F[1 .. (k - 1)], k)
    <2>1. \A u \in SUBSET (1 .. n) :
              F[u] = IF u = {} THEN base ELSE Op(F[u \ {Max(u)}], Max(u))
        BY <1>8, Zenon DEF Is
    <2>2. {} \in SUBSET (1 .. n)
        OBVIOUS
    <2>3. ASSUME NEW k \in 1 .. n PROVE F[1 .. k] = Op(F[1 .. (k - 1)], k)
        <3>1. 1 .. k \in SUBSET (1 .. n) /\ 1 .. k # {} /\ Max(1 .. k) = k
              /\ (1 .. k) \ {k} = 1 .. (k - 1)
            BY <1>1, Upto
        <3> QED BY <2>1, <3>1
    <2> QED BY <2>1, <2>2, <2>3
<1> DEFINE turns == [k \in 0 .. n |-> F[1 .. k]]
<1>10. turns \in LoopTurns(n, X, base, g)
    <2>1. \A k \in 1 .. n : F[1 .. (k - 1)] \in X => F[1 .. k] = g[<<F[1 .. (k - 1)], k>>]
        BY <1>5, <1>9
    <2> QED BY <1>5, <1>9, <2>1, FoldIsLoop
<1>11. /\ turns \in [0 .. n -> X] /\ turns[0] = base /\ turns[n] = F[1 .. n]
       /\ \A i \in 1 .. n : turns[i] = Op(turns[i - 1], i)
    <2>1. n \in 0 .. n /\ \A i \in 1 .. n : i \in 0 .. n /\ i - 1 \in 0 .. n
        BY <1>1
    <2>2. turns[n] = F[1 .. n]
        BY <2>1
    <2>3. \A i \in 1 .. n : turns[i] = F[1 .. i] /\ turns[i - 1] = F[1 .. (i - 1)]
        BY <2>1
    <2> HIDE DEF turns
    <2> QED BY <1>9, <1>10, <2>2, <2>3 DEF LoopTurns
<1>12. Streamed(texts) = turns[n]
    BY <1>2, <1>11
<1> HIDE DEF turns
<1>13. turns \in EmittingLoops(E, texts)
    BY <1>11, <1>12 DEF EmittingLoops, n, X, base, Op
<1> QED BY <1>13

\* A client that streams is sent the text of the tokens.
LEMMA StreamPassIs ==
    ASSUME NEW E, {"hh", "?"} \subseteq E, NEW s \in Seq(E)
    PROVE  StreamPass(s).sent = Decode(s)
<1> DEFINE n == Len(s)
           D(i) == Decode(SubSeq(s, 1, i))
           texts == [i \in DOMAIN s |-> Stable(Decode(SubSeq(s, 1, i)))]
<1>1. n \in Nat /\ DOMAIN s = 1 .. n /\ \A i \in 1 .. n : s[i] \in E
    BY Elements
<1>2. /\ D(0) = <<>>
      /\ \A i \in 1 .. n : D(i) = IF s[i] = "eos" THEN D(i - 1) ELSE Shown(D(i - 1), s[i])
      /\ \A i \in 0 .. n : D(i) \in Seq(E)
    BY DecodeSteps
<1>3. D(n) = Decode(s)
    <2> DEFINE p == SubSeq(s, 1, n)
    <2>1. p \in Seq(E) /\ Len(p) = n /\ \A i \in 1 .. n : p[i] = s[i]
        BY <1>1, Beginning
    <2> HIDE DEF p
    <2>2. p = [i \in 1 .. Len(p) |-> p[i]] /\ s = [i \in 1 .. n |-> s[i]]
        BY <2>1, LenProperties
    <2>3. p = s
        BY <2>1, <2>2
    <2> QED BY <2>3 DEF p
<1>4. /\ texts = [i \in 1 .. n |-> Stable(D(i))]
      /\ StreamPass(s).sent = Streamed(texts).sent \o Delta(Decode(s), Streamed(texts).emitted)
    BY <1>1 DEF StreamPass, Streamed
<1> HIDE DEF texts, D, n
<1>5. \A i \in 0 .. n : Stable(D(i)) \in Seq(E)
    BY <1>2, StableIs
<1>6. texts \in Seq(Seq(E)) /\ Len(texts) = n /\ \A i \in 1 .. n : texts[i] = Stable(D(i))
    <2>1. texts \in Seq(Seq(E)) /\ DOMAIN texts = 1 .. n
        BY <1>1, <1>4, <1>5
    <2> QED BY <1>1, <1>4, <2>1, LenProperties
<1>7. PICK f \in EmittingLoops(E, texts) : TRUE
    BY <1>6, EmittingTurns
<1>8. /\ f \in [0 .. n -> [sent : Seq(E), emitted : Seq(E)]] /\ f[0] = [sent |-> <<>>, emitted |-> <<>>]
      /\ (\A i \in 1 .. n : f[i] = Emit(f[i - 1], texts[i])) /\ Streamed(texts) = f[n]
    BY <1>6, <1>7 DEF EmittingLoops
<1>9. Stable(D(0)) = <<>>
    <2>1. StableAt(D(0)) \in 0 .. Len(D(0)) /\ Len(Stable(D(0))) = StableAt(D(0)) /\ Stable(D(0)) \in Seq(E)
        <3>1. D(0) \in Seq(E)
            BY <1>1, <1>2
        <3> QED BY <3>1, StableIs
    <2>2. Len(D(0)) = 0
        BY <1>2
    <2>3. Len(Stable(D(0))) = 0
        BY <2>1, <2>2
    <2> QED BY <2>1, <2>3, EmptySeq
<1> DEFINE T == {i \in 0 .. n : f[i].sent = Stable(D(i)) /\ f[i].emitted = Stable(D(i))}
<1>10. 0 \in T
    BY <1>1, <1>8, <1>9
<1>11. ASSUME NEW i \in 1 .. n, i - 1 \in T PROVE i \in T
    <2>1. i - 1 \in 0 .. n /\ i \in 0 .. n /\ f[i - 1].sent = Stable(D(i - 1))
          /\ f[i - 1].emitted = Stable(D(i - 1))
        BY <1>1, <1>11
    <2>2. D(i - 1) \in Seq(E) /\ Stable(D(i - 1)) \in Seq(E) /\ Stable(D(i)) \in Seq(E)
        BY <1>2, <1>5, <2>1
    <2>3. Begins(Stable(D(i - 1)), Stable(D(i)))
        <3>1. CASE s[i] = "eos"
            BY <1>2, <2>2, <3>1, BeginsItself
        <3>2. CASE s[i] # "eos"
            <4>1. Begins(Stable(D(i - 1)), Stable(Shown(D(i - 1), s[i])))
                BY <1>1, <2>2, StableGrows
            <4> QED BY <1>2, <3>2, <4>1
        <3> QED BY <3>1, <3>2
    <2>4. Stable(D(i - 1)) \o Delta(Stable(D(i)), Stable(D(i - 1))) = Stable(D(i))
        BY <2>2, <2>3, DeltaIs
    <2> DEFINE new == f[i - 1].sent \o Delta(texts[i], f[i - 1].emitted)
               r == f[i]
    <2>5. r = [sent |-> new, emitted |-> texts[i]]
        <3>1. f[i] = Emit(f[i - 1], texts[i])
            BY <1>8
        <3> QED BY <3>1 DEF Emit
    <2>6. r.sent = new /\ r.emitted = texts[i]
        <3> HIDE DEF new, r
        <3> QED BY <2>5
    <2>7. f[i].sent = Stable(D(i)) /\ f[i].emitted = Stable(D(i))
        BY <1>6, <2>1, <2>4, <2>6
    <2> QED BY <2>1, <2>7
<1> HIDE DEF T
<1>12. n \in T
    <2>1. \A i \in 0 .. n : i \in T
        BY <1>1, <1>10, <1>11, LoopInduction
    <2> QED BY <1>1, <2>1
<1>13. f[n].sent = Stable(D(n)) /\ f[n].emitted = Stable(D(n))
    BY <1>12 DEF T
<1>14. D(n) \in Seq(E) /\ Stable(D(n)) \in Seq(E)
    BY <1>1, <1>2, <1>5
<1>15. Stable(D(n)) \o Delta(D(n), Stable(D(n))) = D(n)
    BY <1>14, BeginsItself, DeltaIs
<1> QED BY <1>3, <1>4, <1>8, <1>13, <1>15

-----------------------------------------------------------------------------
(* Thoughts in the text that is shown. *)

HasFinal(y) == \E j \in 1 .. Len(y) : y[j] = "fs"

\* What one more token changes.
LEMMA OneMore ==
    ASSUME NEW y \in Seq(Word), NEW x \in Word
    PROVE  LET u == Append(y, x) IN
           /\ HasFinal(u) <=> HasFinal(y) \/ x = "fs"
           /\ Open(u, Len(u)) <=> x = "ts" \/ (Open(y, Len(y)) /\ x # "te")
           /\ Tidy(u) <=> Tidy(y) /\ (x = "t" => Open(y, Len(y)) /\ ~HasFinal(y))
<1> DEFINE u == Append(y, x)
           n == Len(y)
<1>1. /\ n \in Nat /\ Len(u) = n + 1 /\ DOMAIN y = 1 .. n /\ DOMAIN u = 1 .. n + 1 /\ u[n + 1] = x
      /\ \A i \in 1 .. n : u[i] = y[i]
    <2>1. u \in Seq(Word)
        BY Appended
    <2> QED BY <2>1, Appended, Elements
<1> HIDE DEF u
<1>2. /\ \A i \in 1 .. n + 1 : i \in 1 .. n \/ i = n + 1
      /\ \A i \in 1 .. n : i \in 1 .. n + 1
      /\ n + 1 \in 1 .. n + 1 /\ n + 1 \notin 1 .. n
    BY <1>1
<1>3. HasFinal(u) <=> HasFinal(y) \/ x = "fs"
    BY <1>1, <1>2 DEF HasFinal
<1>4. \A i \in 1 .. n : Open(u, i) <=> Open(y, i)
    <2> SUFFICES ASSUME NEW i \in 1 .. n PROVE Open(u, i) <=> Open(y, i)
        OBVIOUS
    <2>1. ASSUME NEW k \in 1 .. i PROVE k \in 1 .. n /\ \A j \in k .. i : j \in 1 .. n
        BY <1>1
    <2> HIDE DEF n
    <2>2. \A k \in 1 .. i : u[k] = y[k] /\ \A j \in k .. i : u[j] = y[j]
        BY <1>1, <2>1
    <2> QED BY <2>2 DEF Open
<1>5. Open(u, n + 1) <=> x = "ts" \/ (Open(y, n) /\ x # "te")
    <2>1. ASSUME Open(u, n + 1) PROVE x = "ts" \/ (Open(y, n) /\ x # "te")
        <3>1. PICK k \in 1 .. n + 1 : u[k] = "ts" /\ \A j \in k .. n + 1 : u[j] # "te"
            BY <2>1 DEF Open
        <3>2. CASE k = n + 1
            BY <1>1, <3>1, <3>2
        <3>3. CASE k # n + 1
            <4>1. k \in 1 .. n /\ n + 1 \in k .. n + 1 /\ \A j \in k .. n : j \in k .. n + 1 /\ j \in 1 .. n
                BY <1>1, <3>1, <3>3
            <4> HIDE DEF n
            <4>2. y[k] = "ts" /\ \A j \in k .. n : y[j] # "te"
                BY <1>1, <3>1, <4>1
            <4>3. x # "te"
                BY <1>1, <3>1, <4>1
            <4> QED BY <4>1, <4>2, <4>3 DEF Open
        <3> QED BY <3>2, <3>3
    <2>2. ASSUME x = "ts" PROVE Open(u, n + 1)
        <3>1. \A j \in n + 1 .. n + 1 : j = n + 1
            BY <1>1
        <3> HIDE DEF n
        <3> QED BY <1>1, <1>2, <2>2, <3>1 DEF Open
    <2>3. ASSUME Open(y, n), x # "te" PROVE Open(u, n + 1)
        <3>1. PICK k \in 1 .. n : y[k] = "ts" /\ \A j \in k .. n : y[j] # "te"
            BY <2>3 DEF Open
        <3>2. k \in 1 .. n + 1 /\ \A j \in k .. n + 1 : j = n + 1 \/ (j \in k .. n /\ j \in 1 .. n)
            BY <1>1
        <3> HIDE DEF n
        <3>3. u[k] = "ts" /\ \A j \in k .. n + 1 : u[j] # "te"
            BY <1>1, <2>3, <3>1, <3>2
        <3> QED BY <3>2, <3>3 DEF Open
    <2> QED BY <2>1, <2>2, <2>3
<1>6. Tidy(u) <=> Tidy(y) /\ (x = "t" => Open(y, n) /\ ~HasFinal(y))
    <2> DEFINE No(v, i) == \A j \in 1 .. i : v[j] # "fs"
               Ok(v, i) == v[i] = "t" => Open(v, i) /\ No(v, i)
    <2>1. (Tidy(u) <=> \A i \in 1 .. n + 1 : Ok(u, i)) /\ (Tidy(y) <=> \A i \in 1 .. n : Ok(y, i))
        BY <1>1 DEF Tidy
    <2>2. \A i \in 1 .. n : No(u, i) <=> No(y, i)
        <3>1. \A i \in 1 .. n : \A j \in 1 .. i : j \in 1 .. n
            BY <1>1
        <3> HIDE DEF n
        <3> QED BY <1>1, <3>1
    <2>3. No(u, n + 1) <=> ~HasFinal(y) /\ x # "fs"
        <3> HIDE DEF n
        <3>1. No(u, n + 1) <=> (\A j \in 1 .. n : y[j] # "fs") /\ x # "fs"
            BY <1>1, <1>2
        <3>2. HasFinal(y) <=> \E j \in 1 .. n : y[j] = "fs"
            BY DEF HasFinal, n
        <3> QED BY <3>1, <3>2
    <2> HIDE DEF No
    <2>4. \A i \in 1 .. n : Ok(u, i) <=> Ok(y, i)
        BY <1>1, <1>4, <2>2
    <2>5. Ok(u, n + 1) <=> (x = "t" => Open(y, n) /\ ~HasFinal(y))
        BY <1>1, <1>5, <2>3
    <2> HIDE DEF Ok, n
    <2> QED BY <1>2, <2>1, <2>4, <2>5
<1> QED BY <1>1, <1>3, <1>5, <1>6 DEF u

\* y is tidy text for the tokens z.
Alike(z, y) ==
    /\ HasFinal(y) => HasFinal(z)
    /\ Open(z, Len(z)) => Open(y, Len(y))
    /\ Tidy(y)

LEMMA AlikeSteps ==
    ASSUME NEW z \in Seq(Word), NEW y \in Seq(Word), NEW x \in Word, Alike(z, y), Tidy(Append(z, x))
    PROVE  /\ x = "eos" => Alike(Append(z, x), y)
           /\ Alike(Append(z, x), Append(y, x))
           /\ x = "h" => Alike(Append(z, x), Append(y, "?"))
           /\ x = "h" => \A v \in Seq(Word) : y = Append(v, "?") => Alike(Append(z, x), Append(v, "hh"))
<1>1. "?" \in Word /\ "hh" \in Word
    BY DEF Word
<1>2. /\ HasFinal(Append(z, x)) <=> HasFinal(z) \/ x = "fs"
      /\ Open(Append(z, x), Len(Append(z, x))) <=> x = "ts" \/ (Open(z, Len(z)) /\ x # "te")
      /\ x = "t" => Open(z, Len(z)) /\ ~HasFinal(z)
    BY OneMore
<1>3. \A v \in Seq(Word), e \in Word :
         /\ HasFinal(Append(v, e)) <=> HasFinal(v) \/ e = "fs"
         /\ Open(Append(v, e), Len(Append(v, e))) <=> e = "ts" \/ (Open(v, Len(v)) /\ e # "te")
         /\ Tidy(Append(v, e)) <=> Tidy(v) /\ (e = "t" => Open(v, Len(v)) /\ ~HasFinal(v))
    BY OneMore
<1>4. x = "eos" => Alike(Append(z, x), y)
    BY <1>2 DEF Alike
<1>5. Alike(Append(z, x), Append(y, x))
    BY <1>2, <1>3 DEF Alike
<1>6. x = "h" => Alike(Append(z, x), Append(y, "?"))
    BY <1>1, <1>2, <1>3 DEF Alike
<1>7. ASSUME x = "h", NEW v \in Seq(Word), y = Append(v, "?") PROVE Alike(Append(z, x), Append(v, "hh"))
    <2>1. /\ HasFinal(y) <=> HasFinal(v)
          /\ Open(y, Len(y)) <=> Open(v, Len(v))
          /\ Tidy(y) <=> Tidy(v)
        BY <1>1, <1>3, <1>7
    <2>2. /\ HasFinal(Append(v, "hh")) <=> HasFinal(v)
          /\ Open(Append(v, "hh"), Len(Append(v, "hh"))) <=> Open(v, Len(v))
          /\ Tidy(Append(v, "hh")) <=> Tidy(v)
        BY <1>1, <1>3
    <2> QED BY <1>2, <1>7, <2>1, <2>2 DEF Alike
<1> QED BY <1>4, <1>5, <1>6, <1>7

LEMMA TidyBegins ==
    ASSUME NEW a \in Seq(Word), NEW b \in Seq(Word), Begins(a, b), Tidy(b)
    PROVE  Tidy(a)
<1> DEFINE m == Len(a)
<1>1. DOMAIN a = 1 .. m /\ m \in Nat /\ DOMAIN b = 1 .. Len(b) /\ Len(b) \in Nat /\ m <= Len(b)
      /\ \A i \in 1 .. m : a[i] = b[i]
    BY Elements DEF Begins
<1>2. \A i \in 1 .. m : i \in 1 .. Len(b)
    BY <1>1
<1> SUFFICES ASSUME NEW i \in 1 .. m, a[i] = "t" PROVE Open(a, i) /\ \A j \in 1 .. i : a[j] # "fs"
    BY <1>1 DEF Tidy
<1>3. Open(b, i) /\ \A j \in 1 .. i : b[j] # "fs"
    BY <1>1, <1>2 DEF Tidy
<1>4. \A k \in 1 .. i : k \in 1 .. m /\ \A j \in k .. i : j \in 1 .. m
    BY <1>1
<1> HIDE DEF m
<1>5. \A k \in 1 .. i : a[k] = b[k] /\ \A j \in k .. i : a[j] = b[j]
    BY <1>1, <1>4
<1> QED BY <1>3, <1>5 DEF Open

LEMMA TidyJoined ==
    ASSUME NEW y \in Seq(Word), NEW v \in Seq(Word), "t" \notin ToSet(v), Tidy(y)
    PROVE  Tidy(y \o v)
<1> DEFINE u == y \o v
           m == Len(y)
           n == Len(v)
<1>1. /\ u \in Seq(Word) /\ Len(u) = m + n /\ m \in Nat /\ n \in Nat
      /\ (\A i \in 1 .. m : u[i] = y[i]) /\ \A i \in 1 .. n : u[m + i] = v[i]
    BY Joined, Elements
<1>2. \A i \in 1 .. n : v[i] # "t"
    BY Elements
<1>3. DOMAIN u = 1 .. m + n /\ DOMAIN y = 1 .. m
    BY <1>1, Elements
<1> HIDE DEF u, m, n
<1> SUFFICES ASSUME NEW i \in 1 .. m + n, u[i] = "t" PROVE Open(u, i) /\ \A j \in 1 .. i : u[j] # "fs"
    BY <1>3 DEF Tidy, u
<1>4. i \in 1 .. m
    <2>1. CASE i > m
        <3>1. i - m \in 1 .. n /\ m + (i - m) = i
            BY <1>1, <2>1
        <3>2. u[m + (i - m)] = v[i - m]
            BY <1>1, <3>1
        <3> QED BY <1>2, <3>1, <3>2
    <2> QED BY <1>1, <2>1
<1>5. Open(y, i) /\ \A j \in 1 .. i : y[j] # "fs"
    BY <1>1, <1>3, <1>4 DEF Tidy
<1>6. \A k \in 1 .. i : k \in 1 .. m /\ \A j \in k .. i : j \in 1 .. m
    BY <1>1, <1>4
<1>7. \A k \in 1 .. i : u[k] = y[k] /\ \A j \in k .. i : u[j] = y[j]
    BY <1>1, <1>6
<1> QED BY <1>5, <1>7 DEF Open

\* The beginnings of tokens, one by one.
LEMMA BeginningGrows ==
    ASSUME NEW E, NEW s \in Seq(E), NEW n \in 1 .. Len(s)
    PROVE  SubSeq(s, 1, n) = Append(SubSeq(s, 1, n - 1), s[n])
<1>1. n \in 0 .. Len(s) /\ n - 1 \in 0 .. Len(s) /\ s[n] \in E /\ n \in Nat
    BY Elements
<1> DEFINE p == SubSeq(s, 1, n - 1)
           q == SubSeq(s, 1, n)
<1>2. /\ p \in Seq(E) /\ Len(p) = n - 1 /\ (\A i \in 1 .. n - 1 : p[i] = s[i])
      /\ q \in Seq(E) /\ Len(q) = n /\ \A i \in 1 .. n : q[i] = s[i]
    BY <1>1, Beginning
<1> HIDE DEF p, q
<1> DEFINE u == Append(p, s[n])
<1>3. u \in Seq(E) /\ Len(u) = n /\ (\A i \in 1 .. n - 1 : u[i] = p[i]) /\ u[n] = s[n]
    BY <1>1, <1>2, Appended
<1> HIDE DEF u
<1>4. \A i \in 1 .. n : u[i] = q[i]
    <2>1. \A i \in 1 .. n : i \in 1 .. n - 1 \/ i = n
        BY <1>1
    <2> QED BY <1>2, <1>3, <2>1
<1>5. u = [i \in 1 .. n |-> u[i]] /\ q = [i \in 1 .. n |-> q[i]]
    BY <1>2, <1>3, LenProperties
<1> QED BY <1>4, <1>5 DEF u, p, q

LEMMA JoinedGrows ==
    ASSUME NEW E, NEW a \in Seq(E), NEW b \in Seq(E), NEW x \in E
    PROVE  a \o Append(b, x) = Append(a \o b, x)
<1>1. Append(b, x) = b \o <<x>> /\ <<x>> \in Seq(E) /\ a \o b \in Seq(E)
    BY AppendIsConcat, ConcatProperties
<1>2. Append(a \o b, x) = (a \o b) \o <<x>>
    BY <1>1, AppendIsConcat
<1> QED BY <1>1, <1>2, ConcatAssociative

\* Speech that is tidy is tidy where the budget cuts it, when it is shown.
LEMMA TidyDecoded ==
    ASSUME NEW a \in Seq(Word), NEW s \in Seq(Word), Tidy(a \o s), NEW n \in 0 .. Len(s)
    PROVE  Tidy(a \o Decode(SubSeq(s, 1, n)))
<1> DEFINE p(i) == SubSeq(s, 1, i)
           D(i) == Decode(SubSeq(s, 1, i))
           N == Len(s)
<1>1. N \in Nat /\ n \in 0 .. N /\ \A i \in 1 .. N : s[i] \in Word
    BY Elements
<1>2. /\ D(0) = <<>> /\ \A i \in 0 .. N : D(i) \in Seq(Word)
      /\ \A i \in 1 .. N : D(i) = IF s[i] = "eos" THEN D(i - 1) ELSE Shown(D(i - 1), s[i])
    BY DecodeSteps, WordsAre
<1>3. /\ \A i \in 0 .. N : p(i) \in Seq(Word) /\ Len(p(i)) = i /\ \A j \in 1 .. i : p(i)[j] = s[j]
      /\ \A i \in 1 .. N : p(i) = Append(p(i - 1), s[i])
    BY Beginning, BeginningGrows
<1> HIDE DEF p, D
<1>4. ASSUME NEW i \in 0 .. N PROVE a \o p(i) \in Seq(Word) /\ Tidy(a \o p(i))
    <2> DEFINE u == a \o p(i)
               w == a \o s
               m == Len(a)
    <2>1. /\ p(i) \in Seq(Word) /\ Len(p(i)) = i /\ \A j \in 1 .. i : p(i)[j] = s[j]
        BY <1>3
    <2>2. /\ u \in Seq(Word) /\ Len(u) = m + i /\ (\A j \in 1 .. m : u[j] = a[j])
          /\ \A j \in 1 .. i : u[m + j] = s[j]
        BY <2>1, Joined
    <2>3. /\ w \in Seq(Word) /\ Len(w) = m + N /\ (\A j \in 1 .. m : w[j] = a[j])
          /\ \A j \in 1 .. N : w[m + j] = s[j]
        BY Joined
    <2>4. m \in Nat
        BY Elements
    <2>5. Tidy(w)
        OBVIOUS
    <2> HIDE DEF u, w, m, N
    <2>6. ASSUME NEW j \in 1 .. m + i PROVE u[j] = w[j]
        <3>1. CASE j \in 1 .. m
            BY <2>2, <2>3, <3>1
        <3>2. CASE j \notin 1 .. m
            <4>1. j - m \in 1 .. i /\ j - m \in 1 .. N /\ m + (j - m) = j
                BY <1>1, <2>4, <3>2
            <4>2. u[m + (j - m)] = s[j - m] /\ w[m + (j - m)] = s[j - m]
                BY <2>2, <2>3, <4>1
            <4> QED BY <4>1, <4>2
        <3> QED BY <3>1, <3>2
    <2>7. m + i <= m + N
        BY <1>1, <2>4
    <2>8. Begins(u, w)
        BY <2>2, <2>3, <2>6, <2>7 DEF Begins
    <2>9. Tidy(u)
        BY <2>2, <2>3, <2>5, <2>8, TidyBegins
    <2> QED BY <2>2, <2>9 DEF u
<1> HIDE DEF N
<1> DEFINE T == {i \in 0 .. N : Alike(a \o p(i), a \o D(i))}
<1>5. 0 \in T
    <2>1. 0 \in 0 .. N /\ p(0) \in Seq(Word) /\ Len(p(0)) = 0
        BY <1>1, <1>3
    <2>2. p(0) = <<>>
        BY <2>1, EmptySeq
    <2>3. Alike(a \o p(0), a \o D(0))
        BY <1>2, <1>4, <2>1, <2>2 DEF Alike
    <2> QED BY <2>1, <2>3
<1>6. ASSUME NEW i \in 1 .. N, i - 1 \in T PROVE i \in T
    <2> DEFINE z == a \o p(i - 1)
               y == a \o D(i - 1)
               x == s[i]
    <2>1. i - 1 \in 0 .. N /\ i \in 0 .. N /\ Alike(z, y) /\ x \in Word
        BY <1>1, <1>6
    <2>2. z \in Seq(Word) /\ D(i - 1) \in Seq(Word) /\ p(i - 1) \in Seq(Word)
        BY <1>2, <1>3, <1>4, <2>1
    <2>3. y \in Seq(Word)
        BY <2>2, ConcatProperties
    <2>4. a \o p(i) = Append(z, x)
        <3>1. p(i) = Append(p(i - 1), x)
            BY <1>3
        <3>2. a \o Append(p(i - 1), x) = Append(a \o p(i - 1), x)
            BY <2>1, <2>2, JoinedGrows
        <3> QED BY <3>1, <3>2
    <2>5. Tidy(Append(z, x))
        BY <1>4, <2>1, <2>4
    <2> DEFINE d == D(i - 1)
    <2>6. D(i) = IF x = "eos" THEN d ELSE Shown(d, x)
        BY <1>2
    <2>7. /\ x = "eos" => Alike(Append(z, x), y)
          /\ Alike(Append(z, x), Append(y, x))
          /\ x = "h" => Alike(Append(z, x), Append(y, "?"))
          /\ x = "h" => \A v \in Seq(Word) : y = Append(v, "?") => Alike(Append(z, x), Append(v, "hh"))
        BY <2>1, <2>2, <2>3, <2>5, AlikeSteps
    <2>8. d \in Seq(Word) /\ y = a \o d /\ "?" \in Word /\ "hh" \in Word
        BY <2>2, WordsAre
    <2> HIDE DEF z, y, x, d
    <2>9. Alike(Append(z, x), a \o D(i))
        <3>1. CASE x = "eos"
            BY <2>6, <2>7, <2>8, <3>1
        <3>2. CASE x # "eos" /\ x # "h" /\ Shown(d, x) = Append(d, x)
            <4>1. a \o D(i) = Append(y, x)
                BY <2>1, <2>6, <2>8, <3>2, JoinedGrows
            <4> QED BY <2>7, <4>1
        <3>3. CASE x = "h" /\ Shown(d, x) = Append(d, "?")
            <4>1. a \o D(i) = Append(y, "?")
                <5>1. D(i) = Append(d, "?")
                    BY <2>6, <3>3
                <5>2. a \o Append(d, "?") = Append(a \o d, "?")
                    BY <2>8, JoinedGrows
                <5> QED BY <2>8, <5>1, <5>2
            <4> QED BY <2>7, <3>3, <4>1
        <3>4. ASSUME x = "h", NEW v \in Seq(Word), d = Append(v, "?"), Shown(d, x) = Append(v, "hh")
              PROVE  Alike(Append(z, x), a \o D(i))
            <4>1. y = Append(a \o v, "?") /\ a \o D(i) = Append(a \o v, "hh") /\ a \o v \in Seq(Word)
                <5>1. D(i) = Append(v, "hh")
                    BY <2>6, <3>4
                <5>2. a \o Append(v, "?") = Append(a \o v, "?") /\ a \o Append(v, "hh") = Append(a \o v, "hh")
                    BY <2>8, <3>4, JoinedGrows
                <5>3. a \o v \in Seq(Word)
                    BY <3>4, ConcatProperties
                <5> QED BY <2>8, <3>4, <5>1, <5>2, <5>3
            <4> QED BY <2>7, <3>4, <4>1
        <3>5. \/ x # "h" /\ Shown(d, x) = Append(d, x)
              \/ x = "h" /\ Shown(d, x) = Append(d, "?")
              \/ x = "h" /\ \E v \in Seq(Word) : d = Append(v, "?") /\ Shown(d, x) = Append(v, "hh")
            BY <2>1, <2>8, WordsAre, ShownIs
        <3> QED BY <3>1, <3>2, <3>3, <3>4, <3>5
    <2> QED BY <2>1, <2>4, <2>9
<1> HIDE DEF T
<1>7. n \in T
    <2>1. \A i \in 0 .. N : i \in T
        BY <1>1, <1>5, <1>6, LoopInduction
    <2> QED BY <1>1, <2>1
<1> QED BY <1>7 DEF T, Alike, D

Regroups(x, y, z) == (x \o y) \o z = x \o (y \o z)

LEMMA ConcatRegroups ==
    ASSUME NEW S, NEW x \in Seq(S), NEW y \in Seq(S), NEW z \in Seq(S)
    PROVE  Regroups(x, y, z)
BY ConcatAssociative DEF Regroups

\* An answer: its thoughts are tidy, and it is what a client that streams is sent
\* where no stop sequence ends a pass.
LEMMA AnswerExact ==
    ASSUME PlainSpeech, NEW prompt \in Nat, NEW thinking \in Nat, NEW speech \in Speech, NEW ending \in Final,
           NEW stops \in Stops
    PROVE  LET a == Completion(Prefill, prompt, MaxTokens, thinking, speech, ending, stops)
           IN Tidy(a.text) /\ (~a.stopped => a.stream = a.text)
<1> DEFINE a == Completion(Prefill, prompt, MaxTokens, thinking, speech, ending, stops)
           one == Turn("kept", Prefill, prompt, MaxTokens, thinking, speech, ending, stops)
           live == Turn("pushed", Prefill, prompt, MaxTokens, thinking, speech, ending, stops)
           first == one.first
           raw == Decode(first)
           again == one.again
           second == one.second
           last == Decode(second)
           closing == one.closing
           shown == IF Len(Prefill) > 0 /\ IsPrefix(Prefill, raw) THEN raw ELSE Prefill \o raw
           sent1 == StreamPass(first).sent
           sent2 == StreamPass(second).sent
<1>1. /\ a.text = IF again THEN shown \o Transition \o last \o closing ELSE shown
      /\ ~a.stopped =>
           a.stream = Prefill \o sent1 \o (IF again THEN Transition \o sent2 \o closing ELSE <<>>)
    <2>1. /\ a.text = IF again THEN shown \o Transition \o last \o closing ELSE shown
          /\ a.stream = Prefill \o StreamPass(live.first).sent
                 \o (IF live.again THEN Transition \o StreamPass(live.second).sent \o live.closing
                     ELSE <<>>)
          /\ a.stopped = one.stopped
        BY DEF Completion
    <2>2. ~one.stopped => /\ live.first = one.first /\ live.second = one.second
                         /\ (live.again <=> one.again)
                         /\ live.closing = one.closing
        BY TurnsAlike
    <2> HIDE DEF a, one, live, shown
    <2>3. ASSUME ~one.stopped
          PROVE  a.stream = Prefill \o sent1 \o (IF again THEN Transition \o sent2 \o closing ELSE <<>>)
        <3>1. CASE one.again
            BY <2>1, <2>2, <2>3, <3>1
        <3>2. CASE ~one.again
            BY <2>1, <2>2, <2>3, <3>2
        <3> QED BY <3>1, <3>2
    <2> QED BY <2>1, <2>3
<1>2. /\ speech \in Seq(Word) /\ Prefill \in Seq(Word) /\ ending \in Seq(Silent)
      /\ MaxTokens \in Nat
    <2>1. ending \in Seq(Word) /\ "t" \notin ToSet(ending)
        BY SaidAre DEF PlainSpeech
    <2> QED BY <2>1, SaidAre, Hushed, Numbers
<1>3. IsTurn(Word, Silent, prompt, MaxTokens, speech, one)
    BY <1>2, TurnTyped, WordsAre, StopsAre
<1> HIDE DEF one
<1>4. PICK n \in 0 .. Len(speech) : first = SubSeq(speech, 1, n)
    BY <1>3 DEF IsTurn
<1>5. first \in Seq(Word)
    BY <1>3 DEF IsTurn
<1>6. raw \in Seq(Word) /\ sent1 = raw
    BY <1>5, DecodeTyped, StreamPassIs, WordsAre
<1>7. Tidy(Prefill \o raw)
    <2>1. Tidy(Prefill \o speech)
        BY DEF PlainSpeech
    <2>2. Tidy(Prefill \o Decode(SubSeq(speech, 1, n)))
        BY <1>2, <1>4, <2>1, TidyDecoded
    <2> QED BY <1>4, <2>2
<1>8. shown = Prefill \o raw
    <2>1. CASE Prefill = <<>>
        BY <2>1
    <2>2. CASE Prefill # <<>>
        BY <1>4, <2>2 DEF PlainSpeech
    <2> QED BY <2>1, <2>2
<1> HIDE DEF first
<1>10. second \in Seq(Silent)
    BY <1>3 DEF IsTurn
<1> HIDE DEF second
<1>11. last \in Seq(Silent) /\ sent2 = last
    BY <1>10, DecodeTyped, StreamPassIs, SilentAre
<1>12. closing \in Seq(Silent) /\ Transition \in Seq(Silent)
    <2>1. closing \in {<<>>, <<"fe">>}
        BY <1>3 DEF IsTurn
    <2>2. Transition \in Seq(Silent) /\ <<>> \in Seq(Silent) /\ <<"fe">> \in Seq(Silent)
        BY SilentAre DEF Transition
    <2> HIDE DEF closing
    <2>3. CASE closing = <<>>
        BY <2>2, <2>3
    <2>4. CASE closing = <<"fe">>
        BY <2>2, <2>4
    <2> QED BY <2>1, <2>2, <2>3, <2>4
<1> HIDE DEF raw, sent1, sent2, last, closing, again, shown
<1>13. Transition \o last \in Seq(Silent) /\ Transition \o last \o closing \in Seq(Silent)
    <2>1. Transition \o last \in Seq(Silent)
        BY <1>11, <1>12, ConcatProperties
    <2> QED BY <1>12, <2>1, ConcatProperties
<1> DEFINE tail == Transition \o last \o closing
           head == Prefill \o raw
<1>14. ASSUME NEW v \in Seq(Silent) PROVE v \in Seq(Word) /\ "t" \notin ToSet(v)
    <2>1. \A i \in 1 .. Len(v) : v[i] \in Word /\ v[i] # "t"
        BY Elements DEF Silent
    <2>2. v \in Seq(Word)
        BY <2>1, Retyped
    <2> QED BY <2>1, <2>2, Elements
<1>15. head \in Seq(Word) /\ tail \in Seq(Word) /\ "t" \notin ToSet(tail)
    BY <1>2, <1>6, <1>13, <1>14, ConcatProperties
<1>16. ~a.stopped => a.stream = IF again THEN head \o tail ELSE head
    <2>1. head \o <<>> = head
        BY <1>15, ConcatEmptySeq
    <2> QED BY <1>1, <1>6, <1>11, <2>1
<1>17. shown \o Transition \o last \o closing = head \o tail
    <2>1. Transition \in Seq(Word) /\ last \in Seq(Word) /\ closing \in Seq(Word)
          /\ Transition \o last \in Seq(Word)
        BY <1>11, <1>12, <1>13, <1>14
    <2>2. shown = head /\ head \in Seq(Word)
        BY <1>8, <1>15
    <2> HIDE DEF head
    <2>3. Regroups(head, Transition, last) /\ Regroups(head, Transition \o last, closing)
        BY <2>1, <2>2, ConcatRegroups
    <2>4. (head \o Transition) \o last = head \o (Transition \o last)
        BY <2>3 DEF Regroups
    <2>5. (head \o (Transition \o last)) \o closing = head \o tail
        BY <2>3 DEF Regroups
    <2> QED BY <2>2, <2>4, <2>5
<1>18. a.text = IF again THEN head \o tail ELSE head
    BY <1>1, <1>8, <1>17
<1>19. Tidy(head \o tail) /\ Tidy(head)
    BY <1>7, <1>15, TidyJoined
<1> HIDE DEF head, tail, a
<1>20. Tidy(a.text) /\ (~a.stopped => a.stream = a.text)
    BY <1>16, <1>18, <1>19
<1> QED BY <1>20 DEF a

-----------------------------------------------------------------------------
(* The inductive invariant of speech. *)

\* A message that keeps its thoughts to itself once it is normalized.
Quiet(m) ==
    IF m.role = "assistant" THEN Sanitize(m.content) \in Seq(Silent) ELSE m.content \in Seq(Silent)
QuietAll(h) == \A i \in DOMAIN h : Quiet(h[i])

\* What an agent has and is about to say.
Exact(r) ==
    /\ QuietAll(r.history)
    /\ r.at = "answered" =>
          /\ Sanitize(r.answer.text) \in Seq(Silent)
          /\ ~r.answer.stopped => r.answer.stream = r.answer.text
          /\ \A i \in DOMAIN r.plan.messages : "t" \notin ToSet(r.plan.messages[i].content)

SpeechInv == \A w \in Agent : Exact(worker[w])

LEMMA QuietAppend ==
    ASSUME NEW h \in Seq(Message), QuietAll(h), NEW m \in Message, Quiet(m)
    PROVE  QuietAll(Append(h, m))
<1> DEFINE u == Append(h, m)
           n == Len(h)
<1>1. /\ DOMAIN h = 1 .. n /\ n \in Nat /\ DOMAIN u = 1 .. n + 1 /\ u[n + 1] = m
      /\ \A i \in 1 .. n : u[i] = h[i]
    <2>1. u \in Seq(Message)
        BY Appended
    <2> QED BY <2>1, Appended, Elements
<1> HIDE DEF u, n
<1>2. \A i \in 1 .. n + 1 : i \in 1 .. n \/ i = n + 1
    BY <1>1
<1>3. QuietAll(u)
    BY <1>1, <1>2 DEF QuietAll
<1> QED BY <1>3 DEF u

LEMMA SaidQuiet ==
    ASSUME PlainSpeech
    PROVE  /\ {Tools, System, Task, ToolOutput} \subseteq Seq(Silent)
           /\ QuietAll(Instructions)
           /\ \A n \in Nat : QuietAll(ToolMessages(n))
           /\ \A h \in Seq(Message) : QuietAll(h) => QuietAll(Ask(h))
<1>1. \A x \in {Tools, System, Task, ToolOutput} : x \in Seq(Silent)
    BY SaidAre, Hushed DEF PlainSpeech
<1>2. QuietAll(Instructions)
    BY <1>1 DEF Instructions, QuietAll, Quiet
<1>3. \A n \in Nat : QuietAll(ToolMessages(n))
    BY <1>1 DEF ToolMessages, QuietAll, Quiet
<1>4. ASSUME NEW h \in Seq(Message), QuietAll(h) PROVE QuietAll(Ask(h))
    <2> DEFINE m == [role |-> "user", content |-> Task]
    <2>1. m \in Message /\ Quiet(m)
        BY <1>1, SaidAre DEF Message, Quiet
    <2> QED BY <1>4, <2>1, QuietAppend DEF Ask
<1> QED BY <1>1, <1>2, <1>3, <1>4

LEMMA QuietJoined ==
    ASSUME NEW h \in Seq(Message), NEW t \in Seq(Message), QuietAll(h), QuietAll(t)
    PROVE  QuietAll(h \o t)
<1> DEFINE u == h \o t
           m == Len(h)
           n == Len(t)
<1>1. /\ DOMAIN h = 1 .. m /\ m \in Nat /\ DOMAIN t = 1 .. n /\ n \in Nat /\ DOMAIN u = 1 .. m + n
      /\ (\A i \in 1 .. m : u[i] = h[i]) /\ \A i \in 1 .. n : u[m + i] = t[i]
    <2>1. u \in Seq(Message) /\ Len(u) = m + n /\ (\A i \in 1 .. m : u[i] = h[i])
          /\ \A i \in 1 .. n : u[m + i] = t[i]
        BY Joined
    <2>2. DOMAIN h = 1 .. m /\ m \in Nat /\ DOMAIN t = 1 .. n /\ n \in Nat
        BY Elements
    <2> HIDE DEF u, m, n
    <2>3. DOMAIN u = 1 .. m + n
        BY <2>1, Elements
    <2> QED BY <2>1, <2>2, <2>3
<1> HIDE DEF u, m, n
<1>2. ASSUME NEW i \in 1 .. m + n PROVE Quiet(u[i])
    <2>1. CASE i \in 1 .. m
        BY <1>1, <2>1 DEF QuietAll
    <2>2. CASE i \notin 1 .. m
        <3>1. i - m \in 1 .. n /\ m + (i - m) = i
            BY <1>1, <2>2
        <3>2. u[m + (i - m)] = t[i - m]
            BY <1>1, <3>1
        <3> QED BY <1>1, <3>1, <3>2 DEF QuietAll
    <2> QED BY <2>1, <2>2
<1>3. QuietAll(u)
    BY <1>1, <1>2 DEF QuietAll
<1> QED BY <1>3 DEF u

\* What reaches the context manager holds no thought, nor does the plan it makes.
LEMMA PlanQuiet ==
    ASSUME PlainSpeech, NEW w, worker[w].history \in Seq(Message), QuietAll(worker[w].history)
    PROVE  LET plan == Fit(Sent(w), MaxTokens) IN
           \A i \in DOMAIN plan.messages : "t" \notin ToSet(plan.messages[i].content)
<1> DEFINE h == worker[w].history
           p == Plain(h)
           first == <<[role |-> "system", content |-> Tools]>>
           plan == Fit(Sent(w), MaxTokens)
<1>1. p \in Seq(Msg(Word)) /\ Len(p) = Len(h) /\ DOMAIN h = 1 .. Len(h)
    BY PlainTyped, HistoryIs
<1>2. \A i \in 1 .. Len(h) : p[i].role = h[i].role /\ p[i].content = h[i].content
    BY <1>1 DEF Plain
<1>3. \A i \in 1 .. Len(p) : IF p[i].role = "assistant" THEN Sanitize(p[i].content) \in Seq(Silent)
                             ELSE p[i].content \in Seq(Silent)
    BY <1>1, <1>2 DEF QuietAll, Quiet
<1> HIDE DEF p, h
<1>4. Normalize(p) \in Seq(Msg(Silent))
    BY <1>1, <1>3, NormalizeTyped
<1>5. first \in Seq(Msg(Silent))
    <2>1. [role |-> "system", content |-> Tools] \in Msg(Silent)
        BY SaidQuiet DEF Msg, Role
    <2> QED BY <2>1
<1>6. Sent(w) = first \o Normalize(p)
    BY DEF Sent, Plain, p, h
<1> HIDE DEF first
<1>7. Sent(w) \in Seq(Msg(Silent))
    BY <1>4, <1>5, <1>6, ConcatProperties
<1>8. Normalize(Sent(w)) \in Seq(Msg(Silent))
    BY <1>7, NormalizeKeepsWords
<1>9. plan \in PlanOf(Silent)
    BY <1>8, FitTyped, SilentAre, Numbers
<1> HIDE DEF plan
<1>10. plan.messages \in Seq(Msg(Silent))
    BY <1>9 DEF PlanOf
<1>11. ASSUME NEW i \in DOMAIN plan.messages PROVE "t" \notin ToSet(plan.messages[i].content)
    <2> DEFINE c == plan.messages[i].content
    <2>1. c \in Seq(Silent)
        BY <1>10, Fields
    <2> HIDE DEF c
    <2>2. ToSet(c) \subseteq Silent
        BY <2>1, Elements
    <2> QED BY <2>2 DEF Silent, c
<1> QED BY <1>11 DEF plan

\* The step of one agent.
LEMMA OneSpeaks ==
    ASSUME AgentsInv, SpeechInv, NEW w \in Agent, NEW r, Exact(r), worker' = [worker EXCEPT ![w] = r]
    PROVE  SpeechInv'
<1>1. worker \in [Agent -> {worker[v] : v \in Agent}]
    BY DEF AgentsInv, Typed
<1>2. worker'[w] = r /\ \A v \in Agent : v # w => worker'[v] = worker[v]
    BY <1>1
<1>3. ASSUME NEW v \in Agent PROVE Exact(worker'[v])
    BY <1>2 DEF SpeechInv
<1> QED BY <1>3 DEF SpeechInv, Exact

LEMMA WaitsExact ==
    ASSUME NEW at \in Places \ {"answered"}, NEW h, QuietAll(h)
    PROVE  /\ Exact([Gone EXCEPT !.at = at, !.history = h])
           /\ at # "prompt" => Exact([Gone EXCEPT !.at = at]) /\ Exact(Gone)
<1>1. Exact([Gone EXCEPT !.at = at, !.history = h])
    BY DEF Gone, Exact
<1>2. QuietAll(<<>>)
    BY DEF QuietAll
<1>3. Exact([Gone EXCEPT !.at = at])
    BY <1>2 DEF Gone, Exact
<1>4. Exact(Gone)
    BY <1>2 DEF Gone, Exact
<1> QED BY <1>1, <1>3, <1>4

LEMMA BegunExact ==
    ASSUME NEW t, NEW h, QuietAll(h), NEW step
    PROVE  Exact(Begun(t, h)) /\ Exact([Begun(t, h) EXCEPT !.step = step])
BY DEF Begun, Gone, Exact

LEMMA EndsExact ==
    ASSUME AgentsInv, SpeechInv, NEW w \in Agent, NEW result, NEW h, QuietAll(h), EndsWith(w, result, h)
    PROVE  SpeechInv'
<1>1. CASE w = Terminal
    <2> DEFINE at == IF result = "raised" THEN "gone" ELSE "prompt"
    <2>1. worker' = [worker EXCEPT ![w] = [Gone EXCEPT !.at = at, !.history = h]]
        BY <1>1 DEF EndsWith
    <2>2. at \in Places \ {"answered"}
        BY DEF Places
    <2> HIDE DEF at
    <2>3. Exact([Gone EXCEPT !.at = at, !.history = h])
        BY <2>2, WaitsExact
    <2> QED BY <2>1, <2>3, OneSpeaks
<1>2. CASE w # Terminal
    <2>1. worker' = [worker EXCEPT ![w] = [Gone EXCEPT !.at = "idle"]]
        BY <1>2 DEF EndsWith
    <2>2. "idle" \in Places \ {"answered"}
        BY DEF Places
    <2>3. Exact([Gone EXCEPT !.at = "idle"])
        BY <2>2, WaitsExact
    <2> QED BY <2>1, <2>3, OneSpeaks
<1> QED BY <1>1, <1>2

LEMMA RunExact == AgentsInv /\ SpeechInv /\ Run => SpeechInv'
<1> SUFFICES ASSUME AgentsInv, SpeechInv, Run PROVE SpeechInv'
    OBVIOUS
<1> DEFINE n == Cardinality(Pending)
           idle == [Gone EXCEPT !.at = "idle"]
<1>1. worker' = [w \in Agent |-> IF w \in 1 .. n THEN idle ELSE worker[w]]
    BY DEF Run
<1>2. QuietAll(<<>>) /\ "idle" \in Places \ {"answered"}
    BY DEF QuietAll, Places
<1>3. Exact(idle)
    BY <1>2, WaitsExact
<1> HIDE DEF n, idle
<1>4. ASSUME NEW v \in Agent PROVE Exact(worker'[v])
    BY <1>1, <1>3 DEF SpeechInv
<1> QED BY <1>4 DEF SpeechInv, Exact

LEMMA PromptExact ==
    ASSUME AgentsInv, SpeechInv, PlainSpeech, Say \/ SayTask \/ Clear
    PROVE  SpeechInv'
<1> DEFINE h == worker[Terminal].history
<1>1. Terminal \in Agent /\ worker[Terminal].at = "prompt"
    BY AgentsAre DEF Say, SayTask, Clear, AtPrompt
<1>2. h \in Seq(Message) /\ QuietAll(h)
    BY <1>1, CallingIs DEF SpeechInv, Exact, IsWorker
<1>3. QuietAll(Ask(h)) /\ QuietAll(Ask(Instructions)) /\ QuietAll(Instructions)
    BY <1>2, SaidQuiet, InstructionsPaired
<1>4. CASE Say
    <2>1. worker' = [worker EXCEPT ![Terminal] = Begun(0, Ask(h))]
        BY <1>4 DEF Say
    <2> QED BY <1>1, <1>3, <2>1, BegunExact, OneSpeaks
<1>5. CASE SayTask
    <2>1. worker' = [worker EXCEPT ![Terminal] = Begun(1, Ask(Instructions))]
        BY <1>5 DEF SayTask
    <2> QED BY <1>1, <1>3, <2>1, BegunExact, OneSpeaks
<1>6. CASE Clear
    <2> DEFINE r == [worker[Terminal] EXCEPT !.history = Instructions]
    <2>1. worker' = [worker EXCEPT ![Terminal] = r]
        BY <1>6 DEF Clear
    <2>2. IsWorker(worker[Terminal])
        BY <1>1, CallingIs
    <2>3. r.at = "prompt" /\ r.history = Instructions
        BY <1>1, <2>2 DEF IsWorker
    <2> HIDE DEF r
    <2>4. Exact(r)
        BY <1>3, <2>3 DEF Exact
    <2> QED BY <1>1, <2>1, <2>4, OneSpeaks
<1> QED BY <1>4, <1>5, <1>6

LEMMA TakeTaskExact ==
    ASSUME AgentsInv, SpeechInv, PlainSpeech, NEW w \in Agent, TakeTask(w)
    PROVE  SpeechInv'
<1>1. worker' = [worker EXCEPT ![w] = Begun(Head(queue), Ask(Instructions))]
    BY DEF TakeTask
<1>2. QuietAll(Ask(Instructions))
    BY SaidQuiet, InstructionsPaired
<1> QED BY <1>1, <1>2, BegunExact, OneSpeaks

LEMMA LeaveExact ==
    ASSUME AgentsInv, SpeechInv, NEW w \in Agent, Leave(w)
    PROVE  SpeechInv'
<1>1. worker' = [worker EXCEPT ![w] = Gone]
    BY DEF Leave
<1>2. Exact(Gone)
    <2>1. QuietAll(<<>>)
        BY DEF QuietAll
    <2> QED BY <2>1 DEF Gone, Exact
<1> QED BY <1>1, <1>2, OneSpeaks

LEMMA PromptTyped ==
    ASSUME NEW w, worker[w].history \in Seq(Message)
    PROVE  Size(Fit(Sent(w), MaxTokens).messages) \in Nat
<1> DEFINE plan == Fit(Sent(w), MaxTokens)
<1>1. Normalize(Sent(w)) \in Seq(Msg(Word))
    BY SentTyped, NormalizeKeepsWords
<1>2. plan \in PlanOf(Word)
    BY <1>1, FitTyped, WordsAre, Numbers
<1> HIDE DEF plan
<1>3. Size(plan.messages) \in Nat
    BY <1>2, SizeTyped DEF PlanOf
<1> QED BY <1>3 DEF plan

LEMMA CallExact ==
    ASSUME AgentsInv, SpeechInv, PlainSpeech, NEW w \in Agent, Call(w)
    PROVE  SpeechInv'
<1> DEFINE at == worker[w]
           plan == Fit(Sent(w), MaxTokens)
           size == Size(plan.messages)
           Said1(x, y, z, u) == Completion(Prefill, size, MaxTokens, x, y, z, u)
<1>1. PICK thinking \in Thinking, speech \in Speech, ending \in Final, stops \in Stops :
         /\ plan # NoPlan
         /\ worker' = [worker EXCEPT ![w] =
              [worker[w] EXCEPT !.at = "answered", !.plan = plan, !.answer = Said1(thinking, speech, ending, stops)]]
    BY CallIs
<1>2. IsWorker(at) /\ QuietAll(at.history) /\ at.history \in Seq(Message)
    BY CallingIs DEF SpeechInv, Exact, IsWorker
<1>3. size \in Nat
    BY <1>2, PromptTyped
<1>4. \A i \in DOMAIN plan.messages : "t" \notin ToSet(plan.messages[i].content)
    BY <1>2, PlanQuiet
<1> DEFINE a == Said1(thinking, speech, ending, stops)
<1>5. a.text \in Seq(Word)
    BY <1>2, AnswerTyped
<1> HIDE DEF size
<1>6. Tidy(a.text) /\ (~a.stopped => a.stream = a.text)
    BY <1>3, AnswerExact, Numbers
<1> HIDE DEF Said1, plan, a
<1>7. Sanitize(a.text) \in Seq(Silent)
    BY <1>5, <1>6, TidySanitized
<1> DEFINE r == [worker[w] EXCEPT !.at = "answered", !.plan = plan, !.answer = a]
<1>8. worker' = [worker EXCEPT ![w] = r]
    BY <1>1 DEF a
<1>9. r.at = "answered" /\ r.answer = a /\ r.plan = plan /\ r.history = at.history
    BY <1>2 DEF IsWorker
<1> HIDE DEF r
<1>10. Exact(r)
    BY <1>2, <1>4, <1>6, <1>7, <1>9 DEF Exact
<1> QED BY <1>8, <1>10, OneSpeaks

LEMMA WithAnswerQuiet ==
    ASSUME AgentsInv, SpeechInv, NEW w \in Agent, At(w, "answered"), NEW n \in Nat
    PROVE  QuietAll(WithAnswer(w, n))
<1> DEFINE h == worker[w].history
           m == [role |-> "assistant", content |-> worker[w].answer.text, calls |-> n]
<1>1. h \in Seq(Message) /\ QuietAll(h) /\ worker[w].answer.text \in Seq(Word)
    BY CallingIs DEF Fine, IsWorker, At, SpeechInv, Exact
<1>2. Sanitize(worker[w].answer.text) \in Seq(Silent)
    BY DEF At, SpeechInv, Exact
<1>3. m \in Message /\ Quiet(m)
    BY <1>1, <1>2 DEF Message, Quiet
<1>4. WithAnswer(w, n) = Append(h, m)
    BY DEF WithAnswer
<1> HIDE DEF h, m
<1> QED BY <1>1, <1>3, <1>4, QuietAppend

LEMMA FinalAnswerExact ==
    ASSUME AgentsInv, SpeechInv, NEW w \in Agent, FinalAnswer(w)
    PROVE  SpeechInv'
<1>1. At(w, "answered") /\ EndsWith(w, "answer", WithAnswer(w, 0))
    BY DEF FinalAnswer, At
<1>2. QuietAll(WithAnswer(w, 0))
    BY <1>1, WithAnswerQuiet
<1> QED BY <1>1, <1>2, EndsExact

LEMMA CallToolsExact ==
    ASSUME AgentsInv, SpeechInv, NEW w \in Agent, CallTools(w)
    PROVE  SpeechInv'
<1> DEFINE at == worker[w]
           n == ToCarryOut(w)
           h == WithAnswer(w, n)
           r == [worker[w] EXCEPT !.at = "tools", !.calls = n, !.back = {}, !.history = h,
                                  !.plan = NoPlan, !.answer = <<>>]
<1>1. At(w, "answered") /\ worker' = [worker EXCEPT ![w] = r]
    BY DEF CallTools, At
<1>2. IsWorker(at) /\ Fine(w, at)
    BY CallingIs
<1>3. n \in Nat
    <2>1. Calls(at.answer.text) \in Nat
        BY <1>1, <1>2, CallsTyped DEF Fine, At
    <2> QED BY <2>1 DEF ToCarryOut
<1>4. QuietAll(h)
    BY <1>1, <1>3, WithAnswerQuiet
<1> HIDE DEF n, h
<1>5. r.at = "tools" /\ r.history = h
    BY <1>2 DEF IsWorker
<1> HIDE DEF r
<1>6. Exact(r)
    BY <1>4, <1>5 DEF Exact
<1> QED BY <1>1, <1>6, OneSpeaks

LEMMA ToolReturnsExact ==
    ASSUME AgentsInv, SpeechInv, NEW w \in Agent, NEW i \in 1 .. worker[w].calls, ToolReturns(w, i)
    PROVE  SpeechInv'
<1> DEFINE at == worker[w]
           r == [worker[w] EXCEPT !.back = worker[w].back \cup {i}]
<1>1. at.at = "tools" /\ worker' = [worker EXCEPT ![w] = r]
    BY DEF ToolReturns, At
<1>2. IsWorker(at) /\ QuietAll(at.history)
    BY CallingIs DEF SpeechInv, Exact
<1>3. r.at = "tools" /\ r.history = at.history
    BY <1>1, <1>2 DEF IsWorker
<1> HIDE DEF r
<1>4. Exact(r)
    BY <1>2, <1>3 DEF Exact
<1> QED BY <1>1, <1>4, OneSpeaks

LEMMA AllBackExact ==
    ASSUME AgentsInv, SpeechInv, PlainSpeech, NEW w \in Agent, AllBack(w)
    PROVE  SpeechInv'
<1> DEFINE at == worker[w]
           h == worker[w].history \o Results(w)
<1>1. \/ NextCall(w, h, at.step + 1)
      \/ EndsWith(w, "max steps", h)
    BY DEF AllBack
<1>2. at.history \in Seq(Message) /\ QuietAll(at.history) /\ at.calls \in Nat
    BY CallingIs DEF SpeechInv, Exact, IsWorker
<1>3. Results(w) \in Seq(Message) /\ QuietAll(Results(w))
    BY <1>2, ResultsAre, ToolMessagesAre, SaidQuiet
<1>4. QuietAll(h)
    BY <1>2, <1>3, QuietJoined
<1> HIDE DEF h
<1>5. CASE NextCall(w, h, at.step + 1)
    <2>1. worker' = [worker EXCEPT ![w] = [Begun(at.task, h) EXCEPT !.step = at.step + 1]]
        BY <1>5 DEF NextCall
    <2>2. Exact([Begun(at.task, h) EXCEPT !.step = at.step + 1])
        BY <1>4, BegunExact
    <2> QED BY <2>1, <2>2, OneSpeaks
<1> QED BY <1>1, <1>4, <1>5, EndsExact

LEMMA EarlyExact ==
    ASSUME AgentsInv, SpeechInv, NEW w \in Agent,
           \/ CallFails(w) \/ TooLong(w)
           \/ \E i \in 1 .. worker[w].calls : ToolRaises(w, i)
    PROVE  SpeechInv'
<1>1. PICK result \in {"error", "raised"} : EndsWith(w, result, worker[w].history)
    BY DEF CallFails, TooLong, ToolRaises
<1>2. QuietAll(worker[w].history)
    BY DEF SpeechInv, Exact
<1> QED BY <1>1, <1>2, EndsExact

LEMMA SpeechBegins == PlainSpeech /\ AgentsInit => SpeechInv
<1> SUFFICES ASSUME PlainSpeech, AgentsInit PROVE SpeechInv
    OBVIOUS
<1> DEFINE first == [Gone EXCEPT !.at = "prompt", !.history = Instructions]
<1>1. worker = [w \in Agent |-> IF w # Terminal THEN Gone ELSE first]
    BY DEF AgentsInit
<1>2. QuietAll(Instructions) /\ QuietAll(<<>>)
    BY SaidQuiet DEF QuietAll
<1>3. Exact(first)
    BY <1>2 DEF Gone, Exact
<1>4. Exact(Gone)
    BY <1>2 DEF Gone, Exact
<1> HIDE DEF first
<1> QED BY <1>1, <1>3, <1>4 DEF SpeechInv

LEMMA SpeechGoesOn ==
    ASSUME PlainSpeech
    PROVE  AgentsInv /\ SpeechInv /\ [AgentsNext]_agentVars => SpeechInv'
<1> SUFFICES ASSUME AgentsInv, SpeechInv, [AgentsNext]_agentVars PROVE SpeechInv'
    OBVIOUS
<1>1. CASE UNCHANGED worker
    BY <1>1 DEF SpeechInv, Exact
<1>2. SubmitTask \/ UNCHANGED agentVars => UNCHANGED worker
    BY DEF SubmitTask, agentVars
<1>3. ASSUME NEW w \in Agent, Step(w) PROVE SpeechInv'
    BY <1>3, TakeTaskExact, LeaveExact, EarlyExact, CallExact, FinalAnswerExact, CallToolsExact,
       ToolReturnsExact, AllBackExact DEF Step
<1> QED BY <1>1, <1>2, <1>3, RunExact, PromptExact DEF AgentsNext

\* What a server shows of an answer, and what it sends again later. For a model
\* whose speech is plain (the words of its thoughts stand in the reasoning block;
\* a thought opened again in the final block stays in what is kept and is not
\* covered) and an engine without a draft model: no call ever carries a word of an
\* earlier thought, and a client that streams gets the text a client that waits
\* gets, unless a stop sequence ended a pass.
THEOREM SpeechStaysExact == PlainSpeech => (AgentsSpec => []SpeechExact)
<1> SUFFICES ASSUME PlainSpeech PROVE AgentsSpec => []SpeechExact
    OBVIOUS
<1>1. AgentsInit => SpeechInv
    BY SpeechBegins
<1>2. AgentsInv /\ SpeechInv /\ [AgentsNext]_agentVars => SpeechInv'
    BY SpeechGoesOn
<1>3. SpeechInv => SpeechExact
    BY DEF SpeechInv, Exact, SpeechExact, ThoughtsStayHidden, StreamMatchesAnswer, At
<1> QED BY <1>1, <1>2, <1>3, AgentsHold, PTL DEF AgentsSpec

-----------------------------------------------------------------------------
(* What of a chat stays in the context. *)

LEMMA SameSeq ==
    ASSUME NEW S, NEW s \in Seq(S), NEW t \in Seq(S), Len(s) = Len(t),
           \A i \in 1 .. Len(s) : s[i] = t[i]
    PROVE  s = t
BY SeqEqual

LEMMA Halves ==
    ASSUME NEW S, NEW s \in Seq(S), NEW m \in 0 .. Len(s)
    PROVE  SubSeq(s, 1, m) \o SubSeq(s, m + 1, Len(s)) = s
<1> DEFINE n == Len(s)
           a == SubSeq(s, 1, m)
           b == SubSeq(s, m + 1, n)
           u == a \o b
<1>1. n \in Nat /\ m \in Nat /\ m <= n
    BY Elements
<1>2. a \in Seq(S) /\ Len(a) = m /\ \A i \in 1 .. Len(a) : a[i] = s[1 + i - 1]
    <2>1. 1 \in Nat \ {0} /\ m \in Int /\ m <= Len(s)
        BY <1>1
    <2> QED BY <1>1, <2>1, Cut
<1>3. b \in Seq(S) /\ Len(b) = n - m /\ \A i \in 1 .. Len(b) : b[i] = s[m + 1 + i - 1]
    <2>1. m + 1 \in Nat \ {0} /\ n \in Int /\ n <= Len(s)
        BY <1>1
    <2> QED BY <1>1, <2>1, Cut
<1> HIDE DEF a, b
<1>4. u \in Seq(S) /\ Len(u) = Len(a) + Len(b) /\ (\A i \in 1 .. Len(a) : u[i] = a[i])
      /\ \A i \in 1 .. Len(b) : u[Len(a) + i] = b[i]
    BY <1>2, <1>3, Joined
<1> HIDE DEF u
<1>5. ASSUME NEW i \in 1 .. n PROVE u[i] = s[i]
    <2>1. CASE i <= m
        <3>1. i \in 1 .. Len(a) /\ 1 + i - 1 = i
            BY <1>1, <1>2, <2>1
        <3> QED BY <1>2, <1>4, <3>1
    <2>2. CASE i > m
        <3>1. i - m \in 1 .. Len(b) /\ m + 1 + (i - m) - 1 = i /\ Len(a) + (i - m) = i
            BY <1>1, <1>2, <1>3, <2>2
        <3> QED BY <1>3, <1>4, <3>1
    <2> QED BY <1>1, <2>1, <2>2
<1>6. Len(u) = n
    BY <1>1, <1>2, <1>3, <1>4
<1>7. u = s
    <2> HIDE DEF n
    <2>1. Len(u) = Len(s) /\ \A i \in 1 .. Len(u) : u[i] = s[i]
        BY <1>5, <1>6 DEF n
    <2> QED BY <1>4, <2>1, SameSeq
<1> QED BY <1>7 DEF u, a, b

\* t begins with the first m elements of s, and goes on with those of its
\* elements between m + 1 and n that are at I.
KeepsFirst(t, s, I, m, n) ==
    /\ Len(t) >= m /\ \A i \in 1 .. m : t[i] = s[i]
    /\ \A j \in (m + 1) .. Len(t) : \E i \in (m + 1) .. n : i \in I /\ t[j] = s[i]
    /\ \A i \in (m + 1) .. n : i \in I => \E j \in (m + 1) .. Len(t) : t[j] = s[i]

LEMMA KeptBegins ==
    ASSUME NEW S, NEW s \in Seq(S), NEW I, NEW m \in 0 .. Len(s), 1 .. m \subseteq I
    PROVE  KeepsFirst(Kept(s, I), s, I, m, Len(s))
<1>0. PICK f \in KeptLoops(S, s, I) : TRUE
    BY KeptTurns
<1> DEFINE n == Len(s)
<1>1. n \in Nat /\ m \in Nat /\ m <= n /\ \A i \in 1 .. n : s[i] \in S
    BY Elements
<1>2. /\ f \in [0 .. n -> Seq(S)] /\ f[0] = <<>>
      /\ \A i \in 1 .. n : f[i] = IF i \in I THEN Append(f[i - 1], s[i]) ELSE f[i - 1]
      /\ Kept(s, I) = f[n]
    BY <1>0 DEF KeptLoops
<1> HIDE DEF n
<1> DEFINE T == {i \in 0 .. n : /\ i <= m => Len(f[i]) = i /\ \A j \in 1 .. i : f[i][j] = s[j]
                                /\ i >= m => KeepsFirst(f[i], s, I, m, i)}
<1>3. 0 \in T
    <2>1. Len(f[0]) = 0 /\ 0 \in 0 .. n
        BY <1>1, <1>2
    <2>2. \A j \in 1 .. 0 : f[0][j] = s[j]
        OBVIOUS
    <2>3. 0 >= m => KeepsFirst(f[0], s, I, m, 0)
        <3> SUFFICES ASSUME m = 0 PROVE KeepsFirst(f[0], s, I, 0, 0)
            BY <1>1
        <3> QED BY <2>1 DEF KeepsFirst
    <2> QED BY <2>1, <2>2, <2>3
<1>4. ASSUME NEW i \in 1 .. n, i - 1 \in T PROVE i \in T
    <2> DEFINE t == f[i - 1]
               l == Len(t)
               u == f[i]
    <2>1. i - 1 \in 0 .. n /\ t \in Seq(S) /\ l \in Nat /\ s[i] \in S
        BY <1>1, <1>2, Elements
    <2>2. u = IF i \in I THEN Append(t, s[i]) ELSE t
        BY <1>2
    <2>3. i \in I => /\ Len(u) = l + 1 /\ u[l + 1] = s[i] /\ \A j \in 1 .. l : u[j] = t[j]
        BY <2>1, <2>2, Appended
    <2>4. i \notin I => u = t
        BY <2>2
    <2>5. /\ i - 1 <= m => l = i - 1 /\ \A j \in 1 .. (i - 1) : t[j] = s[j]
          /\ i - 1 >= m => KeepsFirst(t, s, I, m, i - 1)
        BY <1>4
    <2> HIDE DEF t, u
    <2>6. i \in 0 .. n
        BY <1>1
    <2>7. ASSUME i <= m PROVE Len(u) = i /\ \A j \in 1 .. i : u[j] = s[j]
        <3>1. i \in I /\ l = i - 1
            BY <1>1, <2>5, <2>7
        <3> HIDE DEF l
        <3>2. \A j \in 1 .. i : j \in 1 .. l \/ j = l + 1
            BY <1>1, <3>1
        <3> QED BY <1>1, <2>3, <2>5, <2>7, <3>1, <3>2
    <2>8. ASSUME i >= m PROVE KeepsFirst(u, s, I, m, i)
        <3>1. CASE i = m
            <4>1. Len(u) = m /\ \A j \in 1 .. m : u[j] = s[j]
                BY <2>7, <3>1
            <4> QED BY <1>1, <3>1, <4>1 DEF KeepsFirst
        <3>2. CASE i > m
            <4>1. i - 1 >= m /\ i \in (m + 1) .. i
                BY <1>1, <3>2
            <4>2. /\ l >= m /\ \A j \in 1 .. m : t[j] = s[j]
                  /\ \A j \in (m + 1) .. l : \E k \in (m + 1) .. (i - 1) : k \in I /\ t[j] = s[k]
                  /\ \A k \in (m + 1) .. (i - 1) : k \in I => \E j \in (m + 1) .. l : t[j] = s[k]
                BY <2>5, <4>1 DEF KeepsFirst
            <4>3. \A k \in (m + 1) .. (i - 1) : k \in (m + 1) .. i
                BY <1>1
            <4>4. \A k \in (m + 1) .. i : k \in (m + 1) .. (i - 1) \/ k = i
                BY <1>1
            <4>5. CASE i \notin I
                BY <2>4, <4>2, <4>3, <4>4, <4>5 DEF KeepsFirst
            <4>6. CASE i \in I
                <5> HIDE DEF l
                <5>1. \A j \in (m + 1) .. (l + 1) : j \in (m + 1) .. l \/ j = l + 1
                    BY <1>1, <2>1
                <5>2. \A j \in (m + 1) .. l : j \in 1 .. l /\ j \in (m + 1) .. (l + 1)
                    BY <1>1, <2>1
                <5>3. l + 1 \in (m + 1) .. (l + 1) /\ l + 1 >= m /\ \A j \in 1 .. m : j \in 1 .. l
                    BY <1>1, <2>1, <4>2
                <5>4. \A j \in (m + 1) .. (l + 1) : \E k \in (m + 1) .. i : k \in I /\ u[j] = s[k]
                    BY <2>3, <4>1, <4>2, <4>3, <4>6, <5>1, <5>2
                <5>5. \A k \in (m + 1) .. i : k \in I => \E j \in (m + 1) .. (l + 1) : u[j] = s[k]
                    BY <2>3, <4>2, <4>4, <4>6, <5>2, <5>3
                <5>6. Len(u) = l + 1 /\ \A j \in 1 .. m : u[j] = s[j]
                    BY <2>3, <4>2, <4>6, <5>3
                <5> QED BY <5>3, <5>4, <5>5, <5>6 DEF KeepsFirst
            <4> QED BY <4>5, <4>6
        <3> QED BY <1>1, <2>8, <3>1, <3>2
    <2> QED BY <2>6, <2>7, <2>8 DEF u
<1> HIDE DEF T
<1>5. \A i \in 0 .. n : i \in T
    BY <1>1, <1>3, <1>4, LoopInduction
<1>6. n \in T /\ n >= m
    BY <1>1, <1>5
<1>7. KeepsFirst(f[n], s, I, m, n)
    BY <1>6 DEF T
<1> QED BY <1>2, <1>7 DEF n

LEMMA KeptFront ==
    ASSUME NEW S, NEW s \in Seq(S), NEW I, NEW m \in 0 .. Len(s), I \cap (1 .. Len(s)) = 1 .. m
    PROVE  Kept(s, I) = SubSeq(s, 1, m)
<1> DEFINE K == Kept(s, I)
           n == Len(s)
           b == SubSeq(s, 1, m)
<1>1. n \in Nat /\ m \in Nat /\ m <= n
    BY Elements
<1>2. K \in Seq(S) /\ Len(K) \in Nat
    BY KeptIs, Elements
<1>3. KeepsFirst(K, s, I, m, n)
    <2>1. 1 .. m \subseteq I
        OBVIOUS
    <2> QED BY <2>1, KeptBegins
<1>4. b \in Seq(S) /\ Len(b) = m /\ \A i \in 1 .. Len(b) : b[i] = s[i]
    <2>1. 1 \in Nat \ {0} /\ m \in Int /\ m <= Len(s)
        BY <1>1
    <2>2. \A i \in 1 .. m : 1 + i - 1 = i
        BY <1>1
    <2>3. /\ b \in Seq(S) /\ Len(b) = IF 1 <= m THEN m - 1 + 1 ELSE 0
          /\ \A i \in 1 .. Len(b) : b[i] = s[1 + i - 1]
        BY <2>1, Cut
    <2> HIDE DEF b
    <2>4. Len(b) = m
        BY <1>1, <2>3
    <2> QED BY <2>2, <2>3, <2>4
<1> HIDE DEF K, b
<1>5. Len(K) = m
    <2> SUFFICES ASSUME Len(K) # m PROVE FALSE
        OBVIOUS
    <2>1. m + 1 \in (m + 1) .. Len(K)
        BY <1>1, <1>2, <1>3 DEF KeepsFirst
    <2>2. PICK i \in (m + 1) .. n : i \in I
        BY <1>3, <2>1 DEF KeepsFirst
    <2>3. i \in 1 .. n /\ i \notin 1 .. m
        BY <1>1
    <2> QED BY <2>2, <2>3
<1>6. \A i \in 1 .. Len(K) : K[i] = b[i]
    BY <1>3, <1>4, <1>5 DEF KeepsFirst
<1>7. K = b
    BY <1>2, <1>4, <1>5, <1>6, SameSeq
<1> QED BY <1>7 DEF K, b

LEMMA KeptBack ==
    ASSUME NEW S, NEW s \in Seq(S), NEW I, NEW m \in 0 .. Len(s),
           I \cap (1 .. Len(s)) = (m + 1) .. Len(s)
    PROVE  Kept(s, I) = SubSeq(s, m + 1, Len(s))
<1>0. PICK f \in KeptLoops(S, s, I) : TRUE
    BY KeptTurns
<1> DEFINE n == Len(s)
           b == SubSeq(s, m + 1, n)
<1>1. n \in Nat /\ m \in Nat /\ m <= n /\ \A i \in 1 .. n : s[i] \in S
    BY Elements
<1>2. /\ f \in [0 .. n -> Seq(S)] /\ f[0] = <<>>
      /\ \A i \in 1 .. n : f[i] = IF i \in I THEN Append(f[i - 1], s[i]) ELSE f[i - 1]
      /\ Kept(s, I) = f[n]
    BY <1>0 DEF KeptLoops
<1>3. \A i \in 1 .. n : i \in I <=> i > m
    BY <1>1
<1>4. b \in Seq(S) /\ Len(b) = n - m /\ \A i \in 1 .. n - m : b[i] = s[m + i]
    <2>1. m + 1 \in Nat \ {0} /\ n \in Int /\ n <= Len(s)
        BY <1>1
    <2>2. /\ b \in Seq(S) /\ Len(b) = IF m + 1 <= n THEN n - (m + 1) + 1 ELSE 0
          /\ \A i \in 1 .. Len(b) : b[i] = s[m + 1 + i - 1]
        BY <2>1, Cut
    <2> HIDE DEF b
    <2>3. Len(b) = n - m
        BY <1>1, <2>2
    <2>4. \A i \in 1 .. n - m : m + 1 + i - 1 = m + i
        BY <1>1
    <2> QED BY <2>2, <2>3, <2>4
<1> HIDE DEF n, b
<1> DEFINE T == {i \in 0 .. n : /\ i <= m => Len(f[i]) = 0
                                /\ i >= m => Len(f[i]) = i - m /\ \A j \in 1 .. i - m : f[i][j] = s[m + j]}
<1>5. 0 \in T
    <2>1. Len(f[0]) = 0 /\ 0 \in 0 .. n
        BY <1>1, <1>2
    <2>2. 0 >= m => m = 0 /\ \A j \in 1 .. 0 - m : FALSE
        BY <1>1
    <2> QED BY <1>1, <2>1, <2>2
<1>6. ASSUME NEW i \in 1 .. n, i - 1 \in T PROVE i \in T
    <2> DEFINE t == f[i - 1]
               l == Len(t)
               u == f[i]
    <2>1. i - 1 \in 0 .. n /\ t \in Seq(S) /\ l \in Nat /\ s[i] \in S
        <3>1. i - 1 \in 0 .. n /\ s[i] \in S
            BY <1>1
        <3>2. t \in Seq(S)
            BY <1>2, <3>1
        <3> HIDE DEF t
        <3> QED BY <3>1, <3>2, Elements
    <2>2. u = IF i > m THEN Append(t, s[i]) ELSE t
        BY <1>2, <1>3
    <2>3. i > m => /\ Len(u) = l + 1 /\ u[l + 1] = s[i] /\ \A j \in 1 .. l : u[j] = t[j]
        BY <2>1, <2>2, Appended
    <2>4. /\ i - 1 <= m => l = 0
          /\ i - 1 >= m => l = i - 1 - m /\ \A j \in 1 .. i - 1 - m : t[j] = s[m + j]
        BY <1>6
    <2> HIDE DEF u
    <2>5. ASSUME i <= m PROVE Len(u) = 0
        BY <1>1, <2>2, <2>4, <2>5
    <2> HIDE DEF t
    <2>6. ASSUME i > m PROVE Len(u) = i - m /\ \A j \in 1 .. i - m : u[j] = s[m + j]
        <3>1. i - 1 >= m
            BY <1>1, <2>6
        <3>2. l = i - 1 - m /\ \A j \in 1 .. i - 1 - m : t[j] = s[m + j]
            BY <2>4, <3>1
        <3> HIDE DEF l
        <3>3. \A j \in 1 .. i - m : j \in 1 .. l \/ (j = l + 1 /\ m + j = i)
            BY <1>1, <3>2
        <3>4. Len(u) = i - m
            BY <1>1, <2>3, <2>6, <3>2
        <3> QED BY <2>3, <2>6, <3>2, <3>3, <3>4
    <2>7. i = m => \A j \in 1 .. i - m : FALSE
        BY <1>1
    <2>8. i >= m => i > m \/ i = m
        BY <1>1
    <2>9. i = m => i <= m /\ i - m = 0
        BY <1>1
    <2>10. i \in 0 .. n
        BY <1>1
    <2> QED BY <2>5, <2>6, <2>7, <2>8, <2>9, <2>10 DEF u
<1> HIDE DEF T
<1>7. \A i \in 0 .. n : i \in T
    BY <1>1, <1>5, <1>6, LoopInduction
<1>8. n \in T /\ n >= m /\ n \in 0 .. n
    BY <1>1, <1>7
<1>9. f[n] \in Seq(S) /\ Len(f[n]) = Len(b) /\ \A i \in 1 .. Len(f[n]) : f[n][i] = b[i]
    BY <1>2, <1>4, <1>8 DEF T
<1>10. f[n] = b
    BY <1>4, <1>9, SameSeq
<1> QED BY <1>2, <1>10 DEF n, b

\* Turns, flattened: one turn is itself, two parts of the turns one after the other.
LEMMA FlattenOne ==
    ASSUME NEW S, NEW q \in Seq(S)
    PROVE  FlattenSeq(<<q>>) = q
<1> DEFINE z == <<q>>
<1>1. z \in Seq(Seq(S)) /\ Len(z) = 1 /\ z[1] = q
    OBVIOUS
<1> HIDE DEF z
<1>2. PICK f \in FlattenLoops(S, z) : TRUE
    BY <1>1, FlattenTurns
<1>3. f[0] = <<>> /\ f[1] = f[0] \o z[1] /\ FlattenSeq(z) = f[1]
    BY <1>1, <1>2 DEF FlattenLoops
<1>4. <<>> \o q = q
    BY ConcatEmptySeq
<1> QED BY <1>1, <1>3, <1>4 DEF z

LEMMA FlattenSplits ==
    ASSUME NEW S, NEW a \in Seq(Seq(S)), NEW b \in Seq(Seq(S))
    PROVE  FlattenSeq(a \o b) = FlattenSeq(a) \o FlattenSeq(b)
<1> DEFINE u == a \o b
           m == Len(a)
           n == Len(b)
           A == FlattenSeq(a)
<1>1. /\ u \in Seq(Seq(S)) /\ Len(u) = m + n /\ m \in Nat /\ n \in Nat
      /\ (\A i \in 1 .. m : u[i] = a[i]) /\ \A i \in 1 .. n : u[m + i] = b[i]
    BY Joined, Elements
<1>2. \A i \in 1 .. n : b[i] \in Seq(S)
    BY Elements
<1> HIDE DEF u
<1>3. PICK f \in FlattenLoops(S, a) : TRUE
    BY FlattenTurns
<1>4. PICK g \in FlattenLoops(S, b) : TRUE
    BY FlattenTurns
<1>5. PICK h \in FlattenLoops(S, u) : TRUE
    BY <1>1, FlattenTurns
<1>6. /\ f \in [0 .. m -> Seq(S)] /\ f[0] = <<>> /\ (\A i \in 1 .. m : f[i] = f[i - 1] \o a[i]) /\ A = f[m]
      /\ g \in [0 .. n -> Seq(S)] /\ g[0] = <<>> /\ (\A i \in 1 .. n : g[i] = g[i - 1] \o b[i])
      /\ FlattenSeq(b) = g[n]
    BY <1>3, <1>4 DEF FlattenLoops
<1>7. /\ h \in [0 .. m + n -> Seq(S)] /\ h[0] = <<>> /\ (\A i \in 1 .. m + n : h[i] = h[i - 1] \o u[i])
      /\ FlattenSeq(u) = h[m + n]
    BY <1>1, <1>5 DEF FlattenLoops
<1> HIDE DEF m, n, A
<1> DEFINE T == {i \in 0 .. m : h[i] = f[i]}
<1>8. 0 \in T
    BY <1>1, <1>6, <1>7
<1>9. ASSUME NEW i \in 1 .. m, i - 1 \in T PROVE i \in T
    <2>1. i \in 1 .. m + n /\ i \in 0 .. m
        BY <1>1
    <2> QED BY <1>1, <1>6, <1>7, <1>9, <2>1
<1> HIDE DEF T
<1>10. \A i \in 0 .. m : i \in T
    BY <1>1, <1>8, <1>9, LoopInduction
<1>11. h[m] = A /\ A \in Seq(S)
    <2>1. m \in T /\ m \in 0 .. m
        BY <1>1, <1>10
    <2> QED BY <1>6, <2>1 DEF T
<1> DEFINE R == {i \in 0 .. n : h[m + i] = A \o g[i]}
<1>12. 0 \in R
    <2>1. A \o <<>> = A
        BY <1>11, ConcatEmptySeq
    <2>2. m + 0 = m /\ 0 \in 0 .. n
        BY <1>1
    <2> QED BY <1>6, <1>11, <2>1, <2>2
<1>13. ASSUME NEW i \in 1 .. n, i - 1 \in R PROVE i \in R
    <2>1. m + i \in 1 .. m + n /\ m + i - 1 = m + (i - 1) /\ i \in 0 .. n /\ i - 1 \in 0 .. n
        BY <1>1
    <2>2. h[m + i] = (A \o g[i - 1]) \o b[i]
        <3> DEFINE k == m + i
        <3>1. h[m + (i - 1)] = A \o g[i - 1]
            BY <1>13
        <3>2. u[k] = b[i] /\ k \in 1 .. m + n /\ h[k - 1] = h[m + (i - 1)]
            BY <1>1, <2>1
        <3> HIDE DEF k
        <3>3. h[k] = h[k - 1] \o u[k]
            BY <1>7, <3>2
        <3> QED BY <3>1, <3>2, <3>3 DEF k
    <2>3. g[i - 1] \in Seq(S) /\ b[i] \in Seq(S)
        BY <1>2, <1>6, <2>1 DEF n
    <2>4. Regroups(A, g[i - 1], b[i])
        BY <1>11, <2>3, ConcatRegroups
    <2>5. h[m + i] = A \o g[i]
        BY <1>6, <2>2, <2>4 DEF Regroups
    <2> QED BY <2>1, <2>5
<1> HIDE DEF R
<1>14. \A i \in 0 .. n : i \in R
    BY <1>1, <1>12, <1>13, LoopInduction
<1>15. h[m + n] = A \o g[n]
    <2>1. n \in R
        BY <1>1, <1>14
    <2> QED BY <2>1 DEF R
<1> QED BY <1>6, <1>7, <1>15 DEF u, A

LEMMA LastIs ==
    ASSUME NEW S, NEW s \in Seq(S), s # <<>>
    PROVE  /\ Front(s) \in Seq(S) /\ Last(s) \in S /\ Len(Front(s)) = Len(s) - 1
           /\ Front(s) \o <<Last(s)>> = s
<1> DEFINE n == Len(s)
<1>1. n \in Nat /\ n # 0
    BY Elements
<1>2. n - 1 \in 0 .. n /\ (n - 1) + 1 = n /\ n \in 1 .. n
    BY <1>1
<1> DEFINE a == SubSeq(s, 1, n - 1)
           b == SubSeq(s, n, n)
<1>3. a \o b = s
    BY <1>2, Halves
<1>4. a \in Seq(S) /\ Len(a) = n - 1
    <2>1. 1 \in Nat \ {0} /\ n - 1 \in Int /\ n - 1 <= Len(s)
        BY <1>1
    <2>2. a \in Seq(S) /\ Len(a) = IF 1 <= n - 1 THEN n - 1 - 1 + 1 ELSE 0
        BY <2>1, Cut
    <2> HIDE DEF a, n
    <2>3. Len(a) = n - 1
        BY <1>1, <2>2
    <2> QED BY <2>2, <2>3
<1>5. s[n] \in S
    BY <1>2, Elements
<1>6. b = <<s[n]>>
    <2>1. n \in Nat \ {0} /\ n \in Int /\ n <= Len(s)
        BY <1>1
    <2>2. b \in Seq(S) /\ Len(b) = (IF n <= n THEN n - n + 1 ELSE 0)
          /\ \A i \in 1 .. Len(b) : b[i] = s[n + i - 1]
        BY <2>1, Cut
    <2> DEFINE z == <<s[n]>>
    <2>3. z \in Seq(S) /\ Len(z) = 1 /\ z[1] = s[n]
        BY <1>5
    <2> HIDE DEF b, z
    <2>4. Len(b) = 1 /\ n + 1 - 1 = n
        BY <1>1, <2>2
    <2>5. \A i \in 1 .. Len(b) : b[i] = z[i]
        <3>1. \A i \in 1 .. Len(b) : i = 1
            BY <2>4
        <3> QED BY <2>2, <2>3, <2>4, <3>1
    <2>6. b = z
        BY <2>2, <2>3, <2>4, <2>5, SameSeq
    <2> QED BY <2>6 DEF z
<1> QED BY <1>3, <1>4, <1>5, <1>6 DEF Front, Last

\* Appending is joining.
LEMMA AppendIsJoin ==
    ASSUME NEW S, NEW s \in Seq(S), NEW e \in S
    PROVE  Append(s, e) = s \o <<e>>
OBVIOUS

LEMMA OneLonger ==
    ASSUME NEW S, NEW s \in Seq(S), NEW i \in 1 .. Len(s)
    PROVE  SubSeq(s, 1, i) = Append(SubSeq(s, 1, i - 1), s[i])
<1> DEFINE a == SubSeq(s, 1, i)
           b == SubSeq(s, 1, i - 1)
           c == Append(b, s[i])
<1>1. Len(s) \in Nat /\ i \in Nat /\ i >= 1 /\ i <= Len(s) /\ s[i] \in S
    BY Elements
<1>2. a \in Seq(S) /\ Len(a) = i /\ \A j \in 1 .. i : a[j] = s[j]
    <2>1. 1 \in Nat \ {0} /\ i \in Int /\ i <= Len(s)
        BY <1>1
    <2>2. /\ a \in Seq(S) /\ Len(a) = IF 1 <= i THEN i - 1 + 1 ELSE 0
          /\ \A j \in 1 .. Len(a) : a[j] = s[1 + j - 1]
        BY <2>1, Cut
    <2>3. \A j \in 1 .. i : 1 + j - 1 = j
        BY <1>1
    <2> HIDE DEF a
    <2>4. Len(a) = i
        BY <1>1, <2>2
    <2> QED BY <2>2, <2>3, <2>4
<1>3. b \in Seq(S) /\ Len(b) = i - 1 /\ \A j \in 1 .. i - 1 : b[j] = s[j]
    <2>1. 1 \in Nat \ {0} /\ i - 1 \in Int /\ i - 1 <= Len(s)
        BY <1>1
    <2>2. /\ b \in Seq(S) /\ Len(b) = IF 1 <= i - 1 THEN i - 1 - 1 + 1 ELSE 0
          /\ \A j \in 1 .. Len(b) : b[j] = s[1 + j - 1]
        BY <2>1, Cut
    <2>3. \A j \in 1 .. i - 1 : 1 + j - 1 = j
        BY <1>1
    <2> HIDE DEF b
    <2>4. Len(b) = i - 1
        BY <1>1, <2>2
    <2> QED BY <2>2, <2>3, <2>4
<1> HIDE DEF a, b
<1>4. c \in Seq(S) /\ Len(c) = Len(b) + 1 /\ (\A j \in 1 .. Len(b) : c[j] = b[j]) /\ c[Len(b) + 1] = s[i]
    BY <1>1, <1>3, Appended
<1> HIDE DEF c
<1>5. Len(c) = Len(a) /\ \A j \in 1 .. i : j \in 1 .. i - 1 \/ (j = i /\ j = Len(b) + 1)
    BY <1>1, <1>2, <1>3, <1>4
<1>6. \A j \in 1 .. Len(a) : a[j] = c[j]
    BY <1>2, <1>3, <1>4, <1>5
<1> QED BY <1>2, <1>4, <1>5, <1>6, SameSeq DEF a, c, b

\* A turn: nobody asks after its first message, and in that one if anybody did.
AsTurn(q, asked) ==
    /\ Len(q) >= 1 /\ \A j \in 2 .. Len(q) : q[j].role # "user"
    /\ asked => q[1].role = "user"

Asks(ms, i) == \E j \in 1 .. i : ms[j].role = "user"

\* The turns of the first i messages.
Grouped(g, ms, i) ==
    /\ FlattenSeq(g) = SubSeq(ms, 1, i) /\ (g = <<>> <=> i = 0)
    /\ i > 0 => AsTurn(Last(g), Asks(ms, i))

LEMMA GroupedNew ==
    ASSUME NEW E, NEW ms \in Seq(Msg(E)), NEW i \in 1 .. Len(ms), NEW g \in Seq(Seq(Msg(E))),
           Grouped(g, ms, i - 1), ms[i].role = "user" \/ g = <<>>
    PROVE  Grouped(Append(g, <<ms[i]>>), ms, i)
<1> DEFINE S == Msg(E)
           m == ms[i]
           q == <<m>>
           u == Append(g, q)
<1>1. ms \in Seq(S) /\ g \in Seq(Seq(S)) /\ i \in Nat /\ i >= 1
    BY Elements
<1>2. m \in S
    BY <1>1, Elements
<1>3. q \in Seq(S) /\ Len(q) = 1 /\ q[1] = m
    BY <1>2
<1> HIDE DEF S
<1>4. /\ u \in Seq(Seq(S)) /\ Len(u) = Len(g) + 1 /\ u[Len(g) + 1] = q
    BY <1>1, <1>3, Appended
<1>5. FlattenSeq(u) = SubSeq(ms, 1, i)
    <2> DEFINE z == <<q>>
    <2>0. FlattenSeq(<<q>>) = q
        BY <1>3, FlattenOne
    <2>1. z \in Seq(Seq(S)) /\ FlattenSeq(z) = q
        <3> HIDE DEF q
        <3> QED BY <1>3, <2>0
    <2>2. u = g \o z
        BY <1>1, <1>3, AppendIsJoin
    <2> HIDE DEF z, u
    <2>3. FlattenSeq(u) = FlattenSeq(g) \o q
        BY <1>1, <2>1, <2>2, FlattenSplits
    <2>4. FlattenSeq(g) = SubSeq(ms, 1, i - 1) /\ FlattenSeq(g) \in Seq(S)
        BY <1>1, Flattened DEF Grouped
    <2>5. FlattenSeq(g) \o q = Append(FlattenSeq(g), m)
        BY <1>2, <2>4, AppendIsJoin
    <2> QED BY <1>1, <2>3, <2>4, <2>5, OneLonger
<1>6. u # <<>> /\ Last(u) = q
    <2>1. Len(g) \in Nat
        BY <1>1, Elements
    <2> HIDE DEF u, q
    <2>2. Len(u) # 0
        BY <1>4, <2>1
    <2> QED BY <1>4, <2>2 DEF Last
<1>7. AsTurn(q, Asks(ms, i))
    <2>1. Asks(ms, i) => m.role = "user"
        <3>1. CASE g = <<>>
            <4>1. i - 1 = 0
                BY <3>1 DEF Grouped
            <4>2. \A j \in 1 .. i : j = i
                BY <1>1, <4>1
            <4> QED BY <4>2 DEF Asks
        <3> QED BY <3>1
    <2>2. \A j \in 2 .. 1 : FALSE
        OBVIOUS
    <2> HIDE DEF m, q
    <2> QED BY <1>3, <2>1, <2>2 DEF AsTurn
<1> HIDE DEF u, q
<1>8. i # 0
    BY <1>1
<1>9. Grouped(u, ms, i)
    BY <1>5, <1>6, <1>7, <1>8 DEF Grouped
<1> QED BY <1>9 DEF u, q

LEMMA GroupedMore ==
    ASSUME NEW E, NEW ms \in Seq(Msg(E)), NEW i \in 1 .. Len(ms), NEW g \in Seq(Seq(Msg(E))),
           Grouped(g, ms, i - 1), ms[i].role # "user", g # <<>>
    PROVE  Grouped(Front(g) \o <<Append(Last(g), ms[i])>>, ms, i)
<1> DEFINE S == Msg(E)
           m == ms[i]
           f == Front(g)
           l == Last(g)
           q == Append(l, m)
           z == <<q>>
           u == f \o z
<1>1. ms \in Seq(S) /\ g \in Seq(Seq(S)) /\ i \in Nat /\ i >= 1 /\ i - 1 > 0
    <2>1. i - 1 # 0 /\ i \in Nat /\ i >= 1
        BY Elements DEF Grouped
    <2> QED BY <2>1
<1>2. m \in S
    BY <1>1, Elements
<1> HIDE DEF S
<1>3. f \in Seq(Seq(S)) /\ l \in Seq(S) /\ f \o <<l>> = g
    BY <1>1, LastIs
<1> HIDE DEF f, l
<1>4. /\ q \in Seq(S) /\ Len(q) = Len(l) + 1 /\ q[Len(l) + 1] = m /\ q = l \o <<m>>
      /\ \A j \in 1 .. Len(l) : q[j] = l[j]
    BY <1>2, <1>3, Appended, AppendIsJoin
<1> HIDE DEF q
<1>5. z \in Seq(Seq(S)) /\ Len(z) = 1 /\ z[1] = q /\ FlattenSeq(z) = q
    <2>1. FlattenSeq(<<q>>) = q
        BY <1>4, FlattenOne
    <2> DEFINE Q == Seq(S)
    <2>2. q \in Q
        BY <1>4
    <2> HIDE DEF Q
    <2>3. z \in Seq(Q) /\ Len(z) = 1 /\ z[1] = q
        BY <2>2
    <2> QED BY <2>1, <2>3 DEF Q
<1> HIDE DEF z
<1>6. u \in Seq(Seq(S)) /\ Len(u) = Len(f) + 1 /\ u[Len(f) + 1] = q /\ Len(f) \in Nat
    <2>1. 1 \in 1 .. Len(z)
        BY <1>5
    <2> DEFINE Q == Seq(S)
    <2>0. f \in Seq(Q) /\ z \in Seq(Q)
        BY <1>3, <1>5
    <2> HIDE DEF Q
    <2>3. Len(f) \in Nat
        BY <2>0, Elements
    <2>4. u \in Seq(Q) /\ Len(u) = Len(f) + Len(z) /\ \A j \in 1 .. Len(z) : u[Len(f) + j] = z[j]
        BY <2>0, Joined
    <2>2. u \in Seq(Seq(S)) /\ Len(u) = Len(f) + Len(z) /\ \A j \in 1 .. Len(z) : u[Len(f) + j] = z[j]
        BY <2>4 DEF Q
    <2> HIDE DEF u
    <2> QED BY <1>5, <2>1, <2>2, <2>3
<1>7. FlattenSeq(u) = SubSeq(ms, 1, i)
    <2> DEFINE x == FlattenSeq(f)
               y == <<m>>
               o == <<l>>
    <2>1. x \in Seq(S) /\ y \in Seq(S) /\ o \in Seq(Seq(S)) /\ FlattenSeq(o) = l
        BY <1>2, <1>3, Flattened, FlattenOne
    <2>2. FlattenSeq(u) = x \o q
        BY <1>3, <1>5, FlattenSplits
    <2>3. FlattenSeq(g) = x \o l
        BY <1>3, <2>1, FlattenSplits
    <2> HIDE DEF x, y, o
    <2>4. Regroups(x, l, y)
        BY <1>3, <2>1, ConcatRegroups
    <2>5. FlattenSeq(u) = FlattenSeq(g) \o y
        BY <1>4, <2>2, <2>3, <2>4 DEF Regroups, y
    <2>6. FlattenSeq(g) = SubSeq(ms, 1, i - 1) /\ FlattenSeq(g) \in Seq(S)
        BY <1>1, Flattened DEF Grouped
    <2>7. FlattenSeq(g) \o y = Append(FlattenSeq(g), m)
        BY <1>2, <2>6, AppendIsJoin DEF y
    <2> QED BY <1>1, <2>5, <2>6, <2>7, OneLonger
<1> HIDE DEF u
<1>8. u # <<>> /\ Last(u) = q
    <2>1. Len(u) # 0
        BY <1>6
    <2> QED BY <1>6, <2>1 DEF Last
<1>9. AsTurn(q, Asks(ms, i))
    <2>1. AsTurn(l, Asks(ms, i - 1)) /\ Len(l) \in Nat
        BY <1>1, <1>3, Elements DEF Grouped, l
    <2>2. Asks(ms, i) => Asks(ms, i - 1)
        <3>1. \A j \in 1 .. i : j \in 1 .. i - 1 \/ j = i
            BY <1>1
        <3> QED BY <3>1 DEF Asks
    <2>3. 1 \in 1 .. Len(l) /\ \A j \in 2 .. Len(q) : (j \in 2 .. Len(l) /\ j \in 1 .. Len(l)) \/ j = Len(l) + 1
        BY <1>4, <2>1 DEF AsTurn
    <2>4. \A j \in 2 .. Len(q) : q[j].role # "user"
        BY <1>4, <2>1, <2>3 DEF AsTurn
    <2>5. Len(q) >= 1
        BY <1>4, <2>1
    <2> QED BY <1>4, <2>1, <2>2, <2>3, <2>4, <2>5 DEF AsTurn
<1>10. i # 0
    BY <1>1
<1>11. Grouped(u, ms, i)
    BY <1>7, <1>8, <1>9, <1>10 DEF Grouped
<1> QED BY <1>11 DEF u, z, q, f, l

LEMMA TurnsAre ==
    ASSUME NEW E, NEW ms \in Seq(Msg(E)), ms # <<>>
    PROVE  /\ Turns(ms) \in Seq(Seq(Msg(E))) /\ Turns(ms) # <<>> /\ FlattenSeq(Turns(ms)) = ms
           /\ AsTurn(Last(Turns(ms)), Asks(ms, Len(ms)))
<1> DEFINE S == Msg(E)
           n == Len(ms)
<1>1. n \in Nat /\ n > 0
    <2>1. n \in Nat /\ n # 0
        BY Elements
    <2> QED BY <2>1
<1>2. PICK f \in GroupingLoops(E, ms) : TRUE
    BY GroupingTurns
<1>3. /\ f \in [0 .. n -> Seq(Seq(S))] /\ f[0] = <<>>
      /\ \A i \in 1 .. n : f[i] = IF ms[i].role = "user" \/ f[i - 1] = <<>> THEN Append(f[i - 1], <<ms[i]>>)
                                  ELSE Front(f[i - 1]) \o <<Append(Last(f[i - 1]), ms[i])>>
      /\ Turns(ms) = f[n]
    BY <1>2 DEF GroupingLoops
<1> DEFINE T == {i \in 0 .. n : Grouped(f[i], ms, i)}
<1>4. 0 \in T
    <2>1. SubSeq(ms, 1, 0) = <<>>
        BY SubSeqEmpty
    <2>2. FlattenSeq(f[0]) = <<>>
        <3>1. f[0] \in Seq(Seq(S)) /\ Len(f[0]) = 0
            BY <1>3
        <3>2. PICK h \in FlattenLoops(S, f[0]) : TRUE
            BY <3>1, FlattenTurns
        <3> QED BY <3>1, <3>2 DEF FlattenLoops
    <2>3. 0 \in 0 .. n /\ ~(0 > 0)
        BY <1>1
    <2>4. Grouped(f[0], ms, 0)
        BY <1>3, <2>1, <2>2, <2>3 DEF Grouped
    <2> QED BY <2>3, <2>4
<1>5. ASSUME NEW i \in 1 .. n, i - 1 \in T PROVE i \in T
    <2> DEFINE g == f[i - 1]
    <2>1. i - 1 \in 0 .. n /\ i \in 0 .. n
        BY <1>1
    <2>2. g \in Seq(Seq(S)) /\ Grouped(g, ms, i - 1)
        BY <1>3, <1>5, <2>1
    <2>3. f[i] = IF ms[i].role = "user" \/ g = <<>> THEN Append(g, <<ms[i]>>)
                 ELSE Front(g) \o <<Append(Last(g), ms[i])>>
        BY <1>3
    <2> HIDE DEF g
    <2>4. Grouped(f[i], ms, i)
        BY <2>2, <2>3, GroupedNew, GroupedMore
    <2> QED BY <2>1, <2>4
<1> HIDE DEF T
<1>6. \A i \in 0 .. n : i \in T
    BY <1>1, <1>4, <1>5, LoopInduction
<1>7. Grouped(f[n], ms, n)
    <2>1. n \in T
        BY <1>1, <1>6
    <2> QED BY <2>1 DEF T
<1>8. SubSeq(ms, 1, n) = ms
    BY SubSeqFull
<1>9. f[n] \in Seq(Seq(S))
    BY <1>1, <1>3
<1> QED BY <1>1, <1>3, <1>7, <1>8, <1>9 DEF Grouped

\* A message that was cut speaks for the same one, and begins as it did.
Like(m, o) ==
    /\ m.role = o.role
    /\ o.content # <<>> => m.content # <<>> /\ Head(m.content) = Head(o.content)
    /\ o.content = <<>> => m.content = <<>>
Likewise(a, b) == Len(a) = Len(b) /\ \A i \in 1 .. Len(b) : Like(a[i], b[i])

LEMMA EssentialAlike ==
    ASSUME NEW E, Words(E), NEW ms \in Seq(Msg(E)), NEW budget \in Int
    PROVE  Likewise(FitEssential(ms, budget), ms)
<1> DEFINE n == Len(ms)
<1>1. PICK f \in CuttingLoops(E, ms, budget) : TRUE
    BY CuttingTurns DEF Words
<1>2. Rounds \in Nat /\ n \in Nat /\ "marker" \in E
    BY ContextAssumption, Fields DEF Words
<1>3. /\ f \in [0 .. Rounds -> [1 .. n -> Msg(E)]] /\ f[0] = ms
      /\ \A r \in 1 .. Rounds : f[r] = CutLongest(f[r - 1], budget)
      /\ FitEssential(ms, budget) = f[Rounds]
    BY <1>1 DEF CuttingLoops
<1> HIDE DEF n
<1> DEFINE T == {r \in 0 .. Rounds : \A i \in 1 .. n : Like(f[r][i], ms[i])}
<1>4. 0 \in T
    BY <1>2, <1>3 DEF Like
<1>5. ASSUME NEW r \in 1 .. Rounds, r - 1 \in T PROVE r \in T
    <2> DEFINE x == f[r - 1]
    <2>1. r - 1 \in 0 .. Rounds /\ r \in 0 .. Rounds
        BY <1>2
    <2>2. x \in [1 .. n -> Msg(E)] /\ f[r] = CutLongest(x, budget) /\ \A i \in 1 .. n : Like(x[i], ms[i])
        BY <1>3, <1>5, <2>1
    <2> HIDE DEF x
    <2>3. \A i \in 1 .. n : Like(f[r][i], x[i])
        BY <1>2, <2>2, CutTyped DEF Like
    <2>4. \A i \in 1 .. n : Like(f[r][i], ms[i])
        BY <2>2, <2>3 DEF Like
    <2> QED BY <2>1, <2>4
<1> HIDE DEF T
<1>6. \A r \in 0 .. Rounds : r \in T
    BY <1>2, <1>4, <1>5, LoopInduction
<1>7. \A i \in 1 .. n : Like(f[Rounds][i], ms[i])
    <2>1. Rounds \in T
        BY <1>2, <1>6
    <2> QED BY <2>1 DEF T
<1>8. Len(FitEssential(ms, budget)) = n
    BY EssentialTyped DEF n
<1> QED BY <1>3, <1>7, <1>8 DEF Likewise, n

\* The newest turn of what ends with a turn is that turn.
LEMMA NewestJoined ==
    ASSUME NEW E, NEW p \in Seq(Msg(E)), NEW q \in Seq(Msg(E)), AsTurn(q, TRUE)
    PROVE  Newest(p \o q) = q
<1> DEFINE S == Msg(E)
           u == p \o q
           m == Len(p)
           n == Len(q)
           users == {i \in DOMAIN u : u[i].role = "user"}
<1>1. /\ u \in Seq(S) /\ Len(u) = m + n /\ m \in Nat /\ n \in Nat
      /\ (\A i \in 1 .. m : u[i] = p[i]) /\ \A i \in 1 .. n : u[m + i] = q[i]
    BY Joined, Elements
<1>2. n >= 1 /\ q[1].role = "user" /\ \A j \in 2 .. n : q[j].role # "user"
    BY DEF AsTurn
<1> HIDE DEF u, n, m
<1>3. DOMAIN u = 1 .. m + n
    BY <1>1, Elements
<1>4. m + 1 \in users
    BY <1>1, <1>2, <1>3
<1>5. users \in SUBSET (1 .. m + n) /\ users # {}
    BY <1>3, <1>4
<1>6. \A i \in users : i <= m + 1
    <2> SUFFICES ASSUME NEW i \in users, i > m + 1 PROVE FALSE
        BY <1>1, <1>5
    <2>1. i - m \in 2 .. n /\ i - m \in 1 .. n /\ m + (i - m) = i
        BY <1>1, <1>5
    <2>2. u[m + (i - m)] = q[i - m]
        BY <1>1, <2>1
    <2> QED BY <1>2, <2>1, <2>2
<1>7. Newest(u) = IF users = {} THEN <<>> ELSE SubSeq(u, Max(users), Len(u))
    BY DEF Newest
<1> HIDE DEF users
<1>8. Max(users) = m + 1
    <2>1. Max(users) \in users /\ \A x \in users : Max(users) >= x
        BY <1>1, <1>5, TopOf
    <2> DEFINE M == Max(users)
    <2>2. M >= m + 1 /\ M <= m + 1 /\ M \in 1 .. m + n
        BY <1>4, <1>5, <1>6, <2>1
    <2> HIDE DEF M
    <2>3. M = m + 1
        BY <1>1, <2>2
    <2> QED BY <2>3 DEF M
<1> DEFINE b == SubSeq(u, m + 1, m + n)
<1>9. b \in Seq(S) /\ Len(b) = n /\ \A i \in 1 .. n : b[i] = q[i]
    <2>1. m + 1 \in Nat \ {0} /\ m + n \in Int /\ m + n <= Len(u)
        BY <1>1
    <2>2. /\ b \in Seq(S) /\ Len(b) = IF m + 1 <= m + n THEN m + n - (m + 1) + 1 ELSE 0
          /\ \A i \in 1 .. Len(b) : b[i] = u[m + 1 + i - 1]
        BY <1>1, <2>1, Cut
    <2> HIDE DEF b
    <2>3. Len(b) = n /\ \A i \in 1 .. n : m + 1 + i - 1 = m + i
        BY <1>1, <1>2, <2>2
    <2> QED BY <1>1, <2>2, <2>3
<1>10. b = q
    <2> HIDE DEF b
    <2>1. Len(b) = Len(q) /\ \A i \in 1 .. Len(b) : b[i] = q[i]
        BY <1>9 DEF n
    <2> QED BY <1>9, <2>1, SameSeq
<1>11. Newest(u) = SubSeq(u, m + 1, m + n)
    BY <1>1, <1>5, <1>7, <1>8
<1> QED BY <1>10, <1>11 DEF u

LEMMA NewestTyped ==
    ASSUME NEW E, NEW a \in Seq(Msg(E))
    PROVE  Newest(a) \in Seq(Msg(E))
<1> DEFINE n == Len(a)
           U == {i \in DOMAIN a : a[i].role = "user"}
           M == Max(U)
<1>1. n \in Nat /\ U \in SUBSET (1 .. n)
    BY Elements
<1>2. Newest(a) = IF U = {} THEN <<>> ELSE SubSeq(a, M, n)
    BY DEF Newest
<1> HIDE DEF U
<1>3. ASSUME U # {} PROVE SubSeq(a, M, n) \in Seq(Msg(E))
    <2>1. M \in 1 .. n
        BY <1>1, <1>3, TopOf
    <2> HIDE DEF M
    <2>2. M \in Nat \ {0} /\ n \in Int /\ n <= Len(a)
        BY <1>1, <2>1
    <2> QED BY <2>2, Cut
<1>4. <<>> \in Seq(Msg(E))
    OBVIOUS
<1> QED BY <1>2, <1>3, <1>4

LEMMA NewestAlike ==
    ASSUME NEW E, NEW a \in Seq(Msg(E)), NEW b \in Seq(Msg(E)), Likewise(a, b)
    PROVE  Likewise(Newest(a), Newest(b))
<1> DEFINE S == Msg(E)
           n == Len(b)
           U == {i \in DOMAIN a : a[i].role = "user"}
           V == {i \in DOMAIN b : b[i].role = "user"}
           M == Max(V)
           x == SubSeq(a, M, n)
           y == SubSeq(b, M, n)
<1>1. DOMAIN a = 1 .. n /\ DOMAIN b = 1 .. n /\ n \in Nat /\ Len(a) = n /\ \A i \in 1 .. n : Like(a[i], b[i])
    BY Elements DEF Likewise
<1>2. U = V
    BY <1>1 DEF Like
<1>3. /\ Newest(a) = IF U = {} THEN <<>> ELSE SubSeq(a, Max(U), n)
      /\ Newest(b) = IF V = {} THEN <<>> ELSE SubSeq(b, Max(V), n)
    BY <1>1 DEF Newest
<1>4. V \in SUBSET (1 .. n)
    BY <1>1
<1> HIDE DEF n, U, V
<1>5. CASE V = {}
    <2>1. Newest(a) = <<>> /\ Newest(b) = <<>>
        BY <1>2, <1>3, <1>5
    <2> QED BY <2>1 DEF Likewise
<1>6. CASE V # {}
    <2>1. M \in 1 .. n
        BY <1>1, <1>4, <1>6, TopOf
    <2> HIDE DEF M
    <2>2. M \in Nat \ {0} /\ n \in Int /\ n <= Len(a) /\ n <= Len(b) /\ M <= n
        BY <1>1, <2>1 DEF n
    <2>3. /\ Len(x) = n - M + 1
          /\ \A i \in 1 .. Len(x) : x[i] = a[M + i - 1] /\ M + i - 1 \in 1 .. Len(a)
        BY <2>2, Cut
    <2>4. /\ Len(y) = n - M + 1
          /\ \A i \in 1 .. Len(y) : y[i] = b[M + i - 1]
        BY <2>2, Cut
    <2> HIDE DEF x, y
    <2>5. Likewise(x, y)
        BY <1>1, <2>3, <2>4 DEF Likewise
    <2> QED BY <1>2, <1>3, <1>6, <2>5 DEF x, y, M
<1> QED BY <1>5, <1>6

\* Messages the system leads: its k first ones, the instructions the last of
\* them, are of the system and no other is, and who asks asks for the task.
Led(ms, k) ==
    /\ Len(ms) >= k /\ (\A i \in 1 .. k : ms[i].role = "system") /\ ms[k].content = System
    /\ \A i \in (k + 1) .. Len(ms) :
          ms[i].role # "system" /\ (ms[i].role = "user" => ms[i].content = Task)

LEMMA NormalizeLed ==
    ASSUME NEW E, NEW ms \in Seq(Msg(E)), NEW k \in Nat \ {0}, Led(ms, k)
    PROVE  /\ Led(Normalize(ms), k)
           /\ Asks(ms, Len(ms)) => Asks(Normalize(ms), Len(Normalize(ms)))
<1> DEFINE clean == [i \in DOMAIN ms |->
                       IF ms[i].role # "assistant" THEN ms[i]
                       ELSE [ms[i] EXCEPT !.content = Sanitize(@)]]
           I == {i \in DOMAIN clean : clean[i].role # "assistant" \/ clean[i].content # <<>>}
           S == Msg(E)
           n == Len(ms)
           t == Normalize(ms)
<1>1. n \in Nat /\ DOMAIN ms = 1 .. n /\ \A i \in 1 .. n : ms[i] \in S /\ ms[i].content \in Seq(E)
    BY Fields
<1>2. ASSUME NEW i \in 1 .. n
      PROVE  /\ clean[i] \in S /\ clean[i].role = ms[i].role
             /\ ms[i].role # "assistant" => clean[i] = ms[i]
    <2>1. CASE ms[i].role # "assistant"
        BY <1>1, <2>1
    <2>2. CASE ms[i].role = "assistant"
        <3> DEFINE c == Sanitize(ms[i].content)
        <3>1. clean[i] = [ms[i] EXCEPT !.content = c] /\ c \in Seq(E)
            BY <1>1, <2>2, SanitizeTyped
        <3> HIDE DEF c, clean
        <3> QED BY <1>1, <2>2, <3>1 DEF Msg
    <2> QED BY <2>1, <2>2
<1>3. clean \in Seq(S) /\ Len(clean) = n /\ DOMAIN clean = 1 .. n
    <2>1. clean = [i \in 1 .. n |-> clean[i]]
        BY <1>1
    <2> HIDE DEF clean, n, S
    <2>2. \A i \in 1 .. n : clean[i] \in S
        BY <1>2
    <2>3. clean \in Seq(S)
        BY <1>1, <2>1, <2>2
    <2>4. DOMAIN clean = 1 .. n
        BY <2>1
    <2> QED BY <1>1, <2>3, <2>4, LenProperties
<1>4. t = Kept(clean, I)
    BY DEF Normalize
<1>5. \A i \in 1 .. n : clean[i].role # "assistant" => i \in I
    BY <1>3
<1>6. I \subseteq 1 .. n
    BY <1>3
<1> HIDE DEF clean, I, S, n
<1>7. Len(ms) = n /\ k \in 0 .. Len(clean) /\ 1 .. k \subseteq I /\ k <= n /\ k \in Nat \ {0}
    <2>1. k <= n /\ k \in 0 .. n /\ \A i \in 1 .. k : i \in 1 .. n /\ ms[i].role = "system"
        BY <1>1 DEF Led, n
    <2> QED BY <1>2, <1>3, <1>5, <2>1 DEF n
<1>8. KeepsFirst(t, clean, I, k, n) /\ t \in Seq(S)
    BY <1>3, <1>4, <1>7, KeptBegins, KeptIs
<1>9. Len(t) \in Nat
    BY <1>8, Elements
<1> HIDE DEF t
<1>10. \A i \in 1 .. k : i \in 1 .. n /\ t[i] = ms[i]
    <2> TAKE i \in 1 .. k
    <2>1. i \in 1 .. n /\ ms[i].role = "system" /\ t[i] = clean[i]
        BY <1>1, <1>7, <1>8 DEF KeepsFirst, Led
    <2> QED BY <1>2, <2>1
<1>11. ASSUME NEW j \in (k + 1) .. Len(t)
       PROVE  t[j].role # "system" /\ (t[j].role = "user" => t[j].content = Task)
    <2>1. PICK i \in (k + 1) .. n : i \in I /\ t[j] = clean[i]
        BY <1>8 DEF KeepsFirst
    <2>2. i \in 1 .. n /\ ms[i].role # "system" /\ (ms[i].role = "user" => ms[i].content = Task)
        BY <1>6, <1>7, <2>1 DEF Led
    <2> QED BY <1>2, <2>1, <2>2
<1>12. Led(t, k)
    <2>1. k \in 1 .. k
        BY <1>7
    <2> QED BY <1>8, <1>10, <1>11, <2>1 DEF Led, KeepsFirst
<1>13. ASSUME Asks(ms, n) PROVE Asks(t, Len(t))
    <2>1. PICK i \in 1 .. n : ms[i].role = "user"
        BY <1>13 DEF Asks
    <2>2. i \notin 1 .. k
        BY <2>1 DEF Led
    <2>3. i \in (k + 1) .. n /\ i \in I /\ clean[i].role = "user"
        BY <1>1, <1>2, <1>5, <1>7, <2>1, <2>2
    <2>4. PICK j \in (k + 1) .. Len(t) : t[j] = clean[i]
        BY <1>8, <2>3 DEF KeepsFirst
    <2>5. j \in 1 .. Len(t)
        BY <1>7, <1>9
    <2> QED BY <2>3, <2>4, <2>5 DEF Asks
<1> QED BY <1>12, <1>13 DEF t, n

\* One more message of the system in front.
LEMMA LedLater ==
    ASSUME NEW E, NEW ms \in Seq(Msg(E)), NEW m \in Msg(E), m.role = "system", Led(ms, 1)
    PROVE  /\ Led(<<m>> \o ms, 2)
           /\ Asks(ms, Len(ms)) => Asks(<<m>> \o ms, Len(<<m>> \o ms))
<1> DEFINE S == Msg(E)
           z == <<m>>
           n == Len(ms)
           u == z \o ms
<1>1. z \in Seq(S) /\ Len(z) = 1 /\ z[1] = m
    OBVIOUS
<1> HIDE DEF z, S
<1>2. /\ u \in Seq(S) /\ Len(u) = 1 + n /\ u[1] = m /\ n \in Nat
      /\ \A i \in 1 .. n : u[1 + i] = ms[i]
    <2>0. z \in Seq(S) /\ ms \in Seq(S)
        BY <1>1 DEF S
    <2>1. 1 \in 1 .. Len(z) /\ ms \in Seq(S)
        BY <1>1, <2>0
    <2>2. /\ u \in Seq(S) /\ Len(u) = Len(z) + n /\ (\A i \in 1 .. Len(z) : u[i] = z[i])
          /\ \A i \in 1 .. n : u[Len(z) + i] = ms[i]
        BY <2>0, Joined
    <2>3. n \in Nat
        BY <2>1, Elements
    <2> HIDE DEF u, n
    <2> QED BY <1>1, <2>1, <2>2, <2>3
<1> HIDE DEF u, n
<1>3. /\ n >= 1 /\ ms[1].role = "system" /\ ms[1].content = System
      /\ \A i \in 2 .. n : ms[i].role # "system" /\ (ms[i].role = "user" => ms[i].content = Task)
    BY <1>2 DEF Led, n
<1>4. u[2] = ms[1] /\ \A i \in 3 .. (1 + n) : i - 1 \in 2 .. n /\ u[i] = ms[i - 1]
    <2>1. u[1 + 1] = ms[1]
        BY <1>2, <1>3
    <2>2. ASSUME NEW i \in 3 .. (1 + n) PROVE i - 1 \in 2 .. n /\ u[i] = ms[i - 1]
        <3>1. i - 1 \in 2 .. n /\ i - 1 \in 1 .. n /\ 1 + (i - 1) = i
            BY <1>2
        <3> QED BY <1>2, <3>1
    <2> QED BY <2>1, <2>2
<1>5. Led(u, 2)
    <2>1. \A i \in 1 .. 2 : u[i].role = "system"
        <3>1. \A i \in 1 .. 2 : i = 1 \/ i = 2
            OBVIOUS
        <3> QED BY <1>2, <1>3, <1>4, <3>1
    <2>2. Len(u) >= 2 /\ 2 + 1 = 3
        BY <1>2, <1>3
    <2>3. \A i \in (2 + 1) .. Len(u) : u[i].role # "system" /\ (u[i].role = "user" => u[i].content = Task)
        <3>1. ASSUME NEW i \in 3 .. (1 + n)
              PROVE u[i].role # "system" /\ (u[i].role = "user" => u[i].content = Task)
            <4> DEFINE x == ms[i - 1]
                       y == u[i]
            <4>1. x.role # "system" /\ (x.role = "user" => x.content = Task) /\ y = x
                BY <1>3, <1>4, <3>1
            <4> HIDE DEF x, y
            <4>2. y.role # "system" /\ (y.role = "user" => y.content = Task)
                BY <4>1
            <4> QED BY <4>2 DEF y
        <3>2. (2 + 1) .. Len(u) = 3 .. (1 + n)
            BY <1>2
        <3> QED BY <3>1, <3>2
    <2>4. u[2].content = System
        BY <1>3, <1>4
    <2> QED BY <2>1, <2>2, <2>3, <2>4 DEF Led
<1>6. ASSUME Asks(ms, n) PROVE Asks(u, Len(u))
    <2>1. PICK i \in 1 .. n : ms[i].role = "user"
        BY <1>6 DEF Asks
    <2>2. 1 + i \in 1 .. Len(u)
        BY <1>2, <2>1
    <2>3. u[1 + i] = ms[i]
        BY <1>2, <2>1
    <2> DEFINE k == 1 + i
    <2>4. k \in 1 .. Len(u) /\ u[k].role = "user"
        BY <2>1, <2>2, <2>3
    <2> HIDE DEF k
    <2> QED BY <2>4 DEF Asks
<1> QED BY <1>5, <1>6 DEF u, z, n

\* What the context manager fits for an agent that asked.
LEMMA SentLed ==
    ASSUME NEW w, worker[w].history \in Seq(Message), Led(worker[w].history, 1),
           Asks(worker[w].history, Len(worker[w].history))
    PROVE  /\ Normalize(Sent(w)) \in Seq(Msg(Word)) /\ Led(Normalize(Sent(w)), 2)
           /\ Asks(Normalize(Sent(w)), Len(Normalize(Sent(w))))
<1> DEFINE h == worker[w].history
           p == Plain(h)
           c == Normalize(p)
           m == [role |-> "system", content |-> Tools]
           sent == Sent(w)
<1>1. /\ p \in Seq(Msg(Word)) /\ Len(p) = Len(h) /\ DOMAIN h = 1 .. Len(h) /\ Len(h) \in Nat
      /\ Led(h, 1) /\ Asks(h, Len(h))
    BY PlainTyped, HistoryIs
<1>2. \A i \in 1 .. Len(h) : p[i].role = h[i].role /\ p[i].content = h[i].content
    BY <1>1 DEF Plain
<1>3. sent = <<m>> \o c
    BY DEF Sent, Plain
<1> HIDE DEF p, h, sent
<1>4. Led(p, 1)
    <2>1. Len(h) >= 1 /\ h[1].role = "system" /\ h[1].content = System
          /\ \A i \in 2 .. Len(h) : h[i].role # "system" /\ (h[i].role = "user" => h[i].content = Task)
        BY <1>1 DEF Led
    <2>2. p[1].role = "system" /\ p[1].content = System
        BY <1>1, <1>2, <2>1
    <2>3. \A i \in 2 .. Len(p) : p[i].role # "system" /\ (p[i].role = "user" => p[i].content = Task)
        BY <1>1, <1>2, <2>1
    <2>4. \A i \in 1 .. 1 : i = 1
        OBVIOUS
    <2> QED BY <1>1, <2>1, <2>2, <2>3, <2>4 DEF Led
<1>5. Asks(p, Len(p))
    BY <1>1, <1>2 DEF Asks
<1>6. c \in Seq(Msg(Word)) /\ Led(c, 1) /\ Asks(c, Len(c))
    BY <1>1, <1>4, <1>5, NormalizeLed, NormalizeKeepsWords
<1>7. m \in Msg(Word) /\ m.role = "system"
    BY SaidAre DEF Msg, Role
<1> HIDE DEF c, m
<1>8. Led(sent, 2) /\ Asks(sent, Len(sent))
    BY <1>3, <1>6, <1>7, LedLater
<1>9. sent \in Seq(Msg(Word))
    <2>1. <<m>> \in Seq(Msg(Word))
        BY <1>7
    <2> QED BY <1>3, <1>6, <2>1, ConcatProperties
<1>10. /\ Normalize(sent) \in Seq(Msg(Word)) /\ Led(Normalize(sent), 2)
       /\ Asks(Normalize(sent), Len(Normalize(sent)))
    BY <1>8, <1>9, NormalizeLed, NormalizeKeepsWords
<1> QED BY <1>10 DEF sent

\* The k newest turns end with the last one; with the older ones they are all.
Before(turns, k) == FlattenSeq(Front(SubSeq(turns, Len(turns) - k + 1, Len(turns))))

LEMMA RecentEnds ==
    ASSUME NEW S, NEW turns \in Seq(Seq(S)), NEW k \in 1 .. Len(turns)
    PROVE  /\ Before(turns, k) \in Seq(S) /\ Last(turns) \in Seq(S)
           /\ Recent(turns, k) = Before(turns, k) \o Last(turns)
           /\ Older(turns, k) \in Seq(S) /\ Recent(turns, k) \in Seq(S)
           /\ Older(turns, k) \o Recent(turns, k) = FlattenSeq(turns)
<1> DEFINE Q == Seq(S)
           n == Len(turns)
           o == SubSeq(turns, 1, n - k)
           t == SubSeq(turns, n - k + 1, n)
<1>0. turns \in Seq(Q) /\ n \in Nat
    BY Elements
<1> HIDE DEF Q
<1>1. n - k \in 0 .. n /\ n - k + 1 \in Nat \ {0} /\ n - k + 1 <= n /\ n - k \in Int /\ n - k <= n
    BY <1>0
<1>2. o \in Seq(Q)
    <2> DEFINE j == n - k
    <2>1. j \in Int /\ j <= Len(turns) /\ 1 \in Nat \ {0}
        BY <1>1
    <2> HIDE DEF j
    <2>2. SubSeq(turns, 1, j) \in Seq(Q)
        BY <1>0, <2>1, Cut
    <2> QED BY <2>2 DEF j
<1>3. t \in Seq(Q) /\ Len(t) = k /\ t[k] = turns[n] /\ k \in 1 .. Len(t)
    <2> DEFINE j == n - k + 1
               b == SubSeq(turns, j, n)
    <2>1. j \in Nat \ {0} /\ n \in Int /\ n <= Len(turns) /\ j <= n /\ n - j + 1 = k /\ j + k - 1 = n
        BY <1>0, <1>1
    <2> HIDE DEF j
    <2>2. /\ b \in Seq(Q) /\ Len(b) = IF j <= n THEN n - j + 1 ELSE 0
          /\ \A i \in 1 .. Len(b) : b[i] = turns[j + i - 1]
        BY <1>0, <2>1, Cut
    <2> HIDE DEF b
    <2>3. b \in Seq(Q) /\ Len(b) = k /\ b[k] = turns[n] /\ k \in 1 .. Len(b)
        BY <2>1, <2>2
    <2> QED BY <2>3 DEF b, j
<1>4. o \o t = turns
    BY <1>0, <1>1, Halves
<1>5. Last(turns) = Last(t)
    BY <1>3 DEF Last
<1>6. /\ Recent(turns, k) = FlattenSeq(t) /\ Older(turns, k) = FlattenSeq(o)
      /\ Before(turns, k) = FlattenSeq(Front(t))
    BY DEF Recent, Older, Before
<1> HIDE DEF o, t, n
<1>7. t # <<>>
    BY <1>3
<1>8. Front(t) \in Seq(Q) /\ Last(t) \in Q /\ Front(t) \o <<Last(t)>> = t
    BY <1>3, <1>7, LastIs
<1>9. o \in Seq(Seq(S)) /\ t \in Seq(Seq(S)) /\ Front(t) \in Seq(Seq(S)) /\ Last(t) \in Seq(S)
      /\ <<Last(t)>> \in Seq(Seq(S))
    BY <1>2, <1>3, <1>8 DEF Q
<1>10. FlattenSeq(t) = FlattenSeq(Front(t)) \o Last(t)
    <2> DEFINE f == Front(t)
               l == Last(t)
               z == <<l>>
    <2>1. f \in Seq(Seq(S)) /\ z \in Seq(Seq(S)) /\ l \in Seq(S) /\ f \o z = t
        BY <1>8, <1>9
    <2>2. FlattenSeq(z) = l
        BY <2>1, FlattenOne
    <2> HIDE DEF f, l, z
    <2>3. FlattenSeq(f \o z) = FlattenSeq(f) \o FlattenSeq(z)
        BY <2>1, FlattenSplits
    <2>4. FlattenSeq(t) = FlattenSeq(f) \o l
        BY <2>1, <2>2, <2>3
    <2> QED BY <2>4 DEF f, l
<1>11. FlattenSeq(o) \o FlattenSeq(t) = FlattenSeq(turns)
    BY <1>4, <1>9, FlattenSplits
<1>12. FlattenSeq(Front(t)) \in Seq(S) /\ FlattenSeq(o) \in Seq(S) /\ FlattenSeq(t) \in Seq(S)
    BY <1>9, Flattened
<1> QED BY <1>5, <1>6, <1>9, <1>10, <1>11, <1>12

\* The messages of the system, and the turns of the others.
SystemsOf(all) == Kept(all, {i \in DOMAIN all : all[i].role = "system"})
TurnsOf(all) == Turns(Kept(all, DOMAIN all \ {i \in DOMAIN all : all[i].role = "system"}))

\* What is led and asks is two messages of the system and turns, the newest of
\* which asks for the task.
Parted(E, all, systems, turns) ==
    /\ systems \in Seq(Msg(E)) /\ Len(systems) = 2 /\ systems[2] = all[2]
    /\ turns \in Seq(Seq(Msg(E))) /\ turns # <<>> /\ all = systems \o FlattenSeq(turns)
    /\ AsTurn(Last(turns), TRUE) /\ Last(turns)[1].content = Task

LEMMA LedParts ==
    ASSUME NEW E, NEW all \in Seq(Msg(E)), Led(all, 2), Asks(all, Len(all))
    PROVE  Parted(E, all, SystemsOf(all), TurnsOf(all))
<1> DEFINE S == Msg(E)
           n == Len(all)
           system == {i \in DOMAIN all : all[i].role = "system"}
           others == DOMAIN all \ system
           a == SubSeq(all, 1, 2)
           rest == SubSeq(all, 3, n)
           turns == Turns(rest)
<1>1. n \in Nat /\ DOMAIN all = 1 .. n /\ n >= 2
    BY Elements DEF Led
<1>2. /\ all[1].role = "system" /\ all[2].role = "system"
      /\ \A i \in 3 .. n : all[i].role # "system" /\ (all[i].role = "user" => all[i].content = Task)
    <2>1. 1 \in 1 .. 2 /\ 2 \in 1 .. 2 /\ 2 + 1 = 3
        OBVIOUS
    <2> QED BY <2>1 DEF Led
<1>3. PICK q \in 3 .. n : all[q].role = "user"
    <2>1. PICK q \in 1 .. n : all[q].role = "user"
        BY DEF Asks
    <2>2. q # 1 /\ q # 2
        BY <1>2, <2>1
    <2>3. q \in 3 .. n
        BY <1>1, <2>2
    <2> QED BY <2>1, <2>3
<1>4. system \cap (1 .. n) = 1 .. 2 /\ others \cap (1 .. n) = (2 + 1) .. n /\ 2 \in 0 .. n
    <2>1. \A i \in 1 .. n : i = 1 \/ i = 2 \/ i \in 3 .. n
        BY <1>1
    <2>2. \A i \in 1 .. n : i \in system <=> i \in 1 .. 2
        BY <1>1, <1>2, <2>1
    <2>3. \A i \in 1 .. n : i \in 3 .. n <=> ~(i \in 1 .. 2)
        BY <1>1
    <2>4. \A i \in 1 .. n : i \in others <=> i \in 3 .. n
        BY <1>1, <2>2, <2>3
    <2>5. 1 .. 2 \subseteq 1 .. n /\ 3 .. n \subseteq 1 .. n /\ 2 + 1 = 3 /\ 2 \in 0 .. n
        BY <1>1
    <2> HIDE DEF system, others
    <2> QED BY <2>2, <2>4, <2>5
<1>5. SystemsOf(all) = Kept(all, system) /\ TurnsOf(all) = Turns(Kept(all, others))
    BY DEF SystemsOf, TurnsOf
<1> HIDE DEF system, others
<1>6. Kept(all, system) = a
    BY <1>4, KeptFront
<1>7. Kept(all, others) = rest
    <2>1. Kept(all, others) = SubSeq(all, 2 + 1, Len(all))
        BY <1>4, KeptBack
    <2> QED BY <2>1
<1>8. a \in Seq(S) /\ Len(a) = 2 /\ a[2] = all[2]
    <2>1. /\ a \in Seq(S) /\ Len(a) = IF 1 <= 2 THEN 2 - 1 + 1 ELSE 0
          /\ \A i \in 1 .. Len(a) : a[i] = all[1 + i - 1]
        BY <1>1, Cut
    <2> HIDE DEF a
    <2>2. Len(a) = 2 /\ 1 + 2 - 1 = 2 /\ 2 \in 1 .. Len(a)
        BY <2>1
    <2> QED BY <2>1, <2>2
<1>9. rest \in Seq(S) /\ Len(rest) = n - 2 /\ \A i \in 1 .. n - 2 : rest[i] = all[i + 2] /\ i + 2 \in 3 .. n
    <2>1. /\ rest \in Seq(S) /\ Len(rest) = IF 3 <= n THEN n - 3 + 1 ELSE 0
          /\ \A i \in 1 .. Len(rest) : rest[i] = all[3 + i - 1]
        BY <1>1, Cut
    <2> HIDE DEF rest
    <2> DEFINE m == n
    <2>2. m \in Nat /\ m >= 2 /\ Len(rest) = IF 3 <= m THEN m - 3 + 1 ELSE 0
        BY <1>1, <2>1
    <2> HIDE DEF m
    <2>3. Len(rest) = m - 2 /\ \A i \in 1 .. m - 2 : 3 + i - 1 = i + 2 /\ i + 2 \in 3 .. m
        BY <2>2
    <2> QED BY <2>1, <2>3 DEF m
<1>10. a \o rest = all
    <2>1. SubSeq(all, 1, 2) \o SubSeq(all, 2 + 1, Len(all)) = all
        BY <1>4, Halves
    <2> QED BY <2>1
<1> HIDE DEF a, rest
<1>11. rest # <<>> /\ Asks(rest, Len(rest))
    <2> DEFINE j == q - 2
    <2>1. j \in 1 .. n - 2 /\ j + 2 = q /\ n - 2 \in Nat /\ n - 2 > 0
        BY <1>1, <1>3
    <2> HIDE DEF j
    <2>2. rest[j].role = "user"
        BY <1>3, <1>9, <2>1
    <2>3. Asks(rest, Len(rest))
        BY <1>9, <2>1, <2>2 DEF Asks
    <2>4. rest # <<>>
        BY <1>9, <2>1
    <2> QED BY <2>3, <2>4
<1>12. /\ turns \in Seq(Seq(S)) /\ turns # <<>> /\ FlattenSeq(turns) = rest
       /\ AsTurn(Last(turns), TRUE)
    <2>1. AsTurn(Last(turns), Asks(rest, Len(rest)))
        BY <1>9, <1>11, TurnsAre
    <2>2. AsTurn(Last(turns), TRUE)
        BY <1>11, <2>1 DEF AsTurn
    <2> QED BY <1>9, <1>11, <2>2, TurnsAre
<1> HIDE DEF turns
<1>13. Last(turns)[1].content = Task
    <2> DEFINE b == Before(turns, 1)
               l == Last(turns)
               j == Len(b) + 1
    <2>1. 1 \in 1 .. Len(turns)
        <3>1. Len(turns) \in Nat /\ Len(turns) # 0
            BY <1>12, Elements
        <3> QED BY <3>1
    <2>2. /\ b \in Seq(S) /\ l \in Seq(S) /\ Recent(turns, 1) = b \o l
          /\ Older(turns, 1) \in Seq(S) /\ Older(turns, 1) \o Recent(turns, 1) = rest
        BY <1>12, <2>1, RecentEnds
    <2>3. l[1].role = "user" /\ 1 \in 1 .. Len(l)
        <3>1. Len(l) >= 1 /\ l[1].role = "user" /\ Len(l) \in Nat
            BY <1>12, <2>2, Elements DEF AsTurn
        <3> QED BY <3>1
    <2> HIDE DEF l, b
    <2> DEFINE u == b \o l
               o == Older(turns, 1)
    <2>4. u \in Seq(S) /\ u[Len(b) + 1] = l[1] /\ Len(b) + 1 \in 1 .. Len(u)
        <3>1. /\ u \in Seq(S) /\ Len(u) = Len(b) + Len(l) /\ Len(b) \in Nat /\ Len(l) \in Nat
              /\ \A i \in 1 .. Len(l) : u[Len(b) + i] = l[i]
            BY <2>2, Joined, Elements
        <3> HIDE DEF u
        <3> QED BY <2>3, <3>1
    <2>5. o \in Seq(S) /\ o \o u = rest
        BY <2>2
    <2> HIDE DEF u, o
    <2>6. rest[Len(o) + j] = l[1] /\ Len(o) + j \in 1 .. Len(rest)
        <3>1. /\ Len(rest) = Len(o) + Len(u) /\ Len(o) \in Nat /\ Len(u) \in Nat
              /\ \A i \in 1 .. Len(u) : rest[Len(o) + i] = u[i]
            BY <2>4, <2>5, Joined, Elements
        <3>2. j \in 1 .. Len(u) /\ u[j] = l[1]
            BY <2>4
        <3> HIDE DEF j
        <3> QED BY <3>1, <3>2
    <2>7. PICK i \in 3 .. n : all[i] = l[1]
        <3> DEFINE i == Len(o) + j
        <3>1. i \in 1 .. n - 2 /\ rest[i] = l[1]
            BY <1>9, <2>6
        <3> HIDE DEF i
        <3>2. i + 2 \in 3 .. n /\ all[i + 2] = l[1]
            BY <1>9, <3>1
        <3> QED BY <3>2
    <2>8. all[i].content = Task
        BY <1>2, <2>3, <2>7
    <2> QED BY <2>7, <2>8 DEF l
<1>14. Parted(E, all, a, turns)
    BY <1>8, <1>10, <1>12, <1>13 DEF Parted
<1> QED BY <1>5, <1>6, <1>7, <1>14 DEF turns

\* Whatever goes before them, the newest turns end with the newest one.
LEMMA NewestRecent ==
    ASSUME NEW E, NEW p \in Seq(Msg(E)), NEW turns \in Seq(Seq(Msg(E))), NEW k \in 1 .. Len(turns),
           AsTurn(Last(turns), TRUE)
    PROVE  Newest(p \o Recent(turns, k)) = Last(turns)
<1> DEFINE S == Msg(E)
           b == Before(turns, k)
           l == Last(turns)
<1>1. b \in Seq(S) /\ l \in Seq(S) /\ Recent(turns, k) = b \o l /\ AsTurn(l, TRUE)
    BY RecentEnds
<1> HIDE DEF b, l
<1>2. p \o (b \o l) = (p \o b) \o l /\ p \o b \in Seq(S)
    <2>1. Regroups(p, b, l)
        BY <1>1, ConcatRegroups
    <2>2. p \o b \in Seq(S)
        BY <1>1, ConcatProperties
    <2> QED BY <2>1, <2>2 DEF Regroups
<1>3. Newest((p \o b) \o l) = l
    BY <1>1, <1>2, NewestJoined
<1> QED BY <1>1, <1>2, <1>3 DEF l

\* A plan carries the instructions and the newest turn of a request, word for
\* word when it summarizes others, and accounts for every message of it.
Carried(all, plan) ==
    LET kept == plan.messages IN
    /\ kept[2].role = "system" /\ Head(kept[2].content) = Head(System)
    /\ [i \in DOMAIN Newest(kept) |-> Newest(kept)[i].role]
         = [i \in DOMAIN Newest(all) |-> Newest(all)[i].role]
    /\ Head(Newest(kept)[1].content) = Head(Task)
    /\ plan.summarized > 0 => kept[2].content = System /\ Newest(kept) = Newest(all)
    /\ plan.retained + plan.summarized + plan.dropped = Len(all)

\* The newest turn of a request.
LEMMA NewestOfAll ==
    ASSUME NEW E, NEW all, NEW systems, NEW turns, Parted(E, all, systems, turns)
    PROVE  Newest(all) = Last(turns)
<1>0. /\ systems \in Seq(Msg(E)) /\ turns \in Seq(Seq(Msg(E))) /\ turns # <<>>
      /\ all = systems \o FlattenSeq(turns) /\ AsTurn(Last(turns), TRUE)
    BY DEF Parted
<1>1. 1 \in 1 .. Len(turns)
    <2>1. Len(turns) \in Nat /\ Len(turns) # 0
        BY <1>0, Elements
    <2> QED BY <2>1
<1> DEFINE o == Older(turns, 1)
           r == Recent(turns, 1)
<1>2. o \in Seq(Msg(E)) /\ r \in Seq(Msg(E)) /\ o \o r = FlattenSeq(turns)
    BY <1>0, <1>1, RecentEnds
<1>3. \A p \in Seq(Msg(E)) : Newest(p \o r) = Last(turns)
    BY <1>0, <1>1, NewestRecent
<1> HIDE DEF o, r
<1>4. Regroups(systems, o, r)
    BY <1>0, <1>2, ConcatRegroups
<1>5. systems \o o \in Seq(Msg(E))
    BY <1>0, <1>2, ConcatProperties
<1>6. all = (systems \o o) \o r
    BY <1>0, <1>2, <1>4 DEF Regroups
<1> QED BY <1>3, <1>5, <1>6

\* What goes after two messages.
LEMMA TwoAhead ==
    ASSUME NEW S, NEW a \in Seq(S), Len(a) = 2, NEW b \in Seq(S)
    PROVE  /\ a \o b \in Seq(S) /\ Len(a \o b) = 2 + Len(b) /\ Len(b) \in Nat
           /\ (a \o b)[2] = a[2] /\ 2 \in 1 .. Len(a \o b)
<1> DEFINE u == a \o b
<1>1. /\ u \in Seq(S) /\ Len(u) = Len(a) + Len(b) /\ \A i \in 1 .. Len(a) : u[i] = a[i]
    BY Joined
<1>2. Len(b) \in Nat
    BY Elements
<1> HIDE DEF u
<1>3. 2 \in 1 .. Len(a)
    OBVIOUS
<1>4. Len(u) = 2 + Len(b) /\ u[2] = a[2]
    BY <1>1, <1>3
<1>5. 2 \in 1 .. Len(u)
    BY <1>2, <1>4
<1> QED BY <1>1, <1>2, <1>4, <1>5 DEF u

LEMMA PartedLength ==
    ASSUME NEW E, NEW all, NEW systems, NEW turns, Parted(E, all, systems, turns),
           NEW k \in 1 .. Len(turns)
    PROVE  /\ Len(all) = 2 + Len(Older(turns, k)) + Len(Recent(turns, k))
           /\ Len(Older(turns, k)) \in Nat /\ Len(Recent(turns, k)) \in Nat
<1> DEFINE S == Msg(E)
           o == Older(turns, k)
           r == Recent(turns, k)
           f == o \o r
<1>1. /\ systems \in Seq(S) /\ Len(systems) = 2 /\ turns \in Seq(Seq(S))
      /\ all = systems \o FlattenSeq(turns)
    BY DEF Parted
<1>2. o \in Seq(S) /\ r \in Seq(S) /\ f = FlattenSeq(turns)
    BY <1>1, RecentEnds
<1> HIDE DEF o, r
<1>3. Len(o) \in Nat /\ Len(r) \in Nat
    BY <1>2, Elements
<1>4. f \in Seq(S) /\ Len(f) = Len(o) + Len(r)
    BY <1>2, Joined
<1> HIDE DEF f
<1>5. Len(systems \o f) = 2 + Len(f)
    BY <1>1, <1>4, TwoAhead
<1>6. Len(all) = 2 + Len(f)
    BY <1>1, <1>2, <1>5
<1>7. Len(all) = 2 + Len(o) + Len(r)
    BY <1>3, <1>4, <1>6
<1> QED BY <1>3, <1>7 DEF o, r

LEMMA WholeCarried ==
    ASSUME NEW E, NEW all \in Seq(Msg(E)), Led(all, 2), NEW systems, NEW turns,
           Parted(E, all, systems, turns)
    PROVE  Carried(all, [messages |-> all, retained |-> Len(all), summarized |-> 0, dropped |-> 0])
<1> DEFINE plan == [messages |-> all, retained |-> Len(all), summarized |-> 0, dropped |-> 0]
<1>1. Newest(all) = Last(turns) /\ Last(turns)[1].content = Task
    BY NewestOfAll DEF Parted
<1>2. all[2].role = "system" /\ all[2].content = System
    <2>1. 2 \in 1 .. 2
        OBVIOUS
    <2> QED BY <2>1 DEF Led
<1>3. Len(all) \in Nat /\ plan.retained + plan.summarized + plan.dropped = Len(all)
    BY Elements
<1>4. plan.messages = all /\ plan.summarized = 0
    OBVIOUS
<1> HIDE DEF plan
<1>5. Carried(all, plan)
    BY <1>1, <1>2, <1>3, <1>4 DEF Carried
<1> QED BY <1>5 DEF plan

LEMMA SummaryCarried ==
    ASSUME NEW E, NEW all \in Seq(Msg(E)), Led(all, 2), NEW systems, NEW turns,
           Parted(E, all, systems, turns), NEW k \in 1 .. Len(turns), NEW s \in SummaryOf(E),
           Splits(s, Len(Older(turns, k)))
    PROVE  Carried(all, [messages |-> With(systems, turns, k, s),
                         retained |-> Len(systems) + Len(Recent(turns, k)),
                         summarized |-> s.included, dropped |-> s.dropped])
<1> DEFINE S == Msg(E)
           r == Recent(turns, k)
           o == Older(turns, k)
           kept == With(systems, turns, k, s)
           plan == [messages |-> kept, retained |-> Len(systems) + Len(r),
                    summarized |-> s.included, dropped |-> s.dropped]
           p == systems \o s.message
<1>0. /\ systems \in Seq(S) /\ Len(systems) = 2 /\ systems[2] = all[2]
      /\ turns \in Seq(Seq(S)) /\ turns # <<>> /\ all = systems \o FlattenSeq(turns)
      /\ AsTurn(Last(turns), TRUE) /\ Last(turns)[1].content = Task
    BY DEF Parted
<1>1. Newest(all) = Last(turns)
    BY NewestOfAll
<1>2. all[2].role = "system" /\ all[2].content = System
    <2>1. 2 \in 1 .. 2
        OBVIOUS
    <2> QED BY <2>1 DEF Led
<1>3. s.message \in Seq(S) /\ s.included \in Int /\ s.dropped \in Int /\ s.included + s.dropped = Len(o)
    BY DEF SummaryOf, Splits
<1>4. p \in Seq(S) /\ p[2] = systems[2] /\ 2 \in 1 .. Len(p)
    <2> DEFINE m == s.message
    <2>1. m \in Seq(S)
        BY <1>3
    <2> HIDE DEF m
    <2>2. systems \o m \in Seq(S) /\ (systems \o m)[2] = systems[2] /\ 2 \in 1 .. Len(systems \o m)
        BY <1>0, <2>1, TwoAhead
    <2> QED BY <2>2 DEF m
<1>5. kept = p \o r
    BY DEF With
<1>6. o \in Seq(S) /\ r \in Seq(S) /\ o \o r = FlattenSeq(turns)
    BY <1>0, RecentEnds
<1> HIDE DEF p
<1>7. Newest(kept) = Last(turns)
    BY <1>0, <1>4, <1>5, NewestRecent
<1> HIDE DEF o, r
<1>8. kept[2] = all[2]
    <2>1. (p \o r)[2] = p[2]
        BY <1>4, <1>6, Joined
    <2> QED BY <1>0, <1>4, <1>5, <2>1
<1>9. Len(all) = 2 + Len(o) + Len(r) /\ Len(o) \in Nat /\ Len(r) \in Nat
    BY PartedLength DEF o, r
<1>10. plan.messages = kept /\ plan.retained + plan.summarized + plan.dropped = Len(all)
    <2> DEFINE x == Len(o)
               y == Len(r)
    <2>1. Len(all) = 2 + x + y /\ x \in Nat /\ y \in Nat /\ s.included + s.dropped = x
          /\ s.included \in Int /\ s.dropped \in Int /\ Len(systems) = 2
        BY <1>0, <1>3, <1>9
    <2> HIDE DEF x, y
    <2>2. 2 + y + s.included + s.dropped = Len(all)
        BY <2>1
    <2>3. plan.retained = 2 + y /\ plan.summarized = s.included /\ plan.dropped = s.dropped
        BY <2>1 DEF y
    <2> QED BY <2>2, <2>3
<1> HIDE DEF plan, kept
<1>11. Carried(all, plan)
    BY <1>0, <1>1, <1>2, <1>7, <1>8, <1>10 DEF Carried
<1> QED BY <1>11 DEF plan, kept, r

LEMMA CutCarried ==
    ASSUME NEW E, NEW all \in Seq(Msg(E)), Led(all, 2), NEW systems, NEW turns,
           Parted(E, all, systems, turns), NEW cut \in Seq(Msg(E)),
           Likewise(cut, systems \o Recent(turns, 1))
    PROVE  Carried(all, [messages |-> cut, retained |-> Len(cut), summarized |-> 0,
                         dropped |-> Most(0, Len(all) - Len(cut))])
<1> DEFINE S == Msg(E)
           r == Recent(turns, 1)
           o == Older(turns, 1)
           essential == systems \o r
           plan == [messages |-> cut, retained |-> Len(cut), summarized |-> 0,
                    dropped |-> Most(0, Len(all) - Len(cut))]
           x == Newest(cut)
           y == Newest(all)
<1>0. /\ systems \in Seq(S) /\ Len(systems) = 2 /\ systems[2] = all[2]
      /\ turns \in Seq(Seq(S)) /\ turns # <<>> /\ all = systems \o FlattenSeq(turns)
      /\ AsTurn(Last(turns), TRUE) /\ Last(turns)[1].content = Task
    BY DEF Parted
<1>1. Newest(all) = Last(turns)
    BY NewestOfAll
<1>2. all[2].role = "system" /\ all[2].content = System
    <2>1. 2 \in 1 .. 2
        OBVIOUS
    <2> QED BY <2>1 DEF Led
<1>3. 1 \in 1 .. Len(turns)
    <2>1. Len(turns) \in Nat /\ Len(turns) # 0
        BY <1>0, Elements
    <2> QED BY <2>1
<1>4. o \in Seq(S) /\ r \in Seq(S) /\ o \o r = FlattenSeq(turns) /\ Last(turns) \in Seq(S)
    BY <1>0, <1>3, RecentEnds
<1>5. Newest(essential) = Last(turns)
    BY <1>0, <1>3, NewestRecent
<1> HIDE DEF o, r
<1>6. /\ essential \in Seq(S) /\ Len(essential) = 2 + Len(r) /\ essential[2] = all[2]
      /\ 2 \in 1 .. Len(essential)
    <2>1. /\ essential \in Seq(S) /\ Len(essential) = 2 + Len(r) /\ essential[2] = systems[2]
          /\ 2 \in 1 .. Len(essential)
        BY <1>0, <1>4, TwoAhead
    <2> HIDE DEF essential
    <2> QED BY <1>0, <2>1
<1>7. Likewise(cut, essential)
    BY DEF r
<1> HIDE DEF essential
<1>8. cut[2].role = "system" /\ Head(cut[2].content) = Head(System) /\ Len(cut) = 2 + Len(r)
    <2>1. Like(cut[2], all[2]) /\ Len(cut) = Len(essential)
        BY <1>6, <1>7 DEF Likewise
    <2>2. Head(cut[2].content) = Head(all[2].content)
        <3>1. CASE all[2].content = <<>>
            BY <2>1, <3>1 DEF Like
        <3>2. CASE all[2].content # <<>>
            BY <2>1, <3>2 DEF Like
        <3> QED BY <3>1, <3>2
    <2> QED BY <1>2, <1>6, <2>1, <2>2 DEF Like
<1>9. Likewise(x, y) /\ y \in Seq(S) /\ y[1].content = Task /\ 1 \in 1 .. Len(y)
    <2>1. Likewise(x, Newest(essential))
        BY <1>6, <1>7, NewestAlike
    <2>2. y = Last(turns) /\ Len(y) >= 1 /\ Len(y) \in Nat
        BY <1>0, <1>1, <1>4, Elements DEF AsTurn
    <2>3. 1 \in 1 .. Len(y)
        BY <2>2
    <2> QED BY <1>0, <1>1, <1>4, <1>5, <2>1, <2>3
<1>10. x \in Seq(S)
    BY NewestTyped
<1> HIDE DEF x, y
<1>11. [i \in DOMAIN x |-> x[i].role] = [i \in DOMAIN y |-> y[i].role]
    <2>1. DOMAIN x = 1 .. Len(y) /\ DOMAIN y = 1 .. Len(y)
        BY <1>9, <1>10, Elements DEF Likewise
    <2>2. \A i \in 1 .. Len(y) : x[i].role = y[i].role
        BY <1>9 DEF Likewise, Like
    <2> QED BY <2>1, <2>2
<1>12. Head(x[1].content) = Head(Task)
    <2>1. Like(x[1], y[1])
        BY <1>9 DEF Likewise
    <2>2. Head(x[1].content) = Head(y[1].content)
        <3>1. CASE y[1].content = <<>>
            BY <2>1, <3>1 DEF Like
        <3>2. CASE y[1].content # <<>>
            BY <2>1, <3>2 DEF Like
        <3> QED BY <3>1, <3>2
    <2> QED BY <1>9, <2>2
<1>13. Len(all) = 2 + Len(o) + Len(r) /\ Len(o) \in Nat /\ Len(r) \in Nat
    BY <1>3, PartedLength DEF o, r
<1>14. plan.messages = cut /\ plan.summarized = 0
       /\ plan.retained + plan.summarized + plan.dropped = Len(all)
    <2> DEFINE a == Len(all)
               c == Len(cut)
    <2>1. a \in Nat /\ c \in Nat /\ a >= c
        BY <1>8, <1>13
    <2> HIDE DEF a, c
    <2>2. c + 0 + Most(0, a - c) = a
        BY <2>1 DEF Most
    <2> QED BY <2>2 DEF a, c
<1> HIDE DEF plan
<1>15. Carried(all, plan)
    BY <1>8, <1>11, <1>12, <1>14 DEF Carried, x, y
<1> QED BY <1>15 DEF plan

\* The plan of a request that is led and asks carries what it must.
LEMMA PlanCarries ==
    ASSUME NEW E, Words(E), NEW given, NEW maxOutput \in Nat \ {0},
           Normalize(given) \in Seq(Msg(E)), Led(Normalize(given), 2),
           Asks(Normalize(given), Len(Normalize(given))), Fit(given, maxOutput) # NoPlan
    PROVE  Carried(Normalize(given), Fit(given, maxOutput))
<1> DEFINE budget == Budget(maxOutput)
           all == Normalize(given)
           systems == SystemsOf(all)
           turns == TurnsOf(all)
           S(k) == Summary(systems, turns, k, budget)
           W(k) == With(systems, turns, k, S(k))
           roomy == {k \in 1 .. Least(RecentTurns, Len(turns)) : Fits(W(k), budget)}
           cut == FitEssential(systems \o Recent(turns, Least(1, Len(turns))), budget)
           whole == [messages |-> all, retained |-> Len(all), summarized |-> 0, dropped |-> 0]
           summed(k) == [messages |-> W(k), retained |-> Len(systems) + Len(Recent(turns, k)),
                         summarized |-> S(k).included, dropped |-> S(k).dropped]
           short == [messages |-> cut, retained |-> Len(cut), summarized |-> 0,
                     dropped |-> Most(0, Len(all) - Len(cut))]
           plan == Fit(given, maxOutput)
<1>1. plan = IF maxOutput < 1 \/ budget < 1 \/ all = <<>> THEN NoPlan
             ELSE IF Fits(all, budget) THEN whole
             ELSE IF roomy # {} THEN summed(Max(roomy))
             ELSE IF Fits(cut, budget) THEN short ELSE NoPlan
    BY DEF Fit, Planned, Roomy, Compacted, Whole, SystemsOf, TurnsOf
<1>2. all \in Seq(Msg(E)) /\ Led(all, 2) /\ Parted(E, all, systems, turns)
    BY LedParts
<1>3. budget \in Int
    BY ContextAssumption DEF Budget, Least
<1> HIDE DEF all, systems, turns, budget
<1>4. systems \in Seq(Msg(E)) /\ turns \in Seq(Seq(Msg(E))) /\ turns # <<>>
    BY <1>2 DEF Parted
<1>5. Len(turns) \in Nat /\ Len(turns) >= 1
    <2>1. Len(turns) \in Nat /\ Len(turns) # 0
        BY <1>4, Elements
    <2> QED BY <2>1
<1>6. CASE ~(maxOutput < 1 \/ budget < 1 \/ all = <<>>) /\ Fits(all, budget)
    <2>1. plan = whole
        BY <1>1, <1>6
    <2>2. Carried(all, whole)
        BY <1>2, WholeCarried
    <2> QED BY <2>1, <2>2 DEF all
<1>7. CASE ~(maxOutput < 1 \/ budget < 1 \/ all = <<>>) /\ ~Fits(all, budget) /\ roomy # {}
    <2>1. budget \in Nat
        BY <1>3, <1>7
    <2>2. PICK k \in 1 .. Len(turns) : k = Max(roomy)
        <3> DEFINE top == Least(RecentTurns, Len(turns))
        <3>1. top \in Nat /\ top <= Len(turns)
            BY <1>5, ContextAssumption DEF Least
        <3>2. roomy \in SUBSET (1 .. top)
            OBVIOUS
        <3> HIDE DEF roomy, top
        <3>3. Max(roomy) \in 1 .. top
            BY <1>7, <3>1, <3>2, TopOf
        <3> QED BY <1>5, <3>1, <3>3
    <2>3. k \in 0 .. Len(turns)
        BY <2>2
    <2>4. S(k) \in SummaryOf(E) /\ Splits(S(k), Len(Older(turns, k)))
        BY <1>4, <2>1, <2>3, SummaryTyped
    <2>5. plan = summed(k)
        BY <1>1, <1>7, <2>2
    <2> DEFINE s == S(k)
    <2> HIDE DEF S, s
    <2>6. Carried(all, [messages |-> With(systems, turns, k, s),
                         retained |-> Len(systems) + Len(Recent(turns, k)),
                         summarized |-> s.included, dropped |-> s.dropped])
        BY <1>2, <2>2, <2>4, SummaryCarried DEF s
    <2> QED BY <2>5, <2>6 DEF all, s
<1>8. CASE ~(maxOutput < 1 \/ budget < 1 \/ all = <<>>) /\ ~Fits(all, budget) /\ roomy = {}
    <2>1. Least(1, Len(turns)) = 1 /\ 1 \in 1 .. Len(turns)
        <3> DEFINE n == Len(turns)
        <3>1. n \in Nat /\ n >= 1
            BY <1>5
        <3> HIDE DEF n
        <3>2. Least(1, n) = 1
            BY <3>1 DEF Least
        <3>3. 1 \in 1 .. n
            BY <3>1
        <3> QED BY <3>2, <3>3 DEF n
    <2> DEFINE essential == systems \o Recent(turns, 1)
    <2>2. essential \in Seq(Msg(E))
        <3>1. Recent(turns, 1) \in Seq(Msg(E))
            BY <1>4, <2>1, RecentEnds
        <3> DEFINE r == Recent(turns, 1)
        <3> HIDE DEF r
        <3>2. systems \o r \in Seq(Msg(E))
            BY <1>4, <3>1, ConcatProperties DEF r
        <3> QED BY <3>2 DEF r
    <2>3. cut = FitEssential(essential, budget)
        BY <2>1
    <2> HIDE DEF essential, cut
    <2>4. cut \in Seq(Msg(E)) /\ Likewise(cut, essential)
        BY <1>3, <2>2, <2>3, EssentialTyped, EssentialAlike
    <2>5. Carried(all, short)
        BY <1>2, <2>4, CutCarried DEF essential
    <2>6. plan = short
        BY <1>1, <1>8
    <2> QED BY <2>5, <2>6 DEF all
<1>9. plan # NoPlan
    OBVIOUS
<1> QED BY <1>1, <1>6, <1>7, <1>8, <1>9

-------------------------------------------------------------------------------
(* The inductive invariant of the calls. *)

\* The messages of a history as they reach the context manager, as in Sent.
SentOf(h) == <<[role |-> "system", content |-> Tools]>> \o Normalize(Plain(h))

\* A call that was answered: its plan and both passes stay in the budgets, and
\* the plan carries what it must of the history that was sent.
WellAnswered(r) ==
    /\ Size(r.plan.messages) + MaxTokens <= MaxSeqLen
    /\ CompactAt > 0 => Size(r.plan.messages) <= CompactAt
    /\ r.answer.used <= MaxTokens
    /\ r.answer.budget > 0 =>
         r.answer.prompt + Len(Decode(r.answer.first)) + Len(Transition) + r.answer.budget <= MaxSeqLen
    /\ Carried(Normalize(SentOf(r.history)), r.plan)

\* Every history begins with the instructions, and has a task when it is sent.
Heard(r) ==
    /\ r.at \in {"prompt", "calling", "answered", "tools"} => Led(r.history, 1)
    /\ r.at \in {"calling", "answered", "tools"} => Asks(r.history, Len(r.history))
    /\ r.at = "answered" => WellAnswered(r)

ContextInv == \A w \in Agent : Heard(worker[w])

\* What follows in a history.
LEMMA LedJoined ==
    ASSUME NEW S, NEW h \in Seq(S), NEW t \in Seq(S), Led(h, 1),
           \A i \in 1 .. Len(t) : t[i].role # "system" /\ (t[i].role = "user" => t[i].content = Task)
    PROVE  /\ Led(h \o t, 1)
           /\ Asks(h, Len(h)) \/ Asks(t, Len(t)) => Asks(h \o t, Len(h \o t))
<1> DEFINE u == h \o t
           m == Len(h)
           n == Len(t)
<1>1. /\ m \in Nat /\ n \in Nat /\ Len(u) = m + n
      /\ (\A i \in 1 .. m : u[i] = h[i]) /\ \A i \in 1 .. n : u[m + i] = t[i]
    BY Joined, Elements
<1>2. /\ m >= 1 /\ h[1].role = "system" /\ h[1].content = System
      /\ \A i \in 2 .. m : h[i].role # "system" /\ (h[i].role = "user" => h[i].content = Task)
    <2>1. 1 \in 1 .. 1 /\ 1 + 1 = 2
        OBVIOUS
    <2> QED BY <2>1 DEF Led
<1>3. \A i \in 1 .. n : t[i].role # "system" /\ (t[i].role = "user" => t[i].content = Task)
    OBVIOUS
<1>4. Asks(h, m) \/ Asks(t, n) => (\E i \in 1 .. m : h[i].role = "user") \/ \E i \in 1 .. n : t[i].role = "user"
    BY DEF Asks
<1> HIDE DEF u, m, n
<1>5. ASSUME NEW i \in 2 .. m + n
      PROVE  u[i].role # "system" /\ (u[i].role = "user" => u[i].content = Task)
    <2>1. CASE i <= m
        <3>1. i \in 2 .. m /\ i \in 1 .. m
            BY <1>1, <2>1
        <3> QED BY <1>1, <1>2, <3>1
    <2>2. CASE i > m
        <3> DEFINE j == i - m
        <3>1. j \in 1 .. n /\ m + j = i
            BY <1>1, <2>2
        <3> HIDE DEF j
        <3>2. u[i] = t[j]
            BY <1>1, <3>1
        <3> QED BY <1>3, <3>1, <3>2
    <2> QED BY <1>1, <2>1, <2>2
<1>6. Led(u, 1)
    <2>1. 1 \in 1 .. m /\ u[1] = h[1]
        BY <1>1, <1>2
    <2>2. \A i \in 1 .. 1 : i = 1
        OBVIOUS
    <2>3. (1 + 1) .. Len(u) = 2 .. m + n /\ Len(u) >= 1
        BY <1>1, <1>2
    <2> QED BY <1>2, <1>5, <2>1, <2>2, <2>3 DEF Led
<1>7. ASSUME NEW i \in 1 .. m, h[i].role = "user" PROVE Asks(u, Len(u))
    <2>1. i \in 1 .. Len(u) /\ u[i].role = "user"
        BY <1>1, <1>7
    <2> QED BY <2>1 DEF Asks
<1>8. ASSUME NEW i \in 1 .. n, t[i].role = "user" PROVE Asks(u, Len(u))
    <2> DEFINE k == m + i
    <2>1. k \in 1 .. Len(u) /\ u[k].role = "user"
        BY <1>1, <1>8
    <2> HIDE DEF k
    <2> QED BY <2>1 DEF Asks
<1>9. Asks(h, m) \/ Asks(t, n) => Asks(u, Len(u))
    BY <1>4, <1>7, <1>8
<1> QED BY <1>6, <1>9 DEF u, m, n

LEMMA LedAppend ==
    ASSUME NEW S, NEW h \in Seq(S), NEW m \in S, Led(h, 1), m.role # "system",
           m.role = "user" => m.content = Task
    PROVE  /\ Led(Append(h, m), 1)
           /\ Asks(h, Len(h)) \/ m.role = "user" => Asks(Append(h, m), Len(Append(h, m)))
<1> DEFINE z == <<m>>
<1>1. z \in Seq(S) /\ Len(z) = 1 /\ z[1] = m
    OBVIOUS
<1>2. Append(h, m) = h \o z
    BY AppendIsJoin
<1> HIDE DEF z
<1>3. \A i \in 1 .. Len(z) : i = 1
    BY <1>1
<1>4. \A i \in 1 .. Len(z) : z[i].role # "system" /\ (z[i].role = "user" => z[i].content = Task)
    BY <1>1, <1>3
<1>5. m.role = "user" => Asks(z, Len(z))
    BY <1>1 DEF Asks
<1>6. /\ Led(h \o z, 1)
      /\ Asks(h, Len(h)) \/ Asks(z, Len(z)) => Asks(h \o z, Len(h \o z))
    BY <1>1, <1>4, LedJoined
<1> QED BY <1>2, <1>5, <1>6

LEMMA InstructionsLead ==
    /\ Led(Instructions, 1)
    /\ \A h \in Seq(Message) : Led(h, 1) => Led(Ask(h), 1) /\ Asks(Ask(h), Len(Ask(h)))
<1>1. Led(Instructions, 1)
    <2>1. Len(Instructions) = 1 /\ Instructions[1] = [role |-> "system", content |-> System]
        BY DEF Instructions
    <2>2. (1 + 1) .. 1 = {} /\ \A i \in 1 .. 1 : i = 1
        OBVIOUS
    <2> QED BY <2>1, <2>2 DEF Led
<1>2. ASSUME NEW h \in Seq(Message), Led(h, 1) PROVE Led(Ask(h), 1) /\ Asks(Ask(h), Len(Ask(h)))
    <2> DEFINE m == [role |-> "user", content |-> Task]
    <2>1. m \in Message /\ m.role = "user" /\ m.content = Task
        BY SaidAre DEF Message
    <2>2. Ask(h) = Append(h, m)
        BY DEF Ask
    <2> HIDE DEF m
    <2> QED BY <1>2, <2>1, <2>2, LedAppend
<1> QED BY <1>1, <1>2

\* The step of one agent.
LEMMA OneHears ==
    ASSUME AgentsInv, ContextInv, NEW w \in Agent, NEW r, Heard(r), worker' = [worker EXCEPT ![w] = r]
    PROVE  ContextInv'
<1>1. worker \in [Agent -> {worker[v] : v \in Agent}]
    BY DEF AgentsInv, Typed
<1>2. worker'[w] = r /\ \A v \in Agent : v # w => worker'[v] = worker[v]
    BY <1>1
<1>3. ASSUME NEW v \in Agent PROVE Heard(worker'[v])
    BY <1>2 DEF ContextInv
<1> QED BY <1>3 DEF ContextInv, Heard, WellAnswered, Led, Asks, SentOf, Carried

LEMMA BegunHeard ==
    ASSUME NEW t, NEW h, Led(h, 1), Asks(h, Len(h)), NEW step
    PROVE  Heard(Begun(t, h)) /\ Heard([Begun(t, h) EXCEPT !.step = step])
BY DEF Begun, Gone, Heard

LEMMA GoneHeard ==
    /\ Heard(Gone) /\ Heard([Gone EXCEPT !.at = "idle"])
    /\ \A h : /\ Heard([Gone EXCEPT !.at = "gone", !.history = h])
              /\ Led(h, 1) => Heard([Gone EXCEPT !.at = "prompt", !.history = h])
BY DEF Gone, Heard

LEMMA EndsHeard ==
    ASSUME AgentsInv, ContextInv, NEW w \in Agent, NEW result, NEW h, Led(h, 1), EndsWith(w, result, h)
    PROVE  ContextInv'
<1>1. CASE w = Terminal
    <2>1. CASE result = "raised"
        <3>1. worker' = [worker EXCEPT ![w] = [Gone EXCEPT !.at = "gone", !.history = h]]
            BY <1>1, <2>1 DEF EndsWith
        <3> QED BY <3>1, GoneHeard, OneHears
    <2>2. CASE result # "raised"
        <3>1. worker' = [worker EXCEPT ![w] = [Gone EXCEPT !.at = "prompt", !.history = h]]
            BY <1>1, <2>2 DEF EndsWith
        <3> QED BY <3>1, GoneHeard, OneHears
    <2> QED BY <2>1, <2>2
<1>2. CASE w # Terminal
    <2>1. worker' = [worker EXCEPT ![w] = [Gone EXCEPT !.at = "idle"]]
        BY <1>2 DEF EndsWith
    <2> QED BY <2>1, GoneHeard, OneHears
<1> QED BY <1>1, <1>2

LEMMA RunHeard == AgentsInv /\ ContextInv /\ Run => ContextInv'
<1> SUFFICES ASSUME AgentsInv, ContextInv, Run PROVE ContextInv'
    OBVIOUS
<1> DEFINE n == Cardinality(Pending)
           idle == [Gone EXCEPT !.at = "idle"]
<1>1. worker' = [w \in Agent |-> IF w \in 1 .. n THEN idle ELSE worker[w]]
    BY DEF Run
<1>2. Heard(idle)
    BY GoneHeard
<1> HIDE DEF n, idle
<1>3. ASSUME NEW v \in Agent PROVE Heard(worker'[v])
    BY <1>1, <1>2 DEF ContextInv
<1> QED BY <1>3 DEF ContextInv, Heard, WellAnswered, Led, Asks, SentOf, Carried

LEMMA PromptHeard ==
    ASSUME AgentsInv, ContextInv, Say \/ SayTask \/ Clear
    PROVE  ContextInv'
<1> DEFINE h == worker[Terminal].history
<1>1. Terminal \in Agent /\ worker[Terminal].at = "prompt"
    BY AgentsAre DEF Say, SayTask, Clear, AtPrompt
<1>2. h \in Seq(Message) /\ Led(h, 1)
    BY <1>1, CallingIs DEF ContextInv, Heard, IsWorker
<1>3. /\ Led(Ask(h), 1) /\ Asks(Ask(h), Len(Ask(h))) /\ Led(Instructions, 1)
      /\ Led(Ask(Instructions), 1) /\ Asks(Ask(Instructions), Len(Ask(Instructions)))
    BY <1>2, InstructionsLead, InstructionsPaired
<1>4. CASE Say
    <2>1. worker' = [worker EXCEPT ![Terminal] = Begun(0, Ask(h))]
        BY <1>4 DEF Say
    <2>2. Heard(Begun(0, Ask(h)))
        BY <1>3, BegunHeard
    <2> QED BY <1>1, <2>1, <2>2, OneHears
<1>5. CASE SayTask
    <2>1. worker' = [worker EXCEPT ![Terminal] = Begun(1, Ask(Instructions))]
        BY <1>5 DEF SayTask
    <2>2. Heard(Begun(1, Ask(Instructions)))
        BY <1>3, BegunHeard
    <2> QED BY <1>1, <2>1, <2>2, OneHears
<1>6. CASE Clear
    <2> DEFINE r == [worker[Terminal] EXCEPT !.history = Instructions]
    <2>1. worker' = [worker EXCEPT ![Terminal] = r]
        BY <1>6 DEF Clear
    <2>2. IsWorker(worker[Terminal])
        BY <1>1, CallingIs
    <2>3. r.at = "prompt" /\ r.history = Instructions
        BY <1>1, <2>2 DEF IsWorker
    <2> HIDE DEF r
    <2>4. Heard(r)
        BY <1>3, <2>3 DEF Heard
    <2> QED BY <1>1, <2>1, <2>4, OneHears
<1> QED BY <1>4, <1>5, <1>6

LEMMA TakeTaskHeard ==
    ASSUME AgentsInv, ContextInv, NEW w \in Agent, TakeTask(w)
    PROVE  ContextInv'
<1>1. worker' = [worker EXCEPT ![w] = Begun(Head(queue), Ask(Instructions))]
    BY DEF TakeTask
<1>2. Led(Ask(Instructions), 1) /\ Asks(Ask(Instructions), Len(Ask(Instructions)))
    BY InstructionsLead, InstructionsPaired
<1>3. Heard(Begun(Head(queue), Ask(Instructions)))
    BY <1>2, BegunHeard
<1> QED BY <1>1, <1>3, OneHears

LEMMA LeaveHeard ==
    ASSUME AgentsInv, ContextInv, NEW w \in Agent, Leave(w)
    PROVE  ContextInv'
<1>1. worker' = [worker EXCEPT ![w] = Gone]
    BY DEF Leave
<1> QED BY <1>1, GoneHeard, OneHears

\* What the budget of a call leaves.
LEMMA BudgetLeaves ==
    ASSUME NEW maxOutput \in Nat, NEW size \in Nat, size <= Budget(maxOutput)
    PROVE  size + maxOutput <= MaxSeqLen /\ (CompactAt > 0 => size <= CompactAt)
<1>1. MaxSeqLen \in Nat /\ CompactAt \in Nat
    BY ContextAssumption
<1> QED BY <1>1 DEF Budget, Least

LEMMA CallHeard ==
    ASSUME AgentsInv, ContextInv, NEW w \in Agent, Call(w)
    PROVE  ContextInv'
<1> DEFINE at == worker[w]
           h == at.history
           sent == Sent(w)
           plan == Fit(sent, MaxTokens)
           size == Size(plan.messages)
           Said1(x, y, z, u) == Completion(Prefill, size, MaxTokens, x, y, z, u)
<1>1. PICK thinking \in Thinking, speech \in Speech, ending \in Final, stops \in Stops :
         /\ plan # NoPlan
         /\ worker' = [worker EXCEPT ![w] =
              [worker[w] EXCEPT !.at = "answered", !.plan = plan, !.answer = Said1(thinking, speech, ending, stops)]]
    BY CallIs
<1>2. IsWorker(at) /\ h \in Seq(Message) /\ Led(h, 1) /\ Asks(h, Len(h))
    BY CallingIs DEF ContextInv, Heard, IsWorker, Call
<1>3. Normalize(sent) \in Seq(Msg(Word)) /\ Led(Normalize(sent), 2)
      /\ Asks(Normalize(sent), Len(Normalize(sent)))
    BY <1>2, SentLed
<1>4. MaxTokens \in Nat \ {0} /\ MaxTokens \in Nat /\ Words(Word)
    BY Numbers, WordsAre
<1>5. sent = SentOf(h)
    BY DEF Sent, SentOf, Plain
<1> HIDE DEF sent
<1>6. Carried(Normalize(sent), plan)
    BY <1>1, <1>3, <1>4, PlanCarries
<1>7. plan \in PlanOf(Word) /\ Fits(plan.messages, Budget(MaxTokens))
    BY <1>1, <1>3, <1>4, FitTyped
<1> DEFINE a == Said1(thinking, speech, ending, stops)
<1> HIDE DEF plan
<1>8. size \in Nat /\ size <= Budget(MaxTokens)
    BY <1>7, SizeTyped DEF PlanOf, Fits
<1>9. size + MaxTokens <= MaxSeqLen /\ (CompactAt > 0 => size <= CompactAt)
    <2> DEFINE n == size
    <2>1. n \in Nat /\ n <= Budget(MaxTokens)
        BY <1>8
    <2> HIDE DEF n
    <2>2. n + MaxTokens <= MaxSeqLen /\ (CompactAt > 0 => n <= CompactAt)
        BY <1>4, <2>1, BudgetLeaves
    <2> QED BY <2>2 DEF n
<1>10. /\ a.used <= MaxTokens
       /\ a.budget > 0 => a.prompt + Len(Decode(a.first)) + Len(Transition) + a.budget <= MaxSeqLen
    <2> DEFINE n == size
    <2>1. n \in Nat /\ thinking \in Nat /\ Prefill \in Seq(Word) /\ speech \in Seq(Word) /\ ending \in Seq(Word)
        BY <1>8, Numbers, SaidAre
    <2> HIDE DEF n
    <2> DEFINE b == Completion(Prefill, n, MaxTokens, thinking, speech, ending, stops)
    <2>2. /\ b.used <= MaxTokens
          /\ b.budget > 0 => b.prompt + Len(Decode(b.first)) + Len(Transition) + b.budget <= MaxSeqLen
        BY <1>4, <2>1, CompletionTyped, WordsAre, StopsAre
    <2> HIDE DEF b
    <2> QED BY <2>2 DEF b, n
<1> HIDE DEF a
<1> DEFINE r == [worker[w] EXCEPT !.at = "answered", !.plan = plan, !.answer = a]
<1>11. worker' = [worker EXCEPT ![w] = r]
    BY <1>1 DEF a
<1>12. r.at = "answered" /\ r.answer = a /\ r.plan = plan /\ r.history = h
    BY <1>2 DEF IsWorker
<1> HIDE DEF r, h
<1>13. WellAnswered(r)
    BY <1>5, <1>6, <1>9, <1>10, <1>12 DEF WellAnswered
<1>14. Heard(r)
    BY <1>2, <1>12, <1>13 DEF Heard
<1> QED BY <1>11, <1>14, OneHears

LEMMA WithAnswerLed ==
    ASSUME AgentsInv, ContextInv, NEW w \in Agent, At(w, "answered"), NEW n \in Nat
    PROVE  Led(WithAnswer(w, n), 1) /\ Asks(WithAnswer(w, n), Len(WithAnswer(w, n)))
<1> DEFINE h == worker[w].history
           m == [role |-> "assistant", content |-> worker[w].answer.text, calls |-> n]
<1>1. /\ h \in Seq(Message) /\ worker[w].answer.text \in Seq(Word)
      /\ Led(h, 1) /\ Asks(h, Len(h))
    BY CallingIs DEF Fine, IsWorker, At, ContextInv, Heard
<1>2. m \in Message /\ m.role = "assistant"
    BY <1>1 DEF Message
<1>3. WithAnswer(w, n) = Append(h, m)
    BY DEF WithAnswer
<1> HIDE DEF h, m
<1> QED BY <1>1, <1>2, <1>3, LedAppend

LEMMA FinalAnswerHeard ==
    ASSUME AgentsInv, ContextInv, NEW w \in Agent, FinalAnswer(w)
    PROVE  ContextInv'
<1>1. At(w, "answered") /\ EndsWith(w, "answer", WithAnswer(w, 0))
    BY DEF FinalAnswer, At
<1>2. Led(WithAnswer(w, 0), 1)
    BY <1>1, WithAnswerLed
<1> QED BY <1>1, <1>2, EndsHeard

LEMMA CallToolsHeard ==
    ASSUME AgentsInv, ContextInv, NEW w \in Agent, CallTools(w)
    PROVE  ContextInv'
<1> DEFINE at == worker[w]
           n == ToCarryOut(w)
           h == WithAnswer(w, n)
           r == [worker[w] EXCEPT !.at = "tools", !.calls = n, !.back = {}, !.history = h,
                                  !.plan = NoPlan, !.answer = <<>>]
<1>1. At(w, "answered") /\ worker' = [worker EXCEPT ![w] = r]
    BY DEF CallTools, At
<1>2. IsWorker(at) /\ Fine(w, at)
    BY CallingIs
<1>3. n \in Nat
    <2>1. Calls(at.answer.text) \in Nat
        BY <1>1, <1>2, CallsTyped DEF Fine, At
    <2> QED BY <2>1 DEF ToCarryOut
<1>4. Led(h, 1) /\ Asks(h, Len(h))
    BY <1>1, <1>3, WithAnswerLed
<1> HIDE DEF n, h
<1>5. r.at = "tools" /\ r.history = h
    BY <1>2 DEF IsWorker
<1> HIDE DEF r
<1>6. Heard(r)
    BY <1>4, <1>5 DEF Heard
<1> QED BY <1>1, <1>6, OneHears

LEMMA ToolReturnsHeard ==
    ASSUME AgentsInv, ContextInv, NEW w \in Agent, NEW i \in 1 .. worker[w].calls, ToolReturns(w, i)
    PROVE  ContextInv'
<1> DEFINE at == worker[w]
           r == [worker[w] EXCEPT !.back = worker[w].back \cup {i}]
<1>1. at.at = "tools" /\ worker' = [worker EXCEPT ![w] = r]
    BY DEF ToolReturns, At
<1>2. IsWorker(at) /\ Led(at.history, 1) /\ Asks(at.history, Len(at.history))
    BY <1>1, CallingIs DEF ContextInv, Heard
<1>3. r.at = "tools" /\ r.history = at.history
    BY <1>1, <1>2 DEF IsWorker
<1> HIDE DEF r
<1>4. Heard(r)
    BY <1>2, <1>3 DEF Heard
<1> QED BY <1>1, <1>4, OneHears

LEMMA AllBackHeard ==
    ASSUME AgentsInv, ContextInv, NEW w \in Agent, AllBack(w)
    PROVE  ContextInv'
<1> DEFINE at == worker[w]
           h == worker[w].history \o Results(w)
<1>1. /\ at.at = "tools"
      /\ NextCall(w, h, at.step + 1) \/ EndsWith(w, "max steps", h)
    BY DEF AllBack
<1>2. /\ at.history \in Seq(Message) /\ at.calls \in Nat
      /\ Led(at.history, 1) /\ Asks(at.history, Len(at.history))
    BY <1>1, CallingIs DEF ContextInv, Heard, IsWorker
<1>3. Results(w) \in Seq(Message) /\ \A i \in 1 .. Len(Results(w)) : Results(w)[i].role = "tool"
    BY <1>2, ResultsAre, ToolMessagesAre
<1>4. Led(h, 1) /\ Asks(h, Len(h))
    BY <1>2, <1>3, LedJoined
<1> HIDE DEF h
<1>5. CASE NextCall(w, h, at.step + 1)
    <2>1. worker' = [worker EXCEPT ![w] = [Begun(at.task, h) EXCEPT !.step = at.step + 1]]
        BY <1>5 DEF NextCall
    <2>2. Heard([Begun(at.task, h) EXCEPT !.step = at.step + 1])
        BY <1>4, BegunHeard
    <2> QED BY <2>1, <2>2, OneHears
<1> QED BY <1>1, <1>4, <1>5, EndsHeard

LEMMA EarlyHeard ==
    ASSUME AgentsInv, ContextInv, NEW w \in Agent,
           \/ CallFails(w) \/ TooLong(w)
           \/ \E i \in 1 .. worker[w].calls : ToolRaises(w, i)
    PROVE  ContextInv'
<1>1. PICK result \in {"error", "raised"} : EndsWith(w, result, worker[w].history)
    BY DEF CallFails, TooLong, ToolRaises
<1>2. Led(worker[w].history, 1)
    BY DEF CallFails, TooLong, ToolRaises, ContextInv, Heard
<1> QED BY <1>1, <1>2, EndsHeard

LEMMA ContextBegins == AgentsInit => ContextInv
<1> SUFFICES ASSUME AgentsInit PROVE ContextInv
    OBVIOUS
<1> DEFINE first == [Gone EXCEPT !.at = "prompt", !.history = Instructions]
<1>1. worker = [w \in Agent |-> IF w # Terminal THEN Gone ELSE first]
    BY DEF AgentsInit
<1>2. Heard(first) /\ Heard(Gone)
    BY InstructionsLead, GoneHeard
<1> HIDE DEF first
<1> QED BY <1>1, <1>2 DEF ContextInv

LEMMA ContextGoesOn == AgentsInv /\ ContextInv /\ [AgentsNext]_agentVars => ContextInv'
<1> SUFFICES ASSUME AgentsInv, ContextInv, [AgentsNext]_agentVars PROVE ContextInv'
    OBVIOUS
<1>1. CASE UNCHANGED worker
    BY <1>1 DEF ContextInv, Heard, WellAnswered, Led, Asks, SentOf, Carried
<1>2. SubmitTask \/ UNCHANGED agentVars => UNCHANGED worker
    BY DEF SubmitTask, agentVars
<1>3. ASSUME NEW w \in Agent, Step(w) PROVE ContextInv'
    BY <1>3, TakeTaskHeard, LeaveHeard, EarlyHeard, CallHeard, FinalAnswerHeard, CallToolsHeard,
       ToolReturnsHeard, AllBackHeard DEF Step
<1> QED BY <1>1, <1>2, <1>3, RunHeard, PromptHeard DEF AgentsNext

LEMMA ContextIsFit == AgentsInv /\ ContextInv => ContextFits
<1> SUFFICES ASSUME AgentsInv, ContextInv, NEW w \in Agent, At(w, "answered")
             PROVE  LET plan == worker[w].plan
                        a == worker[w].answer
                        all == Normalize(Sent(w))
                        kept == plan.messages
                    IN /\ Size(kept) + MaxTokens <= MaxSeqLen
                       /\ CompactAt > 0 => Size(kept) <= CompactAt
                       /\ a.used <= MaxTokens
                       /\ a.budget > 0 =>
                            a.prompt + Len(Decode(a.first)) + Len(Transition) + a.budget <= MaxSeqLen
                       /\ kept[2].role = "system" /\ Head(kept[2].content) = Head(System)
                       /\ [i \in DOMAIN Newest(kept) |-> Newest(kept)[i].role]
                            = [i \in DOMAIN Newest(all) |-> Newest(all)[i].role]
                       /\ Head(Newest(kept)[1].content) = Head(Task)
                       /\ plan.summarized > 0 => kept[2].content = System /\ Newest(kept) = Newest(all)
                       /\ plan.retained + plan.summarized + plan.dropped = Len(all)
    BY DEF ContextFits
<1>1. WellAnswered(worker[w])
    BY DEF ContextInv, Heard, At
<1>2. Sent(w) = SentOf(worker[w].history)
    BY DEF Sent, SentOf, Plain
<1> QED BY <1>1, <1>2 DEF WellAnswered, Carried

\* Whatever the messages of a request say and however long they are, its prompt
\* and both passes of its answer stay in the window and in what the client
\* allowed; the instructions and the newest turn reach the model, word for word
\* beside a summary, and every message is kept, summarized or dropped.
THEOREM ContextAlwaysFits == AgentsSpec => []ContextFits
<1>1. AgentsInit => ContextInv
    BY ContextBegins
<1>2. AgentsInv /\ ContextInv /\ [AgentsNext]_agentVars => ContextInv'
    BY ContextGoesOn
<1>3. AgentsInv /\ ContextInv => ContextFits
    BY ContextIsFit
<1> QED BY <1>1, <1>2, <1>3, AgentsHold, PTL DEF AgentsSpec
================================================================================
