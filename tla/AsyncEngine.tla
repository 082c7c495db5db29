---------------------------- MODULE AsyncEngine ----------------------------
(***************************************************************************)
(* AsyncI64Engine (engine/i64_engine.py): clients submit requests with     *)
(* generate or generate_stream and wait; _engine_loop steps the engine and *)
(* answers them; stop drains and shuts down.                               *)
(*                                                                         *)
(* A step runs in an executor thread (device "cpu"), so clients act while  *)
(* it runs and before the loop looks at its outcome; on a GPU the step     *)
(* blocks the event loop, which only removes interleavings.  The scheduler *)
(* is reduced to its queues: requests run in order of arrival and nobody   *)
(* is preempted (Scheduler has the rest).  Of a request only matters how   *)
(* many tokens it may still generate.  Merged requests are left out.       *)
(***************************************************************************)
EXTENDS Integers, FiniteSetsExt

CONSTANTS
    NumRequests,    \* bound on the requests ever submitted
    Streams,        \* those submitted with generate_stream
    MaxNew,         \* max_new_tokens
    MaxBatch,       \* max_batch_size
    NumSlots,       \* KV slots
    MaxQueueDepth,  \* max_queue_depth
    MaxErrors,      \* _MAX_CONSECUTIVE_ERRORS
    CanFail,        \* a forward pass may raise
    CanStop         \* stop may be called

Request == 1 .. NumRequests

ASSUME AsyncEngineAssumption ==
    /\ NumRequests \in Nat /\ Streams \subseteq Request
    /\ {MaxNew, MaxBatch, NumSlots, MaxQueueDepth, MaxErrors} \subseteq Nat \ {0}

VARIABLES
    where,      \* the scheduler's queue each request is in
    left,       \* tokens each request may still generate
    slots,      \* _request_to_slot: requests with a KV slot
    cancelled,  \* _cancelled_requests
    futures,    \* _pending_futures
    final,      \* the final item in each stream's token queue
    client,     \* what each client knows
    active,     \* active_requests
    loop,       \* where _engine_loop is
    errors,     \* _consecutive_errors
    stage,      \* of stop
    intact      \* history: no step failed yet while finished requests were unanswered

engine == <<where, left, slots>>
vars == <<where, left, slots, cancelled, futures, final, client, active, loop, errors, stage, intact>>

In(q)    == {r \in Request : where[r] = q}
Waiting  == {r \in Request : client[r] = "waiting"}
Put(f, S, v) == [r \in Request |-> IF r \in S THEN v ELSE f[r]]

TypeOK ==
    /\ where \in [Request -> {"new", "pending", "running", "finished", "gone"}]
    /\ left \in [Request -> 0 .. MaxNew]
    /\ slots \subseteq Request /\ Cardinality(slots) <= NumSlots
    /\ cancelled \subseteq Request /\ futures \subseteq Request
    /\ final \in [Request -> {"none", "done", "error", "cancelled"}]
    /\ client \in [Request -> {"new", "refused", "waiting", "left", "done", "error", "cancelled"}]
    /\ active \in 0 .. NumRequests
    /\ loop \in {"idle", "stepping", "stepped", "failed", "off"}
    /\ errors \in 0 .. MaxErrors
    /\ stage \in {"up", "draining", "stopped"}
    /\ intact \in BOOLEAN

Init ==
    /\ where = [r \in Request |-> "new"]
    /\ left = [r \in Request |-> MaxNew]
    /\ slots = {} /\ cancelled = {} /\ futures = {}
    /\ final = [r \in Request |-> "none"]
    /\ client = [r \in Request |-> "new"]
    /\ active = 0
    /\ loop = "idle" /\ errors = 0 /\ stage = "up"
    /\ intact = TRUE

-----------------------------------------------------------------------------
(* Clients. *)

\* Ids are given in order.
IsNext(r)  == client[r] = "new" /\ \A q \in 1 .. r - 1 : client[q] # "new"
SlotFree  == Cardinality(slots) < NumSlots

\* generate refuses when it is draining or full; generate_stream does not look.
Accepts(r) == r \in Streams \/ (stage = "up" /\ active < MaxQueueDepth)

Submit(r) ==
    /\ stage # "stopped" /\ IsNext(r)
    /\ Accepts(r) /\ SlotFree
    /\ where' = [where EXCEPT ![r] = "pending"]
    /\ slots' = slots \cup {r}
    /\ futures' = futures \cup {r}
    /\ active' = active + 1
    /\ client' = [client EXCEPT ![r] = "waiting"]
    /\ UNCHANGED <<left, cancelled, final, loop, errors, stage, intact>>

\* No slot: the scheduler's admission is rolled back and the call raises.
Refuse(r) ==
    /\ stage # "stopped" /\ IsNext(r)
    /\ ~(Accepts(r) /\ SlotFree)
    /\ client' = [client EXCEPT ![r] = "refused"]
    /\ UNCHANGED <<engine, cancelled, futures, final, active, loop, errors, stage, intact>>

\* POST /v1/cancel/{request_id}
Cancel(r) ==
    /\ where[r] \in {"pending", "running", "finished"} /\ r \notin cancelled
    /\ cancelled' = cancelled \cup {r}
    /\ UNCHANGED <<engine, futures, final, client, active, loop, errors, stage, intact>>

\* generate_stream gets the final item.
StreamEnds(r) ==
    /\ r \in Streams \cap Waiting /\ final[r] # "none"
    /\ client' = [client EXCEPT ![r] = final[r]]
    /\ active' = active - 1
    /\ futures' = futures \ {r}
    /\ cancelled' = IF r \in futures THEN cancelled \cup {r} ELSE cancelled
    /\ UNCHANGED <<engine, final, loop, errors, stage, intact>>

\* The client of a stream disconnects: the generator is closed.
StreamLeaves(r) ==
    /\ r \in Streams \cap Waiting
    /\ client' = [client EXCEPT ![r] = "left"]
    /\ active' = active - 1
    /\ futures' = futures \ {r}
    /\ cancelled' = IF r \in futures THEN cancelled \cup {r} ELSE cancelled
    /\ UNCHANGED <<engine, final, loop, errors, stage, intact>>

-----------------------------------------------------------------------------
(* The engine loop.  Answering the requests R means popping their targets   *)
(* and resolving the future or queueing the final item.                     *)

\* Mutant: a stream gets no final item.
AnswerNoFinalItem(R, outcome) ==
    LET told == R \cap futures IN
    /\ futures' = futures \ told
    /\ client'  = Put(client, told \ Streams, outcome)
    /\ active'  = active - Cardinality(told \ Streams)
    /\ UNCHANGED final

Answer(R, outcome) ==
    LET told == R \cap futures IN
    /\ futures' = futures \ told
    /\ client'  = Put(client, told \ Streams, outcome)
    /\ active'  = active - Cardinality(told \ Streams)
    /\ final'   = Put(final, told \cap Streams, outcome)

\* step(), up to the forward pass: what finished before is forgotten; cancelled
\* requests, and running ones past their deadline, finish; so do those that
\* generated their last token; pending ones take their place.
Admitted(R, room) == {r \in R : Cardinality({q \in R : q < r}) < room}

\* Mutant: a cancelled request that waits is forgotten at once.
BeginStepDropsPending(late) ==
    /\ loop = "idle"
    /\ In("pending") \cup In("running") # {}
    /\ LET out    == late \cup (cancelled \cap (In("pending") \cup In("running")))
           over   == (out \cup {r \in In("running") : left[r] = 0}) \cap In("running")
           stay   == In("running") \ over
           admit  == Admitted(In("pending") \ out, MaxBatch - Cardinality(stay))
       IN  /\ where' = [r \in Request |-> CASE r \in In("finished") \cup (out \cap In("pending")) -> "gone"
                                            [] r \in over           -> "finished"
                                            [] r \in admit          -> "running"
                                            [] OTHER                -> where[r]]
           /\ slots' = slots \ (In("finished") \cup out)
           /\ cancelled' = cancelled \ out
           /\ loop' = IF stay \cup admit = {} THEN "stepped" ELSE "stepping"
    /\ UNCHANGED <<left, futures, final, client, active, errors, stage, intact>>

BeginStep(late) ==
    /\ loop = "idle"
    /\ In("pending") \cup In("running") # {}
    /\ LET out    == late \cup (cancelled \cap (In("pending") \cup In("running")))
           over   == out \cup {r \in In("running") : left[r] = 0}
           stay   == In("running") \ over
           wait   == In("pending") \ over
           admit  == Admitted(wait, MaxBatch - Cardinality(stay))
       IN  /\ where' = [r \in Request |-> CASE r \in In("finished") -> "gone"
                                            [] r \in over           -> "finished"
                                            [] r \in admit          -> "running"
                                            [] OTHER                -> where[r]]
           /\ slots' = slots \ (In("finished") \cup (out \cap In("running")))
           /\ cancelled' = cancelled \ out
           /\ loop' = IF stay \cup admit = {} THEN "stepped" ELSE "stepping"
    /\ UNCHANGED <<left, futures, final, client, active, errors, stage, intact>>

\* The rest of step(): each running request gets a token, some their last.
EndStep(stopping) ==
    /\ loop = "stepping"
    /\ left' = [r \in Request |-> CASE r \in stopping      -> 0
                                    [] r \in In("running") -> left[r] - 1
                                    [] OTHER               -> left[r]]
    /\ loop' = "stepped"
    /\ UNCHANGED <<where, slots, cancelled, futures, final, client, active, errors, stage, intact>>

FailStep ==
    /\ CanFail /\ loop = "stepping"
    /\ loop' = "failed"
    /\ UNCHANGED <<engine, cancelled, futures, final, client, active, errors, stage, intact>>

\* Finished requests are answered and forgotten.
Deliver ==
    /\ loop = "stepped"
    /\ Answer(In("finished"), "done")
    /\ where' = Put(where, In("finished"), "gone")
    /\ slots' = slots \ In("finished")
    /\ errors' = 0
    /\ loop' = "idle"
    /\ UNCHANGED <<left, cancelled, stage, intact>>

\* Mutant: the slots of the requests are not freed.
HandleFailureKeepsSlots ==
    /\ loop = "failed"
    /\ Answer(In("running"), "error")
    /\ where' = Put(where, In("running"), "gone")
    /\ errors' = errors + 1
    /\ loop' = IF errors' >= MaxErrors THEN "off" ELSE "idle"
    /\ intact' = (intact /\ In("finished") \cap futures = {})
    /\ UNCHANGED <<left, slots, cancelled, stage>>

\* The handler of a failed step: the running requests fail.
HandleFailure ==
    /\ loop = "failed"
    /\ Answer(In("running"), "error")
    /\ where' = Put(where, In("running"), "gone")
    /\ slots' = slots \ In("running")
    /\ errors' = errors + 1
    /\ loop' = IF errors' >= MaxErrors THEN "off" ELSE "idle"
    /\ intact' = (intact /\ In("finished") \cap futures = {})
    /\ UNCHANGED <<left, cancelled, stage>>

-----------------------------------------------------------------------------
(* stop *)

Drain ==
    /\ CanStop /\ stage = "up"
    /\ stage' = "draining"
    /\ UNCHANGED <<engine, cancelled, futures, final, client, active, loop, errors, intact>>

\* Nothing is active any more, or the drain timeout is over: then what is left
\* is cancelled.  The task of the loop is cancelled in either case.
ShutDown ==
    /\ stage = "draining"
    /\ IF active = 0 THEN UNCHANGED <<client, final>>
       ELSE /\ client' = Put(client, futures \ Streams, "cancelled")
            /\ final'  = Put(final, futures \cap Streams, "cancelled")
    /\ loop' = "off"
    /\ stage' = "stopped"
    /\ UNCHANGED <<engine, cancelled, futures, active, errors, intact>>

Begin  == \E late \in SUBSET In("running") : BeginStep(late)
End    == \E stopping \in SUBSET In("running") : EndStep(stopping)

Next ==
    \/ \E r \in Request : Submit(r) \/ Refuse(r) \/ Cancel(r) \/ StreamEnds(r) \/ StreamLeaves(r)
    \/ Begin \/ End \/ FailStep \/ Deliver \/ HandleFailure
    \/ Drain \/ ShutDown

\* The event loop runs what is ready: the engine task, forward passes that
\* return, and streams that have an item.
Fairness ==
    /\ WF_vars(Begin) /\ WF_vars(End) /\ WF_vars(Deliver) /\ WF_vars(HandleFailure)
    /\ \A r \in Streams : WF_vars(StreamEnds(r))

Spec == Init /\ [][Next]_vars /\ Fairness

-----------------------------------------------------------------------------
(* Properties. *)

\* While the engine is up, active_requests, which generate's backpressure and
\* stop's drain go by, is the number of clients that wait: every way of ending -
\* result, error, end of stream, disconnection - counts down once
\* (i64_engine.py:1473, 1515, 1529, 1571-1579, 1622, 1691).
ActiveCountExact == stage # "stopped" => active = Cardinality(Waiting)

\* A request the scheduler may run has its KV slot, and no slot stays with a
\* request the scheduler has forgotten (i64_engine.py:457-474, 608-619, 1611-1627).
SlotsExact ==
    /\ In("pending") \cup In("running") \subseteq slots
    /\ slots \subseteq In("pending") \cup In("running") \cup In("finished")

\* Counters and slots agree with who waits and who is served, whatever fails,
\* leaves or is cancelled in between (i64_engine.py:457-474, 1473-1691).
CountsExact == TypeOK /\ ActiveCountExact /\ SlotsExact

\* A client that waits has an answer coming: its final item, or a request the
\* engine still knows, with its target in _pending_futures.
AnswerComing(r) ==
    \/ final[r] # "none"
    \/ r \in futures /\ where[r] \in {"pending", "running", "finished"}

\* That holds as long as no step failed that had just finished a request
\* (i64_engine.py:793-829, 1611-1638, 1658-1700); and when stop returns, nobody is
\* left waiting for an answer that will not come, not even the streams that came
\* while it drained (i64_engine.py:1461-1492).
NoAnswerLost ==
    /\ intact => \A r \in Waiting : AnswerComing(r)
    /\ stage = "stopped" => \A r \in Waiting : final[r] # "none"

\* Then, and unless failed steps end the loop, every client is answered, those
\* whose steps fail included (i64_engine.py:1498-1746).
LoopAlive == loop = "off" => stage = "stopped"
Answered ==
    [](intact /\ LoopAlive) => \A r \in Request : client[r] = "waiting" ~> client[r] # "waiting"

\* What the comment in the error handler says (i64_engine.py:1615: "Fail stuck
\* requests so clients get an error response"): a client does not wait for a
\* request the engine has given up.
StuckRequestsFail == \A r \in Waiting : AnswerComing(r)
=============================================================================
