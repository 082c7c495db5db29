----------------------------- MODULE Scheduler -----------------------------
(***************************************************************************)
(* The scheduler as the steps of the engine drive it.  A step of the       *)
(* engine forgets the requests that finished before, takes out those that  *)
(* were cancelled or are late, and schedules a batch; the forward pass     *)
(* runs; then a token is sampled for every request of the batch and the    *)
(* requests are updated.  Requests come at any time (on CPU the step runs  *)
(* in an executor thread).  A step may fail between its two halves.        *)
(***************************************************************************)
EXTENDS SchedulerOps

CONSTANTS
    CanCancel,      \* requests may be cancelled or time out
    CanFail         \* a forward pass may raise

VARIABLES
    sch,        \* the scheduler
    next,       \* next_request_id
    batch,      \* the batch whose forward pass runs, <<>> between steps
    steady      \* history: update_after_step has not preempted anybody yet

vars == <<sch, next, batch, steady>>

BatchEntries == [ req : Request, kind : {"prefill", "decode", "fallback"}, from : Nat, count : Nat ]

TypeOK ==
    /\ sch \in SchedulerType
    /\ next \in 0 .. NumRequests
    /\ batch \in Seq(BatchEntries)
    /\ steady \in BOOLEAN

Init ==
    /\ sch = InitScheduler
    /\ next = 0
    /\ batch = <<>>
    /\ steady = TRUE

\* add_request of the engine: whole blocks of the prompt may be cached.
Add ==
    /\ next < NumRequests
    /\ \E k \in 0 .. PromptLen[next] \div KVBlockSize :
         sch' = SetReused(AddRequest(sch, next), next, k * KVBlockSize)
    /\ next' = next + 1
    /\ UNCHANGED <<batch, steady>>

\* add_request when no KV slot is left: the admission is rolled back.
AddFails ==
    /\ next < NumRequests
    /\ sch' = RemoveRequest(AddRequest(sch, next), next)
    /\ next' = next + 1
    /\ UNCHANGED <<batch, steady>>

\* The first half of step(); nothing is returned when nothing runs.
HasWork == sch.heap # {} \/ sch.running # <<>>

Swept(R) == CancelPending(CancelRunning([sch EXCEPT !.finished = <<>>], R), R)

BeginStep(R) ==
    /\ batch = <<>>
    /\ HasWork
    /\ sch' = Scheduled(Swept(R))
    /\ batch' = BatchOf(sch')
    /\ UNCHANGED <<next, steady>>

\* The second half: a token for every request of the batch.
InBatch == {batch[i].req : i \in DOMAIN batch}

Update(tokens) ==
    /\ batch # <<>>
    /\ sch' = Updated(sch, tokens)
    /\ batch' = <<>>
    /\ steady' = (steady /\ sch'.preempted = sch.preempted)
    /\ UNCHANGED next

\* The forward pass raises: the engine loop gives up all that runs.
FailStep ==
    /\ CanFail
    /\ batch # <<>>
    /\ sch' = DropRunning(sch)
    /\ batch' = <<>>
    /\ UNCHANGED <<next, steady>>

Cancellable == ToSet(sch.running) \cup sch.heap

EndStep == \E tokens \in [InBatch -> Token] : Update(tokens)

Next == \/ Add
        \/ AddFails
        \/ BeginStep({})
        \/ CanCancel /\ \E r \in Cancellable : BeginStep({r})
        \/ EndStep
        \/ FailStep

\* The engine loop steps as long as there is work: weak fairness of BeginStep({})
\* and of EndStep, with their ENABLED written out.
BeginEnabled ==
    batch = <<>> /\ HasWork /\ <<Scheduled(Swept({})), BatchOf(Scheduled(Swept({})))>> # <<sch, batch>>

Fairness ==
    /\ []<>~BeginEnabled \/ []<><<BeginStep({})>>_vars
    /\ []<>(batch = <<>>) \/ []<><<EndStep>>_vars

Spec == Init /\ [][Next]_vars /\ Fairness

-----------------------------------------------------------------------------
(* Properties. *)

\* The tokens and the prefill progress of a request, wherever preemption keeps them.
Kept(q)     == IF q.saved = NoSave THEN [out |-> q.out, prog |-> q.prog] ELSE q.saved
Output(r)   == Kept(sch.req[r]).out
Progress(r) == Kept(sch.req[r]).prog

\* Every request is in one queue, once, and its status says which: the loops of
\* update_after_step and schedule, which change the lists they walk over or
\* rebuild them, neither lose nor double a request (i64_scheduler.py:340-459,
\* 545-586).
OneQueue ==
    /\ TypeOK
    /\ IsInjective(sch.running \o sch.preempted \o sch.finished)
    /\ sch.heap \cap ToSet(sch.running \o sch.preempted \o sch.finished) = {}
    /\ \A r \in Request :
        /\ r \in sch.heap <=> sch.req[r].status = "pending"
        /\ sch.req[r].status = "preempted" => r \in ToSet(sch.preempted)
        /\ r \in ToSet(sch.running) => sch.req[r].status \in {"running", "finished"}

\* No block belongs to two requests or is free while a request has it, across
\* preemption, cancellation and failed steps (i64_scheduler.py:315-331).
BlocksDisjoint ==
    \A r \in Request :
        /\ sch.req[r].blocks \cap sch.free = {}
        /\ \A q \in Request \ {r} : sch.req[r].blocks \cap sch.req[q].blocks = {}

\* A running request that goes on has the blocks that its tokens need
\* (i64_scheduler.py:426-440, 566-586).
BlocksSuffice ==
    \A r \in ToSet(sch.running) :
        ~IsFinished(sch, r) => Cardinality(sch.req[r].blocks) >= BlocksFor(Total(sch, r))

\* What a request has generated and prefilled is never taken back or changed,
\* however often it is preempted and resumed (i64_scheduler.py:365-382, 443-455).
WorkKept ==
    [][\A r \in Request : /\ IsPrefix(Output(r), Output(r)')
                          /\ Progress(r) <= Progress(r)' \/ sch.req[r].status = "new"]_vars

\* As long as update_after_step has not preempted anybody - it may preempt the
\* very request it extends - admission, preemption, cancellation and failed
\* steps lose no block: each is free or some request's (i64_scheduler.py:315-456).
SteadyConserved == steady => KVBlock = sch.free \cup UNION {sch.req[r].blocks : r \in Request}

\* Preemption, admission, cancellation and failed steps neither share a block, nor
\* leave a running request short of one, nor lose one (i64_scheduler.py:315-456).
BlocksExact == BlocksDisjoint /\ BlocksSuffice /\ SteadyConserved

\* In the same circumstances no request generates past its end, although it is
\* only taken out one step later (i64_scheduler.py:112-121, 394-403).
StopsAtEnd(r) == \A i \in 1 .. Len(Output(r)) - 1 : Output(r)[i] # "eos"
SteadyStops   == steady => \A r \in Request : StopsAtEnd(r) /\ Len(Output(r)) <= MaxNew[r]

\* In the same circumstances every request comes to an end: it finishes, or a
\* failed step gives it up; admission and preemption starve nobody.  Excepted is
\* that a failed step leaves only preempted requests, which the engine loop does
\* not count as work (i64_scheduler.py:340-456, i64_engine.py:1587-1589).
Over(r)  == sch.req[r].status = "finished" \/ (sch.req[r].status = "running" /\ r \notin ToSet(sch.running))
Stranded == sch.preempted # <<>> /\ ~HasWork
Finishes == [](steady /\ ~Stranded) => \A r \in Request : sch.req[r].status = "pending" ~> Over(r)

\* What the comment on stop_token_ids says (i64_scheduler.py:103-105: they "are
\* checked immediately after sampling and therefore cannot leak a following
\* token into a streaming response"): no token follows one that ends a request.
NoTokenAfterStop == \A r \in Request : StopsAtEnd(r)

\* What the comment in update_after_step says (i64_scheduler.py:555: "Advance by
\* the actual chunk size scheduled (not jump to complete)"): after a prefill
\* chunk the progress of the request has grown by the size of the chunk.
ProgressIsScheduled ==
    [][\A r \in Request, n \in 1 .. MaxPrefill :
         /\ \E i \in DOMAIN batch : batch[i].req = r /\ batch[i].kind = "prefill" /\ batch[i].count = n
         /\ Output(r)' # Output(r)
         => Progress(r)' = Progress(r) + n]_vars

\* What test_blocks_freed_on_finish asserts (tests/test_scheduler.py:218: "all
\* freed"): when no request is left, every block is free.
AllFreedAtEnd ==
    sch.heap = {} /\ sch.running = <<>> /\ sch.preempted = <<>> => sch.free = KVBlock
=============================================================================
