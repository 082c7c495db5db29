--------------------------- MODULE SchedulerOps ---------------------------
(***************************************************************************)
(* The operations of I64Scheduler (engine/i64_scheduler.py) over one       *)
(* record:                                                                 *)
(*                                                                         *)
(*   heap       _pending_heap; requests leave it by (priority, arrival,    *)
(*              id), and ids are given in order of arrival                 *)
(*   running, finished, preempted   the lists                              *)
(*   free       free_blocks; which free block is taken is not told apart   *)
(*   req        the requests: status, priority, kv_block_ids, the output   *)
(*              tokens, prefill_progress, and what _try_preempt saves      *)
(*                                                                         *)
(* Of a token only matters whether it ends the request ("eos": the EOS     *)
(* token or one of stop_token_ids).  seq_pos is left out: with prompts     *)
(* that are not empty it is 0 exactly before the first chunk, and nothing  *)
(* else reads it.                                                          *)
(***************************************************************************)
EXTENDS Integers, SequencesExt

CONSTANTS
    NumRequests,        \* bound on the requests ever added
    PromptLen,          \* prompt length of each request
    MaxNew,             \* max_new_tokens of each request
    Priority,           \* priority of each request
    MaxBatch,           \* max_batch_size
    MaxPrefill,         \* max_prefill_tokens
    KVBlockSize,        \* kv_block_size
    MaxKVBlocks,        \* max_kv_blocks
    EnablePreemption    \* enable_preemption

Request == 0 .. NumRequests - 1

ASSUME SchedulerAssumption ==
    /\ NumRequests \in Nat
    /\ MaxBatch \in Nat \ {0} /\ MaxPrefill \in Nat \ {0}
    /\ KVBlockSize \in Nat \ {0} /\ MaxKVBlocks \in Nat \ {0}
    /\ PromptLen \in [Request -> Nat \ {0}]
    /\ MaxNew \in [Request -> Nat \ {0}]
    /\ Priority \in [Request -> Int]

KVBlock == 0 .. MaxKVBlocks - 1
Token   == {"tok", "eos"}
NoSave  == [out |-> <<"none">>, prog |-> 0]

RequestType ==
    [ status : {"new", "pending", "running", "preempted", "finished"},
      prio   : Int,
      blocks : SUBSET KVBlock,
      out    : Seq(Token),
      prog   : Nat,
      saved  : [out : Seq(Token), prog : Nat] \cup {NoSave} ]

SchedulerType ==
    [ heap      : SUBSET Request,
      running   : Seq(Request),
      finished  : Seq(Request),
      preempted : Seq(Request),
      free      : SUBSET KVBlock,
      req       : [Request -> RequestType] ]

InitScheduler ==
    [ heap      |-> {},
      running   |-> <<>>,
      finished  |-> <<>>,
      preempted |-> <<>>,
      free      |-> KVBlock,
      req       |-> [r \in Request |->
                       [ status |-> "new", prio |-> Priority[r], blocks |-> {}, out |-> <<>>,
                         prog |-> 0, saved |-> NoSave ]] ]

CeilDiv(a, b) == (a + b - 1) \div b
Total(sch, r) == PromptLen[r] + Len(sch.req[r].out)
BlocksFor(n)  == CeilDiv(n, KVBlockSize)

PrefillComplete(sch, r) == sch.req[r].prog >= PromptLen[r]
StoppedOnToken(sch, r)  == sch.req[r].out # <<>> /\ Last(sch.req[r].out) = "eos"

\* Mutant: end tokens are not looked at.
IsFinishedAtLimitOnly(sch, r) ==
    sch.req[r].status = "finished" \/ Len(sch.req[r].out) >= MaxNew[r]

IsFinished(sch, r) ==
    \/ sch.req[r].status = "finished"
    \/ Len(sch.req[r].out) >= MaxNew[r]
    \/ StoppedOnToken(sch, r)

-----------------------------------------------------------------------------
(* Loops.  They are recursive functions, which can be reasoned about.       *)

\* What n turns of a loop make of start.
Turns(Turn(_, _), start, n) ==
    LET after[i \in 0 .. n] == IF i = 0 THEN start ELSE Turn(after[i - 1], i)
    IN  after[n]

\* The elements of s that are not in S, in their order.
Without(s, S) ==
    Turns(LAMBDA t, i : IF s[i] \in S THEN t ELSE Append(t, s[i]), <<>>, Len(s))

-----------------------------------------------------------------------------
(* Queues. *)

AddRequest(sch, r) == [sch EXCEPT !.heap = @ \cup {r}, !.req[r].status = "pending"]

\* The engine's add_request, after it: prefill starts behind the tokens whose
\* K/V try_reuse_prefix found cached.
SetReused(sch, r, reused) == [sch EXCEPT !.req[r].prog = reused]

\* remove_request, the rollback of an admission.
RemoveRequest(sch, r) ==
    [ sch EXCEPT !.req[r].status = IF r \in sch.heap THEN "finished" ELSE @,
                 !.heap      = @ \ {r},
                 !.running   = Without(@, {r}),
                 !.preempted = Without(@, {r}),
                 !.finished  = Without(@, {r}) ]

\* _peek_pending: lowest priority number first, then first come.
HeadOf(sch) ==
    CHOOSE r \in sch.heap : \A q \in sch.heap :
        \/ sch.req[r].prio < sch.req[q].prio
        \/ sch.req[r].prio = sch.req[q].prio /\ r <= q

\* _allocate_kv_blocks takes n free blocks, or none.
Lowest(S, n)      == {b \in S : Cardinality({c \in S : c < b}) < n}
CanAllocate(sch, n) == n <= Cardinality(sch.free)
Give(sch, r, n) ==
    LET got == Lowest(sch.free, n) IN
    [sch EXCEPT !.free = @ \ got, !.req[r].blocks = @ \cup got]

-----------------------------------------------------------------------------
(* _try_preempt(n) *)

\* Lowest priority first, most blocks first among equals, then list order.
PreemptBefore(sch, i, j) ==
    LET p(k) == sch.req[sch.running[k]].prio
        m(k) == Cardinality(sch.req[sch.running[k]].blocks)
    IN  \/ p(i) > p(j)
        \/ p(i) = p(j) /\ m(i) > m(j)
        \/ p(i) = p(j) /\ m(i) = m(j) /\ i < j

\* Mutant: the victim stays in running.
PreemptOneStaysRunning(sch, r) ==
    LET q == sch.req[r] IN
    [ sch EXCEPT
        !.free      = @ \cup q.blocks,
        !.req[r]    = [q EXCEPT !.status = "preempted", !.blocks = {}, !.out = <<>>, !.prog = 0,
                                !.saved = [out |-> q.out, prog |-> q.prog]],
        !.preempted = Append(@, r) ]

\* One victim: its output and progress are saved, its blocks freed.
PreemptOne(sch, r) ==
    LET q == sch.req[r] IN
    [ sch EXCEPT
        !.free      = @ \cup q.blocks,
        !.req[r]    = [q EXCEPT !.status = "preempted", !.blocks = {}, !.out = <<>>, !.prog = 0,
                                !.saved = [out |-> q.out, prog |-> q.prog]],
        !.running   = Without(@, {r}),
        !.preempted = Append(@, r) ]

\* Victims go until the blocks they free are enough.  A victim of priority 0 or
\* less is spared only when nothing is pending.
Spared(sch, r) == sch.req[r].prio <= 0 /\ sch.heap = {}

NextVictim(sch, places) ==
    CHOOSE i \in places : \A j \in places \ {i} : PreemptBefore(sch, i, j)

\* A turn of the loop over the candidates of sch; st.left are the places of
\* those that have not been looked at.
PreemptTurn(sch, n, st) ==
    LET i    == NextVictim(sch, st.left)
        r    == sch.running[i]
        keep == st.freed >= n \/ Spared(st.sch, r)
    IN  [ sch   |-> IF keep THEN st.sch ELSE PreemptOne(st.sch, r),
          freed |-> IF keep THEN st.freed ELSE st.freed + Cardinality(st.sch.req[r].blocks),
          left  |-> st.left \ {i} ]

TryPreempt(sch, n) ==
    LET end == Turns(LAMBDA st, k : PreemptTurn(sch, n, st),
                     [sch |-> sch, freed |-> 0, left |-> DOMAIN sch.running], Len(sch.running))
    IN  IF EnablePreemption /\ sch.running # <<>>
          THEN [sch |-> end.sch, ok |-> end.freed >= n]
          ELSE [sch |-> sch, ok |-> FALSE]

-----------------------------------------------------------------------------
(* schedule() *)

\* The requests R leave running; kv_block_ids stays on the object, and is no
\* longer the request's.
Leave(sch, R) ==
    [ sch EXCEPT
        !.running  = Without(@, R),
        !.finished = @ \o Without(sch.running, ToSet(sch.running) \ R),
        !.free     = @ \cup UNION {sch.req[r].blocks : r \in R},
        !.req      = [r \in Request |-> IF r \in R THEN [sch.req[r] EXCEPT !.status = "finished", !.blocks = {}]
                                                  ELSE sch.req[r]] ]

MoveFinished(sch) == Leave(sch, {r \in ToSet(sch.running) : IsFinished(sch, r)})

\* Mutant: preempted requests are forgotten.
ReadmitNobody(sch) == [sch EXCEPT !.preempted = <<>>]

\* Preempted requests are pending again, with a boost.
Readmit(sch) ==
    [ sch EXCEPT
        !.heap      = @ \cup ToSet(sch.preempted),
        !.req       = [r \in Request |->
                         IF r \in ToSet(sch.preempted)
                           THEN [sch.req[r] EXCEPT !.status = "pending",
                                                   !.prio = Min({sch.req[r].prio, -1})]
                           ELSE sch.req[r]],
        !.preempted = <<>> ]

\* Mutant: the saved tokens are not counted.
BlocksToAdmitPrompt(sch, r) == BlocksFor(PromptLen[r])

\* The blocks of the prompt and of the saved tokens.
BlocksToAdmit(sch, r) ==
    BlocksFor(PromptLen[r] + (IF sch.req[r].saved = NoSave THEN 0 ELSE Len(sch.req[r].saved.out)))

\* Mutant: the saved output is dropped.
RestoreForgets(q) == [q EXCEPT !.saved = NoSave]

\* A preempted request gets back what _try_preempt saved.
Restore(q) ==
    IF q.saved = NoSave THEN q
    ELSE [q EXCEPT !.out = q.saved.out, !.prog = q.saved.prog, !.saved = NoSave]

Admitted(sch, r, n) ==
    LET given == Give([sch EXCEPT !.req[r].blocks = {}], r, n) IN
    [ given EXCEPT
        !.heap    = @ \ {r},
        !.req[r]  = Restore([given.req[r] EXCEPT !.status = "running"]),
        !.running = Append(@, r) ]

\* One turn of the admission loop: the head of the heap gets blocks for its
\* prompt and its saved tokens, if need be those of preempted requests, and
\* gets its saved state back.  The loop ends when it cannot.
AdmitHead(st) ==
    LET sch  == st.sch
        r    == HeadOf(sch)
        n    == BlocksToAdmit(sch, r)
        made == IF CanAllocate(sch, n) THEN [sch |-> sch, ok |-> TRUE] ELSE TryPreempt(sch, n)
        room == made.sch
    IN  IF st.stop \/ sch.heap = {} \/ Len(sch.running) >= MaxBatch THEN st
        ELSE IF made.ok /\ CanAllocate(room, n) THEN [sch |-> Admitted(room, r, n), stop |-> FALSE]
        ELSE [sch |-> room, stop |-> TRUE]

Admit(sch) ==
    Turns(LAMBDA st, i : AdmitHead(st), [sch |-> sch, stop |-> FALSE], NumRequests).sch

Scheduled(sch) == Admit(Readmit(MoveFinished(sch)))

\* The batch: what is computed for each running request.  A prompt is prefilled
\* in chunks out of a budget that the requests share; when the budget is spent
\* the request's last token is run at the position its prefill has reached.
\* A decode runs the last token at its own position.
BatchEntry(sch, r, budget) ==
    LET chunk == Min({PromptLen[r] - sch.req[r].prog, budget}) IN
    IF PrefillComplete(sch, r)
      THEN [req |-> r, kind |-> "decode", from |-> Total(sch, r) - 1, count |-> 1]
    ELSE IF chunk <= 0
      THEN [req |-> r, kind |-> "fallback", from |-> sch.req[r].prog, count |-> 1]
    ELSE [req |-> r, kind |-> "prefill", from |-> sch.req[r].prog, count |-> chunk]

BatchTurn(sch, st, i) ==
    LET e == BatchEntry(sch, sch.running[i], st.budget) IN
    [ batch  |-> Append(st.batch, e),
      budget |-> st.budget - (IF e.kind = "prefill" THEN e.count ELSE 0) ]

BatchOf(sch) ==
    Turns(LAMBDA st, i : BatchTurn(sch, st, i), [batch |-> <<>>, budget |-> MaxPrefill],
          Len(sch.running)).batch

-----------------------------------------------------------------------------
(* update_after_step(tokens): tokens is a function on the batch's requests. *)

\* Progress by the chunk that a request alone would have been given.
Advance(sch, r) ==
    LET left == PromptLen[r] - sch.req[r].prog
        chunk == Min({left, MaxPrefill})
    IN  IF PrefillComplete(sch, r) THEN sch
        ELSE [sch EXCEPT !.req[r].prog = Min({@ + Max({chunk, 1}), PromptLen[r]})]

Extend(sch, r) ==
    LET deficit == BlocksFor(Total(sch, r)) - Cardinality(sch.req[r].blocks)
        made    == TryPreempt(sch, deficit)
    IN  IF deficit <= 0 THEN sch
        ELSE IF CanAllocate(sch, deficit) THEN Give(sch, r, deficit)
        ELSE IF made.ok /\ CanAllocate(made.sch, deficit) THEN Give(made.sch, r, deficit)
        ELSE [made.sch EXCEPT !.req[r].status = "finished"]

UpdateOne(sch, r, token) ==
    Extend([Advance(sch, r) EXCEPT !.req[r].out = Append(@, token)], r)

\* The loop runs over the list that _try_preempt removes requests from: its
\* i-th turn looks at what is then the i-th request.
UpdateTurn(sch, tokens, i) ==
    IF i \in DOMAIN sch.running /\ sch.running[i] \in DOMAIN tokens
      THEN UpdateOne(sch, sch.running[i], tokens[sch.running[i]]) ELSE sch

Updated(sch, tokens) ==
    Turns(LAMBDA st, i : UpdateTurn(st, tokens, i), sch, Len(sch.running))

-----------------------------------------------------------------------------
(* What the engine does to the scheduler's queues. *)

\* _check_timeouts_and_cancellations: cancelled or late requests leave running
\* and their blocks are freed; of the pending ones only cancelled ones leave.
CancelRunning(sch, R) == Leave(sch, R \cap ToSet(sch.running))

CancelPending(sch, R) ==
    LET out == sch.heap \cap R IN
    [ sch EXCEPT
        !.heap     = @ \ R,
        !.finished = @ \o SetToSeq(out),
        !.req      = [r \in Request |-> IF r \in out THEN [sch.req[r] EXCEPT !.status = "finished"]
                                                    ELSE sch.req[r]] ]

\* The error path of _engine_loop: all that runs is given up.
DropRunning(sch) ==
    LET out == ToSet(sch.running) IN
    [ sch EXCEPT
        !.running = <<>>,
        !.free    = @ \cup UNION {sch.req[r].blocks : r \in out},
        !.req     = [r \in Request |-> IF r \in out THEN [sch.req[r] EXCEPT !.blocks = {}]
                                                   ELSE sch.req[r]] ]
=============================================================================
