--------------------------- MODULE Disaggregated ---------------------------
(***************************************************************************)
(* Disaggregated prefill and decode (parallel/disaggregated.py): a         *)
(* coordinator, a thread that prefills requests on one GPU and sends their *)
(* K/V, a thread that receives it for the other GPU (the receive thread    *)
(* the comment in _prefill_loop speaks of), and the loop that calls step() *)
(* as long as has_work().                                                  *)
(*                                                                         *)
(* Requests have priority 0 and the decode scheduler never holds pending   *)
(* ones, so that its _try_preempt takes nobody: of the scheduler remain    *)
(* its running list and the number of its free blocks.  A prompt is one    *)
(* block.  Of a token only matters whether it ends the request.  A block   *)
(* of the decode cache is known by the request whose K/V was received into *)
(* it; what a decode step writes behind the prompt is left out.            *)
(***************************************************************************)
EXTENDS Integers, SequencesExt

CONSTANTS
    NumRequests,    \* bound on the requests ever added
    NumSlots,       \* max_seqs of both caches, max_batch_size
    MaxNew,         \* max_new_tokens of every request
    BlockSize,      \* block_size; also the length of the prompts
    SchedBlocks,    \* max_kv_blocks of the decode scheduler
    PrefillBlocks,  \* num_blocks of the prefill cache
    CanFail,        \* a prefill may raise
    CanStop,        \* shutdown may be called
    JoinLate        \* the join of shutdown may time out

Request == 0 .. NumRequests - 1
Slot    == 0 .. NumSlots - 1
Token   == {"tok", "eos"}

\* request_id of the shutdown frame, the sentinel of the prefill queue, and
\* whatever else is not a request.
Stop == -1

ASSUME DisaggregatedAssumption ==
    /\ NumRequests \in Nat \ {0} /\ NumSlots \in Nat \ {0}
    /\ MaxNew \in Nat \ {0} /\ BlockSize \in Nat \ {0}
    /\ SchedBlocks \in Nat /\ PrefillBlocks \in Nat \ {0}
    /\ {CanFail, CanStop, JoinLate} \subseteq BOOLEAN

VARIABLES
    status,     \* status of the DisaggRequest; "new" before, "popped" after it is tracked
    result,     \* its output_tokens
    queue,      \* _prefill_queue
    prefill,    \* the prefill thread: where it is, and with which request
    held,       \* blocks of each slot of the prefill cache
    nextSlot,   \* _next_slot of the prefill worker, modulo max_seqs
    metaBuf,    \* _meta_buf of the sending KVTransfer: the request it speaks of
    chan,       \* tensors sent and not received
    recv,       \* the receive thread: where it is, and with which request
    nextSeq,    \* _next_seq_id of the receiving KVTransfer, modulo max_seqs
    table,      \* block table of the decode cache
    slotPool,   \* _slot_pool
    slotOf,     \* _request_to_slot
    running,    \* scheduler.running
    out,        \* output_token_ids of the scheduler's request
    blocks,     \* number of its kv_block_ids
    cut,        \* requests the scheduler finished for want of blocks
    free,       \* number of the scheduler's free_blocks
    step,       \* the loop: where it is in step(), its batch, the list it rebuilds
    completed,  \* _completed of the decode worker
    callback,   \* calls of each request's callback, -1 when none is registered
    shut        \* where shutdown() is

prefillVars == <<queue, prefill, held, nextSlot, metaBuf>>
recvVars    == <<recv, nextSeq, table>>
decodeVars  == <<slotPool, slotOf, running, out, blocks, cut, free>>
loopVars    == <<step, completed, callback>>
dvars == <<status, result, prefillVars, chan, recvVars, decodeVars, loopVars, shut>>

DTypeOK ==
    /\ status \in [Request -> {"new", "pending", "prefilling", "transferring", "finished", "popped"}]
    /\ result \in [Request -> Seq(Token)]
    /\ queue \in Seq(Request \cup {Stop})
    /\ prefill \in [at : {"wait", "picked", "computed", "packed", "header", "body", "exited"},
                    req : Request \cup {Stop}, slot : Slot, first : Token]
    /\ held \in [Slot -> 0 .. PrefillBlocks]
    /\ nextSlot \in Slot /\ nextSeq \in Slot
    /\ metaBuf \in Request \cup {Stop}
    /\ chan \in Seq([kind : {"meta", "body"}, req : Request \cup {Stop}, first : Token])
    /\ recv \in [at : {"meta", "body", "got", "exited", "torn"}, req : Request \cup {Stop}, first : Token]
    /\ table \in [Slot -> Seq(Request)]
    /\ slotPool \in Seq(Slot)
    /\ slotOf \in [Request -> Slot \cup {Stop}]
    /\ running \in Seq(Request)
    /\ out \in [Request -> Seq(Token)]
    /\ blocks \in [Request -> Nat]
    /\ cut \subseteq Request
    /\ free \in 0 .. SchedBlocks
    /\ step \in [at : {"idle", "swept", "forward", "updated", "collected", "deliver"},
                 batch : Seq(Request), still : Seq(Request)]
    /\ completed \in Seq(Request)
    /\ callback \in [Request -> -1 .. NumRequests]
    /\ shut \in {"no", "join", "zeroed", "done"}

DInit ==
    /\ status = [r \in Request |-> "new"]
    /\ result = [r \in Request |-> <<>>]
    /\ queue = <<>>
    /\ prefill = [at |-> "wait", req |-> Stop, slot |-> 0, first |-> "tok"]
    /\ held = [s \in Slot |-> 0]
    /\ nextSlot = 0
    /\ metaBuf = Stop
    /\ chan = <<>>
    /\ recv = [at |-> "meta", req |-> Stop, first |-> "tok"]
    /\ nextSeq = 0
    /\ table = [s \in Slot |-> <<>>]
    /\ slotPool = [i \in 1 .. NumSlots |-> i - 1]
    /\ slotOf = [r \in Request |-> Stop]
    /\ running = <<>>
    /\ out = [r \in Request |-> <<>>]
    /\ blocks = [r \in Request |-> 0]
    /\ cut = {}
    /\ free = SchedBlocks
    /\ step = [at |-> "idle", batch |-> <<>>, still |-> <<>>]
    /\ completed = <<>>
    /\ callback = [r \in Request |-> -1]
    /\ shut = "no"

-----------------------------------------------------------------------------
(* Callers. *)

\* add_request: ids are given in order.
Submit(r) ==
    /\ status[r] = "new"
    /\ \A q \in Request : q < r => status[q] # "new"
    /\ status' = [status EXCEPT ![r] = "pending"]
    /\ callback' = [callback EXCEPT ![r] = 0]
    /\ queue' = Append(queue, r)
    /\ UNCHANGED <<result, prefill, held, nextSlot, metaBuf, chan, recvVars, decodeVars, step, completed, shut>>

\* pop_completed.
PopCompleted(r) ==
    /\ status[r] = "finished"
    /\ status' = [status EXCEPT ![r] = "popped"]
    /\ UNCHANGED <<result, prefillVars, chan, recvVars, decodeVars, loopVars, shut>>

Tracked(r)  == status[r] \notin {"new", "popped"}
Busy(r)     == Tracked(r) /\ status[r] # "finished"
HasWork     == queue # <<>> \/ running # <<>> \/ \E r \in Request : Busy(r)

-----------------------------------------------------------------------------
(* The prefill thread. *)

\* A block that is held is the i-th one of a slot.
TotalHeld == Cardinality({b \in Slot \X (1 .. PrefillBlocks) : b[2] <= held[b[1]]})

PrefillTake ==
    /\ prefill.at = "wait"
    /\ queue # <<>>
    /\ queue' = Tail(queue)
    /\ IF Head(queue) = Stop
         THEN /\ prefill' = [prefill EXCEPT !.at = "exited"]
              /\ UNCHANGED status
         ELSE /\ prefill' = [prefill EXCEPT !.at = "picked", !.req = Head(queue)]
              /\ status' = [status EXCEPT ![Head(queue)] = "prefilling"]
    /\ UNCHANGED <<result, held, nextSlot, metaBuf, chan, recvVars, decodeVars, loopVars, shut>>

\* The loop looks at _shutdown before it takes a request.
PrefillLeaves ==
    /\ prefill.at = "wait"
    /\ shut # "no"
    /\ prefill' = [prefill EXCEPT !.at = "exited"]
    /\ UNCHANGED <<status, result, queue, held, nextSlot, metaBuf, chan, recvVars, decodeVars, loopVars, shut>>

\* run_prefill up to the sampled token: the next slot gets a block, behind those
\* that a prefill which raised has left there.
HasRoom == TotalHeld < PrefillBlocks

PrefillCompute ==
    /\ prefill.at = "picked"
    /\ HasRoom
    /\ held' = [held EXCEPT ![nextSlot] = @ + 1]
    /\ nextSlot' = (nextSlot + 1) % NumSlots
    /\ \E t \in Token :
         prefill' = [prefill EXCEPT !.at = "computed", !.slot = nextSlot, !.first = t]
    /\ UNCHANGED <<status, result, queue, metaBuf, chan, recvVars, decodeVars, loopVars, shut>>

\* run_prefill raises, for want of blocks or in the model: the handler writes
\* the status, frees nothing and calls nobody.
PrefillRaises ==
    /\ prefill.at = "picked"
    /\ \/ ~HasRoom /\ UNCHANGED held
       \/ CanFail /\ HasRoom /\ held' = [held EXCEPT ![nextSlot] = @ + 1]
    /\ nextSlot' = (nextSlot + 1) % NumSlots
    /\ prefill' = [prefill EXCEPT !.at = "wait", !.req = Stop]
    /\ status' = [status EXCEPT ![prefill.req] = "finished"]
    /\ UNCHANGED <<result, queue, metaBuf, chan, recvVars, decodeVars, loopVars, shut>>

\* _send_kv_locked: the header is packed into the buffer that send_shutdown
\* shares and sent; ids, prompt and K/V follow, from the metadata object.
PackHeader ==
    /\ prefill.at = "computed"
    /\ metaBuf' = prefill.req
    /\ prefill' = [prefill EXCEPT !.at = "packed"]
    /\ UNCHANGED <<status, result, queue, held, nextSlot, chan, recvVars, decodeVars, loopVars, shut>>

Frame(kind, r) == [kind |-> kind, req |-> r, first |-> prefill.first]

SendHeader ==
    /\ prefill.at = "packed"
    /\ chan' = Append(chan, Frame("meta", metaBuf))
    /\ prefill' = [prefill EXCEPT !.at = "header"]
    /\ UNCHANGED <<status, result, queue, held, nextSlot, metaBuf, recvVars, decodeVars, loopVars, shut>>

SendBody ==
    /\ prefill.at = "header"
    /\ chan' = Append(chan, Frame("body", prefill.req))
    /\ prefill' = [prefill EXCEPT !.at = "body"]
    /\ UNCHANGED <<status, result, queue, held, nextSlot, metaBuf, recvVars, decodeVars, loopVars, shut>>

\* free_sequence of the slot; then the status, whatever it has become meanwhile.
\* (A request that was popped is no longer tracked.)
PrefillEnds ==
    /\ prefill.at = "body"
    /\ held' = [held EXCEPT ![prefill.slot] = 0]
    /\ status' = [status EXCEPT ![prefill.req] = IF @ = "popped" THEN @ ELSE "transferring"]
    /\ prefill' = [prefill EXCEPT !.at = "wait", !.req = Stop]
    /\ UNCHANGED <<result, queue, nextSlot, metaBuf, chan, recvVars, decodeVars, loopVars, shut>>

-----------------------------------------------------------------------------
(* The receive thread. *)

\* recv_kv reads a header: -1 means shutdown.
RecvHeader ==
    /\ recv.at = "meta"
    /\ chan # <<>>
    /\ chan' = Tail(chan)
    /\ LET m == Head(chan) IN
       recv' = IF m.kind # "meta" THEN [recv EXCEPT !.at = "torn"]
               ELSE IF m.req = Stop THEN [recv EXCEPT !.at = "exited"]
               ELSE [at |-> "body", req |-> m.req, first |-> m.first]
    /\ UNCHANGED <<status, result, prefillVars, nextSeq, table, decodeVars, loopVars, shut>>

\* ... and the rest of the frame, into blocks that it allocates for the sequence
\* number it counts itself.
RecvBody ==
    /\ recv.at = "body"
    /\ chan # <<>>
    /\ chan' = Tail(chan)
    /\ IF Head(chan).kind = "body" /\ Head(chan).req = recv.req
         THEN /\ recv' = [recv EXCEPT !.at = "got"]
              /\ table' = [table EXCEPT ![nextSeq] = Append(@, recv.req)]
              /\ nextSeq' = (nextSeq + 1) % NumSlots
         ELSE /\ recv' = [recv EXCEPT !.at = "torn"]
              /\ UNCHANGED <<nextSeq, table>>
    /\ UNCHANGED <<status, result, prefillVars, decodeVars, loopVars, shut>>

\* Mutant: the slot stays in the pool.
AcceptKeepsSlot ==
    /\ recv.at = "got"
    /\ slotPool # <<>>
    /\ slotOf' = [slotOf EXCEPT ![recv.req] = Head(slotPool)]
    /\ running' = Append(running, recv.req)
    /\ out' = [out EXCEPT ![recv.req] = <<recv.first>>]
    /\ blocks' = [blocks EXCEPT ![recv.req] = 1]
    /\ recv' = [recv EXCEPT !.at = "meta", !.req = Stop]
    /\ UNCHANGED <<status, result, prefillVars, chan, nextSeq, table, slotPool, cut, free, loopVars, shut>>

\* receive_and_add_request takes a slot and appends the request to running.
Accept ==
    /\ recv.at = "got"
    /\ slotPool # <<>>
    /\ slotOf' = [slotOf EXCEPT ![recv.req] = Head(slotPool)]
    /\ slotPool' = Tail(slotPool)
    /\ running' = Append(running, recv.req)
    /\ out' = [out EXCEPT ![recv.req] = <<recv.first>>]
    /\ blocks' = [blocks EXCEPT ![recv.req] = 1]
    /\ recv' = [recv EXCEPT !.at = "meta", !.req = Stop]
    /\ UNCHANGED <<status, result, prefillVars, chan, nextSeq, table, cut, free, loopVars, shut>>

\* Without a slot it returns None, which is also what it returns for shutdown.
Reject ==
    /\ recv.at = "got"
    /\ slotPool = <<>>
    /\ recv' = [recv EXCEPT !.at = "exited"]
    /\ UNCHANGED <<status, result, prefillVars, chan, nextSeq, table, decodeVars, loopVars, shut>>

-----------------------------------------------------------------------------
(* step() *)

IsFinished(r) ==
    \/ r \in cut
    \/ Len(out[r]) >= MaxNew
    \/ out[r] # <<>> /\ Last(out[r]) = "eos"

\* The elements of s in K, collected one by one.
Choosing(s, K) ==
    LET chosen[i \in 0 .. Len(s)] ==
            IF i = 0 THEN <<>>
            ELSE IF s[i] \in K THEN Append(chosen[i - 1], s[i]) ELSE chosen[i - 1]
    IN  chosen
Chosen(s, K) == Choosing(s, K)[Len(s)]

Finished(s)   == Chosen(s, {r \in Request : IsFinished(r)})
Unfinished(s) == Chosen(s, {r \in Request : ~IsFinished(r)})

\* schedule() rebuilds running without the requests that are finished already:
\* it frees their blocks, as far as they are not free, and nobody completes them.
Sweep ==
    /\ step.at = "idle"
    /\ HasWork
    /\ step' = [step EXCEPT !.at = "swept", !.still = Unfinished(running)]
    /\ \E k \in 0 .. Len(Finished(running)) : free' = Min({free + k, SchedBlocks})
    /\ UNCHANGED <<status, result, prefillVars, chan, recvVars, slotPool, slotOf, running, out,
                   blocks, cut, completed, callback, shut>>

Schedule ==
    /\ step.at = "swept"
    /\ running' = step.still
    /\ step' = [at    |-> IF step.still = <<>> THEN "idle" ELSE "forward",
                batch |-> step.still, still |-> <<>>]
    /\ UNCHANGED <<status, result, prefillVars, chan, recvVars, slotPool, slotOf, out, blocks, cut,
                   free, completed, callback, shut>>

\* The forward pass, sampling, and update_after_step: a token each, and a block
\* when the tokens fill the last one; without one the request is finished.
NeedsBlock(r, o) == (BlockSize + Len(o) + BlockSize - 1) \div BlockSize > blocks[r]

Grow(st, r) ==
    IF ~NeedsBlock(r, st.out[r]) THEN st
    ELSE IF st.free > 0
      THEN [st EXCEPT !.blocks[r] = @ + 1, !.free = @ - 1]
      ELSE [st EXCEPT !.cut = @ \cup {r}]

\* ... after each request of rs.
Growing(st, rs) ==
    LET grown[i \in 0 .. Len(rs)] == IF i = 0 THEN st ELSE Grow(grown[i - 1], rs[i])
    IN  grown

\* Mutant: the first token is dropped.
AppendTokenFresh(o, t) == IF Len(o) = 1 THEN <<t>> ELSE Append(o, t)
AppendToken(o, t) == Append(o, t)

Update(tokens) ==
    /\ step.at = "forward"
    /\ LET o  == [r \in Request |-> IF r \in ToSet(step.batch) THEN AppendToken(out[r], tokens[r]) ELSE out[r]]
           st == Growing([out |-> o, blocks |-> blocks, free |-> free, cut |-> cut], step.batch)[Len(step.batch)]
       IN  /\ out' = st.out
           /\ blocks' = st.blocks
           /\ free' = st.free
           /\ cut' = st.cut
    /\ step' = [step EXCEPT !.at = "updated"]
    /\ UNCHANGED <<status, result, prefillVars, chan, recvVars, slotPool, slotOf, running, completed, callback, shut>>

Forward == \E tokens \in [ToSet(step.batch) -> Token] : Update(tokens)

\* decode_step walks over running: finished requests are completed and their
\* slots are freed (the scheduler's blocks are not), in a list that then
\* replaces running.
CollectScan ==
    LET done == Finished(running)
        got  == Chosen(done, {r \in Request : slotOf[r] # Stop})
    IN
    /\ step.at = "updated"
    /\ step' = [step EXCEPT !.at = "collected", !.still = Unfinished(running)]
    /\ completed' = completed \o done
    /\ slotPool' = slotPool \o [i \in DOMAIN got |-> slotOf[got[i]]]
    /\ table' = [s \in Slot |-> IF \E r \in ToSet(got) : slotOf[r] = s THEN <<>> ELSE table[s]]
    /\ slotOf' = [r \in Request |-> IF r \in ToSet(got) THEN Stop ELSE slotOf[r]]
    /\ UNCHANGED <<status, result, prefillVars, chan, recv, nextSeq, running, out, blocks, cut, free, callback, shut>>

CollectAssign ==
    /\ step.at = "collected"
    /\ running' = step.still
    /\ step' = [at |-> "deliver", batch |-> <<>>, still |-> <<>>]
    /\ UNCHANGED <<status, result, prefillVars, chan, recvVars, slotPool, slotOf, out, blocks, cut,
                   free, completed, callback, shut>>

\* Mutant: the callback stays registered.
DeliverAgain ==
    /\ step.at = "deliver"
    /\ completed # <<>>
    /\ LET r == Head(completed) IN
       /\ result' = [result EXCEPT ![r] = out[r]]
       /\ status' = [status EXCEPT ![r] = "finished"]
       /\ callback' = [callback EXCEPT ![r] = @ + 1]
    /\ UNCHANGED <<prefillVars, chan, recvVars, decodeVars, step, completed, shut>>

\* step() gives out the completed requests one by one: output, status, callback.
Deliver ==
    /\ step.at = "deliver"
    /\ completed # <<>>
    /\ LET r == Head(completed) IN
       /\ IF Tracked(r)
            THEN /\ result' = [result EXCEPT ![r] = out[r]]
                 /\ status' = [status EXCEPT ![r] = "finished"]
            ELSE UNCHANGED <<result, status>>
       /\ callback' = [callback EXCEPT ![r] = @ + 1]
    /\ completed' = Tail(completed)
    /\ UNCHANGED <<prefillVars, chan, recvVars, decodeVars, step, shut>>

StepEnds ==
    /\ step.at = "deliver"
    /\ completed = <<>>
    /\ step' = [step EXCEPT !.at = "idle"]
    /\ UNCHANGED <<status, result, prefillVars, chan, recvVars, decodeVars, completed, callback, shut>>

-----------------------------------------------------------------------------
(* shutdown() *)

Shutdown ==
    /\ CanStop
    /\ shut = "no"
    /\ shut' = "join"
    /\ queue' = Append(queue, Stop)
    /\ UNCHANGED <<status, result, prefill, held, nextSlot, metaBuf, chan, recvVars, decodeVars, loopVars>>

\* Mutant: shutdown does not wait for the prefill thread.
ShutdownZeroesAtOnce ==
    /\ shut = "join"
    /\ shut' = "zeroed"
    /\ metaBuf' = Stop
    /\ UNCHANGED <<status, result, queue, prefill, held, nextSlot, chan, recvVars, decodeVars, loopVars>>

\* After the join, which may time out, the shared buffer says -1 ...
ShutdownZeroes ==
    /\ shut = "join"
    /\ prefill.at = "exited" \/ JoinLate
    /\ shut' = "zeroed"
    /\ metaBuf' = Stop
    /\ UNCHANGED <<status, result, queue, prefill, held, nextSlot, chan, recvVars, decodeVars, loopVars>>

\* ... and is sent.
ShutdownSends ==
    /\ shut = "zeroed"
    /\ shut' = "done"
    /\ chan' = Append(chan, Frame("meta", metaBuf))
    /\ UNCHANGED <<status, result, prefillVars, recvVars, decodeVars, loopVars>>

-----------------------------------------------------------------------------

PrefillThread == PrefillTake \/ PrefillLeaves \/ PrefillCompute \/ PrefillRaises
                 \/ PackHeader \/ SendHeader \/ SendBody \/ PrefillEnds
RecvThread    == RecvHeader \/ RecvBody \/ Accept \/ Reject
Loop          == Sweep \/ Schedule \/ Forward \/ CollectScan \/ CollectAssign \/ Deliver \/ StepEnds
Stopping      == Shutdown \/ ShutdownZeroes \/ ShutdownSends

DNext == \/ \E r \in Request : Submit(r) \/ PopCompleted(r)
         \/ PrefillThread
         \/ RecvThread
         \/ Loop
         \/ Stopping

\* Threads that can run do run, and the caller steps as long as there is work.
Fairness == WF_dvars(PrefillThread) /\ WF_dvars(RecvThread) /\ WF_dvars(Loop)

DSpec == DInit /\ [][DNext]_dvars /\ Fairness

-----------------------------------------------------------------------------
(* Properties. *)

\* Slots of the decode worker: each is in the pool or of one request, never
\* both, though the receive thread takes them and the loop gives them back.
SlotsExact ==
    LET HeldBy(s) == {r \in Request : slotOf[r] = s} IN
    /\ DTypeOK
    /\ IsInjective(slotPool)
    /\ \A s \in Slot : Cardinality(HeldBy(s)) = IF s \in ToSet(slotPool) THEN 0 ELSE 1

\* The two threads that use the sending KVTransfer do not tear each other's
\* frames: as long as the join of shutdown() does not time out, the receiver meets
\* every header where it expects one, and with its own body.
FramesIntact == ~JoinLate => recv.at # "torn"

\* A transfer takes a slot that nobody has and arrives as it was sent.
TransfersExact == SlotsExact /\ FramesIntact

\* What the callback of add_request is given: it is called at most once, and then
\* with all tokens up to the first one that ends the request.
AnswerWhole ==
    \A r \in Request :
      /\ callback[r] <= 1
      /\ result[r] # <<>> =>
           /\ result[r] = out[r]
           /\ \A i \in 1 .. Len(result[r]) - 1 : result[r][i] # "eos"
           /\ r \in cut \/ Len(result[r]) = MaxNew \/ Last(result[r]) = "eos"

\* How a request can be left without its callback: its prefill raised; the
\* receive thread has ended, for want of a slot, at shutdown, or torn; it had
\* ended with its first token, so that schedule() swept it away; it was
\* appended to running while decode_step or schedule() rebuilt the list; or the
\* prefill thread has ended.
Unanswerable(r) ==
    \/ status[r] = "finished" /\ result[r] = <<>>
    \/ recv.at \in {"exited", "torn"}
    \/ slotOf[r] # Stop /\ r \notin ToSet(running)
    \/ prefill.at = "exited"

\* A request that was added is answered, unless it comes to one of these ends.
Served == \A r \in Request : status[r] = "pending" ~> callback[r] = 1 \/ Unanswerable(r)

\* A decode step reads, for each request, blocks that begin with its own prompt.
\* disaggregated.py:251 and :590 have the transfer and the worker choose a slot
\* each, "to avoid modulo collisions".
ReadsOwnKV ==
    step.at = "forward" =>
      \A r \in ToSet(step.batch) :
        slotOf[r] # Stop => table[slotOf[r]] # <<>> /\ Head(table[slotOf[r]]) = r
=============================================================================
