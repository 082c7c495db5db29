-------------------------------- MODULE Agents --------------------------------
(* The orchestrator (agentics/orchestrator.py), its workers and their agents    *)
(* (agentics/agent.py, client.py, tools.py), and the terminal of an interactive *)
(* agent, against the chat endpoint of the server: the context manager and the  *)
(* answer of one call are the operators of ContextManager and ChatAnswer. A     *)
(* call of the server is one step here: what happens to it inside the engine is *)
(* the subject of other modules. The model is external: what it says is one of  *)
(* Speech and Final, cut where the budget ends.                                 *)
EXTENDS ChatAnswer, FiniteSets

CONSTANTS
    MaxWorkers,
    MaxTasks,   \* bound on the tasks ever submitted
    MaxAsks,    \* bound on the user messages of a terminal's history
    MaxSteps,   \* max_steps of an agent
    MaxTokens,  \* max_tokens of an agent's calls
    Thinking,   \* the thinking budgets of calls
    Prefill,    \* what the chat template leaves open: <<"ts">> or <<>>
    Tools, System, Task, ToolOutput,   \* contents of messages
    Speech,     \* what the model may say in the first pass,
    Final,      \* and in the second one, in the final block
    Stops       \* the stop sequences of a call: an agent sends none, <<>>, other
                \* clients of the endpoint may

Said == {Prefill, Tools, System, Task, ToolOutput} \cup Speech \cup Final

\* A speech is plain when the words of thoughts stand in open ones, before any
\* final block, and what is shown of it never begins with the prefill again.
Open(text, i) == \E k \in 1 .. i : text[k] = "ts" /\ \A j \in k .. i : text[j] # "te"
Tidy(text) ==
    \A i \in DOMAIN text : text[i] = "t" => Open(text, i) /\ \A j \in 1 .. i : text[j] # "fs"
PlainSpeech ==
    /\ \A speech \in Speech :
          /\ Tidy(Prefill \o speech)
          /\ Prefill # <<>> =>
                \A n \in 0 .. Len(speech) : ~IsPrefix(Prefill, Decode(SubSeq(speech, 1, n)))
    /\ \A said \in {Tools, System, Task, ToolOutput} \cup Final : "t" \notin ToSet(said)

ASSUME AgentsAssumption ==
    /\ {MaxWorkers, MaxTasks, MaxAsks, MaxSteps, MaxTokens} \cup Thinking \subseteq Nat \ {0}
    /\ \A said \in Said : said \in Seq(ToSet(said))   \* each of them is a sequence
    /\ \A stops \in Stops : /\ stops \in Seq(ToSet(stops))
                             /\ \A stop \in ToSet(stops) : stop \in Seq(ToSet(stop))

VARIABLES
    tasks,      \* _tasks: [status, result] by id
    queue,      \* the queue of the current run()
    results,    \* _results: [task, success]
    worker,     \* what the agents are at: those of the run's workers, and 0, the terminal's
    run         \* tasks of the current run(), {} when there is none

agentVars == <<tasks, queue, results, worker, run>>
orchestration == <<tasks, queue, results, run>>

Ids == DOMAIN tasks
Workers == 1 .. MaxWorkers
Agent == 0 .. MaxWorkers
Terminal == 0

Instructions == <<[role |-> "system", content |-> System]>>
Ask(history) == Append(history, [role |-> "user", content |-> Task])

Gone == [at |-> "gone", task |-> 0, step |-> 0, history |-> <<>>, calls |-> 0,
         back |-> {}, plan |-> NoPlan, answer |-> <<>>]
Begun(task, history) ==
    [Gone EXCEPT !.at = "calling", !.task = task, !.step = 1, !.history = history]

AgentsInit ==
    /\ tasks = <<>> /\ queue = <<>> /\ results = <<>> /\ run = {}
    /\ worker = [w \in Agent |->
                    IF w # Terminal THEN Gone
                    ELSE [Gone EXCEPT !.at = "prompt", !.history = Instructions]]

SubmitTask ==
    /\ Len(tasks) < MaxTasks
    /\ worker[Terminal].history = Instructions   \* bound: a terminal or a run
    /\ tasks' = Append(tasks, [status |-> "pending", result |-> "none"])
    /\ UNCHANGED <<queue, results, worker, run>>

\* run(): the tasks pending now are queued; one submitted later waits for the
\* next run.
Pending == {t \in Ids : tasks[t].status = "pending"}

Run ==
    /\ run = {} /\ Pending # {}
    /\ run' = Pending
    /\ queue' = Kept([t \in Ids |-> t], Pending)
    /\ worker' = [w \in Agent |->
                    IF w \in 1 .. Cardinality(Pending) THEN [Gone EXCEPT !.at = "idle"]
                    ELSE worker[w]]
    /\ UNCHANGED <<tasks, results>>

TakeTask(w) ==
    /\ worker[w].at = "idle" /\ queue # <<>>
    /\ queue' = Tail(queue)
    /\ tasks' = [tasks EXCEPT ![Head(queue)].status = "running"]
    /\ worker' = [worker EXCEPT ![w] = Begun(Head(queue), Ask(Instructions))]
    /\ UNCHANGED <<results, run>>

\* A worker leaves when the queue is empty; run() returns after the last one.
Leave(w) ==
    /\ worker[w].at = "idle" /\ queue = <<>>
    /\ worker' = [worker EXCEPT ![w] = Gone]
    /\ run' = IF \A v \in Workers \ {w} : worker[v].at = "gone" THEN {} ELSE run
    /\ UNCHANGED <<tasks, queue, results>>

\* The terminal: a line of the user goes on with the conversation (task 0), or
\* is a task of its own, in place of the conversation; /clear forgets it.
AtPrompt == worker[Terminal].at = "prompt" /\ tasks = <<>>
Asked(history) == Len(SelectSeq(history, LAMBDA m : m.role = "user"))

Say ==
    /\ AtPrompt /\ Asked(worker[Terminal].history) < MaxAsks
    /\ worker' = [worker EXCEPT ![Terminal] = Begun(0, Ask(@.history))]
    /\ UNCHANGED orchestration

SayTask ==
    /\ AtPrompt
    /\ worker' = [worker EXCEPT ![Terminal] = Begun(1, Ask(Instructions))]
    /\ UNCHANGED orchestration

Clear ==
    /\ AtPrompt
    /\ worker' = [worker EXCEPT ![Terminal].history = Instructions]
    /\ UNCHANGED orchestration

Talks(w) == w = Terminal /\ worker[w].task = 0

\* Mutant: a task that raises leaves no result.
EndsWithoutResult(w, result, history) ==
    /\ worker' = [worker EXCEPT ![w] = [Gone EXCEPT !.at = "idle"]]
    /\ IF w = Terminal THEN UNCHANGED orchestration
       ELSE /\ tasks' = [tasks EXCEPT ![worker[w].task] =
                            [status |-> IF result = "raised" THEN "failed" ELSE "completed",
                             result |-> result]]
            /\ results' = IF result = "raised" THEN results
                          ELSE Append(results, [task |-> worker[w].task, success |-> TRUE])
            /\ UNCHANGED <<queue, run>>

\* The agent is done or an exception leaves it. A worker records the result of
\* its task and goes on, an error text being a completed task like any other;
\* the terminal keeps the history and prompts again, and ends when one is raised.
EndsWith(w, result, history) ==
    LET t == worker[w].task
        status == IF result = "raised" THEN "failed" ELSE "completed"
    IN IF w = Terminal
       THEN /\ worker' = [worker EXCEPT ![w] =
                  [Gone EXCEPT !.at = IF result = "raised" THEN "gone" ELSE "prompt",
                               !.history = history]]
            /\ UNCHANGED orchestration
       ELSE /\ tasks' = [tasks EXCEPT ![t] = [status |-> status, result |-> result]]
            /\ results' = Append(results, [task |-> t, success |-> status = "completed"])
            /\ worker' = [worker EXCEPT ![w] = [Gone EXCEPT !.at = "idle"]]
            /\ UNCHANGED <<queue, run>>

\* The server cannot be reached, answers with an error status, or the read
\* times out: ConnectionError, OSError or TimeoutError. Another exception (a
\* body that is no JSON, or no choices) goes through.
CallFails(w) ==
    /\ worker[w].at = "calling"
    /\ \E result \in {"error", "raised"} : EndsWith(w, result, worker[w].history)

\* The messages as they reach the context manager: the server describes the
\* tools of the request first, and has normalized the others once.
Sent(w) ==
    <<[role |-> "system", content |-> Tools]>>
    \o Normalize([i \in DOMAIN worker[w].history |->
                    [role |-> worker[w].history[i].role,
                     content |-> worker[w].history[i].content]])

\* The context does not fit: status 400, which the client reports as no server.
TooLong(w) ==
    /\ worker[w].at = "calling" /\ Fit(Sent(w), MaxTokens) = NoPlan
    /\ EndsWith(w, "error", worker[w].history)

Call(w) ==
    /\ worker[w].at = "calling"
    /\ \E plan \in {Fit(Sent(w), MaxTokens)}, thinking \in Thinking,
          speech \in Speech, final \in Final, stops \in Stops :
        /\ plan # NoPlan
        /\ \E a \in {Completion(Prefill, Size(plan.messages), MaxTokens, thinking,
                            speech, final, stops)} :
             worker' = [worker EXCEPT ![w] =
                [@ EXCEPT !.at = "answered", !.plan = plan, !.answer = a]]
    /\ UNCHANGED orchestration

\* The history with the answer; n of its tool calls will be carried out.
WithAnswer(w, n) ==
    Append(worker[w].history,
           [role |-> "assistant", content |-> worker[w].answer.text, calls |-> n])

\* The calls the agent carries out: in a conversation, only the first answer
\* to a line of the user can have any.
ToCarryOut(w) ==
    IF Talks(w) /\ worker[w].step > 1 THEN 0 ELSE Calls(worker[w].answer.text)

FinalAnswer(w) ==
    /\ worker[w].at = "answered" /\ ToCarryOut(w) = 0
    /\ EndsWith(w, "answer", WithAnswer(w, 0))

CallTools(w) ==
    /\ worker[w].at = "answered" /\ ToCarryOut(w) > 0
    /\ worker' = [worker EXCEPT ![w] =
            [@ EXCEPT !.at = "tools", !.calls = ToCarryOut(w), !.back = {},
                      !.history = WithAnswer(w, ToCarryOut(w)),
                      !.plan = NoPlan, !.answer = <<>>]]
    /\ UNCHANGED orchestration

\* Tools return in any order; gather keeps the order of the calls. The sandbox
\* answers with a text when the language is not allowed, when the code is
\* blocked, fails, or is killed after its timeout.
ToolReturns(w, i) ==
    /\ worker[w].at = "tools" /\ i \in 1 .. worker[w].calls \ worker[w].back
    /\ worker' = [worker EXCEPT ![w].back = @ \cup {i}]
    /\ UNCHANGED orchestration

\* A tool raises: a kill by the sandbox does not reach a descendant that left the
\* process group and holds the pipes, so that reading what is left times out too.
\* The first exception ends the task, while other tools run on in their threads.
ToolRaises(w, i) ==
    /\ worker[w].at = "tools" /\ i \in 1 .. worker[w].calls \ worker[w].back
    /\ EndsWith(w, "raised", worker[w].history)

Results(w) == [i \in 1 .. worker[w].calls |->
                 [role |-> "tool", content |-> ToolOutput, call |-> i]]

NextCall(w, history, step) ==
    /\ worker' = [worker EXCEPT ![w] = [Begun(@.task, history) EXCEPT !.step = step]]
    /\ UNCHANGED orchestration

\* Mutant: the step of the agent is not counted.
AllBackUncounted(w) ==
    /\ worker[w].at = "tools" /\ worker[w].back = 1 .. worker[w].calls
    /\ NextCall(w, SubSeq(worker[w].history, 1, 2) \o Results(w), 1)

\* Every result is there: the next call of the model, or the end of the steps.
AllBack(w) ==
    /\ worker[w].at = "tools" /\ worker[w].back = 1 .. worker[w].calls
    /\ \E history \in {worker[w].history \o Results(w)} :
         IF Talks(w) \/ worker[w].step < MaxSteps
         THEN NextCall(w, history, worker[w].step + 1)
         ELSE EndsWith(w, "max steps", history)

Step(w) ==
    \/ TakeTask(w) \/ Leave(w) \/ CallFails(w) \/ TooLong(w) \/ Call(w)
    \/ FinalAnswer(w) \/ CallTools(w) \/ AllBack(w)
    \/ \E i \in 1 .. worker[w].calls : ToolReturns(w, i) \/ ToolRaises(w, i)

AgentsNext ==
    \/ SubmitTask \/ Run \/ Say \/ SayTask \/ Clear
    \/ \E w \in Agent : Step(w)

\* What a worker does in the end: the event loop runs what is ready, and a call
\* of the server times out. A tool may never come back: only the commands of
\* shell and execute_code have a timeout, the tools that read, write, list and
\* search files have none, and the threads of all tools are shared.
GoesOn(w) == (worker[w].at # "tools" /\ Step(w)) \/ AllBack(w)
WorkersGoOn == \A w \in Workers : WF_agentVars(GoesOn(w))

AgentsSpec == AgentsInit /\ [][AgentsNext]_agentVars /\ WorkersGoOn

-------------------------------------------------------------------------------
(* Properties.                                                                 *)

At(w, place) == worker[w].at = place

TasksTyped ==
    /\ \A t \in Ids : tasks[t].status \in {"pending", "running", "completed", "failed"}
    /\ ToSet(queue) \subseteq run /\ run \subseteq Ids
    /\ \A w \in Agent : worker[w].step <= IF Talks(w) THEN 2 ELSE MaxSteps

\* Each task a run took has one result when it is over, none while it waits or
\* runs, when exactly one worker is at it; a failed one is not called a success.
\* And in every history the model is shown, each tool call of each answer is
\* followed by its result, in the order of the calls, whatever the order the
\* tools returned in; no result stands there without its call.
TasksAccounted ==
    /\ TasksTyped
    /\ \A t \in Ids :
         LET its == {i \in DOMAIN results : results[i].task = t} IN
         CASE tasks[t].status \in {"completed", "failed"} ->
                /\ Cardinality(its) = 1
                /\ \A i \in its : results[i].success = (tasks[t].status = "completed")
           [] tasks[t].status = "running" ->
                its = {} /\ Cardinality({w \in Workers : worker[w].task = t}) = 1
           [] OTHER -> its = {} /\ (t \in run => t \in ToSet(queue))
    /\ \A w \in Agent : At(w, "calling") =>
         LET history == worker[w].history
             Of(role) == {i \in DOMAIN history : history[i].role = role}
         IN {<<i, history[i].call>> : i \in Of("tool")}
              = UNION {{<<i + n, n>> : n \in 1 .. history[i].calls} : i \in Of("assistant")}

\* The messages of plan from its newest user message on.
Newest(messages) ==
    LET users == {i \in DOMAIN messages : messages[i].role = "user"}
    IN IF users = {} THEN <<>> ELSE SubSeq(messages, Max(users), Len(messages))

\* The prompt of a call leaves room for the answer that was asked for, and both
\* passes stay in the window and in what the client allowed. The instructions
\* and the newest turn reach the model: word for word when older turns could be
\* summarized, cut in the middle otherwise; and every message
\* is accounted for as kept, summarized or dropped.
ContextFits ==
    \A w \in Agent : At(w, "answered") =>
      LET plan == worker[w].plan
          a == worker[w].answer
          all == Normalize(Sent(w))
          kept == plan.messages
      IN /\ Size(kept) + MaxTokens <= MaxSeqLen
         /\ CompactAt > 0 => Size(kept) <= CompactAt
         /\ a.used <= MaxTokens
         /\ a.budget > 0 =>
              a.prompt + Len(Decode(a.first)) + Len(Transition) + a.budget <= MaxSeqLen
         /\ kept[2].role = "system" /\ Head(kept[2].content) = Head(System)
         /\ [i \in DOMAIN Newest(kept) |-> Newest(kept)[i].role]
              = [i \in DOMAIN Newest(all) |-> Newest(all)[i].role]
         /\ Head(Newest(kept)[1].content) = Head(Task)
         /\ plan.summarized > 0 => kept[2].content = System /\ Newest(kept) = Newest(all)
         /\ plan.retained + plan.summarized + plan.dropped = Len(all)

\* No word of an earlier thought reaches the model again, wherever the budgets
\* cut it, in a turn that is kept or in the summary of one that is not.
ThoughtsStayHidden ==
    \A w \in Agent : At(w, "answered") =>
      \A i \in DOMAIN worker[w].plan.messages :
        "t" \notin ToSet(worker[w].plan.messages[i].content)

\* A client that streams sees, chunk after chunk, exactly the text a client that
\* waits gets, half characters and closings included, when no stop sequence ended
\* a pass: the stream of one that did shows the stop sequence and a token after
\* it, and may have closed the thought in them. (With a draft model the stream
\* leaves out tokens, with or without stop sequences; there is none here.)
StreamMatchesAnswer ==
    \A w \in Agent : At(w, "answered") /\ ~worker[w].answer.stopped =>
        worker[w].answer.stream = worker[w].answer.text

\* What leaves a turn, to the client and to later turns, is its speech: neither
\* an earlier thought nor, unless a stop sequence ended it, anything a waiting
\* client would not have got.
SpeechExact == ThoughtsStayHidden /\ StreamMatchesAnswer

\* A run comes to its end, with a result for each of its tasks, unless a worker
\* waits for ever for a tool; and then a task stays without a result only when
\* its own worker waits so, or when no other worker is left.
Hangs(w) == [](At(w, "tools"))
HasResult(t) == t \in Ids /\ tasks[t].status \in {"completed", "failed"}

RunEnds ==
    \A t \in 1 .. MaxTasks :
        /\ (t \in run) ~> ((run = {} /\ HasResult(t)) \/ \E w \in Workers : Hangs(w))
        /\ (t \in run) ~> \/ HasResult(t)
                          \/ \E w \in Workers : [](At(w, "tools") /\ worker[w].task = t)
                          \/ [](\A w \in Workers : worker[w].at \in {"tools", "gone"})
===============================================================================
