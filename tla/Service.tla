------------------------------ MODULE Service ------------------------------
(***************************************************************************)
(* One managed service (service.py, service_ops.py): its configuration on  *)
(* disk, the programs Supervisor runs from it (the server and a readiness  *)
(* watchdog), the releases an upgrade builds, and the operations of the    *)
(* command line: install, remove, start, stop, restart, upgrade, autotune. *)
(*                                                                         *)
(* An operation is the sequence of the steps it still has to take, each    *)
(* one call that reaches the disk or Supervisor; an exception replaces the *)
(* rest by the steps of its handler.  The watchdog is another process and  *)
(* moves between the steps.  Supervisor is outside the repository: reread  *)
(* and update stop the programs whose section changed and start them again *)
(* (autostart=true), start and stop of a program that is there already     *)
(* change nothing.  One operation at a time.                               *)
(***************************************************************************)
EXTENDS Integers, Sequences

CONSTANTS
    Release,    \* releases an upgrade may be asked for
    NumOptions, \* candidates an autotune tries
    Threshold,  \* --watchdog-failures
    WithDog,    \* BOOLEAN: the service is installed with a watchdog
    MaxOps,     \* bound on the operations ever begun
    MaxFaults,  \* bound on the calls that raise
    MaxHangs    \* bound on how often a server stops being, or never becomes, ready

\* The installed package and the installed settings; no configuration file.
Base == "base"
None == "none"

ASSUME ServiceAssumption ==
    /\ {Base, None} \cap Release = {} /\ Threshold \in Nat \ {0} /\ WithDog \in BOOLEAN
    /\ NumOptions \in Nat \ {0}
    /\ MaxOps \in Nat /\ MaxFaults \in Nat /\ MaxHangs \in Nat

Releases == Release \cup {Base}
Settings == 0 .. NumOptions
Config   == [rel : Releases, opt : Settings]
NoConfig == [rel |-> None, opt |-> 0]
Configs  == Config \cup {NoConfig}

VARIABLES
    disk,       \* the .conf file; NoConfig when there is none
    loaded,     \* the configuration Supervisor has applied
    server,     \* the server program, and the configuration it was started from
    dog,        \* the watchdog program: where it is, its consecutive failures
    release,    \* release directories: "none", "partial", or "complete" (.complete written)
    op,         \* the operation: kind, steps left, and its local variables
    ops, faults, hangs

vars == <<disk, loaded, server, dog, release, op, ops, faults, hangs>>

Step == {"build", "unwatch", "replace", "restore", "unlink", "update", "start", "stop",
         "restart", "await", "measure", "choose", "rewatch", "raise"}

TypeOK ==
    /\ disk \in Configs /\ loaded \in Configs
    /\ server \in [at : {"down", "loading", "ready", "hung"}, conf : Configs]
    /\ dog \in [at : {"off", "grace", "wait", "restart"}, failures : 0 .. Threshold]
    /\ release \in [Release -> {"none", "partial", "complete"}]
    /\ op.plan \in Seq(Step) /\ op.handling \in BOOLEAN
    /\ op.outcome \in {"none", "ok", "rolledback", "failed", "killed"}
    /\ {op.original, op.best} \subseteq Configs
    /\ ops \in 0 .. MaxOps /\ faults \in 0 .. MaxFaults /\ hangs \in 0 .. MaxHangs

NoOp == [kind |-> "none", plan |-> <<>>, new |-> NoConfig, original |-> NoConfig,
         best |-> NoConfig, handling |-> FALSE, outcome |-> "none"]

Init ==
    /\ disk = NoConfig /\ loaded = NoConfig
    /\ server = [at |-> "down", conf |-> NoConfig]
    /\ dog = [at |-> "off", failures |-> 0]
    /\ release = [r \in Release |-> "none"]
    /\ op = NoOp /\ ops = 0 /\ faults = 0 /\ hangs = 0

Installed == disk # NoConfig

\* has_watchdog.
HasWatchdog == Installed /\ WithDog

-----------------------------------------------------------------------------
(* What each operation does, as the steps of its try block and of its      *)
(* handler.                                                                 *)

Trial   == <<"replace", "update", "restart", "await", "measure">>
Trials  == [i \in 1 .. 5 * NumOptions |-> Trial[((i - 1) % 5) + 1]]
Handler == <<"restore", "update", "restart", "await", "rewatch", "raise">>

InstallSteps == <<"replace", "update">>
RemoveSteps  == <<"unlink", "update">>
StartSteps   == <<"start", "rewatch">>
\* Mutant: the watchdog is stopped after the server.
StopServerFirst == <<"stop", "unwatch">>
StopSteps    == <<"unwatch", "stop">>
RestartSteps == <<"unwatch", "restart", "rewatch">>
\* Mutant: a release that is complete is built again.
UpgradeRebuilds(r) ==
    <<"build", "unwatch", "replace", "update", "restart", "await", "rewatch">>
UpgradeSteps(r) ==
    (IF release[r] = "complete" THEN <<>> ELSE <<"build">>)
        \o <<"unwatch", "replace", "update", "restart", "await", "rewatch">>
AutotuneSteps ==
    <<"unwatch">> \o Trials \o <<"choose", "update", "restart", "await", "rewatch">>

Begin(kind, plan, new) ==
    /\ op.plan = <<>> /\ ops < MaxOps
    /\ op' = [NoOp EXCEPT !.kind = kind, !.plan = plan, !.new = new, !.original = disk]
    /\ ops' = ops + 1
    /\ UNCHANGED <<disk, loaded, server, dog, faults, hangs>>

Install == Begin("install", InstallSteps, [rel |-> Base, opt |-> 0]) /\ UNCHANGED release
Remove  == Installed /\ Begin("remove", RemoveSteps, NoConfig) /\ UNCHANGED release
Start   == Installed /\ Begin("start", StartSteps, disk) /\ UNCHANGED release
Stop    == Installed /\ Begin("stop", StopSteps, disk) /\ UNCHANGED release
Restart == Installed /\ Begin("restart", RestartSteps, disk) /\ UNCHANGED release

\* ServiceUpgrader.run.  A release that is not complete is built anew: what
\* is there is removed first.
Upgrade(r) ==
    /\ Installed
    /\ Begin("upgrade", UpgradeSteps(r), [disk EXCEPT !.rel = r])
    /\ release' = IF "build" = UpgradeSteps(r)[1] THEN [release EXCEPT ![r] = "partial"] ELSE release

\* ServiceAutotuner.run: new.opt counts the candidates tried.
Autotune == Installed /\ Begin("autotune", AutotuneSteps, [disk EXCEPT !.opt = 0]) /\ UNCHANGED release

-----------------------------------------------------------------------------
(* The steps. *)

At(s)    == op.plan # <<>> /\ Head(op.plan) = s
Rest     == [op EXCEPT !.plan = Tail(@),
                       !.outcome = IF Len(op.plan) = 1 THEN "ok" ELSE @]

\* Supervisor starts the server from what it has loaded; the watchdog begins
\* with its grace period.
Started    == [at |-> "loading", conf |-> loaded]
DogStarted == [at |-> "grace", failures |-> 0]
DogOff     == [at |-> "off", failures |-> 0]

\* An exception: outside the try, or in the handler, it ends the operation.
\* An upgrade builds its release outside.
Raised ==
    IF op.kind \in {"upgrade", "autotune"} /\ ~op.handling /\ Head(op.plan) # "build"
    THEN [op EXCEPT !.plan = Handler, !.handling = TRUE]
    ELSE [op EXCEPT !.plan = <<>>, !.outcome = "failed"]

Unwatch ==
    /\ At("unwatch")
    /\ dog' = IF HasWatchdog THEN DogOff ELSE dog
    /\ op' = Rest
    /\ UNCHANGED <<disk, loaded, server, release, ops, faults, hangs>>

Rewatch ==
    /\ At("rewatch")
    /\ dog' = IF HasWatchdog /\ dog.at = "off" THEN DogStarted ELSE dog
    /\ op' = Rest
    /\ UNCHANGED <<disk, loaded, server, release, ops, faults, hangs>>

\* The release is importable and .complete is written last, or a call of the
\* build raises and leaves the directory as it is.
BuildEnds ==
    /\ At("build")
    /\ release' = [release EXCEPT ![op.new.rel] = "complete"]
    /\ op' = Rest
    /\ UNCHANGED <<disk, loaded, server, dog, ops, faults, hangs>>

\* install, replace_executable and replace_command write the new file over
\* the old one in one rename.
Replace ==
    /\ At("replace")
    /\ LET tried == [op.new EXCEPT !.opt = @ + 1]
           conf  == IF op.kind = "autotune" THEN [disk EXCEPT !.opt = tried.opt] ELSE op.new
       IN  /\ disk' = conf
           /\ op' = [Rest EXCEPT !.new = IF op.kind = "autotune" THEN tried ELSE @]
    /\ UNCHANGED <<loaded, server, dog, release, ops, faults, hangs>>

Unlink ==
    /\ At("unlink")
    /\ disk' = NoConfig
    /\ op' = Rest
    /\ UNCHANGED <<loaded, server, dog, release, ops, faults, hangs>>

Restore ==
    /\ At("restore")
    /\ disk' = op.original
    /\ op' = Rest
    /\ UNCHANGED <<loaded, server, dog, release, ops, faults, hangs>>

\* apply: reread and update.  The settings are an argument of the server only,
\* the executable is in both sections.
Update ==
    /\ At("update")
    /\ loaded' = disk
    /\ server' = CASE disk = NoConfig -> [at |-> "down", conf |-> NoConfig]
                   [] disk # loaded /\ disk # NoConfig -> [at |-> "loading", conf |-> disk]
                   [] disk = loaded /\ disk # NoConfig -> server
    /\ dog' = CASE ~HasWatchdog -> DogOff
                [] HasWatchdog /\ disk.rel # loaded.rel -> DogStarted
                [] HasWatchdog /\ disk.rel = loaded.rel -> dog
    /\ op' = Rest
    /\ UNCHANGED <<disk, release, ops, faults, hangs>>

RunRestart ==
    /\ At("restart") /\ loaded # NoConfig
    /\ server' = Started
    /\ op' = Rest
    /\ UNCHANGED <<disk, loaded, dog, release, ops, faults, hangs>>

RunStart ==
    /\ At("start") /\ loaded # NoConfig
    /\ server' = IF server.at = "down" THEN Started ELSE server
    /\ op' = Rest
    /\ UNCHANGED <<disk, loaded, dog, release, ops, faults, hangs>>

RunStop ==
    /\ At("stop") /\ loaded # NoConfig
    /\ server' = [server EXCEPT !.at = "down"]
    /\ op' = Rest
    /\ UNCHANGED <<disk, loaded, dog, release, ops, faults, hangs>>

\* wait_until_ready saw the server ready before its deadline.
AwaitReady ==
    /\ At("await") /\ server.at = "ready"
    /\ op' = Rest
    /\ UNCHANGED <<disk, loaded, server, dog, release, ops, faults, hangs>>

\* It did not.  A candidate of the autotune is rejected without a
\* measurement, its handler goes on, an upgrade raises.
AwaitTimeout ==
    /\ At("await") /\ server.at # "ready"
    /\ op' = CASE op.plan[2] = "measure" -> [op EXCEPT !.plan = Tail(Tail(@))]
               [] op.plan[2] # "measure" /\ op.kind = "autotune" /\ op.handling -> Rest
               [] op.plan[2] # "measure" /\ ~(op.kind = "autotune" /\ op.handling) -> Raised
    /\ UNCHANGED <<disk, loaded, server, dog, release, ops, faults, hangs>>

\* benchmark_endpoint: the first throughput is the best so far, a later one
\* may be better, and a request of the benchmark may raise.
Measure(better) ==
    /\ At("measure")
    /\ better => server.at = "ready"
    /\ op' = [Rest EXCEPT !.best = IF better THEN disk ELSE @]
    /\ UNCHANGED <<disk, loaded, server, dog, release, ops, faults, hangs>>

\* "all autotune candidates failed", or the best configuration is restored.
Choose ==
    /\ At("choose")
    /\ disk' = IF op.best = NoConfig THEN disk ELSE op.best
    /\ op' = IF op.best = NoConfig THEN Raised ELSE Rest
    /\ UNCHANGED <<loaded, server, dog, release, ops, faults, hangs>>

\* The end of a handler that went through.
Raise ==
    /\ At("raise")
    /\ op' = [op EXCEPT !.plan = <<>>, !.outcome = "rolledback"]
    /\ UNCHANGED <<disk, loaded, server, dog, release, ops, faults, hangs>>

\* A command run with check=True returns an error; the calls for the
\* watchdog are made with check=False.
CallFails ==
    /\ \/ At("build") \/ At("start") \/ At("stop")
       \/ At("restart") \/ At("update")
    /\ \/ faults < MaxFaults /\ faults' = faults + 1
       \/ loaded = NoConfig /\ Head(op.plan) \notin {"build", "update"} /\ UNCHANGED faults
    /\ op' = Raised
    /\ UNCHANGED <<disk, loaded, server, dog, release, ops, hangs>>

\* The tool is interrupted or killed: KeyboardInterrupt is no Exception.
Killed ==
    /\ op.plan # <<>> /\ faults < MaxFaults
    /\ faults' = faults + 1
    /\ op' = [op EXCEPT !.plan = <<>>, !.outcome = "killed"]
    /\ UNCHANGED <<disk, loaded, server, dog, release, ops, hangs>>

OpStep ==
    \/ Unwatch \/ Rewatch \/ BuildEnds \/ Replace \/ Unlink \/ Restore \/ Update
    \/ RunRestart \/ RunStart \/ RunStop \/ AwaitReady \/ AwaitTimeout
    \/ (\E better \in BOOLEAN : Measure(better)) \/ Choose \/ Raise

-----------------------------------------------------------------------------
(* The server and the watchdog. *)

\* /ready answers 200.
BecomesReady ==
    /\ server.at = "loading"
    /\ server' = [server EXCEPT !.at = "ready"]
    /\ UNCHANGED <<disk, loaded, dog, release, op, ops, faults, hangs>>

\* The engine fails, or this configuration never loads.
Hangs ==
    /\ server.at \in {"loading", "ready"} /\ hangs < MaxHangs
    /\ server' = [server EXCEPT !.at = "hung"]
    /\ hangs' = hangs + 1
    /\ UNCHANGED <<disk, loaded, dog, release, op, ops, faults>>

\* run_watchdog: the grace period is over.
DogWakes ==
    /\ dog.at = "grace"
    /\ dog' = [dog EXCEPT !.at = "wait"]
    /\ UNCHANGED <<disk, loaded, server, release, op, ops, faults, hangs>>

\* Mutant: the count starts anew with every probe.
TickForgets ==
    /\ dog.at = "wait"
    /\ LET failures == IF server.at = "ready" THEN 0 ELSE 1
       IN  dog' = [at |-> IF failures < Threshold THEN "wait" ELSE "restart", failures |-> failures]
    /\ UNCHANGED <<disk, loaded, server, release, op, ops, faults, hangs>>

\* tick: a probe, which counts what is missing until the threshold.
Tick ==
    /\ dog.at = "wait"
    /\ LET failures == IF server.at = "ready" THEN 0 ELSE dog.failures + 1
       IN  dog' = [at |-> IF failures < Threshold THEN "wait" ELSE "restart", failures |-> failures]
    /\ UNCHANGED <<disk, loaded, server, release, op, ops, faults, hangs>>

\* The rest of tick: restart_server.
DogRestarts ==
    /\ dog.at = "restart"
    /\ server' = Started
    /\ dog' = [at |-> "wait", failures |-> 0]
    /\ UNCHANGED <<disk, loaded, release, op, ops, faults, hangs>>

\* It raises: the watchdog exits and Supervisor runs it again
\* (autorestart=unexpected).
DogFails ==
    /\ dog.at = "restart" /\ faults < MaxFaults
    /\ faults' = faults + 1
    /\ dog' = DogStarted
    /\ UNCHANGED <<disk, loaded, server, release, op, ops, hangs>>

Next ==
    \/ Install \/ Remove \/ Start \/ Stop \/ Restart \/ Autotune
    \/ \E r \in Release : Upgrade(r)
    \/ OpStep \/ CallFails \/ Killed
    \/ BecomesReady \/ Hangs \/ DogWakes \/ Tick \/ DogRestarts \/ DogFails

\* The tool and the watchdog run, and a server that neither hangs nor is
\* restarted finishes loading.
Fairness == WF_vars(OpStep) /\ WF_vars(BecomesReady) /\ WF_vars(DogWakes \/ Tick \/ DogRestarts)

Spec == Init /\ [][Next]_vars /\ Fairness

-----------------------------------------------------------------------------
(* Properties. *)

\* What is on disk, what Supervisor has loaded and what the server runs is
\* always a complete release: no upgrade removes or rebuilds the directory of
\* a release in use, and none switches to one that is not complete, whatever
\* was interrupted before (ServiceUpgrader.run).
ReleasesWhole ==
    /\ TypeOK
    /\ \A c \in {disk, loaded, server.conf} :
          c.rel \in Release => release[c.rel] = "complete"

AtRest == op.plan = <<>>

\* An operation that returned, or raised after it rolled back, leaves the
\* configuration it should: Supervisor and the server agree with the disk, an
\* upgrade is on its release, a rollback on the file it began with, an autotune
\* on its best candidate; the server is up except after stop and remove, and so
\* is the watchdog, where the service has one.  (An installation over an earlier
\* one leaves a program whose section did not change as it was.)
OperationsEndClean ==
    AtRest /\ op.outcome \in {"ok", "rolledback"} =>
        /\ op.outcome = "rolledback" => disk = op.original
        /\ op.outcome = "ok" /\ op.kind \in {"install", "remove", "upgrade"} => disk = op.new
        /\ op.outcome = "ok" /\ op.kind = "autotune" => disk = op.best
        /\ op.kind \in {"install", "remove", "upgrade", "autotune"} => loaded = disk
        /\ server.at # "down" => server.conf = loaded
        /\ op.kind # "install" =>
              /\ server.at = "down" <=> op.kind \in {"stop", "remove"}
              /\ dog.at # "off" <=> HasWatchdog /\ op.kind # "stop"

\* Nobody watches the service and no operation is under way: by
\* OperationsEndClean it has no watchdog or is stopped, or a killed or failed
\* operation left it like this.
Unwatched == AtRest /\ dog.at = "off"

\* A server that stopped being ready is restarted, by the watchdog or by the
\* operation under way, unless nobody watches (run_watchdog, tick).
HungRecovers == server.at = "hung" ~> server.at # "hung" \/ Unwatched
=============================================================================
