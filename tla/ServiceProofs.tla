--------------------------- MODULE ServiceProofs ---------------------------
(***************************************************************************)
(* No configuration ever points to a release that is not complete, and an  *)
(* operation that returns, or raises after its rollback, leaves the        *)
(* service as it should, for every set of releases, number of autotune     *)
(* candidates, and number of operations, faults and hangs.                 *)
(***************************************************************************)
EXTENDS Service, SequenceTheorems, TLAPS

Kind == {"none", "install", "remove", "start", "stop", "restart", "upgrade", "autotune"}

Operation ==
    [kind : Kind, plan : Seq(Step), new : Configs, original : Configs, best : Configs,
     handling : BOOLEAN, outcome : {"none", "ok", "rolledback", "failed", "killed"}]

\* A build comes first and only in an upgrade, only remove unlinks, something
\* follows an await, and the candidates of an autotune are five steps each,
\* before its last five.
PlanOK(plan, kind) ==
    \A i \in 1 .. Len(plan) :
        /\ plan[i] = "build" => i = 1 /\ kind = "upgrade"
        /\ plan[i] = "unlink" => kind = "remove"
        /\ plan[i] = "await" => i < Len(plan)
        /\ plan[i] = "replace" /\ kind = "autotune" =>
              \E m \in 1 .. NumOptions : Len(plan) - i + 1 = 5 * m + 5

\* An operation o that may be under way when d is on disk.  With what is left of
\* its plan, the candidates an autotune tried do not exceed those it has; and it
\* runs on a service that is installed.
OperationOK(o, d) ==
    /\ o \in Operation
    /\ PlanOK(o.plan, o.kind)
    /\ o.kind = "autotune" => 5 * o.new.opt + Len(o.plan) <= 5 * NumOptions + 9
    /\ o.kind = "autotune" /\ o.plan # <<>> => {d, o.original, o.new} \subseteq Config

\* Configuration c is of the installed package, or of a complete release.
Whole(c) == c.rel \in Release => release[c.rel] = "complete"

Building(o) == o.plan # <<>> /\ o.plan[1] = "build"

\* The watchdog restarts the server as soon as it counted to the threshold.
DogCounts == dog.at # "restart" => dog.failures < Threshold

\* The inductive invariant.  A configuration gets to the disk from op.new, from
\* op.original or from op.best, and from there to Supervisor and to the server;
\* op.new is not whole only as long as its release is being built.
Inv ==
    /\ TypeOK
    /\ OperationOK(op, disk)
    /\ DogCounts
    /\ \A c \in {disk, loaded, server.conf, op.original, op.best} : Whole(c)
    /\ op.plan # <<>> /\ ~Building(op) => Whole(op.new)

-----------------------------------------------------------------------------
(* What an operation still promises. *)

UpgradeEnd  == <<"unwatch", "replace", "update", "restart", "await", "rewatch">>
AutotuneEnd == <<"choose", "update", "restart", "await", "rewatch">>

\* The steps an operation of this kind, or its handler, ends with: all of them
\* but the build of an upgrade and the candidates of an autotune.
EndSteps(kind, handling) ==
    CASE handling                       -> Handler
      [] ~handling /\ kind = "install"  -> InstallSteps
      [] ~handling /\ kind = "remove"   -> RemoveSteps
      [] ~handling /\ kind = "start"    -> StartSteps
      [] ~handling /\ kind = "stop"     -> StopSteps
      [] ~handling /\ kind = "restart"  -> RestartSteps
      [] ~handling /\ kind = "upgrade"  -> UpgradeEnd
      [] ~handling /\ kind = "autotune" -> AutotuneEnd
      [] ~handling /\ kind = "none"     -> <<>>

\* The plan is what is left of a sequence that ends with these steps; only a
\* handler raises.
EndsAs(plan, last) ==
    \A i \in 1 .. Len(plan) :
        IF Len(plan) - i < Len(last)
        THEN plan[i] = last[Len(last) - (Len(plan) - i)]
        ELSE plan[i] # "raise"

\* An operation fails over to its handler only where it has one, is rolled back
\* only there, and succeeds only without.
OutcomeOK(o) ==
    /\ EndsAs(o.plan, EndSteps(o.kind, o.handling))
    /\ o.plan # <<>> => o.outcome = "none"
    /\ o.handling => o.kind \in {"upgrade", "autotune"}
    /\ o.outcome = "rolledback" => o.handling
    /\ o.outcome = "ok" => ~o.handling

\* Step s is one of those the operation ends with, and behind it.
Passed(last, left, s) == \E i \in 1 .. Len(last) : i <= Len(last) - left /\ last[i] = s
Done(s) == Passed(EndSteps(op.kind, op.handling), Len(op.plan), s)

\* The operation is under way, or ended as it should.
Live == op.plan # <<>> \/ op.outcome \in {"ok", "rolledback"}

\* The operations that need an installed service have a configuration.
Running == {"start", "stop", "restart", "upgrade", "autotune"}
Present ==
    /\ op.kind # "none"
    /\ op.kind \in Running => None \notin {disk.rel, op.original.rel, op.new.rel}
    /\ op.kind = "remove" => op.new = NoConfig

\* What each step that is done has made true, and no later one undoes.
Promised ==
    /\ Done("restore") => disk = op.original
    /\ Done("replace") \/ Done("unlink") => disk = op.new
    /\ Done("choose") => disk = op.best
    /\ Done("update") => loaded = disk
    /\ Done("start") \/ Done("restart") => server.at # "down"
    /\ Done("stop") => server.at = "down"
    /\ Done("unlink") /\ Done("update") => server.at = "down" /\ dog.at = "off"
    /\ Done("unwatch") /\ op.kind = "stop" => dog.at = "off"
    /\ Done("rewatch") /\ WithDog => dog.at # "off"

\* The inductive invariant of the endings.
Ending ==
    /\ dog.at # "off" => WithDog
    /\ server.at # "down" => server.conf = loaded
    /\ OutcomeOK(op)
    /\ Live => Present /\ Promised

-----------------------------------------------------------------------------
(* The plans. *)

LEMMA TailPlan ==
    ASSUME NEW plan \in Seq(Step), NEW kind, plan # <<>>, PlanOK(plan, kind)
    PROVE  /\ Tail(plan) \in Seq(Step) /\ Len(Tail(plan)) = Len(plan) - 1
           /\ PlanOK(Tail(plan), kind)
           /\ Tail(plan) # <<>> => Tail(plan)[1] # "build"
<1>1. /\ Tail(plan) \in Seq(Step) /\ Len(Tail(plan)) = Len(plan) - 1
      /\ Len(plan) \in Nat /\ Len(plan) # 0
      /\ \A i \in 1 .. Len(Tail(plan)) : Tail(plan)[i] = plan[i + 1]
    OBVIOUS
<1>2. ASSUME NEW i \in 1 .. Len(Tail(plan))
      PROVE  /\ Tail(plan)[i] # "build"
             /\ Tail(plan)[i] = "unlink" => kind = "remove"
             /\ Tail(plan)[i] = "await" => i < Len(Tail(plan))
             /\ Tail(plan)[i] = "replace" /\ kind = "autotune" =>
                  \E m \in 1 .. NumOptions : Len(Tail(plan)) - i + 1 = 5 * m + 5
    <2>1. /\ i + 1 \in 1 .. Len(plan) /\ i + 1 # 1
          /\ Len(plan) - (i + 1) + 1 = Len(Tail(plan)) - i + 1
          /\ i + 1 < Len(plan) <=> i < Len(Tail(plan))
        BY <1>1
    <2> QED BY <1>1, <2>1 DEF PlanOK
<1>3. Tail(plan) # <<>> => 1 \in 1 .. Len(Tail(plan))
    BY <1>1
<1> QED BY <1>1, <1>2, <1>3 DEF PlanOK

LEMMA HandlerPlan ==
    ASSUME NEW kind
    PROVE  Handler \in Seq(Step) /\ Len(Handler) = 6 /\ PlanOK(Handler, kind) /\ Handler[1] # "build"
<1>1. Handler \in Seq(Step) /\ Len(Handler) = 6
    BY DEF Handler, Step
<1>2. \A i \in 1 .. 6 : i \in {1, 2, 3, 4, 5, 6}
    OBVIOUS
<1>3. \A i \in 1 .. 6 : /\ Handler[i] \notin {"build", "unlink", "replace"}
                        /\ Handler[i] = "await" => i < 6
    BY <1>2 DEF Handler
<1> QED BY <1>1, <1>3 DEF PlanOK, Handler

\* The plans of the operations other than autotune.
LEMMA SimplePlans ==
    ASSUME NEW plan \in {InstallSteps, RemoveSteps, StartSteps, StopSteps, RestartSteps},
           NEW kind \in Kind \ {"autotune"}, kind = "remove" <=> plan = RemoveSteps
    PROVE  plan \in Seq(Step) /\ PlanOK(plan, kind) /\ plan # <<>> /\ plan[1] # "build"
<1>1. /\ InstallSteps # RemoveSteps /\ StartSteps # RemoveSteps /\ StopSteps # RemoveSteps
      /\ RestartSteps # RemoveSteps
    BY DEF InstallSteps, RemoveSteps, StartSteps, StopSteps, RestartSteps
<1>2. /\ InstallSteps \in Seq(Step) /\ RemoveSteps \in Seq(Step) /\ StartSteps \in Seq(Step)
      /\ StopSteps \in Seq(Step) /\ RestartSteps \in Seq(Step)
    BY DEF InstallSteps, RemoveSteps, StartSteps, StopSteps, RestartSteps, Step
<1>3. /\ \A i \in 1 .. Len(InstallSteps) : InstallSteps[i] \notin {"build", "unlink", "await"}
      /\ \A i \in 1 .. Len(StartSteps) : StartSteps[i] \notin {"build", "unlink", "await"}
      /\ \A i \in 1 .. Len(StopSteps) : StopSteps[i] \notin {"build", "unlink", "await"}
      /\ \A i \in 1 .. Len(RestartSteps) : RestartSteps[i] \notin {"build", "unlink", "await"}
      /\ \A i \in 1 .. Len(RemoveSteps) : RemoveSteps[i] \notin {"build", "await"}
    BY DEF InstallSteps, RemoveSteps, StartSteps, StopSteps, RestartSteps
<1>4. Len(plan) \in {2, 3}
    BY DEF InstallSteps, RemoveSteps, StartSteps, StopSteps, RestartSteps
<1>5. \A i \in 1 .. Len(plan) : plan[i] \notin {"build", "await"} /\ (plan[i] = "unlink" => plan = RemoveSteps)
    BY <1>3
<1>6. PlanOK(plan, kind)
    BY <1>5 DEF PlanOK
<1> QED BY <1>2, <1>4, <1>5, <1>6

LEMMA Joined ==
    ASSUME NEW s \in Seq(Step), NEW t \in Seq(Step), NEW u, u = s \o t
    PROVE  /\ u \in Seq(Step) /\ Len(u) = Len(s) + Len(t)
           /\ \A i \in 1 .. Len(s) + Len(t) : u[i] = IF i <= Len(s) THEN s[i] ELSE t[i - Len(s)]
BY ConcatProperties, Zenon

LEMMA OwnEnd ==
    ASSUME NEW plan \in Seq(Step)
    PROVE  EndsAs(plan, plan)
BY DEF EndsAs

LEMMA UpgradePlan ==
    ASSUME NEW r \in Release
    PROVE  /\ UpgradeSteps(r) \in Seq(Step) /\ PlanOK(UpgradeSteps(r), "upgrade")
           /\ UpgradeSteps(r) # <<>>
           /\ UpgradeSteps(r)[1] = "build" <=> release[r] # "complete"
           /\ EndsAs(UpgradeSteps(r), UpgradeEnd) /\ Len(UpgradeSteps(r)) >= Len(UpgradeEnd)
<1> DEFINE one == <<"build">>
           six == UpgradeEnd
<1>1. /\ one \in Seq(Step) /\ Len(one) = 1 /\ one[1] = "build"
      /\ six \in Seq(Step) /\ Len(six) = 6 /\ six[1] # "build" /\ six # <<>>
      /\ six = UpgradeEnd
    BY DEF Step, UpgradeEnd
<1>2. \A i \in 1 .. 6 : six[i] \notin {"build", "unlink"} /\ (six[i] = "await" => i < 6)
    <2>1. \A i \in 1 .. 6 : i \in {1, 2, 3, 4, 5, 6}
        OBVIOUS
    <2> QED BY <2>1 DEF UpgradeEnd
<1>3. UpgradeSteps(r) = (IF release[r] = "complete" THEN <<>> ELSE one) \o six
    BY DEF UpgradeSteps, UpgradeEnd
<1> HIDE DEF one, six
<1>4. CASE release[r] = "complete"
    <2>1. UpgradeSteps(r) = six
        BY <1>1, <1>3, <1>4, ConcatEmptySeq
    <2>2. EndsAs(six, six)
        BY <1>1, OwnEnd, Zenon
    <2>3. PlanOK(six, "upgrade")
        BY <1>1, <1>2 DEF PlanOK
    <2>4. Len(six) >= Len(six)
        BY <1>1
    <2> QED BY <2>1, <2>2, <2>3, <2>4, <1>1, <1>4
<1> DEFINE seven == one \o six
<1>5. /\ seven \in Seq(Step) /\ Len(seven) = 1 + 6
      /\ \A i \in 1 .. 1 + 6 : seven[i] = IF i <= 1 THEN one[i] ELSE six[i - 1]
    <2>1. one \in Seq(Step) /\ six \in Seq(Step) /\ seven = one \o six
        BY <1>1
    <2> HIDE DEF seven
    <2>2. /\ seven \in Seq(Step) /\ Len(seven) = Len(one) + Len(six)
          /\ \A i \in 1 .. Len(one) + Len(six) : seven[i] = IF i <= Len(one) THEN one[i] ELSE six[i - Len(one)]
        BY <2>1, Joined, Zenon
    <2> QED BY <2>2, <1>1
<1>6. CASE release[r] # "complete"
    <2>1. UpgradeSteps(r) = seven
        BY <1>3, <1>6
    <2> HIDE DEF seven
    <2>2. seven[1] = "build" /\ \A i \in 2 .. 7 : i - 1 \in 1 .. 6 /\ seven[i] = six[i - 1]
        BY <1>1, <1>5
    <2>3. \A i \in 1 .. 7 : /\ seven[i] # "unlink" /\ (seven[i] = "build" => i = 1)
                            /\ seven[i] = "await" => i < 7
        <3> SUFFICES ASSUME NEW i \in 1 .. 7
                     PROVE  /\ seven[i] # "unlink" /\ (seven[i] = "build" => i = 1)
                            /\ seven[i] = "await" => i < 7
            OBVIOUS
        <3>1. CASE i = 1
            BY <3>1, <2>2
        <3>2. CASE i # 1
            <4>1. i - 1 \in 1 .. 6 /\ seven[i] = six[i - 1] /\ (i - 1 < 6 => i < 7)
                BY <3>2, <2>2
            <4> QED BY <4>1, <1>2
        <3> QED BY <3>1, <3>2
    <2>4. PlanOK(seven, "upgrade")
        BY <1>5, <2>3 DEF PlanOK
    <2>5. seven # <<>>
        <3>1. Len(<<>>) = 0 /\ Len(seven) = 7
            BY <1>5
        <3> QED BY <3>1
    <2>6. EndsAs(seven, six)
        BY <1>1, <1>5, <2>2 DEF EndsAs
    <2>7. Len(seven) >= Len(six)
        BY <1>1, <1>5
    <2> QED BY <2>1, <2>2, <2>4, <2>5, <2>6, <2>7, <1>1, <1>5, <1>6
<1> QED BY <1>4, <1>6

LEMMA TrialsPlan ==
    /\ Trials \in Seq(Step) /\ Len(Trials) = 5 * NumOptions
    /\ \A i \in 1 .. 5 * NumOptions :
          /\ Trials[i] \notin {"build", "unlink", "raise"}
          /\ Trials[i] = "await" => i < 5 * NumOptions
          /\ Trials[i] = "replace" => \E q \in 0 .. NumOptions - 1 : i = 5 * q + 1
<1> DEFINE n == 5 * NumOptions
<1>1. n \in Nat /\ NumOptions \in Nat
    BY ServiceAssumption
<1>2. \A k \in 0 .. 4 : /\ Trial[k + 1] \in Step \ {"build", "unlink", "raise"}
                        /\ Trial[k + 1] = "await" => k = 3
                        /\ Trial[k + 1] = "replace" => k = 0
    <2>1. \A k \in 0 .. 4 : k \in {0, 1, 2, 3, 4}
        OBVIOUS
    <2> QED BY <2>1 DEF Trial, Step
<1>3. \A i \in 1 .. n : (i - 1) % 5 \in 0 .. 4
    BY <1>1
<1>4. Trials = [i \in 1 .. n |-> Trial[((i - 1) % 5) + 1]]
    BY DEF Trials
<1>5. Trials \in Seq(Step) /\ Len(Trials) = n
    <2>1. \A i \in 1 .. n : Trial[((i - 1) % 5) + 1] \in Step
        BY <1>2, <1>3
    <2>2. Trials \in [1 .. n -> Step]
        BY <2>1, <1>4
    <2> QED BY <2>2, <1>1
<1>6. ASSUME NEW i \in 1 .. n
      PROVE  /\ Trials[i] \notin {"build", "unlink", "raise"}
             /\ Trials[i] = "await" => i < n
             /\ Trials[i] = "replace" => \E q \in 0 .. NumOptions - 1 : i = 5 * q + 1
    <2>1. PICK k \in 0 .. 4 : k = (i - 1) % 5
        BY <1>3
    <2>2. Trials[i] = Trial[k + 1]
        BY <2>1, <1>4
    <2>3. PICK q \in Nat : i - 1 = 5 * q + k
        <3>1. i - 1 = 5 * ((i - 1) \div 5) + ((i - 1) % 5) /\ (i - 1) \div 5 \in Nat
            BY <1>1
        <3> QED BY <3>1, <2>1
    <2>4. k = 3 => i < n
        BY <2>3, <1>1
    <2>5. k = 0 => q \in 0 .. NumOptions - 1 /\ i = 5 * q + 1
        BY <2>3, <1>1
    <2> QED BY <1>2, <2>2, <2>4, <2>5
<1> QED BY <1>5, <1>6

LEMMA AutotunePlan ==
    /\ AutotuneSteps \in Seq(Step) /\ Len(AutotuneSteps) = 5 * NumOptions + 6
    /\ PlanOK(AutotuneSteps, "autotune") /\ AutotuneSteps[1] # "build"
    /\ EndsAs(AutotuneSteps, AutotuneEnd)
<1> DEFINE n == 5 * NumOptions
           first == <<"unwatch">>
           last == AutotuneEnd
<1>1. n \in Nat /\ NumOptions \in Nat
    BY ServiceAssumption
<1>2. /\ first \in Seq(Step) /\ Len(first) = 1 /\ first[1] = "unwatch"
      /\ last \in Seq(Step) /\ Len(last) = 5
    BY DEF Step, AutotuneEnd
<1>3. \A j \in 1 .. 5 : last[j] \notin {"build", "unlink", "replace"} /\ (last[j] = "await" => j < 5)
    <2>1. \A j \in 1 .. 5 : j \in {1, 2, 3, 4, 5}
        OBVIOUS
    <2> QED BY <2>1 DEF AutotuneEnd
<1>4. AutotuneSteps = (first \o Trials) \o last
    BY DEF AutotuneSteps, AutotuneEnd
<1> HIDE DEF first, last
<1> DEFINE start == first \o Trials
<1>5. /\ start \in Seq(Step) /\ Len(start) = 1 + n
      /\ \A i \in 1 .. 1 + n : start[i] = IF i <= 1 THEN first[i] ELSE Trials[i - 1]
    <2>1. first \in Seq(Step) /\ Trials \in Seq(Step) /\ start = first \o Trials
        BY <1>2, TrialsPlan
    <2> HIDE DEF start
    <2>2. /\ start \in Seq(Step) /\ Len(start) = Len(first) + Len(Trials)
          /\ \A i \in 1 .. Len(first) + Len(Trials) :
                start[i] = IF i <= Len(first) THEN first[i] ELSE Trials[i - Len(first)]
        BY <2>1, Joined, Zenon
    <2> QED BY <2>2, <1>2, TrialsPlan
<1> HIDE DEF start
<1>6. /\ AutotuneSteps \in Seq(Step) /\ Len(AutotuneSteps) = n + 6
      /\ \A i \in 1 .. n + 6 : AutotuneSteps[i] = IF i <= 1 + n THEN start[i] ELSE last[i - (1 + n)]
    <2>1. 1 + n \in Nat /\ 5 \in Nat /\ (1 + n) + 5 = n + 6
        BY <1>1
    <2>2. AutotuneSteps = start \o last
        BY <1>4 DEF start
    <2>3. start \in Seq(Step) /\ last \in Seq(Step)
        BY <1>2, <1>5
    <2>4. /\ AutotuneSteps \in Seq(Step) /\ Len(AutotuneSteps) = Len(start) + Len(last)
          /\ \A i \in 1 .. Len(start) + Len(last) :
                AutotuneSteps[i] = IF i <= Len(start) THEN start[i] ELSE last[i - Len(start)]
        BY <2>2, <2>3, Joined, Zenon
    <2> QED BY <2>1, <2>4, <1>1, <1>2, <1>5
<1>7. ASSUME NEW i \in 1 .. n + 6
      PROVE  /\ AutotuneSteps[i] \notin {"build", "unlink"}
             /\ AutotuneSteps[i] = "await" => i < n + 6
             /\ AutotuneSteps[i] = "replace" => \E m \in 1 .. NumOptions : n + 6 - i + 1 = 5 * m + 5
    <2>1. CASE i = 1
        BY <2>1, <1>1, <1>2, <1>5, <1>6
    <2>2. CASE i # 1 /\ i <= 1 + n
        <3>1. i - 1 \in 1 .. n /\ AutotuneSteps[i] = Trials[i - 1]
            <4>1. i \in 1 .. 1 + n /\ i - 1 \in 1 .. n /\ ~(i <= 1)
                BY ONLY <2>2, <1>1, i \in 1 .. n + 6
            <4>2. AutotuneSteps[i] = start[i]
                BY ONLY <2>2, <4>1, <1>6, i \in 1 .. n + 6
            <4> QED BY ONLY <4>1, <4>2, <1>5
        <3>2. ASSUME AutotuneSteps[i] = "replace"
              PROVE  \E m \in 1 .. NumOptions : n + 6 - i + 1 = 5 * m + 5
            <4>1. PICK q \in 0 .. NumOptions - 1 : i - 1 = 5 * q + 1
                BY <3>1, <3>2, TrialsPlan
            <4>2. NumOptions - q \in 1 .. NumOptions /\ n + 6 - i + 1 = 5 * (NumOptions - q) + 5
                BY <4>1, <1>1
            <4> QED BY <4>2
        <3> QED BY <3>1, <3>2, TrialsPlan, <1>1, <2>2
    <2>3. CASE i > 1 + n
        <3>1. i - (1 + n) \in 1 .. 5 /\ AutotuneSteps[i] = last[i - (1 + n)]
            BY <2>3, <1>1, <1>6
        <3> QED BY <3>1, <1>1, <1>3
    <2> QED BY <2>1, <2>2, <2>3, <1>1
<1>8. PlanOK(AutotuneSteps, "autotune")
    BY <1>1, <1>6, <1>7 DEF PlanOK
<1>9. ASSUME NEW i \in 1 .. n + 6
      PROVE  IF n + 6 - i < 5 THEN AutotuneSteps[i] = last[5 - (n + 6 - i)] ELSE AutotuneSteps[i] # "raise"
    <2>1. CASE i > 1 + n
        <3>1. n + 6 - i < 5 /\ 5 - (n + 6 - i) = i - (1 + n) /\ ~(i <= 1 + n)
            BY <2>1, <1>1
        <3> QED BY <3>1, <1>6
    <2>2. CASE i = 1
        BY <2>2, <1>1, <1>2, <1>5, <1>6
    <2>3. CASE i # 1 /\ i <= 1 + n
        <3>1. i - 1 \in 1 .. n /\ i \in 1 .. 1 + n /\ ~(i <= 1) /\ ~(n + 6 - i < 5)
            BY ONLY <2>3, <1>1, i \in 1 .. n + 6
        <3>2. AutotuneSteps[i] = start[i] /\ start[i] = Trials[i - 1]
            BY ONLY <2>3, <3>1, <1>5, <1>6, i \in 1 .. n + 6
        <3> QED BY <3>1, <3>2, TrialsPlan
    <2> QED BY <2>1, <2>2, <2>3, <1>1
<1>10. EndsAs(AutotuneSteps, last)
    BY <1>1, <1>2, <1>6, <1>9 DEF EndsAs
<1>11. EndsAs(AutotuneSteps, AutotuneEnd)
    BY <1>10 DEF last
<1> QED BY <1>1, <1>6, <1>7, <1>8, <1>11

-----------------------------------------------------------------------------
(* What an operation becomes. *)

\* The operation after its head step, or after an exception, is one that can be
\* under way, and has nothing to build any more.
LEMMA RestOK ==
    ASSUME Inv, op.plan # <<>>
    PROVE  /\ OperationOK(Rest, disk) /\ ~Building(Rest)
           /\ Rest.new = op.new /\ Rest.original = op.original /\ Rest.best = op.best
           /\ Rest.plan = Tail(op.plan) /\ Rest.kind = op.kind /\ Rest.handling = op.handling
<1>1. op \in Operation /\ PlanOK(op.plan, op.kind) /\ op.plan \in Seq(Step)
    BY DEF Inv, OperationOK, Operation
<1>2. /\ Tail(op.plan) \in Seq(Step) /\ Len(Tail(op.plan)) = Len(op.plan) - 1
      /\ PlanOK(Tail(op.plan), op.kind)
      /\ Tail(op.plan) # <<>> => Tail(op.plan)[1] # "build"
    BY <1>1, TailPlan
<1>3. /\ Rest \in Operation /\ Rest.new = op.new /\ Rest.original = op.original
      /\ Rest.best = op.best /\ Rest.plan = Tail(op.plan) /\ Rest.kind = op.kind
      /\ Rest.handling = op.handling
    BY <1>1, <1>2 DEF Rest, Operation
<1>4. op.kind = "autotune" => 5 * op.new.opt + Len(Tail(op.plan)) <= 5 * NumOptions + 9
    <2>1. op.new.opt \in Nat /\ Len(op.plan) \in Nat /\ NumOptions \in Nat
        BY <1>1, ServiceAssumption DEF Operation, Configs, Config, NoConfig, Settings
    <2> QED BY <2>1, <1>2 DEF Inv, OperationOK
<1>5. op.kind = "autotune" => {disk, op.original, op.new} \subseteq Config
    BY DEF Inv, OperationOK
<1> QED BY <1>2, <1>3, <1>4, <1>5 DEF OperationOK, Building

\* An operation that has ended.
LEMMA EndedOK ==
    ASSUME Inv, NEW o \in Operation, o.plan = <<>>, o.new = op.new, o.kind = op.kind,
           o.handling = op.handling
    PROVE  OperationOK(o, disk)
<1>1. Len(o.plan) = 0
    OBVIOUS
<1>2. PlanOK(o.plan, o.kind)
    BY <1>1 DEF PlanOK
<1>3. o.kind = "autotune" => 5 * o.new.opt + 0 <= 5 * NumOptions + 9
    <2>1. op.new.opt \in Nat /\ Len(op.plan) \in Nat /\ NumOptions \in Nat
        BY ServiceAssumption DEF Inv, OperationOK, Operation, Configs, Config, NoConfig, Settings
    <2> QED BY <2>1 DEF Inv, OperationOK
<1> QED BY <1>1, <1>2, <1>3 DEF OperationOK

LEMMA Ended ==
    ASSUME Inv, NEW outcome \in {"ok", "rolledback", "failed", "killed"}
    PROVE  LET o == [op EXCEPT !.plan = <<>>, !.outcome = outcome]
           IN  /\ o \in Operation /\ o.plan = <<>> /\ o.kind = op.kind /\ o.new = op.new
               /\ o.handling = op.handling /\ o.original = op.original /\ o.best = op.best
<1>1. op \in Operation /\ <<>> \in Seq(Step)
    BY DEF Inv, OperationOK
<1> QED BY <1>1 DEF Operation

LEMMA RaisedOK ==
    ASSUME Inv, op.plan # <<>>
    PROVE  /\ OperationOK(Raised, disk) /\ ~Building(Raised)
           /\ Raised.new = op.new /\ Raised.original = op.original /\ Raised.best = op.best
           /\ Raised.plan # <<>> => ~Building(op)
<1>1. op \in Operation /\ op.plan \in Seq(Step) /\ Head(op.plan) = op.plan[1]
    BY DEF Inv, OperationOK, Operation
<1>2. op.kind = "autotune" => {disk, op.original, op.new} \subseteq Config
    BY DEF Inv, OperationOK
<1>0. op.kind = "autotune" => 5 * op.new.opt + 6 <= 5 * NumOptions + 9
    BY <1>2, ServiceAssumption DEF Config, Settings
<1>3. CASE op.kind \in {"upgrade", "autotune"} /\ ~op.handling /\ Head(op.plan) # "build"
    <2>1. Raised = [op EXCEPT !.plan = Handler, !.handling = TRUE]
        BY <1>3 DEF Raised
    <2>2. /\ Raised \in Operation /\ Raised.plan = Handler /\ Raised.handling
          /\ Raised.kind = op.kind /\ Raised.new = op.new
          /\ Raised.original = op.original /\ Raised.best = op.best
        BY <1>1, <2>1, HandlerPlan DEF Operation
    <2> QED BY <2>2, <1>0, <1>1, <1>2, <1>3, HandlerPlan DEF OperationOK, Building
<1>4. CASE ~(op.kind \in {"upgrade", "autotune"} /\ ~op.handling /\ Head(op.plan) # "build")
    <2>1. Raised = [op EXCEPT !.plan = <<>>, !.outcome = "failed"]
        BY <1>4 DEF Raised
    <2>2. /\ Raised \in Operation /\ Raised.plan = <<>> /\ Raised.handling = op.handling
          /\ Raised.kind = op.kind /\ Raised.new = op.new
          /\ Raised.original = op.original /\ Raised.best = op.best
        <3>1. <<>> \in Seq(Step) /\ "failed" \in {"none", "ok", "rolledback", "failed", "killed"}
            OBVIOUS
        <3>2. DOMAIN op = {"kind", "plan", "new", "original", "best", "handling", "outcome"}
            BY <1>1 DEF Operation
        <3> QED BY <1>1, <2>1, <3>1, <3>2 DEF Operation
    <2> QED BY <2>2, EndedOK DEF Building
<1> QED BY <1>3, <1>4

-----------------------------------------------------------------------------
(* The initial state, and the start of an operation. *)

LEMMA InitInv == Init => Inv
<1> SUFFICES ASSUME Init PROVE Inv
    OBVIOUS
<1> USE ServiceAssumption
<1>1. NoConfig \in Configs /\ Whole(NoConfig)
    BY DEF Configs, NoConfig, Whole
<1>2. op \in Operation /\ op.plan = <<>> /\ op.kind = "none"
    BY <1>1 DEF Init, NoOp, Operation, Kind
<1>3. OperationOK(op, disk)
    BY <1>2 DEF OperationOK, PlanOK
<1>4. TypeOK
    BY <1>1, <1>2 DEF Init, TypeOK, Operation
<1>5. DogCounts /\ \A c \in {disk, loaded, server.conf, op.original, op.best} : Whole(c)
    BY <1>1 DEF Init, DogCounts, NoOp
<1> QED BY <1>2, <1>3, <1>4, <1>5 DEF Inv

\* An operation begins with the file on disk as its original, and nothing of the
\* one before it.
LEMMA BeginInv ==
    ASSUME Inv, NEW kind \in Kind, NEW plan \in Seq(Step), NEW new \in Configs,
           Begin(kind, plan, new), PlanOK(plan, kind), plan # <<>>,
           release' \in [Release -> {"none", "partial", "complete"}],
           \A r \in Release : release[r] = "complete" => release'[r] = "complete",
           plan[1] # "build" /\ new.rel \in Release => release'[new.rel] = "complete",
           kind = "autotune" => /\ {disk, new} \subseteq Config /\ new.opt = 0
                                /\ Len(plan) <= 5 * NumOptions + 6
    PROVE  Inv'
<1> USE ServiceAssumption
<1>1. NoConfig \in Configs /\ Whole(NoConfig)'
    BY DEF Configs, NoConfig, Whole
<1>2. /\ op' \in Operation /\ op'.kind = kind /\ op'.plan = plan /\ op'.new = new
      /\ op'.original = disk /\ op'.best = NoConfig
    BY <1>1 DEF Begin, NoOp, Operation, Inv, TypeOK
<1>3. OperationOK(op', disk)
    <2>1. kind = "autotune" => 5 * new.opt + Len(plan) <= 5 * NumOptions + 9
        OBVIOUS
    <2> QED BY <1>2, <2>1 DEF OperationOK
<1>4. OperationOK(op, disk)'
    BY <1>3 DEF Begin, OperationOK, PlanOK
<1>5. TypeOK'
    <2>1. ops' \in 0 .. MaxOps
        BY DEF Begin, Inv, TypeOK
    <2> QED BY <1>2, <2>1 DEF Begin, TypeOK, Inv, Operation
<1>6. \A c \in {disk, loaded, server.conf} : Whole(c)'
    BY DEF Inv, Whole
<1>7. DogCounts'
    BY DEF Begin, DogCounts, Inv
<1>8. \A c \in {disk, loaded, server.conf, op.original, op.best}' : Whole(c)'
    BY <1>1, <1>2, <1>6 DEF Begin
<1>9. (op.plan # <<>> /\ ~Building(op) => Whole(op.new))'
    BY <1>2 DEF Building, Whole
<1> QED BY <1>4, <1>5, <1>7, <1>8, <1>9 DEF Inv

\* From here on an action is known by what it makes of the operation and of the
\* configurations: an operation that can be under way, and only configurations
\* that are whole.
LEMMA StepInv ==
    ASSUME Inv, TypeOK', OperationOK(op', disk'), DogCounts',
           UNCHANGED release,
           \A c \in {disk', loaded', server'.conf, op'.original, op'.best} : Whole(c),
           op'.plan # <<>> /\ ~Building(op') => Whole(op'.new)
    PROVE  Inv'
<1>1. OperationOK(op, disk)'
    BY DEF OperationOK, PlanOK
<1>2. \A c \in {disk, loaded, server.conf, op.original, op.best}' : Whole(c)'
    BY DEF Whole
<1>3. (op.plan # <<>> /\ ~Building(op) => Whole(op.new))'
    BY DEF Whole, Building
<1> QED BY <1>1, <1>2, <1>3 DEF Inv

\* What holds of the configurations before the step.
LEMMA Before ==
    ASSUME Inv
    PROVE  /\ TypeOK /\ op \in Operation
           /\ disk \in Configs /\ loaded \in Configs /\ server.conf \in Configs
           /\ Whole(disk) /\ Whole(loaded) /\ Whole(server.conf)
           /\ Whole(op.original) /\ Whole(op.best)
           /\ op.plan # <<>> /\ Head(op.plan) # "build" => Whole(op.new)
<1>1. op.plan \in Seq(Step)
    BY DEF Inv, OperationOK, Operation
<1> QED BY <1>1 DEF Inv, TypeOK, OperationOK, Building

\* Head steps of an operation that leave its local variables, the releases and
\* the files on disk alone, and at most start or stop the programs.
LEMMA ProgramStepInv ==
    ASSUME Inv, op.plan # <<>>, Head(op.plan) # "build", op' \in {Rest, Raised},
           UNCHANGED <<disk, release, ops, hangs>>, faults' \in 0 .. MaxFaults,
           loaded' \in {loaded, disk}, server'.conf \in {server.conf, loaded, disk, NoConfig},
           server' \in [at : {"down", "loading", "ready", "hung"}, conf : Configs],
           dog' \in {dog, DogOff, DogStarted}
    PROVE  Inv'
<1> USE ServiceAssumption
<1>1. /\ OperationOK(op', disk') /\ op'.new = op.new /\ op'.original = op.original
      /\ op'.best = op.best
    BY RestOK, RaisedOK
<1>2. op' \in Operation
    BY <1>1 DEF OperationOK
<1>3. DogCounts' /\ dog' \in [at : {"off", "grace", "wait", "restart"}, failures : 0 .. Threshold]
    BY Before DEF DogCounts, DogOff, DogStarted, Inv, TypeOK
<1>4. loaded' \in Configs
    BY Before
<1>5. TypeOK'
    BY <1>2, <1>3, <1>4, Before DEF TypeOK, Operation
<1>6. Whole(NoConfig)
    BY DEF Whole, NoConfig
<1>7. \A c \in {disk', loaded', server'.conf, op'.original, op'.best} : Whole(c)
    BY <1>1, <1>6, Before
<1>8. op'.plan # <<>> /\ ~Building(op') => Whole(op'.new)
    BY <1>1, Before
<1> QED BY <1>1, <1>3, <1>5, <1>7, <1>8, StepInv

\* Steps that write the file or the local variables.
LEMMA DiskStepInv ==
    ASSUME Inv, op.plan # <<>>, Head(op.plan) # "build",
           OperationOK(op', disk'), op'.original = op.original, disk' \in Configs,
           Whole(disk'), Whole(op'.best), Whole(op'.new),
           UNCHANGED <<loaded, server, dog, release, ops, faults, hangs>>
    PROVE  Inv'
<1>1. op' \in Operation
    BY DEF OperationOK
<1>2. TypeOK'
    BY <1>1, Before DEF TypeOK, Operation
<1>3. DogCounts'
    BY DEF DogCounts, Inv
<1>4. \A c \in {disk', loaded', server'.conf, op'.original, op'.best} : Whole(c)
    BY Before
<1> QED BY <1>2, <1>3, <1>4, StepInv

\* Steps that end the operation, and touch nothing else.
LEMMA EndInv ==
    ASSUME Inv, op' \in Operation, op'.plan = <<>>, op'.kind = op.kind, op'.new = op.new,
           op'.handling = op.handling, op'.original = op.original, op'.best = op.best,
           UNCHANGED <<disk, loaded, server, dog, release, ops, hangs>>, faults' \in 0 .. MaxFaults
    PROVE  Inv'
<1>1. OperationOK(op', disk')
    BY EndedOK DEF OperationOK
<1>2. TypeOK'
    BY Before DEF TypeOK, Operation
<1>3. DogCounts'
    BY DEF DogCounts, Inv
<1>4. \A c \in {disk', loaded', server'.conf, op'.original, op'.best} : Whole(c)
    BY Before
<1> QED BY <1>1, <1>2, <1>3, <1>4, StepInv

\* Steps of the server and of the watchdog.
LEMMA OutsideInv ==
    ASSUME Inv, UNCHANGED <<disk, loaded, release, op, ops>>,
           faults' \in 0 .. MaxFaults, hangs' \in 0 .. MaxHangs,
           server' \in [at : {"down", "loading", "ready", "hung"}, conf : {server.conf, loaded}],
           dog' \in [at : {"off", "grace", "wait", "restart"}, failures : 0 .. Threshold], DogCounts'
    PROVE  Inv'
<1>1. OperationOK(op', disk')
    BY DEF Inv
<1>2. server'.conf \in {server.conf, loaded} /\ server' \in [at : {"down", "loading", "ready", "hung"}, conf : Configs]
    BY Before
<1>3. TypeOK'
    BY <1>2, Before DEF TypeOK
<1>4. \A c \in {disk', loaded', server'.conf, op'.original, op'.best} : Whole(c)
    BY <1>2, Before
<1>5. op'.plan # <<>> /\ ~Building(op') => Whole(op'.new)
    BY DEF Inv
<1> QED BY <1>1, <1>3, <1>4, <1>5, StepInv

-----------------------------------------------------------------------------
(* The actions. *)

LEMMA SimpleInv ==
    ASSUME Inv, UNCHANGED release, NEW new \in Configs, Whole(new), NEW kind \in Kind \ {"autotune"},
           NEW plan \in {InstallSteps, RemoveSteps, StartSteps, StopSteps, RestartSteps},
           kind = "remove" <=> plan = RemoveSteps, Begin(kind, plan, new)
    PROVE  Inv'
<1>1. plan \in Seq(Step) /\ PlanOK(plan, kind) /\ plan # <<>>
    BY SimplePlans
<1>2. release' \in [Release -> {"none", "partial", "complete"}]
    BY Before DEF TypeOK
<1>3. new.rel \in Release => release'[new.rel] = "complete"
    BY DEF Whole
<1> QED BY <1>1, <1>2, <1>3, BeginInv

LEMMA OperationsInv ==
    ASSUME Inv, Install \/ Remove \/ Start \/ Stop \/ Restart \/ Autotune \/ \E r \in Release : Upgrade(r)
    PROVE  Inv'
<1> DEFINE base == [rel |-> Base, opt |-> 0]
<1>1. base \in Configs /\ NoConfig \in Configs /\ disk \in Configs
    BY Before, ServiceAssumption DEF Configs, Config, Releases, Settings
<1>2. Whole(base) /\ Whole(NoConfig) /\ Whole(disk)
    BY Before, ServiceAssumption DEF Whole, NoConfig
<1>3. /\ InstallSteps # RemoveSteps /\ StartSteps # RemoveSteps /\ StopSteps # RemoveSteps
      /\ RestartSteps # RemoveSteps
    BY DEF InstallSteps, RemoveSteps, StartSteps, StopSteps, RestartSteps
<1> HIDE DEF base
<1>4. CASE Install
    <2>1. Begin("install", InstallSteps, base) /\ UNCHANGED release
        BY <1>4 DEF Install, base
    <2> QED BY <1>1, <1>2, <1>3, <2>1, SimpleInv DEF Kind
<1>5. CASE Remove
    BY <1>1, <1>2, <1>3, <1>5, SimpleInv DEF Remove, Kind
<1>6. CASE Start \/ Stop \/ Restart
    <2>1. /\ UNCHANGED release
          /\ Begin("start", StartSteps, disk) \/ Begin("stop", StopSteps, disk) \/ Begin("restart", RestartSteps, disk)
        BY <1>6 DEF Start, Stop, Restart
    <2>2. CASE Begin("start", StartSteps, disk)
        BY <1>1, <1>2, <1>3, <2>1, <2>2, SimpleInv DEF Kind
    <2>3. CASE Begin("stop", StopSteps, disk)
        BY <1>1, <1>2, <1>3, <2>1, <2>3, SimpleInv DEF Kind
    <2>4. CASE Begin("restart", RestartSteps, disk)
        BY <1>1, <1>2, <1>3, <2>1, <2>4, SimpleInv DEF Kind
    <2> QED BY <2>1, <2>2, <2>3, <2>4
<1>8. CASE Autotune
    <2> DEFINE new == [disk EXCEPT !.opt = 0]
    <2>1. disk \in Config /\ new \in Config /\ new.opt = 0 /\ new.rel = disk.rel
        BY <1>1, <1>8, ServiceAssumption DEF Autotune, Installed, Configs, Config, Settings
    <2>2. new.rel \in Release => release'[new.rel] = "complete"
        BY <1>2, <2>1, <1>8 DEF Autotune, Whole
    <2>3. Begin("autotune", AutotuneSteps, new) /\ UNCHANGED release
        BY <1>8 DEF Autotune
    <2>4. "autotune" \in Kind /\ new \in Configs
        BY <2>1 DEF Kind, Configs
    <2>5. /\ AutotuneSteps # <<>> /\ AutotuneSteps \in Seq(Step) /\ PlanOK(AutotuneSteps, "autotune")
          /\ Len(AutotuneSteps) <= 5 * NumOptions + 6
        BY AutotunePlan, ServiceAssumption
    <2>6. /\ release' \in [Release -> {"none", "partial", "complete"}]
          /\ \A r \in Release : release[r] = "complete" => release'[r] = "complete"
        BY <2>3, Before DEF TypeOK
    <2> HIDE DEF new
    <2> QED BY <2>1, <2>2, <2>3, <2>4, <2>5, <2>6, BeginInv
<1>9. ASSUME NEW r \in Release, Upgrade(r) PROVE Inv'
    <2> DEFINE new == [disk EXCEPT !.rel = r]
    <2>1. new \in Configs /\ new.rel = r
        BY <1>1, <1>9 DEF Upgrade, Installed, Configs, Config, Releases
    <2>2. /\ release' = IF release[r] # "complete" THEN [release EXCEPT ![r] = "partial"] ELSE release
          /\ Begin("upgrade", UpgradeSteps(r), new)
        BY <1>9, UpgradePlan DEF Upgrade
    <2>3. /\ release' \in [Release -> {"none", "partial", "complete"}]
          /\ \A s \in Release : release[s] = "complete" => release'[s] = "complete"
        BY <2>2, Before DEF TypeOK
    <2>4. UpgradeSteps(r)[1] # "build" => release'[new.rel] = "complete"
        BY <2>1, <2>2, UpgradePlan
    <2>5. "upgrade" \in Kind /\ "upgrade" # "autotune"
        BY DEF Kind
    <2>6. /\ UpgradeSteps(r) \in Seq(Step) /\ PlanOK(UpgradeSteps(r), "upgrade")
          /\ UpgradeSteps(r) # <<>>
        BY UpgradePlan
    <2> HIDE DEF new
    <2> QED BY <2>1, <2>2, <2>3, <2>4, <2>5, <2>6, BeginInv
<1> QED BY <1>4, <1>5, <1>6, <1>8, <1>9

\* The head of the plan, and what the shape of plans says about it.
LEMMA AtHead ==
    ASSUME Inv, NEW step, At(step)
    PROVE  /\ op.plan # <<>> /\ Head(op.plan) = step /\ op.plan[1] = step
           /\ op.plan \in Seq(Step) /\ Len(op.plan) \in Nat \ {0} /\ 1 \in 1 .. Len(op.plan)
           /\ PlanOK(op.plan, op.kind)
BY DEF At, Inv, OperationOK, Operation

LEMMA ProgramsInv ==
    ASSUME Inv, Unwatch \/ Rewatch \/ Update \/ RunRestart \/ RunStart \/ RunStop \/ AwaitReady
    PROVE  Inv'
<1>1. \E step \in Step \ {"build"} : At(step)
    BY DEF Unwatch, Rewatch, Update, RunRestart, RunStart, RunStop, AwaitReady, Step
<1>2. op.plan # <<>> /\ Head(op.plan) # "build"
    BY <1>1, AtHead
<1>3. faults' \in 0 .. MaxFaults /\ op' = Rest /\ UNCHANGED <<disk, release, ops, hangs>>
    BY Before DEF Unwatch, Rewatch, Update, RunRestart, RunStart, RunStop, AwaitReady, TypeOK
<1>4. NoConfig \in Configs /\ server \in [at : {"down", "loading", "ready", "hung"}, conf : Configs]
    BY Before DEF Configs, TypeOK
<1>5. /\ loaded' \in {loaded, disk} /\ server'.conf \in {server.conf, loaded, disk, NoConfig}
      /\ server' \in [at : {"down", "loading", "ready", "hung"}, conf : Configs]
      /\ dog' \in {dog, DogOff, DogStarted}
    <2>1. CASE Unwatch
        BY <2>1, <1>4 DEF Unwatch
    <2>2. CASE Rewatch
        BY <2>2, <1>4 DEF Rewatch
    <2>3. CASE Update
        <3>1. server' \in {server, [at |-> "down", conf |-> NoConfig], [at |-> "loading", conf |-> disk]}
            BY <2>3 DEF Update
        <3>2. dog' \in {dog, DogOff, DogStarted} /\ loaded' = disk
            BY <2>3 DEF Update
        <3> QED BY <3>1, <3>2, <1>4, Before
    <2>4. CASE RunRestart
        BY <2>4, <1>4, Before DEF RunRestart, Started
    <2>5. CASE RunStart
        BY <2>5, <1>4, Before DEF RunStart, Started
    <2>6. CASE RunStop
        BY <2>6, <1>4 DEF RunStop
    <2>7. CASE AwaitReady
        BY <2>7, <1>4 DEF AwaitReady
    <2> QED BY <2>1, <2>2, <2>3, <2>4, <2>5, <2>6, <2>7
<1> QED BY <1>2, <1>3, <1>5, ProgramStepInv

LEMMA FailsInv ==
    ASSUME Inv, CallFails \/ Killed \/ Raise
    PROVE  Inv'
<1>1. /\ faults' \in 0 .. MaxFaults /\ UNCHANGED <<disk, loaded, server, dog, release, ops, hangs>>
      /\ op.plan # <<>>
    <2>1. faults \in 0 .. MaxFaults /\ MaxFaults \in Nat
        BY Before, ServiceAssumption DEF TypeOK
    <2>2. faults' = faults \/ (faults < MaxFaults /\ faults' = faults + 1)
        BY DEF CallFails, Killed, Raise
    <2>3. UNCHANGED <<disk, loaded, server, dog, release, ops, hangs>>
        BY DEF CallFails, Killed, Raise
    <2>4. op.plan # <<>>
        BY DEF CallFails, Killed, Raise, At
    <2> QED BY <2>1, <2>2, <2>3, <2>4
<1>2. CASE CallFails
    <2>1. op' = Raised
        BY <1>2 DEF CallFails
    <2>2. CASE Head(op.plan) # "build"
        <3>1. loaded' \in {loaded, disk} /\ server' \in [at : {"down", "loading", "ready", "hung"}, conf : Configs]
            BY <1>1, Before DEF TypeOK
        <3> QED BY <1>1, <2>1, <2>2, <3>1, ProgramStepInv
    <2>3. CASE Head(op.plan) = "build"
        <3>1. op' = [op EXCEPT !.plan = <<>>, !.outcome = "failed"]
            BY <2>1, <2>3 DEF Raised
        <3> QED BY <3>1, <1>1, Ended, EndInv
    <2> QED BY <2>2, <2>3
<1>3. CASE Killed
    <2>1. op' = [op EXCEPT !.plan = <<>>, !.outcome = "killed"]
        BY <1>3 DEF Killed
    <2> QED BY <2>1, <1>1, Ended, EndInv
<1>4. CASE Raise
    <2>1. op' = [op EXCEPT !.plan = <<>>, !.outcome = "rolledback"]
        BY <1>4 DEF Raise
    <2> QED BY <2>1, <1>1, Ended, EndInv
<1> QED BY <1>2, <1>3, <1>4

LEMMA AwaitTimeoutInv ==
    ASSUME Inv, AwaitTimeout
    PROVE  Inv'
<1>1. /\ At("await") /\ UNCHANGED <<disk, loaded, server, dog, release, ops, faults, hangs>>
    BY DEF AwaitTimeout
<1>2. /\ op.plan # <<>> /\ op.plan \in Seq(Step) /\ Head(op.plan) # "build"
      /\ op.plan[1] = "await" /\ 1 \in 1 .. Len(op.plan) /\ PlanOK(op.plan, op.kind)
    BY <1>1, AtHead
<1>3. CASE op' \in {Rest, Raised}
    <2>1. loaded' \in {loaded, disk} /\ server' \in [at : {"down", "loading", "ready", "hung"}, conf : Configs]
        BY <1>1, Before DEF TypeOK
    <2>2. faults' \in 0 .. MaxFaults
        BY <1>1, Before DEF TypeOK
    <2> QED BY <1>1, <1>2, <1>3, <2>1, <2>2, ProgramStepInv
<1>4. CASE op' = [op EXCEPT !.plan = Tail(Tail(@))]
    <2> DEFINE rest == Tail(op.plan)
    <2>1. /\ rest \in Seq(Step) /\ Len(rest) = Len(op.plan) - 1 /\ PlanOK(rest, op.kind)
        BY <1>2, TailPlan
    <2>2. 1 < Len(op.plan)
        BY <1>2 DEF PlanOK
    <2>3. rest # <<>>
        <3>1. Len(rest) > 0 /\ Len(<<>>) = 0
            BY <1>2, <2>1, <2>2
        <3> QED BY <3>1
    <2> HIDE DEF rest
    <2>4. /\ Tail(rest) \in Seq(Step) /\ Len(Tail(rest)) = Len(op.plan) - 2
          /\ PlanOK(Tail(rest), op.kind) /\ (Tail(rest) # <<>> => Tail(rest)[1] # "build")
        <3>1. /\ Tail(rest) \in Seq(Step) /\ Len(Tail(rest)) = Len(rest) - 1
              /\ PlanOK(Tail(rest), op.kind) /\ (Tail(rest) # <<>> => Tail(rest)[1] # "build")
            BY <2>1, <2>3, TailPlan
        <3> QED BY <3>1, <2>1, <1>2
    <2>5. /\ op' \in Operation /\ op'.plan = Tail(rest) /\ op'.new = op.new /\ op'.kind = op.kind
          /\ op'.original = op.original /\ op'.best = op.best /\ op'.handling = op.handling
        BY <1>4, <2>4, Before DEF Operation, rest
    <2>6. op.kind = "autotune" => 5 * op.new.opt + Len(Tail(rest)) <= 5 * NumOptions + 9
        <3>1. op.new.opt \in Nat /\ Len(op.plan) \in Nat /\ NumOptions \in Nat
            BY <1>2, Before, ServiceAssumption DEF Operation, Configs, Config, NoConfig, Settings
        <3> QED BY <3>1, <2>4 DEF Inv, OperationOK
    <2>7. op.kind = "autotune" => {disk, op.original, op.new} \subseteq Config
        BY <1>2 DEF Inv, OperationOK
    <2>8. OperationOK(op', disk')
        BY <1>1, <2>4, <2>5, <2>6, <2>7 DEF OperationOK
    <2> QED BY <1>1, <1>2, <2>5, <2>8, Before, DiskStepInv
<1> QED BY <1>3, <1>4 DEF AwaitTimeout

\* The release of the operation is complete, and nothing else is to build.
LEMMA BuildEndsInv ==
    ASSUME Inv, BuildEnds
    PROVE  Inv'
<1>1. /\ op.plan # <<>> /\ op' = Rest
      /\ release' = [release EXCEPT ![op.new.rel] = "complete"]
      /\ UNCHANGED <<disk, loaded, server, dog, ops, faults, hangs>>
    BY DEF BuildEnds, At
<1>2. /\ OperationOK(op', disk') /\ op'.new = op.new /\ op'.original = op.original
      /\ op'.best = op.best
    BY <1>1, RestOK
<1>3. OperationOK(op, disk)' /\ op' \in Operation
    BY <1>2 DEF OperationOK, PlanOK
<1>4. /\ release' \in [Release -> {"none", "partial", "complete"}]
      /\ \A r \in Release : release[r] = "complete" => release'[r] = "complete"
      /\ op.new.rel \in Release => release'[op.new.rel] = "complete"
    BY <1>1, Before DEF TypeOK
<1>5. TypeOK'
    BY <1>1, <1>3, <1>4, Before DEF TypeOK, Operation
<1>6. \A c \in {disk, loaded, server.conf, op.original, op.best}' : Whole(c)'
    BY <1>1, <1>2, <1>4, Before DEF Whole
<1>7. Whole(op.new)'
    BY <1>2, <1>4 DEF Whole
<1>8. DogCounts'
    BY <1>1 DEF DogCounts, Inv
<1> QED BY <1>3, <1>5, <1>6, <1>7, <1>8 DEF Inv

LEMMA Tries ==
    ASSUME NEW opt \in Nat, NEW m \in Nat, NEW n \in Nat, m >= 1, opt + m <= n
    PROVE  opt + 1 \in 0 .. n /\ 5 * (opt + 1) + (5 * m + 5 - 1) <= 5 * n + 9
<1>1. 5 * (opt + 1) + (5 * m + 5 - 1) = 5 * (opt + m) + 9
    OBVIOUS
<1> QED BY <1>1

\* A candidate more: there is one more to try.
LEMMA ReplaceInv ==
    ASSUME Inv, Replace
    PROVE  Inv'
<1>1. /\ op.plan # <<>> /\ Head(op.plan) # "build" /\ op.plan[1] = "replace"
      /\ 1 \in 1 .. Len(op.plan) /\ Len(op.plan) \in Nat /\ PlanOK(op.plan, op.kind)
      /\ UNCHANGED <<loaded, server, dog, release, ops, faults, hangs>>
    BY AtHead DEF Replace
<1>2. /\ OperationOK(Rest, disk) /\ Rest.new = op.new /\ Rest.original = op.original
      /\ Rest.best = op.best /\ Rest.plan = Tail(op.plan) /\ Rest.kind = op.kind
      /\ Rest.handling = op.handling /\ Rest \in Operation
    BY <1>1, RestOK DEF OperationOK
<1>3. op \in Operation /\ op.new \in Configs /\ op.plan \in Seq(Step)
    BY Before DEF Operation
<1>4. CASE op.kind # "autotune"
    <2>1. disk' = op.new /\ op' = [Rest EXCEPT !.new = op.new]
        BY <1>2, <1>4 DEF Replace
    <2>2. op' = Rest
        BY <1>2, <2>1 DEF Operation
    <2>3. OperationOK(op', disk')
        BY <1>2, <1>4, <2>2 DEF OperationOK
    <2> QED BY <1>1, <1>2, <1>3, <2>1, <2>2, <2>3, Before, DiskStepInv
<1>5. CASE op.kind = "autotune"
    <2> DEFINE new == [op.new EXCEPT !.opt = @ + 1]
    <2>1. /\ disk' = [disk EXCEPT !.opt = new.opt] /\ op' = [Rest EXCEPT !.new = new]
        BY <1>2, <1>5 DEF Replace
    <2>2. op.new.opt \in Nat /\ new.opt = op.new.opt + 1 /\ new.rel = op.new.rel /\ NumOptions \in Nat
        BY <1>3, ServiceAssumption DEF Configs, Config, NoConfig, Settings
    <2>3. PICK m \in 1 .. NumOptions : Len(op.plan) - 1 + 1 = 5 * m + 5
        BY <1>1, <1>5 DEF PlanOK
    <2>4. new.opt \in Settings /\ 5 * new.opt + (Len(op.plan) - 1) <= 5 * NumOptions + 9
        <3>1. Len(op.plan) = 5 * m + 5 /\ m \in Nat /\ m >= 1
            BY <1>1, <2>3
        <3>2. 5 * op.new.opt + (5 * m + 5) <= 5 * NumOptions + 9
            BY <3>1, <1>5 DEF Inv, OperationOK
        <3>3. op.new.opt + m <= NumOptions
            BY <3>1, <3>2, <2>2
        <3>4. op.new.opt + 1 \in 0 .. NumOptions /\ 5 * (op.new.opt + 1) + (5 * m + 5 - 1) <= 5 * NumOptions + 9
            BY <3>1, <3>3, <2>2, Tries
        <3> QED BY <3>1, <3>4, <2>2 DEF Settings
    <2>5. {disk, op.original, op.new} \subseteq Config
        BY <1>1, <1>5 DEF Inv, OperationOK
    <2>6. /\ new \in Config /\ disk' \in Config /\ disk'.rel = disk.rel
        BY <2>1, <2>4, <2>5 DEF Config
    <2>7. /\ op' \in Operation /\ op'.plan = Tail(op.plan) /\ op'.kind = op.kind /\ op'.new = new
          /\ op'.original = op.original /\ op'.best = op.best
        BY <1>2, <2>1, <2>6 DEF Operation, Configs
    <2>8. Len(Tail(op.plan)) = Len(op.plan) - 1 /\ PlanOK(Tail(op.plan), op.kind)
        BY <1>1, <1>3, TailPlan
    <2>9. OperationOK(op', disk')
        BY <1>5, <2>4, <2>5, <2>6, <2>7, <2>8 DEF OperationOK
    <2>10. Whole(disk') /\ Whole(new)
        BY <1>1, <2>2, <2>6, Before DEF Whole
    <2> HIDE DEF new
    <2> QED BY <1>1, <2>6, <2>7, <2>9, <2>10, Before, DiskStepInv DEF Configs
<1> QED BY <1>4, <1>5

LEMMA RestoreInv ==
    ASSUME Inv, Unlink \/ Restore
    PROVE  Inv'
<1>1. /\ op.plan # <<>> /\ Head(op.plan) # "build" /\ op' = Rest
      /\ UNCHANGED <<loaded, server, dog, release, ops, faults, hangs>>
    BY AtHead DEF Unlink, Restore
<1>2. /\ OperationOK(Rest, disk) /\ Rest.new = op.new /\ Rest.original = op.original
      /\ Rest.best = op.best /\ Rest.kind = op.kind
    BY <1>1, RestOK
<1>3. op.kind = "autotune" => op.original \in Config
    BY <1>1 DEF Inv, OperationOK
<1>4. CASE Unlink
    <2>1. disk' = NoConfig /\ disk' \in Configs /\ Whole(disk')
        BY <1>4, ServiceAssumption DEF Unlink, Configs, Whole, NoConfig
    <2>2. op.kind = "remove"
        BY <1>4, AtHead DEF Unlink, PlanOK
    <2>3. OperationOK(op', disk')
        BY <1>1, <1>2, <2>2 DEF OperationOK
    <2> QED BY <1>1, <1>2, <2>1, <2>3, Before, DiskStepInv
<1>5. CASE Restore
    <2>1. disk' = op.original /\ disk' \in Configs
        BY <1>5, Before DEF Restore, Operation
    <2>2. OperationOK(op', disk')
        BY <1>1, <1>2, <1>3, <2>1 DEF OperationOK
    <2> QED BY <1>1, <1>2, <2>1, <2>2, Before, DiskStepInv
<1> QED BY <1>4, <1>5

LEMMA MeasureInv ==
    ASSUME Inv, Choose \/ \E better \in BOOLEAN : Measure(better)
    PROVE  Inv'
<1>1. /\ op.plan # <<>> /\ Head(op.plan) # "build"
      /\ UNCHANGED <<loaded, server, dog, release, ops, faults, hangs>>
    BY AtHead DEF Choose, Measure
<1>2. /\ OperationOK(Rest, disk) /\ Rest.new = op.new /\ Rest.original = op.original
      /\ Rest.best = op.best /\ Rest.kind = op.kind /\ Rest.plan = Tail(op.plan)
      /\ Rest.handling = op.handling /\ Rest \in Operation
    BY <1>1, RestOK DEF OperationOK
<1>3. CASE Choose
    <2>1. CASE op.best = NoConfig
        <3>1. op' = Raised /\ disk' = disk
            BY <1>3, <2>1 DEF Choose
        <3>2. faults' \in 0 .. MaxFaults /\ server' \in [at : {"down", "loading", "ready", "hung"}, conf : Configs]
            BY <1>1, Before DEF TypeOK
        <3> QED BY <1>1, <3>1, <3>2, ProgramStepInv
    <2>2. CASE op.best # NoConfig
        <3>1. op' = Rest /\ disk' = op.best
            BY <1>3, <2>2 DEF Choose
        <3>2. disk' \in Configs /\ disk' \in Config
            BY <2>2, <3>1, Before DEF Operation, Configs
        <3>3. OperationOK(op', disk')
            BY <1>2, <3>1, <3>2 DEF OperationOK
        <3> QED BY <1>1, <1>2, <3>1, <3>2, <3>3, Before, DiskStepInv
    <2> QED BY <2>1, <2>2
<1>4. ASSUME NEW better \in BOOLEAN, Measure(better) PROVE Inv'
    <2>1. disk' = disk /\ \E best \in {op.best, disk} : op' = [Rest EXCEPT !.best = best]
        BY <1>2, <1>4 DEF Measure
    <2>2. PICK best \in {op.best, disk} : op' = [Rest EXCEPT !.best = best]
        BY <2>1
    <2>3. best \in Configs /\ Whole(best)
        BY Before DEF Operation
    <2>4. /\ op' \in Operation /\ op'.plan = Rest.plan /\ op'.kind = op.kind /\ op'.new = op.new
          /\ op'.original = op.original /\ op'.best = best
        BY <1>2, <2>2, <2>3 DEF Operation
    <2>5. OperationOK(op', disk')
        BY <1>2, <2>1, <2>4 DEF OperationOK
    <2> QED BY <1>1, <2>1, <2>3, <2>4, <2>5, Before, DiskStepInv
<1> QED BY <1>3, <1>4

LEMMA ProcessesInv ==
    ASSUME Inv, BecomesReady \/ Hangs \/ DogWakes \/ Tick \/ DogRestarts \/ DogFails
    PROVE  Inv'
<1> USE ServiceAssumption
<1>1. /\ faults \in 0 .. MaxFaults /\ hangs \in 0 .. MaxHangs
      /\ server.at \in {"down", "loading", "ready", "hung"}
      /\ server = [at |-> server.at, conf |-> server.conf]
      /\ dog.at \in {"off", "grace", "wait", "restart"} /\ dog.failures \in 0 .. Threshold
      /\ dog = [at |-> dog.at, failures |-> dog.failures]
      /\ dog.at # "restart" => dog.failures < Threshold
    BY Before DEF TypeOK, Inv, DogCounts
<1>2. UNCHANGED <<disk, loaded, release, op, ops>>
    BY DEF BecomesReady, Hangs, DogWakes, Tick, DogRestarts, DogFails
<1>3. faults' \in 0 .. MaxFaults /\ hangs' \in 0 .. MaxHangs
    BY <1>1 DEF BecomesReady, Hangs, DogWakes, Tick, DogRestarts, DogFails
<1>4. server' \in [at : {"down", "loading", "ready", "hung"}, conf : {server.conf, loaded}]
    BY <1>1 DEF BecomesReady, Hangs, DogWakes, Tick, DogRestarts, DogFails, Started
<1>5. dog' \in [at : {"off", "grace", "wait", "restart"}, failures : 0 .. Threshold] /\ DogCounts'
    <2>1. CASE Tick
        <3> DEFINE failures == IF server.at = "ready" THEN 0 ELSE dog.failures + 1
        <3>1. failures \in 0 .. Threshold
            BY <1>1, <2>1 DEF Tick
        <3>2. dog' = [at |-> IF failures < Threshold THEN "wait" ELSE "restart", failures |-> failures]
            BY <2>1 DEF Tick
        <3> HIDE DEF failures
        <3> QED BY <3>1, <3>2 DEF DogCounts
    <2>2. CASE DogWakes
        BY <1>1, <2>2 DEF DogWakes, DogCounts
    <2>3. CASE DogRestarts \/ DogFails
        BY <2>3 DEF DogRestarts, DogFails, DogStarted, DogCounts
    <2>4. CASE BecomesReady \/ Hangs
        BY <1>1, <2>4 DEF BecomesReady, Hangs, DogCounts
    <2> QED BY <2>1, <2>2, <2>3, <2>4
<1> QED BY <1>2, <1>3, <1>4, <1>5, OutsideInv

-----------------------------------------------------------------------------
(* How an operation ends. *)

\* An operation of this kind, or its handler, ends with step s among others.
Belongs(s, kind, handling) ==
    /\ s # "measure" /\ s # "build"
    /\ s = "restore" => handling
    /\ s = "replace" => ~handling /\ kind \in {"install", "upgrade"}
    /\ s = "choose" => ~handling /\ kind = "autotune"
    /\ s = "unlink" => kind = "remove"
    /\ s = "stop" => kind = "stop"
    /\ s \in {"start", "restart", "rewatch"} => kind \in Running \ {"stop"}

\* There, step t can come after step s: only one step writes the file, before
\* the update; no stop follows a start; nothing follows the stop of the server or
\* the removal of the file but what stops more.
Follows(t, s, kind) ==
    /\ s \in {"restore", "replace", "choose", "unlink", "update"} =>
          t \notin {"restore", "replace", "choose", "unlink"}
    /\ s \in {"start", "restart"} => t # "stop"
    /\ s = "stop" => t \notin {"start", "restart", "update"}
    /\ s = "unlink" => t = "update"
    /\ s = "rewatch" => t # "unwatch"
    /\ s = "unwatch" /\ kind = "stop" => t = "stop"

Orderly(last, kind, handling) ==
    /\ \A i \in 1 .. Len(last) : /\ Belongs(last[i], kind, handling)
                                 /\ last[i] = "raise" <=> handling /\ i = Len(last)
    /\ \A i, j \in 1 .. Len(last) : i < j => Follows(last[j], last[i], kind)

LEMMA EndStepsOrderly ==
    ASSUME NEW kind \in Kind, NEW handling \in BOOLEAN, handling => kind \in {"upgrade", "autotune"}
    PROVE  /\ EndSteps(kind, handling) \in Seq(Step)
           /\ kind # "none" => Len(EndSteps(kind, handling)) > 1
           /\ Orderly(EndSteps(kind, handling), kind, handling)
<1>1. CASE handling
    <2>1. EndSteps(kind, handling) = Handler
        BY <1>1 DEF EndSteps
    <2>2. Handler \in Seq(Step) /\ Len(Handler) = 6
        BY DEF Handler, Step
    <2>3. Orderly(Handler, kind, handling)
        BY <1>1 DEF Orderly, Belongs, Follows, Handler, Running
    <2> QED BY <2>1, <2>2, <2>3
<1>2. CASE ~handling /\ kind = "install"
    <2>1. EndSteps(kind, handling) = InstallSteps
        BY <1>2 DEF EndSteps
    <2>2. InstallSteps \in Seq(Step) /\ Len(InstallSteps) = 2 /\ Orderly(InstallSteps, kind, handling)
        BY <1>2 DEF Orderly, Belongs, Follows, InstallSteps, Running, Step
    <2> QED BY <2>1, <2>2
<1>3. CASE ~handling /\ kind = "remove"
    <2>1. EndSteps(kind, handling) = RemoveSteps
        BY <1>3 DEF EndSteps
    <2>2. RemoveSteps \in Seq(Step) /\ Len(RemoveSteps) = 2 /\ Orderly(RemoveSteps, kind, handling)
        BY <1>3 DEF Orderly, Belongs, Follows, RemoveSteps, Running, Step
    <2> QED BY <2>1, <2>2
<1>4. CASE ~handling /\ kind = "start"
    <2>1. EndSteps(kind, handling) = StartSteps
        BY <1>4 DEF EndSteps
    <2>2. StartSteps \in Seq(Step) /\ Len(StartSteps) = 2 /\ Orderly(StartSteps, kind, handling)
        BY <1>4 DEF Orderly, Belongs, Follows, StartSteps, Running, Step
    <2> QED BY <2>1, <2>2
<1>5. CASE ~handling /\ kind = "stop"
    <2>1. EndSteps(kind, handling) = StopSteps
        BY <1>5 DEF EndSteps
    <2>2. StopSteps \in Seq(Step) /\ Len(StopSteps) = 2 /\ Orderly(StopSteps, kind, handling)
        BY <1>5 DEF Orderly, Belongs, Follows, StopSteps, Running, Step
    <2> QED BY <2>1, <2>2
<1>6. CASE ~handling /\ kind = "restart"
    <2>1. EndSteps(kind, handling) = RestartSteps
        BY <1>6 DEF EndSteps
    <2>2. RestartSteps \in Seq(Step) /\ Len(RestartSteps) = 3 /\ Orderly(RestartSteps, kind, handling)
        BY <1>6 DEF Orderly, Belongs, Follows, RestartSteps, Running, Step
    <2> QED BY <2>1, <2>2
<1>7. CASE ~handling /\ kind = "upgrade"
    <2>1. EndSteps(kind, handling) = UpgradeEnd
        BY <1>7 DEF EndSteps
    <2>2. UpgradeEnd \in Seq(Step) /\ Len(UpgradeEnd) = 6
        BY DEF UpgradeEnd, Step
    <2>3. Orderly(UpgradeEnd, kind, handling)
        BY <1>7 DEF Orderly, Belongs, Follows, UpgradeEnd, Running
    <2> QED BY <2>1, <2>2, <2>3
<1>8. CASE ~handling /\ kind = "autotune"
    <2>1. EndSteps(kind, handling) = AutotuneEnd
        BY <1>8 DEF EndSteps
    <2>2. AutotuneEnd \in Seq(Step) /\ Len(AutotuneEnd) = 5
        BY DEF AutotuneEnd, Step
    <2>3. Orderly(AutotuneEnd, kind, handling)
        BY <1>8 DEF Orderly, Belongs, Follows, AutotuneEnd, Running
    <2> QED BY <2>1, <2>2, <2>3
<1>9. CASE ~handling /\ kind = "none"
    <2>1. EndSteps(kind, handling) = <<>> /\ <<>> \in Seq(Step) /\ Len(<<>>) = 0
        BY <1>9 DEF EndSteps
    <2> QED BY <2>1, <1>9 DEF Orderly
<1> QED BY <1>1, <1>2, <1>3, <1>4, <1>5, <1>6, <1>7, <1>8, <1>9 DEF Kind

\* Taking the head leaves a plan that ends the same way.
LEMMA TailEnds ==
    ASSUME NEW plan \in Seq(Step), NEW last \in Seq(Step), plan # <<>>, EndsAs(plan, last)
    PROVE  /\ EndsAs(Tail(plan), last)
           /\ Len(plan) <= Len(last) => Head(plan) = last[Len(last) - Len(plan) + 1]
           /\ Len(plan) > Len(last) => Head(plan) # "raise"
<1>1. /\ Tail(plan) \in Seq(Step) /\ Len(Tail(plan)) = Len(plan) - 1
      /\ Len(plan) \in Nat \ {0} /\ Len(last) \in Nat /\ Head(plan) = plan[1]
      /\ \A i \in 1 .. Len(Tail(plan)) : Tail(plan)[i] = plan[i + 1]
    OBVIOUS
<1>2. ASSUME NEW i \in 1 .. Len(Tail(plan))
      PROVE  IF Len(Tail(plan)) - i < Len(last)
             THEN Tail(plan)[i] = last[Len(last) - (Len(Tail(plan)) - i)]
             ELSE Tail(plan)[i] # "raise"
    <2>1. i + 1 \in 1 .. Len(plan) /\ Len(plan) - (i + 1) = Len(Tail(plan)) - i
        BY <1>1
    <2> QED BY <1>1, <2>1 DEF EndsAs
<1>3. 1 \in 1 .. Len(plan) /\ Len(last) - (Len(plan) - 1) = Len(last) - Len(plan) + 1
    BY <1>1
<1>4. /\ Len(plan) <= Len(last) <=> Len(plan) - 1 < Len(last)
      /\ Len(plan) > Len(last) <=> ~(Len(plan) - 1 < Len(last))
    BY <1>1
<1> QED BY <1>1, <1>2, <1>3, <1>4 DEF EndsAs

\* A step that is done is one the operation ends with; the head step can follow it.
LEMMA DoneKind ==
    ASSUME NEW o \in Operation, OutcomeOK(o), NEW s,
           Passed(EndSteps(o.kind, o.handling), Len(o.plan), s)
    PROVE  /\ Belongs(s, o.kind, o.handling)
           /\ Len(o.plan) < Len(EndSteps(o.kind, o.handling))
<1>1. o.kind \in Kind /\ o.handling \in BOOLEAN /\ (o.handling => o.kind \in {"upgrade", "autotune"})
    BY DEF Operation, OutcomeOK
<1>2. o.plan \in Seq(Step) /\ Len(o.plan) \in Nat
    BY DEF Operation
<1>3. Orderly(EndSteps(o.kind, o.handling), o.kind, o.handling) /\ EndSteps(o.kind, o.handling) \in Seq(Step)
    BY <1>1, EndStepsOrderly
<1>4. PICK i \in 1 .. Len(EndSteps(o.kind, o.handling)) :
          i <= Len(EndSteps(o.kind, o.handling)) - Len(o.plan) /\ EndSteps(o.kind, o.handling)[i] = s
    BY DEF Passed
<1>5. Len(o.plan) < Len(EndSteps(o.kind, o.handling))
    BY <1>2, <1>3, <1>4
<1> QED BY <1>3, <1>4, <1>5 DEF Orderly

LEMMA DoneBefore ==
    ASSUME op \in Operation, OutcomeOK(op), op.plan # <<>>, NEW s, Done(s)
    PROVE  Follows(Head(op.plan), s, op.kind) /\ Belongs(Head(op.plan), op.kind, op.handling)
<1> DEFINE last == EndSteps(op.kind, op.handling)
<1>1. op.kind \in Kind /\ op.handling \in BOOLEAN /\ (op.handling => op.kind \in {"upgrade", "autotune"})
    BY DEF Operation, OutcomeOK
<1>2. op.plan \in Seq(Step) /\ Len(op.plan) \in Nat \ {0} /\ EndsAs(op.plan, last)
    BY DEF Operation, OutcomeOK
<1>3. Orderly(last, op.kind, op.handling) /\ last \in Seq(Step) /\ Len(last) \in Nat
    BY <1>1, EndStepsOrderly
<1>4. Passed(last, Len(op.plan), s)
    BY DEF Done
<1> HIDE DEF last
<1>5. PICK i \in 1 .. Len(last) : i <= Len(last) - Len(op.plan) /\ last[i] = s
    BY <1>4 DEF Passed
<1> DEFINE j == Len(last) - Len(op.plan) + 1
<1>6. j \in 1 .. Len(last) /\ i < j /\ Len(op.plan) <= Len(last)
    <2>1. \A a, b \in Nat : \A k \in 1 .. b : k <= b - a /\ a # 0 =>
             b - a + 1 \in 1 .. b /\ k < b - a + 1 /\ a <= b
        OBVIOUS
    <2>2. Len(op.plan) \in Nat /\ Len(op.plan) # 0 /\ Len(last) \in Nat
        BY <1>2, <1>3
    <2>3. i \in 1 .. Len(last) /\ i <= Len(last) - Len(op.plan)
        BY <1>5
    <2> HIDE DEF j
    <2>4. j = Len(last) - Len(op.plan) + 1
        BY DEF j
    <2> QED BY ONLY <2>1, <2>2, <2>3, <2>4
<1>7. Head(op.plan) = last[j]
    BY <1>2, <1>3, <1>6, TailEnds
<1> HIDE DEF j
<1> QED BY <1>3, <1>5, <1>6, <1>7 DEF Orderly

\* The operation took its head step: that one is done, too.
LEMMA Advance ==
    ASSUME op \in Operation, OutcomeOK(op), op.plan # <<>>, Head(op.plan) # "raise",
           op' \in Operation, op'.plan = Tail(op.plan), op'.kind = op.kind,
           op'.handling = op.handling, op'.outcome = Rest.outcome
    PROVE  /\ OutcomeOK(op')
           /\ \A s : Passed(EndSteps(op'.kind, op'.handling), Len(op'.plan), s) =>
                        Done(s) \/ s = Head(op.plan)
<1> DEFINE last == EndSteps(op.kind, op.handling)
<1>1. op.kind \in Kind /\ op.handling \in BOOLEAN /\ (op.handling => op.kind \in {"upgrade", "autotune"})
    BY DEF Operation, OutcomeOK
<1>2. op.plan \in Seq(Step) /\ Len(op.plan) \in Nat \ {0} /\ EndsAs(op.plan, last)
    BY DEF Operation, OutcomeOK
<1>3. /\ Orderly(last, op.kind, op.handling) /\ last \in Seq(Step) /\ Len(last) \in Nat
      /\ op.handling => Len(last) > 1
    BY <1>1, EndStepsOrderly
<1>4. last = EndSteps(op'.kind, op'.handling)
    OBVIOUS
<1>5. Len(op'.plan) = Len(op.plan) - 1
    BY <1>2
<1> HIDE DEF last
<1>6. /\ EndsAs(op'.plan, last)
      /\ Len(op.plan) <= Len(last) => Head(op.plan) = last[Len(last) - Len(op.plan) + 1]
    BY <1>2, <1>3, TailEnds
<1>7. op'.outcome = IF Len(op.plan) = 1 THEN "ok" ELSE op.outcome
    BY DEF Rest, Operation
<1>8. op.handling => Len(op.plan) # 1
    <2> SUFFICES ASSUME op.handling, Len(op.plan) = 1 PROVE FALSE
        OBVIOUS
    <2>1. Len(last) \in 1 .. Len(last) /\ Head(op.plan) = last[Len(last)]
        BY <1>3, <1>6
    <2> QED BY <2>1, <1>3 DEF Orderly
<1>9. op.outcome = "none" /\ (op'.plan # <<>> => Len(op.plan) # 1)
    <2>1. op'.plan # <<>> => Len(op'.plan) # 0
        BY DEF Operation
    <2> QED BY <2>1, <1>5 DEF OutcomeOK
<1>10. OutcomeOK(op')
    BY <1>1, <1>4, <1>6, <1>7, <1>8, <1>9 DEF OutcomeOK
<1>11. ASSUME NEW s, Passed(last, Len(op'.plan), s)
       PROVE  Passed(last, Len(op.plan), s) \/ s = Head(op.plan)
    <2>1. PICK i \in 1 .. Len(last) : i <= Len(last) - Len(op'.plan) /\ last[i] = s
        BY <1>11 DEF Passed
    <2>2. CASE i <= Len(last) - Len(op.plan)
        BY <2>1, <2>2 DEF Passed
    <2>3. CASE ~(i <= Len(last) - Len(op.plan))
        <3>1. i = Len(last) - Len(op.plan) + 1 /\ Len(op.plan) <= Len(last)
            BY <2>1, <2>3, <1>2, <1>3, <1>5
        <3> QED BY <2>1, <3>1, <1>6
    <2> QED BY <2>2, <2>3
<1> QED BY <1>4, <1>10, <1>11 DEF last, Done

LEMMA HeadStep ==
    ASSUME Inv, Ending, op.plan # <<>>, Head(op.plan) # "raise",
           op' \in Operation, op'.plan = Tail(op.plan), op'.kind = op.kind,
           op'.handling = op.handling, op'.outcome = Rest.outcome
    PROVE  /\ OutcomeOK(op)' /\ op \in Operation /\ Present /\ Promised
           /\ \A s : Done(s)' => /\ Done(s) \/ s = Head(op.plan)
                                 /\ Belongs(s, op.kind, op.handling)
           /\ \A s : Done(s) => /\ Follows(Head(op.plan), s, op.kind)
                                /\ Belongs(Head(op.plan), op.kind, op.handling)
<1>1. op \in Operation /\ OutcomeOK(op) /\ Present /\ Promised
    BY Before DEF Ending, Live
<1>2. /\ OutcomeOK(op')
      /\ \A s : Passed(EndSteps(op'.kind, op'.handling), Len(op'.plan), s) =>
                   Done(s) \/ s = Head(op.plan)
    BY <1>1, Advance
<1>3. \A s : Passed(EndSteps(op'.kind, op'.handling), Len(op'.plan), s) =>
                Belongs(s, op.kind, op.handling)
    BY <1>2, DoneKind
<1>4. \A s : Done(s) => /\ Follows(Head(op.plan), s, op.kind)
                        /\ Belongs(Head(op.plan), op.kind, op.handling)
    BY <1>1, DoneBefore
<1>5. OutcomeOK(op)'
    BY <1>2 DEF OutcomeOK
<1>6. \A s : Done(s)' <=> Passed(EndSteps(op'.kind, op'.handling), Len(op'.plan), s)
    BY DEF Done
<1> QED BY <1>1, <1>2, <1>3, <1>4, <1>5, <1>6

\* The head steps that leave the file and the local variables alone.
LEMMA ProgramsEnding ==
    ASSUME Inv, Ending,
           \/ Unwatch \/ Rewatch \/ BuildEnds \/ Update \/ RunRestart \/ RunStart \/ RunStop
           \/ At("await") /\ op' = Rest /\ UNCHANGED <<disk, loaded, server, dog>>
    PROVE  Ending'
<1> DEFINE head == Head(op.plan)
<1>1. /\ op.plan # <<>> /\ op' = Rest /\ disk' = disk
      /\ head \in {"unwatch", "rewatch", "build", "update", "restart", "start", "stop", "await"}
    BY AtHead DEF Unwatch, Rewatch, BuildEnds, Update, RunRestart, RunStart, RunStop
<1>2. /\ op' \in Operation /\ op'.plan = Tail(op.plan) /\ op'.kind = op.kind
      /\ op'.handling = op.handling /\ op'.outcome = Rest.outcome
      /\ op'.new = op.new /\ op'.original = op.original /\ op'.best = op.best
    BY <1>1, RestOK DEF OperationOK
<1>3. /\ OutcomeOK(op)' /\ op \in Operation /\ Present /\ Promised
      /\ \A s : Done(s)' => (Done(s) \/ s = head) /\ Belongs(s, op.kind, op.handling)
      /\ \A s : Done(s) => Follows(head, s, op.kind) /\ Belongs(head, op.kind, op.handling)
    BY <1>1, <1>2, HeadStep
<1>4. Present'
    BY <1>1, <1>2, <1>3 DEF Present
<1>5. /\ (Done("restore") => disk = op.original)'
      /\ (Done("replace") \/ Done("unlink") => disk = op.new)'
      /\ (Done("choose") => disk = op.best)'
    BY <1>1, <1>2, <1>3 DEF Promised
<1>6. /\ dog.at # "off" => WithDog
      /\ server.at # "down" => server.conf = loaded
      /\ op.kind \in Running => disk # NoConfig
      /\ op.kind = "remove" /\ Done("unlink") => disk = NoConfig
    BY <1>3 DEF Ending, Present, Promised, NoConfig
<1> HIDE DEF head
<1>7. CASE Unwatch
    <2>1. head = "unwatch" /\ loaded' = loaded /\ server' = server
        BY <1>7, AtHead DEF Unwatch, head
    <2>2. /\ dog' \in {dog, DogOff} /\ (dog.at = "off" => dog'.at = "off")
          /\ op.kind \in Running => dog'.at = "off"
        BY <1>6, <1>7 DEF Unwatch, HasWatchdog, Installed, DogOff
    <2>3. Promised'
        BY <1>1, <1>2, <1>3, <1>5, <2>1, <2>2 DEF Promised, Follows, Belongs, Running
    <2> QED BY <1>3, <1>4, <1>6, <2>1, <2>2, <2>3 DEF Ending, DogOff
<1>8. CASE Rewatch
    <2>1. head = "rewatch" /\ loaded' = loaded /\ server' = server
        BY <1>8, AtHead DEF Rewatch, head
    <2>2. /\ dog'.at # "off" => WithDog
          /\ dog.at # "off" => dog'.at # "off"
          /\ op.kind \in Running /\ WithDog => dog'.at # "off"
        BY <1>6, <1>8 DEF Rewatch, HasWatchdog, Installed, DogStarted
    <2>3. Promised'
        BY <1>1, <1>2, <1>3, <1>5, <2>1, <2>2 DEF Promised, Follows, Belongs, Running
    <2> QED BY <1>3, <1>4, <1>6, <2>1, <2>2, <2>3 DEF Ending
<1>9. CASE Update
    <2>1. head = "update" /\ loaded' = disk
        BY <1>9, AtHead DEF Update, head
    <2>2. /\ server'.at # "down" => server'.conf = disk
          /\ disk = NoConfig => server'.at = "down"
          /\ disk # NoConfig /\ server.at # "down" => server'.at # "down"
        BY <1>6, <1>9 DEF Update
    <2>3. /\ dog'.at # "off" => WithDog
          /\ disk = NoConfig => dog'.at = "off"
          /\ disk # NoConfig /\ WithDog /\ dog.at # "off" => dog'.at # "off"
        BY <1>6, <1>9 DEF Update, HasWatchdog, Installed, DogOff, DogStarted
    <2>4. /\ (Done("start") \/ Done("restart") => server.at # "down")'
          /\ (Done("rewatch") /\ WithDog => dog.at # "off")'
        BY <1>1, <1>2, <1>3, <1>6, <2>1, <2>2, <2>3 DEF Promised, Belongs
    <2>5. /\ ~Done("stop")'
          /\ ~(Done("unwatch") /\ op.kind = "stop")'
        BY <1>1, <1>2, <1>3, <2>1 DEF Follows
    <2>6. (Done("unlink") /\ Done("update") => server.at = "down" /\ dog.at = "off")'
        BY <1>1, <1>2, <1>3, <1>6, <2>1, <2>2, <2>3 DEF Belongs
    <2>7. Promised'
        BY <1>1, <1>5, <2>1, <2>4, <2>5, <2>6 DEF Promised
    <2> QED BY <1>1, <1>3, <1>4, <2>1, <2>2, <2>3, <2>7 DEF Ending
<1>10. CASE RunRestart \/ RunStart
    <2>1. head \in {"restart", "start"} /\ loaded' = loaded /\ dog' = dog
        BY <1>10, AtHead DEF RunRestart, RunStart, head
    <2>2. server'.at # "down" /\ server'.conf = loaded
        BY <1>6, <1>10 DEF RunRestart, RunStart, Started
    <2>3. /\ ~Done("stop")'
          /\ ~Done("unlink")'
        BY <1>1, <1>2, <1>3, <2>1 DEF Follows
    <2>4. /\ (Done("update") => loaded = disk)'
          /\ (Done("unwatch") /\ op.kind = "stop" => dog.at = "off")'
          /\ (Done("rewatch") /\ WithDog => dog.at # "off")'
        BY <1>1, <1>2, <1>3, <2>1 DEF Promised
    <2>5. Promised'
        BY <1>5, <2>2, <2>3, <2>4 DEF Promised
    <2> QED BY <1>3, <1>4, <1>6, <2>1, <2>2, <2>5 DEF Ending
<1>11. CASE RunStop
    <2>1. head = "stop" /\ loaded' = loaded /\ dog' = dog
        BY <1>11, AtHead DEF RunStop, head
    <2>2. server'.at = "down"
        BY <1>11, Before DEF RunStop, TypeOK
    <2>3. Promised'
        BY <1>1, <1>2, <1>3, <1>5, <2>1, <2>2 DEF Promised, Follows, Belongs, Running
    <2> QED BY <1>3, <1>4, <1>6, <2>1, <2>2, <2>3 DEF Ending
<1>12. CASE BuildEnds \/ (At("await") /\ op' = Rest /\ UNCHANGED <<disk, loaded, server, dog>>)
    <2>1. head \in {"await", "build"} /\ loaded' = loaded /\ dog' = dog /\ server' = server
        BY <1>12, AtHead DEF BuildEnds, head
    <2>2. Promised'
        BY <1>1, <1>2, <1>3, <1>5, <2>1 DEF Promised, Follows, Belongs, Running
    <2> QED BY <1>3, <1>4, <1>6, <2>1, <2>2 DEF Ending
<1> QED BY <1>7, <1>8, <1>9, <1>10, <1>11, <1>12

\* The head steps that write the file, or the local variables, come before the
\* update.
LEMMA WriteEnding ==
    ASSUME Inv, Ending, op.plan # <<>>, UNCHANGED <<loaded, server, dog>>,
           Head(op.plan) \in {"replace", "unlink", "restore", "choose", "measure"},
           op' \in Operation, op'.plan = Tail(op.plan), op'.kind = op.kind,
           op'.handling = op.handling, op'.outcome = Rest.outcome, op'.original = op.original,
           op'.new = op.new \/ (op.kind = "autotune" /\ op'.new.rel = op.new.rel),
           op.kind \in Running => disk'.rel # None,
           Head(op.plan) = "restore" => disk' = op.original,
           Head(op.plan) \in {"replace", "unlink"} /\ op.kind # "autotune" => disk' = op.new,
           Head(op.plan) = "choose" => disk' = op'.best
    PROVE  Ending'
<1> DEFINE head == Head(op.plan)
<1>1. /\ OutcomeOK(op)' /\ op \in Operation /\ Present /\ Promised
      /\ \A s : Done(s)' => (Done(s) \/ s = head) /\ Belongs(s, op.kind, op.handling)
      /\ \A s : Done(s) => Follows(head, s, op.kind) /\ Belongs(head, op.kind, op.handling)
    BY HeadStep
<1>2. Present'
    BY <1>1 DEF Present, Running
<1> HIDE DEF head
<1>3. /\ head \in {"replace", "unlink", "restore", "choose", "measure"}
      /\ head = "restore" => disk' = op.original
      /\ head \in {"replace", "unlink"} /\ op.kind # "autotune" => disk' = op.new
      /\ head = "choose" => disk' = op'.best
    BY DEF head
<1>4. ~Done("update")'
    BY <1>1, <1>3 DEF Follows, Belongs
<1>5. /\ (Done("restore") => disk = op.original)'
      /\ (Done("choose") => disk = op.best)'
    BY <1>1, <1>3 DEF Follows, Belongs
<1>6. (Done("replace") \/ Done("unlink") => disk = op.new)'
    BY <1>1, <1>3 DEF Follows, Belongs
<1>7. /\ (Done("start") \/ Done("restart") => server.at # "down")'
      /\ (Done("stop") => server.at = "down")'
      /\ (Done("unwatch") /\ op.kind = "stop" => dog.at = "off")'
      /\ (Done("rewatch") /\ WithDog => dog.at # "off")'
    BY <1>1, <1>3 DEF Promised
<1>8. Promised'
    BY <1>4, <1>5, <1>6, <1>7 DEF Promised
<1> QED BY <1>1, <1>2, <1>8 DEF Ending

LEMMA FilesEnding ==
    ASSUME Inv, Ending, Replace \/ Unlink \/ Restore
    PROVE  Ending'
<1>1. /\ op.plan # <<>> /\ UNCHANGED <<loaded, server, dog>>
    BY AtHead DEF Replace, Unlink, Restore
<1>2. /\ Rest \in Operation /\ Rest.plan = Tail(op.plan) /\ Rest.kind = op.kind
      /\ Rest.handling = op.handling /\ Rest.new = op.new /\ Rest.original = op.original
      /\ Rest.best = op.best
    BY <1>1, RestOK DEF OperationOK
<1>3. Present
    BY <1>1 DEF Ending, Live
<1>4. CASE Replace /\ op.kind = "autotune"
    <2>1. /\ op' = [Rest EXCEPT !.new = [op.new EXCEPT !.opt = @ + 1]]
          /\ disk' = [disk EXCEPT !.opt = op.new.opt + 1] /\ Head(op.plan) = "replace"
        BY <1>2, <1>4, AtHead, Before DEF Replace, Operation, Configs, Config, NoConfig
    <2>2. op' \in Operation
        BY <1>4, ReplaceInv DEF Inv, OperationOK
    <2>3. /\ op'.plan = Rest.plan /\ op'.kind = Rest.kind /\ op'.handling = Rest.handling
          /\ op'.original = Rest.original /\ op'.outcome = Rest.outcome
          /\ op'.new.rel = op.new.rel /\ disk'.rel = disk.rel
        BY <1>2, <2>1, Before DEF Operation, Configs, Config, NoConfig
    <2>4. op.kind \in Running => disk'.rel # None
        BY <1>3, <2>3 DEF Present
    <2> QED BY <1>1, <1>2, <1>4, <2>1, <2>2, <2>3, <2>4, WriteEnding
<1>5. CASE Replace /\ op.kind # "autotune"
    <2>1. op' = Rest /\ disk' = op.new /\ Head(op.plan) = "replace"
        BY <1>2, <1>5, AtHead DEF Replace, Operation
    <2>2. op.kind \in Running => disk'.rel # None
        BY <1>3, <2>1 DEF Present
    <2> QED BY <1>1, <1>2, <1>5, <2>1, <2>2, WriteEnding
<1>6. CASE Unlink
    <2>1. op' = Rest /\ disk' = NoConfig /\ Head(op.plan) = "unlink" /\ op.kind = "remove"
        BY <1>6, AtHead DEF Unlink, PlanOK
    <2>2. disk' = op.new /\ op.kind \notin Running
        BY <1>3, <2>1 DEF Present, Running
    <2> QED BY <1>1, <1>2, <2>1, <2>2, WriteEnding
<1>7. CASE Restore
    <2>1. op' = Rest /\ disk' = op.original /\ Head(op.plan) = "restore"
        BY <1>7, AtHead DEF Restore
    <2>2. op.kind \in Running => disk'.rel # None
        BY <1>3, <2>1 DEF Present
    <2> QED BY <1>1, <1>2, <2>1, <2>2, WriteEnding
<1> QED BY <1>4, <1>5, <1>6, <1>7

\* An operation that failed or was killed promises nothing.
LEMMA FailedEnding ==
    ASSUME Inv, Ending, NEW outcome \in {"failed", "killed"},
           op' = [op EXCEPT !.plan = <<>>, !.outcome = outcome], UNCHANGED <<disk, loaded, server, dog>>
    PROVE  Ending'
<1>1. /\ op'.plan = <<>> /\ op'.outcome = outcome /\ op'.kind = op.kind /\ op'.handling = op.handling
    BY Before DEF Operation
<1>2. OutcomeOK(op')
    <2>1. Len(<<>>) = 0
        OBVIOUS
    <2> QED BY <1>1, <2>1 DEF Ending, OutcomeOK, EndsAs
<1>3. ~Live'
    BY <1>1 DEF Live
<1> QED BY <1>2, <1>3 DEF Ending, OutcomeOK

\* An exception: the handler has all of its steps before it, or the operation
\* fails.
LEMMA RaisedEnding ==
    ASSUME Inv, Ending, op.plan # <<>>, op' = Raised, UNCHANGED <<disk, loaded, server, dog>>
    PROVE  Ending'
<1>1. op \in Operation /\ OutcomeOK(op) /\ Present /\ op.outcome = "none"
    BY Before DEF Ending, Live, OutcomeOK
<1>2. CASE op.kind \in {"upgrade", "autotune"} /\ ~op.handling /\ Head(op.plan) # "build"
    <2>1. op' = [op EXCEPT !.plan = Handler, !.handling = TRUE]
        BY <1>2 DEF Raised
    <2>2. /\ op' \in Operation /\ op'.plan = Handler /\ op'.handling /\ op'.kind = op.kind
          /\ op'.new = op.new /\ op'.original = op.original /\ op'.outcome = "none"
        BY <1>1, <2>1, HandlerPlan DEF Operation
    <2>3. EndSteps(op'.kind, op'.handling) = Handler
        BY <2>2 DEF EndSteps
    <2>4. OutcomeOK(op')
        BY <1>2, <2>2, <2>3, OwnEnd, HandlerPlan DEF OutcomeOK
    <2>5. \A s : ~Done(s)'
        <3>1. ASSUME NEW s, Passed(EndSteps(op'.kind, op'.handling), Len(op'.plan), s)
              PROVE  FALSE
            <4>1. Len(op'.plan) < Len(EndSteps(op'.kind, op'.handling))
                BY <2>2, <2>4, <3>1, DoneKind
            <4>2. Len(Handler) = 6
                BY HandlerPlan
            <4>3. Len(op'.plan) = 6 /\ Len(EndSteps(op'.kind, op'.handling)) = 6
                BY ONLY <2>2, <2>3, <4>2
            <4> QED BY ONLY <4>1, <4>3
        <3> QED BY <3>1 DEF Done
    <2>6. Promised'
        BY <2>5 DEF Promised
    <2>7. Present'
        BY <1>1, <2>2 DEF Present
    <2> QED BY <2>4, <2>6, <2>7 DEF Ending, OutcomeOK
<1>3. CASE ~(op.kind \in {"upgrade", "autotune"} /\ ~op.handling /\ Head(op.plan) # "build")
    <2>1. op' = [op EXCEPT !.plan = <<>>, !.outcome = "failed"]
        BY <1>3 DEF Raised
    <2> QED BY <2>1, FailedEnding
<1> QED BY <1>2, <1>3

LEMMA MeasureEnding ==
    ASSUME Inv, Ending, Choose \/ \E better \in BOOLEAN : Measure(better)
    PROVE  Ending'
<1>1. /\ op.plan # <<>> /\ Head(op.plan) \in {"choose", "measure"} /\ UNCHANGED <<loaded, server, dog>>
    BY AtHead DEF Choose, Measure
<1>2. /\ Rest \in Operation /\ Rest.plan = Tail(op.plan) /\ Rest.kind = op.kind
      /\ Rest.handling = op.handling /\ Rest.new = op.new /\ Rest.original = op.original
      /\ Rest.best = op.best
    BY <1>1, RestOK DEF OperationOK
<1>3. Present
    BY <1>1 DEF Ending, Live
<1>4. CASE Choose /\ op.best = NoConfig
    BY <1>1, <1>4, RaisedEnding DEF Choose
<1>5. CASE Choose /\ op.best # NoConfig
    <2>1. op' = Rest /\ disk' = op.best /\ Head(op.plan) = "choose"
        BY <1>5, AtHead DEF Choose
    <2>2. disk'.rel # None
        BY <1>5, <2>1, Before, ServiceAssumption DEF Operation, Configs, Config, Releases, Base, None
    <2> QED BY <1>1, <1>2, <2>1, <2>2, WriteEnding
<1>6. ASSUME NEW better \in BOOLEAN, Measure(better) PROVE Ending'
    <2>1. disk' = disk /\ Head(op.plan) = "measure" /\ \E best \in {op.best, disk} : op' = [Rest EXCEPT !.best = best]
        BY <1>2, <1>6, AtHead DEF Measure
    <2>2. /\ op' \in Operation /\ op'.plan = Rest.plan /\ op'.kind = Rest.kind
          /\ op'.handling = Rest.handling /\ op'.new = Rest.new /\ op'.original = Rest.original
          /\ op'.outcome = Rest.outcome
        BY <1>2, <2>1, Before DEF Operation
    <2>3. op.kind \in Running => disk'.rel # None
        BY <1>3, <2>1 DEF Present
    <2> QED BY <1>1, <1>2, <2>1, <2>2, <2>3, WriteEnding
<1> QED BY <1>4, <1>5, <1>6

\* A candidate that is rejected is not among the steps the operation ends with.
LEMMA AwaitTimeoutEnding ==
    ASSUME Inv, Ending, AwaitTimeout
    PROVE  Ending'
<1>1. /\ At("await") /\ op.plan # <<>> /\ op.plan[1] = "await" /\ PlanOK(op.plan, op.kind)
      /\ op.plan \in Seq(Step) /\ Len(op.plan) \in Nat \ {0} /\ 1 \in 1 .. Len(op.plan)
      /\ UNCHANGED <<disk, loaded, server, dog>>
    BY AtHead DEF AwaitTimeout
<1>2. op \in Operation /\ OutcomeOK(op) /\ Present
    BY <1>1, Before DEF Ending, Live
<1>3. CASE op' = Rest
    BY <1>1, <1>3, ProgramsEnding
<1>4. CASE op' = Raised
    BY <1>1, <1>4, RaisedEnding
<1>5. CASE op.plan[2] = "measure" /\ op' = [op EXCEPT !.plan = Tail(Tail(@))]
    <2> DEFINE last == EndSteps(op.kind, op.handling)
               rest == Tail(op.plan)
    <2>1. /\ last \in Seq(Step) /\ Len(last) \in Nat /\ Orderly(last, op.kind, op.handling)
          /\ EndsAs(op.plan, last)
        BY <1>2, EndStepsOrderly DEF Operation, OutcomeOK
    <2> HIDE DEF last
    <2>2. 2 \in 1 .. Len(op.plan)
        BY <1>1 DEF PlanOK
    <2>3. ~(Len(op.plan) - 2 < Len(last))
        <3> SUFFICES ASSUME Len(op.plan) - 2 < Len(last) PROVE FALSE
            OBVIOUS
        <3>1. Len(last) - (Len(op.plan) - 2) \in 1 .. Len(last)
            BY <1>1, <2>1, <2>2
        <3>2. op.plan[2] = last[Len(last) - (Len(op.plan) - 2)]
            BY <2>1, <2>2 DEF EndsAs
        <3> QED BY <1>5, <2>1, <3>1, <3>2 DEF Orderly, Belongs
    <2>4. /\ rest \in Seq(Step) /\ Len(rest) = Len(op.plan) - 1 /\ EndsAs(rest, last)
        BY <1>1, <2>1, TailEnds
    <2> HIDE DEF rest
    <2>5. rest # <<>>
        <3>1. Len(op.plan) \in Nat /\ 1 < Len(op.plan)
            BY <1>1, <2>2
        <3>2. Len(op.plan) - 1 > 0 /\ Len(<<>>) = 0
            BY <3>1
        <3> QED BY <2>4, <3>2
    <2>6. Tail(rest) \in Seq(Step) /\ Len(Tail(rest)) = Len(op.plan) - 2 /\ EndsAs(Tail(rest), last)
        <3>1. Tail(rest) \in Seq(Step) /\ Len(Tail(rest)) = Len(rest) - 1
            BY <2>4, <2>5
        <3>2. EndsAs(Tail(rest), last)
            BY <2>1, <2>4, <2>5, TailEnds
        <3> QED BY <1>1, <2>4, <3>1, <3>2
    <2>7. /\ op' \in Operation /\ op'.plan = Tail(rest) /\ op'.new = op.new /\ op'.kind = op.kind
          /\ op'.original = op.original /\ op'.handling = op.handling /\ op'.outcome = op.outcome
        BY <1>2, <1>5, <2>6 DEF Operation, rest
    <2>8. EndSteps(op'.kind, op'.handling) = last
        BY <2>7 DEF last
    <2>9. OutcomeOK(op')
        BY <1>1, <1>2, <2>6, <2>7, <2>8 DEF OutcomeOK
    <2>10. ASSUME NEW s, Passed(EndSteps(op'.kind, op'.handling), Len(op'.plan), s)
           PROVE  FALSE
        <3>1. Len(op'.plan) < Len(EndSteps(op'.kind, op'.handling))
            BY <2>7, <2>9, <2>10, DoneKind
        <3> QED BY <3>1, <2>3, <2>6, <2>7, <2>8
    <2>11. \A s : ~Done(s)'
        BY <2>10 DEF Done
    <2>12. Promised'
        BY <2>11 DEF Promised
    <2>13. Present'
        BY <1>1, <1>2, <2>7 DEF Present
    <2> QED BY <1>1, <2>9, <2>12, <2>13 DEF Ending, OutcomeOK
<1> QED BY <1>3, <1>4, <1>5 DEF AwaitTimeout

\* A handler that went through ends with its last step.
LEMMA RaiseEnding ==
    ASSUME Inv, Ending, Raise
    PROVE  Ending'
<1> DEFINE last == EndSteps(op.kind, op.handling)
<1>1. /\ op.plan # <<>> /\ Head(op.plan) = "raise" /\ op.plan \in Seq(Step) /\ Len(op.plan) \in Nat \ {0}
      /\ UNCHANGED <<disk, loaded, server, dog>>
    BY AtHead DEF Raise
<1>2. op \in Operation /\ OutcomeOK(op) /\ Present /\ Promised
    BY <1>1, Before DEF Ending, Live
<1>3. /\ last \in Seq(Step) /\ Len(last) \in Nat /\ Orderly(last, op.kind, op.handling)
      /\ EndsAs(op.plan, last)
    BY <1>2, EndStepsOrderly DEF Operation, OutcomeOK
<1>4. /\ op'.plan = <<>> /\ op'.outcome = "rolledback" /\ op'.kind = op.kind /\ op'.handling = op.handling
      /\ op'.new = op.new /\ op'.original = op.original /\ op'.best = op.best
    BY <1>2 DEF Raise, Operation
<1>5. last = EndSteps(op'.kind, op'.handling) /\ Len(op'.plan) = 0
    BY <1>4
<1>6. \A s : Done(s) <=> Passed(last, Len(op.plan), s)
    BY DEF Done
<1> HIDE DEF last
<1>7. Len(op.plan) <= Len(last) /\ Head(op.plan) = last[Len(last) - Len(op.plan) + 1]
    <2>1. /\ Len(op.plan) <= Len(last) => Head(op.plan) = last[Len(last) - Len(op.plan) + 1]
          /\ Len(op.plan) > Len(last) => Head(op.plan) # "raise"
        BY <1>1, <1>3, TailEnds
    <2>2. Len(op.plan) <= Len(last) \/ Len(op.plan) > Len(last)
        BY ONLY <1>1, <1>3
    <2> QED BY <1>1, <2>1, <2>2
<1>8. op.handling /\ Len(op.plan) = 1 /\ last[Len(last)] = "raise"
    <2>1. Len(last) - Len(op.plan) + 1 \in 1 .. Len(last)
        BY <1>1, <1>3, <1>7
    <2>2. op.handling /\ Len(last) - Len(op.plan) + 1 = Len(last)
        BY <1>1, <1>3, <1>7, <2>1 DEF Orderly
    <2>3. Len(op.plan) = 1
        <3>1. \A a, b \in Nat : b - a + 1 = b => a = 1
            OBVIOUS
        <3>2. Len(op.plan) \in Nat /\ Len(last) \in Nat
            BY <1>1, <1>3
        <3> QED BY ONLY <2>2, <3>1, <3>2
    <2> QED BY <1>1, <1>7, <2>2, <2>3
<1>9. ASSUME NEW s, Passed(last, Len(op'.plan), s)
      PROVE  Done(s) \/ s = "raise"
    <2>1. PICK i \in 1 .. Len(last) : i <= Len(last) - 0 /\ last[i] = s
        BY <1>5, <1>9 DEF Passed
    <2>2. CASE i = Len(last)
        BY <1>8, <2>1, <2>2
    <2>3. CASE i # Len(last)
        <3>1. i <= Len(last) - 1
            BY <2>3, <1>3
        <3> QED BY <1>6, <1>8, <2>1, <3>1 DEF Passed
    <2> QED BY <2>2, <2>3
<1>10. \A s : Done(s)' => Done(s) \/ s = "raise"
    BY <1>5, <1>9 DEF Done
<1>11. Promised'
    BY <1>1, <1>2, <1>4, <1>10 DEF Promised
<1>12. Present'
    BY <1>1, <1>2, <1>4 DEF Present
<1>13. OutcomeOK(op')
    BY <1>2, <1>4, <1>5, <1>8 DEF OutcomeOK, EndsAs
<1> QED BY <1>1, <1>11, <1>12, <1>13 DEF Ending, OutcomeOK

LEMMA FailsEnding ==
    ASSUME Inv, Ending, CallFails \/ Killed
    PROVE  Ending'
<1>1. op.plan # <<>> /\ UNCHANGED <<disk, loaded, server, dog>>
    BY DEF CallFails, Killed, At
<1>2. CASE CallFails
    BY <1>1, <1>2, RaisedEnding DEF CallFails
<1>3. CASE Killed
    BY <1>1, <1>3, FailedEnding DEF Killed
<1> QED BY <1>2, <1>3

LEMMA InitEnding == Init => Ending
<1> SUFFICES ASSUME Init PROVE Ending
    OBVIOUS
<1>1. /\ op.plan = <<>> /\ op.kind = "none" /\ op.handling = FALSE /\ op.outcome = "none"
      /\ dog.at = "off" /\ server.at = "down"
    BY DEF Init, NoOp
<1>2. OutcomeOK(op)
    <2>1. Len(<<>>) = 0
        OBVIOUS
    <2> QED BY <1>1, <2>1 DEF OutcomeOK, EndsAs
<1>3. ~Live
    BY <1>1 DEF Live
<1> QED BY <1>1, <1>2, <1>3 DEF Ending

\* An operation begins with all of its last steps before it; it is in no handler.
LEMMA BeginEnding ==
    ASSUME Inv, Ending, NEW kind \in Kind \ {"none"}, NEW plan \in Seq(Step), NEW new \in Configs,
           Begin(kind, plan, new), plan # <<>>,
           NEW last \in Seq(Step), \A h : h = FALSE => EndSteps(kind, h) = last,
           EndsAs(plan, last), Len(plan) >= Len(last),
           kind \in Running => disk.rel # None /\ new.rel # None,
           kind = "remove" => new = NoConfig
    PROVE  Ending'
<1>1. NoConfig \in Configs
    BY DEF Configs
<1>2. /\ op' \in Operation /\ op'.kind = kind /\ op'.plan = plan /\ op'.new = new
      /\ op'.original = disk /\ op'.outcome = "none" /\ op'.handling = FALSE
    BY <1>1 DEF Begin, NoOp, Operation, Inv, TypeOK
<1>3. UNCHANGED <<disk, loaded, server, dog>>
    BY DEF Begin
<1>0. EndSteps(op'.kind, op'.handling) = last
    BY <1>2
<1>4. OutcomeOK(op')
    BY <1>0, <1>2 DEF OutcomeOK
<1>5. ASSUME NEW s, Passed(EndSteps(op'.kind, op'.handling), Len(op'.plan), s)
      PROVE  FALSE
    <2>1. Len(op'.plan) < Len(EndSteps(op'.kind, op'.handling))
        BY <1>2, <1>4, <1>5, DoneKind
    <2>2. Len(plan) < Len(last)
        BY <1>0, <1>2, <2>1
    <2>3. Len(plan) \in Nat /\ Len(last) \in Nat
        OBVIOUS
    <2> QED BY <2>2, <2>3
<1>6. \A s : ~Done(s)'
    BY <1>5 DEF Done
<1>7. Promised'
    BY <1>6 DEF Promised
<1>8. Present'
    BY <1>2, <1>3 DEF Present
<1> QED BY <1>3, <1>4, <1>7, <1>8 DEF Ending, OutcomeOK

LEMMA SimpleEnding ==
    ASSUME Inv, Ending, NEW kind \in {"install", "remove", "start", "stop", "restart"},
           NEW last, \A h : h = FALSE => EndSteps(kind, h) = last,
           NEW new \in Configs, Begin(kind, last, new),
           kind \in Running => disk.rel # None /\ new.rel # None,
           kind = "remove" => new = NoConfig
    PROVE  Ending'
<1>1. kind \in Kind \ {"none"}
    BY DEF Kind
<1>2. last \in Seq(Step) /\ Len(last) > 1 /\ Len(last) \in Nat
    <2>1. PICK h \in BOOLEAN : h = FALSE
        OBVIOUS
    <2>2. EndSteps(kind, h) = last
        BY <2>1
    <2>3. EndSteps(kind, h) \in Seq(Step) /\ Len(EndSteps(kind, h)) > 1
        BY <1>1, <2>1, EndStepsOrderly
    <2>4. last \in Seq(Step) /\ Len(last) > 1
        BY ONLY <2>2, <2>3
    <2> QED BY <2>4
<1>3. last # <<>> /\ Len(last) >= Len(last)
    BY <1>2
<1>4. EndsAs(last, last)
    BY <1>2, OwnEnd
<1> QED BY <1>1, <1>2, <1>3, <1>4, BeginEnding

LEMMA OperationsEnding ==
    ASSUME Inv, Ending,
           Install \/ Remove \/ Start \/ Stop \/ Restart \/ Autotune \/ \E r \in Release : Upgrade(r)
    PROVE  Ending'
<1> DEFINE base == [rel |-> Base, opt |-> 0]
<1>1. base \in Configs /\ NoConfig \in Configs /\ disk \in Configs
    BY Before, ServiceAssumption DEF Configs, Config, Releases, Settings
<1>2. Installed => disk.rel # None /\ disk \in Config
    BY <1>1, ServiceAssumption DEF Installed, Configs, Config, Releases, Base, None
<1> HIDE DEF base
<1>3. CASE Install
    <2>0. \A h : h = FALSE => EndSteps("install", h) = InstallSteps
        BY DEF EndSteps
    <2>1. Begin("install", InstallSteps, base)
        BY <1>3 DEF Install, base
    <2> QED BY <1>1, <2>0, <2>1, SimpleEnding DEF Running
<1>4. CASE Remove
    <2>0. \A h : h = FALSE => EndSteps("remove", h) = RemoveSteps
        BY DEF EndSteps
    <2>1. Begin("remove", RemoveSteps, NoConfig)
        BY <1>4 DEF Remove
    <2> QED BY <1>1, <2>0, <2>1, SimpleEnding DEF Running
<1>5. CASE Start
    <2>0. \A h : h = FALSE => EndSteps("start", h) = StartSteps
        BY DEF EndSteps
    <2>1. Begin("start", StartSteps, disk) /\ Installed
        BY <1>5 DEF Start
    <2> QED BY <1>1, <1>2, <2>0, <2>1, SimpleEnding
<1>6. CASE Stop
    <2>0. \A h : h = FALSE => EndSteps("stop", h) = StopSteps
        BY DEF EndSteps
    <2>1. Begin("stop", StopSteps, disk) /\ Installed
        BY <1>6 DEF Stop
    <2> QED BY <1>1, <1>2, <2>0, <2>1, SimpleEnding
<1>7. CASE Restart
    <2>0. \A h : h = FALSE => EndSteps("restart", h) = RestartSteps
        BY DEF EndSteps
    <2>1. Begin("restart", RestartSteps, disk) /\ Installed
        BY <1>7 DEF Restart
    <2> QED BY <1>1, <1>2, <2>0, <2>1, SimpleEnding
<1>8. CASE Autotune
    <2> DEFINE new == [disk EXCEPT !.opt = 0]
    <2>1. Begin("autotune", AutotuneSteps, new) /\ Installed
        BY <1>8 DEF Autotune
    <2>2. new \in Configs /\ new.rel = disk.rel
        BY <1>2, <2>1, ServiceAssumption DEF Configs, Config, Settings
    <2> HIDE DEF new
    <2>3. /\ \A h : h = FALSE => EndSteps("autotune", h) = AutotuneEnd
          /\ AutotuneEnd \in Seq(Step) /\ Len(AutotuneEnd) = 5
        BY DEF EndSteps, AutotuneEnd, Step
    <2>4. /\ AutotuneSteps \in Seq(Step) /\ AutotuneSteps # <<>>
          /\ EndsAs(AutotuneSteps, AutotuneEnd) /\ Len(AutotuneSteps) >= 5
        BY AutotunePlan, ServiceAssumption
    <2>5. "autotune" \in Kind \ {"none"} /\ "autotune" # "remove"
        BY DEF Kind
    <2> QED BY <1>2, <2>1, <2>2, <2>3, <2>4, <2>5, BeginEnding
<1>9. ASSUME NEW r \in Release, Upgrade(r) PROVE Ending'
    <2> DEFINE new == [disk EXCEPT !.rel = r]
    <2>1. Begin("upgrade", UpgradeSteps(r), new) /\ Installed
        BY <1>9 DEF Upgrade
    <2>2. new \in Configs /\ new.rel = r /\ r # None
        BY <1>2, <2>1, ServiceAssumption DEF Configs, Config, Releases
    <2> HIDE DEF new
    <2>3. (\A h : h = FALSE => EndSteps("upgrade", h) = UpgradeEnd) /\ UpgradeEnd \in Seq(Step)
        BY DEF EndSteps, UpgradeEnd, Step
    <2>4. /\ UpgradeSteps(r) \in Seq(Step) /\ UpgradeSteps(r) # <<>>
          /\ EndsAs(UpgradeSteps(r), UpgradeEnd) /\ Len(UpgradeSteps(r)) >= Len(UpgradeEnd)
        BY UpgradePlan
    <2>5. "upgrade" \in Kind \ {"none"} /\ "upgrade" # "remove"
        BY DEF Kind
    <2> QED BY <1>2, <2>1, <2>2, <2>3, <2>4, <2>5, BeginEnding
<1> QED BY <1>3, <1>4, <1>5, <1>6, <1>7, <1>8, <1>9

\* The watchdog is stopped before the server.
LEMMA StopDone ==
    ASSUME op \in Operation, op.kind = "stop", ~op.handling, Done("stop")
    PROVE  Done("unwatch")
<1>1. EndSteps(op.kind, op.handling) = StopSteps
    BY DEF EndSteps
<1>2. Len(StopSteps) = 2 /\ StopSteps[1] = "unwatch" /\ StopSteps[2] = "stop"
    BY DEF StopSteps
<1>3. Len(op.plan) \in Nat
    BY DEF Operation
<1>4. PICK i \in 1 .. 2 : i <= 2 - Len(op.plan) /\ StopSteps[i] = "stop"
    BY <1>1, <1>2 DEF Done, Passed
<1>5. 1 <= 2 - Len(op.plan) /\ 1 \in 1 .. 2
    BY <1>3, <1>4
<1> QED BY <1>1, <1>2, <1>5 DEF Done, Passed

LEMMA ProcessesEnding ==
    ASSUME Inv, Ending, BecomesReady \/ Hangs \/ DogWakes \/ Tick \/ DogRestarts \/ DogFails
    PROVE  Ending'
<1>1. UNCHANGED <<disk, loaded, op>>
    BY DEF BecomesReady, Hangs, DogWakes, Tick, DogRestarts, DogFails
<1>2. /\ op \in Operation /\ TypeOK
    BY Before
<1>3. /\ dog'.at # "off" <=> dog.at # "off"
      /\ server'.at # "down" => server'.conf = loaded
      /\ server.at # "down" => server'.at # "down"
      /\ dog.at = "off" => (server'.at # "down" => server.at # "down")
    <2>1. CASE BecomesReady \/ Hangs
        BY <2>1, <1>2 DEF BecomesReady, Hangs, TypeOK, Ending
    <2>2. CASE DogWakes \/ Tick \/ DogFails
        BY <2>2, <1>2 DEF DogWakes, Tick, DogFails, DogStarted, TypeOK, Ending
    <2>3. CASE DogRestarts
        BY <2>3, <1>2 DEF DogRestarts, Started, TypeOK, Ending
    <2> QED BY <2>1, <2>2, <2>3
<1>4. OutcomeOK(op)' /\ (Live' <=> Live) /\ (Present' <=> Present) /\ \A s : Done(s)' <=> Done(s)
    BY <1>1 DEF Ending, OutcomeOK, Live, Present, Done
<1>5. ASSUME Live PROVE Promised'
    <2>1. Promised /\ Present /\ OutcomeOK(op)
        BY <1>5 DEF Ending
    <2>2. Done("stop") => dog.at = "off"
        <3>1. Done("stop") => op.kind = "stop"
            BY <1>2, <2>1, DoneKind DEF Done, Belongs
        <3>2. op.kind = "stop" => ~op.handling
            BY <2>1 DEF OutcomeOK
        <3> QED BY <1>2, <2>1, <3>1, <3>2, StopDone DEF Promised
    <2> QED BY <1>1, <1>3, <1>4, <2>1, <2>2 DEF Promised
<1> QED BY <1>1, <1>3, <1>4, <1>5 DEF Ending

LEMMA NextEnding ==
    ASSUME Inv, Ending, [Next]_vars
    PROVE  Ending'
<1>1. CASE Next
    <2>1. CASE OpStep
        <3>1. CASE AwaitReady
            BY <3>1, ProgramsEnding DEF AwaitReady
        <3> QED BY <2>1, <3>1, ProgramsEnding, FilesEnding, MeasureEnding, AwaitTimeoutEnding, RaiseEnding
               DEF OpStep
    <2> QED BY <1>1, <2>1, OperationsEnding, FailsEnding, ProcessesEnding DEF Next
<1>2. CASE UNCHANGED vars
    BY <1>2 DEF vars, Ending, OutcomeOK, Live, Present, Promised, Done
<1> QED BY <1>1, <1>2

\* With nothing left of the plan, every step the operation ends with is done.
LEMMA AllDone ==
    ASSUME op.plan = <<>>, NEW i \in 1 .. Len(EndSteps(op.kind, op.handling)),
           EndSteps(op.kind, op.handling) \in Seq(Step)
    PROVE  Done(EndSteps(op.kind, op.handling)[i])
<1>1. Len(op.plan) = 0 /\ Len(EndSteps(op.kind, op.handling)) \in Nat
    OBVIOUS
<1> QED BY <1>1 DEF Done, Passed

LEMMA EndingClean == Inv /\ Ending => OperationsEndClean
<1> SUFFICES ASSUME Inv, Ending, op.plan = <<>>, op.outcome \in {"ok", "rolledback"}
             PROVE  OperationsEndClean
    BY DEF OperationsEndClean, AtRest
<1>1. /\ op \in Operation /\ OutcomeOK(op) /\ Present /\ Promised
      /\ op.kind \in Kind /\ op.handling \in BOOLEAN /\ (op.handling => op.kind \in {"upgrade", "autotune"})
      /\ op.outcome = "ok" <=> ~op.handling
    BY Before DEF Ending, Live, OutcomeOK, Operation
<1>2. EndSteps(op.kind, op.handling) \in Seq(Step)
    BY <1>1, EndStepsOrderly
<1>3. \A i \in 1 .. Len(EndSteps(op.kind, op.handling)) : Done(EndSteps(op.kind, op.handling)[i])
    BY <1>2, AllDone
<1>4. /\ dog.at # "off" => WithDog
      /\ server.at # "down" => server.conf = loaded
      /\ op.kind \in Running => Installed
      /\ op.kind = "remove" => op.new = NoConfig
    BY <1>1 DEF Ending, Present, NoConfig, Installed
<1>5. CASE op.handling
    <2>1. EndSteps(op.kind, op.handling) = Handler
        BY <1>5 DEF EndSteps
    <2>2. Done("restore") /\ Done("update") /\ Done("restart") /\ Done("rewatch")
        BY <1>3, <2>1 DEF Handler
    <2> QED BY <1>1, <1>4, <1>5, <2>2 DEF OperationsEndClean, Promised, HasWatchdog, Running
<1>6. CASE op.kind = "install"
    <2>1. EndSteps(op.kind, op.handling) = InstallSteps
        BY <1>1, <1>6 DEF EndSteps
    <2>2. Done("replace") /\ Done("update")
        BY <1>3, <2>1 DEF InstallSteps
    <2> QED BY <1>1, <1>4, <1>6, <2>2 DEF OperationsEndClean, Promised
<1>7. CASE op.kind = "remove"
    <2>1. EndSteps(op.kind, op.handling) = RemoveSteps
        BY <1>1, <1>7 DEF EndSteps
    <2>2. Done("unlink") /\ Done("update")
        BY <1>3, <2>1 DEF RemoveSteps
    <2> QED BY <1>1, <1>4, <1>7, <2>2 DEF OperationsEndClean, Promised, HasWatchdog, Installed
<1>8. CASE op.kind = "start"
    <2>1. EndSteps(op.kind, op.handling) = StartSteps
        BY <1>1, <1>8 DEF EndSteps
    <2>2. Done("start") /\ Done("rewatch")
        BY <1>3, <2>1 DEF StartSteps
    <2> QED BY <1>1, <1>4, <1>8, <2>2 DEF OperationsEndClean, Promised, HasWatchdog, Running
<1>9. CASE op.kind = "stop"
    <2>1. EndSteps(op.kind, op.handling) = StopSteps
        BY <1>1, <1>9 DEF EndSteps
    <2>2. Done("unwatch") /\ Done("stop")
        BY <1>3, <2>1 DEF StopSteps
    <2> QED BY <1>1, <1>4, <1>9, <2>2 DEF OperationsEndClean, Promised, HasWatchdog, Running
<1>10. CASE op.kind = "restart"
    <2>1. EndSteps(op.kind, op.handling) = RestartSteps
        BY <1>1, <1>10 DEF EndSteps
    <2>2. Done("restart") /\ Done("rewatch")
        BY <1>3, <2>1 DEF RestartSteps
    <2> QED BY <1>1, <1>4, <1>10, <2>2 DEF OperationsEndClean, Promised, HasWatchdog, Running
<1>11. CASE op.kind = "upgrade" /\ ~op.handling
    <2>1. EndSteps(op.kind, op.handling) = UpgradeEnd
        BY <1>11 DEF EndSteps
    <2>2. Done("replace") /\ Done("update") /\ Done("restart") /\ Done("rewatch")
        BY <1>3, <2>1 DEF UpgradeEnd
    <2> QED BY <1>1, <1>4, <1>11, <2>2 DEF OperationsEndClean, Promised, HasWatchdog, Running
<1>12. CASE op.kind = "autotune" /\ ~op.handling
    <2>1. EndSteps(op.kind, op.handling) = AutotuneEnd
        BY <1>12 DEF EndSteps
    <2>2. Done("choose") /\ Done("update") /\ Done("restart") /\ Done("rewatch")
        BY <1>3, <2>1 DEF AutotuneEnd
    <2> QED BY <1>1, <1>4, <1>12, <2>2 DEF OperationsEndClean, Promised, HasWatchdog, Running
<1> QED BY <1>1, <1>5, <1>6, <1>7, <1>8, <1>9, <1>10, <1>11, <1>12 DEF Kind, Present

-----------------------------------------------------------------------------
(* The theorems. *)

LEMMA NextInv ==
    ASSUME Inv, [Next]_vars
    PROVE  Inv'
<1>1. CASE Next
    <2>1. CASE OpStep
        BY <2>1, ProgramsInv, AwaitTimeoutInv, BuildEndsInv, ReplaceInv, RestoreInv, MeasureInv, FailsInv
           DEF OpStep
    <2> QED BY <1>1, <2>1, OperationsInv, FailsInv, ProcessesInv DEF Next
<1>2. CASE UNCHANGED vars
    BY <1>2 DEF vars, Inv, TypeOK, OperationOK, PlanOK, Building, DogCounts, Whole, Installed
<1> QED BY <1>1, <1>2

\* Operations, steps and configurations stay of the shape described above, and
\* every configuration an operation may still use is whole.
THEOREM ServiceInvariant == Spec => []Inv
<1>1. Init => Inv
    BY InitInv
<1>2. Inv /\ [Next]_vars => Inv'
    BY NextInv
<1> QED BY <1>1, <1>2, PTL DEF Spec

\* What is on disk, what Supervisor has loaded and what the server runs is always
\* a complete release, wherever an operation is interrupted (service_ops.py,
\* ServiceUpgrader.run).
THEOREM NoHalfBuiltRelease == Spec => []ReleasesWhole
<1>1. Inv => ReleasesWhole
    BY DEF Inv, ReleasesWhole, Whole
<1> QED BY <1>1, ServiceInvariant, PTL

\* An operation that returned, or raised after its rollback, leaves disk,
\* Supervisor, server and watchdog as it should (service.py and service_ops.py,
\* ServiceUpgrader.run and ServiceAutotuner.run).
THEOREM EndsClean == Spec => []OperationsEndClean
<1>1. Init => Inv /\ Ending
    BY InitInv, InitEnding
<1>2. Inv /\ Ending /\ [Next]_vars => Inv' /\ Ending'
    BY NextInv, NextEnding
<1>3. Inv /\ Ending => OperationsEndClean
    BY EndingClean
<1> QED BY <1>1, <1>2, <1>3, PTL DEF Spec

=============================================================================
