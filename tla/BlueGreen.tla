----------------------------- MODULE BlueGreen -----------------------------
(***************************************************************************)
(* The two-slot deployment of ops/deploy: deploy.sh and rollback.sh as the *)
(* release and rollback workflows run them, with the state files, the      *)
(* version metrics, the generated upstream, the nginx workers and the two  *)
(* containers they act on.  One script runs at a time: both workflows hold *)
(* the concurrency group deploy-production.                                *)
(***************************************************************************)
EXTENDS Integers

CONSTANTS
  Tag,          \* the releases
  NoTag,        \* what an absent or empty state file reads as
  Faults,       \* which outside calls may fail: see FaultNames
  CrashAt,      \* the stages at which the script may be killed
  GateBudget, GateInterval, AttemptMax,       \* health-gate.sh, in seconds
  ObserveFor, ObserveInterval, RequestMax,    \* probe-loop.sh, in seconds
  MaxJobs       \* bound: workflow runs in a behaviour

Slots == {"blue", "green"}
Other(s) == IF s = "blue" THEN "green" ELSE "blue"
FaultNames == {"pull", "migrate", "start", "test", "reload", "back"}
Stages == {"pull", "migrate", "start", "gate", "switch", "observe", "back",
           "record"}
Ended == {"ready", "done", "dead"}
Past == {"observe", "back", "record"}    \* the traffic is moved, the files not
Harms == {"late", "apart"}

ASSUME DeployAssumption ==
  /\ NoTag \notin Tag \cup Slots
  /\ Faults \subseteq FaultNames
  /\ CrashAt \subseteq Stages
  /\ {GateBudget, GateInterval, ObserveFor, MaxJobs} \subseteq Nat
  /\ {AttemptMax, RequestMax, ObserveInterval} \subseteq Nat \ {0}

VARIABLES
  files,     \* the state directory: active-slot, active-tag, previous-tag
  metric,    \* the textfile collector: expected and deployed release
  upstream,  \* the slot named by upstream.conf
  workers,   \* the slot the running nginx workers send requests to
  slot,      \* slot -> its container: image, running, passed the gate
  script,    \* the running script and its shell variables
  job,       \* the workflow that holds the lock
  jobs,      \* workflow runs so far
  harm       \* history: what a failure or a kill at a late stage has left

vars == <<files, metric, upstream, workers, slot, script, job, jobs, harm>>

Container == [image : Tag, running : BOOLEAN, gated : BOOLEAN]

TypeOK ==
  /\ files \in [slot : Slots \cup {NoTag}, tag : Tag \cup {NoTag},
                previous : Tag \cup {NoTag}]
  /\ metric \in [expected : Tag \cup {NoTag}, deployed : Tag \cup {NoTag}]
  /\ upstream \in Slots /\ workers \in Slots
  /\ slot \in [Slots -> Container]
  /\ script \in [name : {"none", "deploy", "rollback"}, at : Ended \cup Stages,
                 tag : Tag \cup {NoTag}, active : Slots,
                 activeTag : Tag \cup {NoTag}, clock : Nat, failed : BOOLEAN]
  /\ job \in {"none", "release", "recover", "rollback"}
  /\ jobs \in 0..MaxJobs
  /\ harm \subseteq Harms

Least(a, b) == IF a < b THEN a ELSE b
Most(a, b) == IF a < b THEN b ELSE a

(***************************************************************************)
(* A host prepared by ops/server/README.md: the upstream was rendered to   *)
(* blue, the stack started with both slots on the tag of .env, and         *)
(* deploy.sh has never run.                                                *)
(***************************************************************************)
Init ==
  /\ files = [slot |-> NoTag, tag |-> NoTag, previous |-> NoTag]
  /\ metric = [expected |-> NoTag, deployed |-> NoTag]
  /\ upstream = "blue" /\ workers = "blue"
  /\ \E t \in Tag :
       /\ slot = [s \in Slots |-> [image |-> t, running |-> TRUE, gated |-> TRUE]]
  /\ script = [name |-> "none", at |-> "ready", tag |-> NoTag, active |-> "blue",
               activeTag |-> NoTag, clock |-> 0, failed |-> FALSE]
  /\ job = "none" /\ jobs = 0
  /\ harm = {}

Target == Other(script.active)
At(s) == script.at = s
Go(s) == script' = [script EXCEPT !.at = s, !.clock = 0]
Die == Go("dead")
StopTarget ==
  slot' = [slot EXCEPT ![Target].running = FALSE, ![Target].gated = FALSE]

(***************************************************************************)
(* The scripts' opening lines.  deploy.sh initialises active-slot on a     *)
(* host that never deployed; rollback.sh refuses without a target, without *)
(* an active slot, or when the target is the active release, and skips     *)
(* start and gate when the idle slot's running image is the target's.      *)
(***************************************************************************)
BeginDeploy(t) ==
  LET active == IF files.slot = NoTag THEN "blue" ELSE files.slot IN
  /\ files' = [files EXCEPT !.slot = active]
  /\ script' = [name |-> "deploy", at |-> "pull", tag |-> t, active |-> active,
                activeTag |-> files.tag, clock |-> 0, failed |-> FALSE]

RollbackTag(t) == IF t = NoTag THEN files.previous ELSE t

\* Mutant: any container of that image, stopped or not.
HasImage(s, t) == slot[s].image = t

AlreadyUp(s, t) == slot[s].running /\ slot[s].image = t

BeginRollback(arg) ==
  LET t == RollbackTag(arg)
      refused == t = NoTag \/ files.slot = NoTag \/ t = files.tag
      active == IF files.slot = NoTag THEN "blue" ELSE files.slot
  IN  /\ script' = [name |-> "rollback",
                    at |-> IF refused THEN "dead"
                           ELSE IF AlreadyUp(Other(active), t) THEN "switch"
                           ELSE "start",
                    tag |-> t, active |-> active, activeTag |-> files.tag,
                    clock |-> 0, failed |-> FALSE]
      /\ UNCHANGED files

(***************************************************************************)
(* The workflows.  release.yml runs deploy.sh and, when that step fails,   *)
(* rollback.sh without an argument; rollback.yml runs rollback.sh with a   *)
(* tag; an operator runs it on the host with or without one.               *)
(***************************************************************************)
LockFree == script.at \in Ended /\ ~(job = "release" /\ At("dead"))

NewJob(kind) ==
  /\ LockFree /\ jobs < MaxJobs
  /\ jobs' = jobs + 1 /\ job' = kind
  /\ UNCHANGED <<metric, upstream, workers, slot, harm>>

Release(t) == NewJob("release") /\ BeginDeploy(t)
RollbackJob(t) == NewJob("rollback") /\ BeginRollback(t)

RollBackAfterFailure ==
  /\ job = "release" /\ At("dead")
  /\ job' = "recover"
  /\ BeginRollback(NoTag)
  /\ UNCHANGED <<metric, upstream, workers, slot, jobs, harm>>

(***************************************************************************)
(* deploy.sh steps 1 and 2: nothing on the host changes.                   *)
(***************************************************************************)
Quiet == UNCHANGED <<files, metric, upstream, workers, slot, job, jobs, harm>>

Pull ==
  /\ At("pull")
  /\ Go("migrate") \/ ("pull" \in Faults /\ Die)
  /\ Quiet

Migrate ==
  /\ At("migrate")
  /\ Go("start") \/ ("migrate" \in Faults /\ Die)
  /\ Quiet

(***************************************************************************)
(* Start the target slot.  compose up leaves a running container of the    *)
(* same image alone; any other container is replaced by an ungated one.    *)
(* Only deploy.sh publishes the expected release first.                    *)
(***************************************************************************)
Up(t) ==
  slot' = IF AlreadyUp(Target, t) THEN slot
          ELSE [slot EXCEPT ![Target] =
                  [image |-> t, running |-> TRUE, gated |-> FALSE]]

FailedUp(t) ==
  \/ UNCHANGED slot
  \/ slot' = [slot EXCEPT ![Target] =
                [image |-> t, running |-> FALSE, gated |-> FALSE]]

\* Mutant: the release is published as deployed when it is attempted.
StartPublished ==
  /\ At("start")
  /\ metric' = [expected |-> script.tag, deployed |-> script.tag]
  /\ \/ Up(script.tag) /\ Go("gate")
     \/ "start" \in Faults /\ FailedUp(script.tag) /\ Die
  /\ UNCHANGED <<files, upstream, workers, job, jobs, harm>>

Start ==
  /\ At("start")
  /\ metric' = IF script.name = "deploy"
               THEN [metric EXCEPT !.expected = script.tag] ELSE metric
  /\ \/ Up(script.tag) /\ Go("gate")
     \/ "start" \in Faults /\ FailedUp(script.tag) /\ Die
  /\ UNCHANGED <<files, upstream, workers, job, jobs, harm>>

(***************************************************************************)
(* health-gate.sh: attempts of at most AttemptMax seconds with waits of    *)
(* GateInterval between them, each cut to what is left of the budget but   *)
(* never below a second.  A container that never answers 200 is stopped.   *)
(***************************************************************************)
\* Mutant: the wait is not cut to the budget.
NapFull(elapsed) == GateInterval

AttemptFor(elapsed) == Most(1, Least(AttemptMax, GateBudget - elapsed))
NapFor(elapsed) == Most(1, Least(GateInterval, GateBudget - elapsed))

Gate ==
  /\ At("gate")
  /\ \E d \in 0..AttemptFor(script.clock) :
       LET elapsed == script.clock + d IN
       \/ /\ slot[Target].running
          /\ slot' = [slot EXCEPT ![Target].gated = TRUE]
          /\ script' = [script EXCEPT !.at = "switch", !.clock = 0]
       \/ /\ elapsed >= GateBudget
          /\ StopTarget
          /\ script' = [script EXCEPT !.at = "dead", !.clock = elapsed]
       \/ /\ elapsed < GateBudget
          /\ script' = [script EXCEPT !.clock = elapsed + NapFor(elapsed)]
          /\ UNCHANGED slot
  /\ UNCHANGED <<files, metric, upstream, workers, job, jobs, harm>>

(***************************************************************************)
(* render-upstream.sh: install the file, test it, reload.  A rejected file *)
(* is restored; a failed reload leaves the new file under old workers.     *)
(***************************************************************************)
Rendered(s) == upstream' = s /\ workers' = s
NotRendered(s) ==
  \/ "test" \in Faults /\ UNCHANGED <<upstream, workers, harm>>
  \/ /\ "reload" \in Faults
     /\ upstream' = s /\ UNCHANGED workers
     /\ harm' = harm \cup {"apart"}

Switch ==
  /\ At("switch")
  /\ \/ Rendered(Target) /\ Go("observe") /\ UNCHANGED <<slot, harm>>
     \/ /\ NotRendered(Target) /\ Die
        /\ IF script.name = "deploy" THEN StopTarget ELSE UNCHANGED slot
  /\ UNCHANGED <<files, metric, job, jobs>>

(***************************************************************************)
(* probe-loop.sh: requests through nginx until the window is over, even    *)
(* after a failure; one failed request fails the release.                  *)
(***************************************************************************)
Wait(d) == Most(1, ObserveInterval - d)

Observe ==
  /\ At("observe")
  /\ \E d \in 0..RequestMax, ok \in BOOLEAN :
       LET now == script.clock + d
           failed == script.failed \/ ~ok
           over == now + Wait(d) >= ObserveFor
       IN  /\ ok => slot[workers].running
           /\ script' = [script EXCEPT
                !.failed = failed,
                !.clock = IF over THEN now ELSE now + Wait(d),
                !.at = IF ~over THEN "observe"
                       ELSE IF failed THEN "back" ELSE "record"]
  /\ Quiet

(***************************************************************************)
(* Return traffic to the slot that served.  deploy.sh then stops the slot  *)
(* it leaves; rollback.sh does not, and ignores a failure to switch.       *)
(***************************************************************************)
SwitchBack ==
  /\ At("back")
  /\ \/ /\ Rendered(script.active)
        /\ UNCHANGED harm
        /\ IF script.name = "deploy" THEN StopTarget ELSE UNCHANGED slot
     \/ /\ "back" \in Faults
        /\ UNCHANGED <<upstream, workers, slot>>
        /\ harm' = harm \cup {"late", "apart"}
  /\ Die
  /\ UNCHANGED <<files, metric, job, jobs>>

(***************************************************************************)
(* Three state files and the deployed metric, written one after another; a *)
(* kill in between leaves a prefix of them.                                *)
(***************************************************************************)
\* Mutant: the slot that was active stays recorded.
RecordedTagOnly(n) ==
  /\ files' = [files EXCEPT !.tag = script.tag, !.previous = script.activeTag]
  /\ metric' = IF n = 4 THEN [metric EXCEPT !.deployed = script.tag] ELSE metric

Recorded(n) ==
  /\ files' = [slot |-> IF n >= 3 THEN Target ELSE files.slot,
               tag |-> IF n >= 2 THEN script.tag ELSE files.tag,
               previous |-> IF n >= 1 THEN script.activeTag ELSE files.previous]
  /\ metric' = IF n = 4 THEN [metric EXCEPT !.deployed = script.tag] ELSE metric

\* Mutant: the slot that was left is stopped.
RecordAndStop ==
  /\ At("record")
  /\ Recorded(4) /\ Go("done")
  /\ harm' = harm \ {"apart"}
  /\ slot' = [slot EXCEPT ![script.active].running = FALSE]
  /\ UNCHANGED <<upstream, workers, job, jobs>>

Record ==
  /\ At("record")
  /\ \/ /\ Recorded(4) /\ Go("done")
        /\ harm' = harm \ {"apart"}
     \/ /\ "record" \in CrashAt /\ Die /\ \E n \in 1..3 : Recorded(n)
        /\ harm' = harm \cup {"late", "apart"}
  /\ UNCHANGED <<upstream, workers, slot, job, jobs>>

(***************************************************************************)
(* The script is killed: a lost connection, the host, the operator.        *)
(* "late" marks a kill that leaves the target running without a verdict,   *)
(* in its gate or after it; "apart" one that leaves traffic and files      *)
(* apart, after the switch, until a script ends well.                      *)
(***************************************************************************)
KillHarms(stage) ==
  {h \in Harms : stage \in Past \/ (h = "late" /\ stage = "gate")}

Crash ==
  /\ script.at \in CrashAt
  /\ Die
  /\ harm' = harm \cup KillHarms(script.at)
  /\ UNCHANGED <<files, metric, upstream, workers, slot, job, jobs>>

Step == \/ Pull \/ Migrate \/ Start \/ Gate \/ Switch \/ Observe \/ SwitchBack
        \/ Record \/ RollBackAfterFailure

Next ==
  \/ \E t \in Tag : Release(t)
  \/ \E t \in Tag \cup {NoTag} : RollbackJob(t)
  \/ Step \/ Crash

Spec == Init /\ [][Next]_vars

-----------------------------------------------------------------------------
(***************************************************************************)
(* Requests only ever reach a container that runs and that passed the      *)
(* health gate on the image it runs ("The deploy never leaves traffic      *)
(* pointing at a slot it has not health-checked"), as long as no script    *)
(* was killed from its gate on, the switch itself aside, and no switch     *)
(* back failed: those leave a running container with no verdict, and the   *)
(* files on the slot that traffic has left, for the next script to act on. *)
(***************************************************************************)
TrafficIsGated ==
  "late" \notin harm => slot[workers].running /\ slot[workers].gated

(***************************************************************************)
(* Between scripts the state files name the slot and the release that      *)
(* requests reach, and the upstream file is the one derived from them.     *)
(* What can part them is a script that dies or fails between its switch    *)
(* and its last write (deploy.sh:171): killed in the observation, the      *)
(* return or the record, unable to switch back, or left by nginx with a    *)
(* file it did not load.  The next script that ends well mends it, however *)
(* many failed on the wrong files before.                                  *)
(***************************************************************************)
FilesTellWhoServes ==
  script.at \in Ended /\ files.slot # NoTag /\ "apart" \notin harm =>
    /\ workers = files.slot /\ upstream = files.slot
    /\ files.tag # NoTag => slot[workers].image = files.tag

(***************************************************************************)
(* After a script that succeeded, the release it replaced still runs,      *)
(* gated, in the other slot: the next rollback is a reload.  As above, no  *)
(* script was killed from its gate on and no switch back failed.           *)
(***************************************************************************)
RollbackIsWarm ==
  At("done") /\ "late" \notin harm =>
    LET idle == slot[Other(files.slot)] IN
    /\ idle.running /\ idle.gated
    /\ files.previous # NoTag => idle.image = files.previous

(***************************************************************************)
(* The DeployVersionDrift rule (expected unless deployed) raises whenever  *)
(* the last attempted release is not the one that requests reach, except   *)
(* while traffic and files are apart (FilesTellWhoServes).                 *)
(***************************************************************************)
DriftIsVisible ==
  script.at \in Ended /\ "apart" \notin harm =>
    \/ metric.expected \in {NoTag, slot[workers].image}
    \/ metric.deployed # metric.expected

(***************************************************************************)
(* The gate overruns its budget by at most the one-second floor of its     *)
(* last attempt, and the observation by at most its last request.          *)
(***************************************************************************)
LoopsStayInBudget ==
  /\ At("gate") \/ (At("dead") /\ ~script.failed) => script.clock <= GateBudget + 1
  /\ script.at \in {"observe", "record", "back"} =>
       script.clock <= ObserveFor + RequestMax
=============================================================================
