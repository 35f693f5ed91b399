-------------------------- MODULE BlueGreenProofs --------------------------
(***************************************************************************)
(* The two-slot deployment, for any releases, budgets and number of jobs,  *)
(* whichever calls may fail and wherever a script may be killed.           *)
(***************************************************************************)
EXTENDS BlueGreen, TLAPS

ScriptFields == {"name", "at", "tag", "active", "activeTag", "clock", "failed"}

\* The clock of a loop that goes on is within its budget still.
ClockInv ==
    /\ DOMAIN script = ScriptFields
    /\ script.clock \in Nat
    /\ At("gate") => script.clock <= GateBudget
    /\ At("dead") /\ ~script.failed => script.clock <= GateBudget + 1
    /\ At("observe") => script.clock <= ObserveFor
    /\ script.at \in {"record", "back"} => script.clock <= ObserveFor + RequestMax

-----------------------------------------------------------------------------
(***************************************************************************)
(* What the steps do to the running script.                                *)
(***************************************************************************)

LEMMA OtherSlot ==
    \A s \in Slots : Other(s) \in Slots /\ Other(s) # s /\ Other(Other(s)) = s
    BY DEF Slots, Other

\* The script goes to another stage, its clock reset.
LEMMA Goes ==
    ASSUME DOMAIN script = ScriptFields, NEW at, Go(at)
    PROVE  /\ DOMAIN script' = ScriptFields
           /\ script'.at = at /\ script'.clock = 0
           /\ script'.name = script.name /\ script'.tag = script.tag
           /\ script'.active = script.active /\ script'.activeTag = script.activeTag
           /\ script'.failed = script.failed
    BY DEF Go, ScriptFields

\* A script that begins: where it starts.
LEMMA Begins ==
    ASSUME \/ \E t \in Tag : BeginDeploy(t)
           \/ \E t \in Tag \cup {NoTag} : BeginRollback(t)
    PROVE  /\ DOMAIN script' = ScriptFields /\ script'.clock = 0
           /\ script'.at \in {"pull", "dead", "switch", "start"}
<1>1. ASSUME NEW t \in Tag, BeginDeploy(t)
      PROVE  /\ DOMAIN script' = ScriptFields /\ script'.clock = 0
             /\ script'.at = "pull"
    BY <1>1 DEF BeginDeploy, ScriptFields
<1>2. ASSUME NEW t \in Tag \cup {NoTag}, BeginRollback(t)
      PROVE  /\ DOMAIN script' = ScriptFields /\ script'.clock = 0
             /\ script'.at \in {"dead", "switch", "start"}
    BY <1>2 DEF BeginRollback, ScriptFields
<1> QED
    BY <1>1, <1>2

-----------------------------------------------------------------------------
(***************************************************************************)
(* Budgets.                                                                *)
(***************************************************************************)

\* An attempt and the wait after it are cut to what is left.
LEMMA GateClock ==
    ASSUME ClockInv, Gate
    PROVE  ClockInv'
<1> USE DeployAssumption
<1>1. /\ At("gate") /\ script.clock \in Nat /\ script.clock <= GateBudget
      /\ DOMAIN script = ScriptFields /\ GateBudget \in Nat /\ ObserveFor \in Nat
      /\ RequestMax \in Nat /\ AttemptMax \in Nat /\ GateInterval \in Nat
    BY DEF Gate, ClockInv
<1>2. PICK d \in 0..AttemptFor(script.clock) :
        LET elapsed == script.clock + d IN
        \/ script' = [script EXCEPT !.at = "switch", !.clock = 0]
        \/ /\ elapsed >= GateBudget
           /\ script' = [script EXCEPT !.at = "dead", !.clock = elapsed]
        \/ /\ elapsed < GateBudget
           /\ script' = [script EXCEPT !.clock = elapsed + NapFor(elapsed)]
    BY DEF Gate
<1> DEFINE elapsed == script.clock + d
<1>3. elapsed \in Nat /\ elapsed <= GateBudget + 1
    BY <1>1 DEF AttemptFor, Most, Least
<1>4. elapsed < GateBudget => /\ elapsed + NapFor(elapsed) \in Nat
                              /\ elapsed + NapFor(elapsed) <= GateBudget
    BY <1>1, <1>3 DEF NapFor, Most, Least
<1> HIDE DEF elapsed
<1>5. \/ script' = [script EXCEPT !.at = "switch", !.clock = 0]
      \/ script' = [script EXCEPT !.at = "dead", !.clock = elapsed]
      \/ elapsed < GateBudget
         /\ script' = [script EXCEPT !.clock = elapsed + NapFor(elapsed)]
    BY <1>2 DEF elapsed
<1>6. \/ script'.at = "switch" /\ script'.clock = 0
      \/ script'.at = "dead" /\ script'.clock = elapsed
      \/ /\ script'.at = "gate" /\ elapsed < GateBudget
         /\ script'.clock = elapsed + NapFor(elapsed)
    BY <1>1, <1>5 DEF ScriptFields, At
<1>7. DOMAIN script' = ScriptFields
    BY <1>1, <1>5 DEF ScriptFields
<1> QED
    BY <1>1, <1>3, <1>4, <1>6, <1>7 DEF ClockInv, At

\* The observation ends with the request that takes it past its window.
LEMMA ObserveClock ==
    ASSUME ClockInv, Observe
    PROVE  ClockInv'
<1> USE DeployAssumption
<1>1. /\ At("observe") /\ script.clock \in Nat /\ script.clock <= ObserveFor
      /\ DOMAIN script = ScriptFields /\ GateBudget \in Nat /\ ObserveFor \in Nat
      /\ RequestMax \in Nat /\ ObserveInterval \in Nat
    BY DEF Observe, ClockInv
<1>2. PICK d \in 0..RequestMax, failed \in BOOLEAN : LET now == script.clock + d IN
        script' = [script EXCEPT
            !.failed = failed,
            !.clock = IF now + Wait(d) >= ObserveFor THEN now ELSE now + Wait(d),
            !.at = IF ~(now + Wait(d) >= ObserveFor) THEN "observe"
                   ELSE IF failed THEN "back" ELSE "record"]
    BY DEF Observe
<1> DEFINE now == script.clock + d
<1>3. now \in Nat /\ now <= ObserveFor + RequestMax
    BY <1>1
<1>4. Wait(d) \in Nat
    BY <1>1 DEF Wait, Most
<1>5. script' = [script EXCEPT
            !.failed = failed,
            !.clock = IF now + Wait(d) >= ObserveFor THEN now ELSE now + Wait(d),
            !.at = IF ~(now + Wait(d) >= ObserveFor) THEN "observe"
                   ELSE IF failed THEN "back" ELSE "record"]
    BY <1>2
<1> HIDE DEF now
<1>6. /\ DOMAIN script' = ScriptFields
      /\ script'.clock = IF now + Wait(d) >= ObserveFor THEN now ELSE now + Wait(d)
      /\ script'.at = IF ~(now + Wait(d) >= ObserveFor) THEN "observe"
                      ELSE IF failed THEN "back" ELSE "record"
    BY <1>1, <1>5 DEF ScriptFields
<1>7. CASE now + Wait(d) >= ObserveFor
  <2>1. script'.clock = now /\ script'.at \in {"back", "record"}
    BY <1>6, <1>7
  <2> QED
    BY <1>3, <1>6, <2>1 DEF ClockInv, At
<1>8. CASE ~(now + Wait(d) >= ObserveFor)
  <2>1. script'.clock = now + Wait(d) /\ script'.at = "observe"
    BY <1>6, <1>8
  <2>2. now + Wait(d) \in Nat /\ now + Wait(d) <= ObserveFor
    BY <1>1, <1>3, <1>4, <1>8
  <2> QED
    BY <1>6, <2>1, <2>2 DEF ClockInv, At
<1> QED
    BY <1>7, <1>8

LEMMA ClockInit == Init => ClockInv
    BY DeployAssumption DEF Init, ClockInv, ScriptFields, At

LEMMA ClockNext == ClockInv /\ [Next]_vars => ClockInv'
<1> SUFFICES ASSUME ClockInv, [Next]_vars PROVE ClockInv'
    OBVIOUS
<1> USE DeployAssumption
<1>1. GateBudget \in Nat /\ ObserveFor \in Nat /\ RequestMax \in Nat
      /\ DOMAIN script = ScriptFields
    BY DEF ClockInv
<1>2. ASSUME \/ \E t \in Tag : BeginDeploy(t)
             \/ \E t \in Tag \cup {NoTag} : BeginRollback(t)
      PROVE  ClockInv'
  <2>1. /\ DOMAIN script' = ScriptFields /\ script'.clock = 0
        /\ script'.at \in {"pull", "dead", "switch", "start"}
    BY <1>2, Begins
  <2> QED
    BY <1>1, <2>1 DEF ClockInv, At
<1>3. ASSUME NEW at, Go(at)
      PROVE  ClockInv'
  <2>1. DOMAIN script' = ScriptFields /\ script'.clock = 0
    BY <1>1, <1>3, Goes
  <2> QED
    BY <1>1, <2>1 DEF ClockInv, At
<1>4. CASE Gate
    BY <1>4, GateClock
<1>5. CASE Observe
    BY <1>5, ObserveClock
<1>6. CASE UNCHANGED vars
    BY <1>6 DEF ClockInv, At, vars
<1>7. Pull \/ Migrate \/ Start \/ Switch \/ SwitchBack \/ Record \/ Crash
          => \E at : Go(at)
    BY DEF Pull, Migrate, Start, Switch, SwitchBack, Record, Crash, Die
<1>8. (\E t \in Tag : Release(t)) \/ (\E t \in Tag \cup {NoTag} : RollbackJob(t))
          \/ RollBackAfterFailure
        => \/ \E t \in Tag : BeginDeploy(t)
           \/ \E t \in Tag \cup {NoTag} : BeginRollback(t)
    BY DEF Release, RollbackJob, RollBackAfterFailure
<1> QED
    BY <1>2, <1>3, <1>4, <1>5, <1>6, <1>7, <1>8 DEF Next, Step

\* health-gate.sh overruns its budget by a second at most and probe-loop.sh by
\* one request, for every budget, interval and time limit, whatever fails.
THEOREM LoopsAreBounded == Spec => []LoopsStayInBudget
<1>1. ClockInv => LoopsStayInBudget
    BY DeployAssumption DEF ClockInv, LoopsStayInBudget, At
<1> QED
    BY <1>1, ClockInit, ClockNext, PTL DEF Spec

-----------------------------------------------------------------------------
(***************************************************************************)
(* The host and the state files.                                           *)
(***************************************************************************)

\* The slot that serves when no script has moved the traffic.
Serving == IF files.slot = NoTag THEN "blue" ELSE files.slot

Held == Past \cup {"gate", "switch"}       \* the target is up

Shape ==
    /\ DOMAIN files = {"slot", "tag", "previous"}
    /\ files.slot \in Slots \cup {NoTag}
    /\ files.previous \in Tag \cup {NoTag}
    /\ files.tag \in Tag \cup {NoTag}
    /\ DOMAIN metric = {"expected", "deployed"}
    /\ DOMAIN slot = Slots
    /\ \A s \in Slots : DOMAIN slot[s] = {"image", "running", "gated"}
    /\ DOMAIN script = ScriptFields
    /\ script.at \in Ended \cup Stages

HostInv ==
    /\ workers = (IF script.at \in Past THEN Other(Serving) ELSE Serving)
    /\ slot[Serving].running
    /\ files.tag # NoTag => slot[Serving].image = files.tag
    /\ metric.deployed \in {NoTag, slot[Serving].image}
    /\ \A s \in Slots :
         slot[s].running => slot[s].gated \/ (At("gate") /\ s = Target)

JobInv ==
    script.at \in Stages =>
      /\ files.slot = script.active /\ script.active \in Slots
      /\ script.activeTag = files.tag /\ script.tag \in Tag
      /\ script.at \in Held => /\ slot[Target].running
                               /\ slot[Target].image = script.tag

WarmInv ==
    At("done") =>
      /\ files.slot \in Slots
      /\ slot[Other(files.slot)].running
      /\ files.previous # NoTag => slot[Other(files.slot)].image = files.previous

\* What holds after late failures and kills, too: where the traffic is once a
\* script has moved it, and where it is while it and the files are not apart.
FilesInv ==
    /\ script.at \in Past => workers = Target /\ upstream = Target
    /\ "apart" \notin harm =>
         /\ script.at \notin Past => workers = Serving /\ upstream = Serving
         /\ files.tag # NoTag => slot[Serving].image = files.tag
         /\ metric.deployed \in {NoTag, slot[Serving].image}

DeployInv ==
    /\ Shape /\ JobInv /\ FilesInv
    /\ "late" \notin harm => HostInv /\ WarmInv

\* Stopping the target leaves the slot that serves alone.
LEMMA Stops ==
    ASSUME Shape, script.active \in Slots, StopTarget
    PROVE  /\ DOMAIN slot' = Slots
           /\ \A s \in Slots : DOMAIN slot'[s] = {"image", "running", "gated"}
           /\ slot'[script.active] = slot[script.active]
           /\ ~slot'[Target].running
<1>1. Target \in Slots /\ Target # script.active
    BY OtherSlot DEF Target
<1> QED
    BY <1>1 DEF StopTarget, Shape

\* Starting it, too: the target then runs the image, and a container that was
\* there already is as it was.
LEMMA Starts ==
    ASSUME Shape, script.active \in Slots, NEW t, Up(t)
    PROVE  /\ DOMAIN slot' = Slots
           /\ \A s \in Slots : DOMAIN slot'[s] = {"image", "running", "gated"}
           /\ slot'[script.active] = slot[script.active]
           /\ slot'[Target].running /\ slot'[Target].image = t
<1>1. Target \in Slots /\ Target # script.active
    BY OtherSlot DEF Target
<1>2. CASE AlreadyUp(Target, t)
    BY <1>1, <1>2 DEF Up, AlreadyUp, Shape
<1>3. CASE ~AlreadyUp(Target, t)
    BY <1>1, <1>3 DEF Up, Shape
<1> QED
    BY <1>2, <1>3

LEMMA FailsToStart ==
    ASSUME Shape, script.active \in Slots, NEW t, FailedUp(t)
    PROVE  /\ DOMAIN slot' = Slots
           /\ \A s \in Slots : DOMAIN slot'[s] = {"image", "running", "gated"}
           /\ slot'[script.active] = slot[script.active]
           /\ slot'[Target] = slot[Target] \/ ~slot'[Target].running
<1>1. Target \in Slots /\ Target # script.active
    BY OtherSlot DEF Target
<1> QED
    BY <1>1 DEF FailedUp, Shape

-----------------------------------------------------------------------------
(***************************************************************************)
(* One lemma per stage.                                                    *)
(***************************************************************************)

\* A stage that ends with nothing on the host changed and the traffic where
\* it was: the script goes on before its gate, or dies.
LEMMA QuietStep ==
    ASSUME DeployInv, script.at \in {"pull", "migrate", "start", "switch"},
           UNCHANGED <<files, metric, upstream, workers, slot, harm>>,
           NEW at \in {"migrate", "start", "dead"}, Go(at)
    PROVE  DeployInv'
<1>1. /\ DOMAIN script' = ScriptFields /\ script'.at = at
      /\ script'.name = script.name /\ script'.tag = script.tag
      /\ script'.active = script.active /\ script'.activeTag = script.activeTag
    BY Goes DEF DeployInv, Shape
<1>2. Shape'
    BY <1>1 DEF DeployInv, Shape, Stages, Ended
<1>3. "late" \notin harm => HostInv'
    BY <1>1 DEF DeployInv, HostInv, Serving, Target, At, Past, Held
<1>4. JobInv'
    BY <1>1 DEF DeployInv, JobInv, Target, Held, Past, Stages
<1>5. WarmInv'
    BY <1>1 DEF WarmInv, At
<1>6. FilesInv'
    BY <1>1 DEF DeployInv, FilesInv, Serving, Past
<1> QED
    BY <1>2, <1>3, <1>4, <1>5, <1>6 DEF DeployInv

LEMMA StartStep ==
    ASSUME DeployInv, Start
    PROVE  DeployInv'
<1>1. /\ Shape /\ FilesInv /\ JobInv /\ script.at = "start"
      /\ files.slot = script.active /\ script.active \in Slots
      /\ script.activeTag = files.tag /\ script.tag \in Tag
      /\ Target \in Slots /\ Serving = script.active
    BY OtherSlot, DeployAssumption
    DEF Start, DeployInv, JobInv, At, Stages, Target, Serving
<1>2. UNCHANGED <<files, upstream, workers, harm>>
      /\ metric'.deployed = metric.deployed
      /\ DOMAIN metric' = {"expected", "deployed"}
    BY <1>1 DEF Start, Shape
<1>3. ASSUME NEW at, Go(at)
      PROVE  /\ DOMAIN script' = ScriptFields /\ script'.at = at
             /\ script'.tag = script.tag /\ script'.active = script.active
             /\ script'.activeTag = script.activeTag
    BY <1>1, <1>3, Goes DEF Shape
<1>4. \A s \in Slots : s = Target \/ s = script.active
    BY <1>1 DEF Target, Slots, Other
<1>h. "late" \notin harm => HostInv
    BY DEF DeployInv
<1>5. CASE Up(script.tag) /\ Go("gate")
  <2>1. /\ DOMAIN slot' = Slots
        /\ \A s \in Slots : DOMAIN slot'[s] = {"image", "running", "gated"}
        /\ slot'[script.active] = slot[script.active]
        /\ slot'[Target].running /\ slot'[Target].image = script.tag
    BY <1>1, <1>5, Starts
  <2>2. /\ DOMAIN script' = ScriptFields /\ script'.at = "gate"
        /\ script'.tag = script.tag /\ script'.active = script.active
        /\ script'.activeTag = script.activeTag
    BY <1>3, <1>5
  <2>3. Target' = Target /\ Serving' = Serving
    BY <1>2, <2>2 DEF Target, Serving
  <2>4. Shape'
    BY <1>1, <1>2, <2>1, <2>2 DEF Shape, Stages
  <2>5. ASSUME HostInv PROVE HostInv'
    <3>1. \A s \in Slots : slot'[s].running =>
            slot'[s].gated \/ (At("gate")' /\ s = Target')
      BY <2>5, <1>1, <1>4, <2>1, <2>2, <2>3 DEF HostInv, At
    <3> QED
      BY <2>5, <1>1, <1>2, <2>1, <2>2, <2>3, <3>1 DEF HostInv, Past
  <2>6. JobInv'
    BY <1>1, <1>2, <2>1, <2>2, <2>3 DEF JobInv
  <2>7. WarmInv'
    BY <2>2 DEF WarmInv, At
  <2>8. FilesInv'
    BY <1>1, <1>2, <2>1, <2>2, <2>3 DEF FilesInv, Past
  <2> QED
    BY <1>h, <1>2, <2>4, <2>5, <2>6, <2>7, <2>8 DEF DeployInv
<1>6. CASE FailedUp(script.tag) /\ Go("dead")
  <2>1. /\ DOMAIN slot' = Slots
        /\ \A s \in Slots : DOMAIN slot'[s] = {"image", "running", "gated"}
        /\ slot'[script.active] = slot[script.active]
        /\ slot'[Target] = slot[Target] \/ ~slot'[Target].running
    BY <1>1, <1>6, FailsToStart
  <2>2. DOMAIN script' = ScriptFields /\ script'.at = "dead"
    BY <1>3, <1>6
  <2>3. Serving' = Serving
    BY <1>2 DEF Serving
  <2>4. Shape'
    BY <1>1, <1>2, <2>1, <2>2 DEF Shape, Ended
  <2>5. ASSUME HostInv PROVE HostInv'
    <3>1. \A s \in Slots : slot'[s].running => slot'[s].gated
      BY <2>5, <1>1, <1>4, <2>1 DEF HostInv, At
    <3> QED
      BY <2>5, <1>1, <1>2, <2>1, <2>2, <2>3, <3>1 DEF HostInv, Past
  <2>6. JobInv' /\ WarmInv'
    BY <2>2 DEF JobInv, WarmInv, At, Stages
  <2>7. FilesInv'
    BY <1>1, <1>2, <2>1, <2>2, <2>3 DEF FilesInv, Past
  <2> QED
    BY <1>h, <1>2, <2>4, <2>5, <2>6, <2>7 DEF DeployInv
<1> QED
    BY <1>5, <1>6 DEF Start, Die

LEMMA GateStep ==
    ASSUME DeployInv, Gate
    PROVE  DeployInv'
<1>1. /\ Shape /\ FilesInv /\ JobInv /\ script.at = "gate"
      /\ files.slot = script.active /\ script.active \in Slots
      /\ script.activeTag = files.tag /\ script.tag \in Tag
      /\ slot[Target].running /\ slot[Target].image = script.tag
      /\ Target \in Slots /\ Target # script.active /\ Serving = script.active
      /\ UNCHANGED <<files, metric, upstream, workers, harm>>
    BY OtherSlot, DeployAssumption
    DEF Gate, DeployInv, JobInv, At, Stages, Held, Target, Serving
<1>2. \A s \in Slots : s = Target \/ s = script.active
    BY <1>1 DEF Target, Slots, Other
<1>3. \/ /\ slot' = [slot EXCEPT ![Target].gated = TRUE]
         /\ script' = [script EXCEPT !.at = "switch", !.clock = 0]
      \/ /\ StopTarget
         /\ \E c : script' = [script EXCEPT !.at = "dead", !.clock = c]
      \/ /\ UNCHANGED slot
         /\ \E c : script' = [script EXCEPT !.clock = c]
    BY DEF Gate
<1>4. /\ DOMAIN script' = ScriptFields /\ script'.at \in {"gate", "switch", "dead"}
      /\ script'.tag = script.tag /\ script'.active = script.active
      /\ script'.activeTag = script.activeTag
    BY <1>1, <1>3 DEF Shape, ScriptFields
<1>5. Target' = Target /\ Serving' = Serving
    BY <1>1, <1>4 DEF Target, Serving
<1>6. WarmInv'
    BY <1>4 DEF WarmInv, At
<1>h. "late" \notin harm' => HostInv
    BY <1>1 DEF DeployInv
<1>7. CASE /\ slot' = [slot EXCEPT ![Target].gated = TRUE]
           /\ script' = [script EXCEPT !.at = "switch", !.clock = 0]
  <2>1. /\ DOMAIN slot' = Slots
        /\ \A s \in Slots : DOMAIN slot'[s] = {"image", "running", "gated"}
        /\ slot'[script.active] = slot[script.active]
        /\ slot'[Target].running /\ slot'[Target].image = script.tag
        /\ slot'[Target].gated
    BY <1>1, <1>7 DEF Shape
  <2>2. script'.at = "switch"
    BY <1>1, <1>7 DEF Shape, ScriptFields
  <2>3. Shape'
    BY <1>1, <1>4, <2>1, <2>2 DEF Shape, Stages
  <2>4. HostInv => \A s \in Slots : slot'[s].running => slot'[s].gated
    BY <1>1, <1>2, <2>1 DEF HostInv
  <2>5. HostInv => HostInv'
    BY <1>1, <1>5, <2>1, <2>2, <2>4 DEF HostInv, Past
  <2>6. JobInv'
    BY <1>1, <1>4, <1>5, <2>1 DEF JobInv
  <2>7. FilesInv'
    BY <1>1, <1>5, <2>1, <2>2 DEF FilesInv, Past
  <2> QED
    BY <1>6, <1>h, <2>3, <2>5, <2>6, <2>7 DEF DeployInv
<1>8. CASE /\ StopTarget
           /\ \E c : script' = [script EXCEPT !.at = "dead", !.clock = c]
  <2>1. /\ DOMAIN slot' = Slots
        /\ \A s \in Slots : DOMAIN slot'[s] = {"image", "running", "gated"}
        /\ slot'[script.active] = slot[script.active]
        /\ ~slot'[Target].running
    BY <1>1, <1>8, Stops
  <2>2. script'.at = "dead"
    BY <1>1, <1>8 DEF Shape, ScriptFields
  <2>3. Shape'
    BY <1>1, <1>4, <2>1, <2>2 DEF Shape, Ended
  <2>4. HostInv => \A s \in Slots : slot'[s].running => slot'[s].gated
    BY <1>1, <1>2, <2>1 DEF HostInv
  <2>5. HostInv => HostInv'
    BY <1>1, <1>5, <2>1, <2>2, <2>4 DEF HostInv, Past
  <2>6. JobInv'
    BY <2>2 DEF JobInv, Stages
  <2>7. FilesInv'
    BY <1>1, <1>5, <2>1, <2>2 DEF FilesInv, Past
  <2> QED
    BY <1>6, <1>h, <2>3, <2>5, <2>6, <2>7 DEF DeployInv
<1>9. CASE /\ UNCHANGED slot
           /\ \E c : script' = [script EXCEPT !.clock = c]
  <2>1. script'.at = "gate"
    BY <1>1, <1>9 DEF Shape, ScriptFields
  <2>2. Shape'
    BY <1>1, <1>4, <1>9, <2>1 DEF Shape, Stages
  <2>3. HostInv => HostInv'
    BY <1>1, <1>5, <1>9, <2>1 DEF HostInv, Past, At
  <2>4. JobInv'
    BY <1>1, <1>4, <1>5, <1>9 DEF JobInv
  <2>5. FilesInv'
    BY <1>1, <1>5, <1>9, <2>1 DEF FilesInv, Past
  <2> QED
    BY <1>6, <1>h, <2>2, <2>3, <2>4, <2>5 DEF DeployInv
<1> QED
    BY <1>3, <1>7, <1>8, <1>9

\* The traffic moves to the gated target, or the script dies before it.
LEMMA SwitchStep ==
    ASSUME DeployInv, Switch
    PROVE  DeployInv'
<1>1. /\ Shape /\ FilesInv /\ JobInv /\ script.at = "switch"
      /\ files.slot = script.active /\ script.active \in Slots
      /\ script.activeTag = files.tag /\ script.tag \in Tag
      /\ slot[Target].running /\ slot[Target].image = script.tag
      /\ Target \in Slots /\ Serving = script.active /\ Target = Other(Serving)
      /\ UNCHANGED <<files, metric>>
    BY OtherSlot, DeployAssumption
    DEF Switch, DeployInv, JobInv, At, Stages, Held, Target, Serving
<1>2. \A s \in Slots : s = Target \/ s = script.active
    BY <1>1 DEF Target, Slots, Other
<1>3. ASSUME NEW at, Go(at)
      PROVE  /\ DOMAIN script' = ScriptFields /\ script'.at = at
             /\ script'.tag = script.tag /\ script'.active = script.active
             /\ script'.activeTag = script.activeTag
             /\ Target' = Target /\ Serving' = Serving
  <2>1. /\ DOMAIN script' = ScriptFields /\ script'.at = at
        /\ script'.tag = script.tag /\ script'.active = script.active
        /\ script'.activeTag = script.activeTag
    BY <1>1, <1>3, Goes DEF Shape
  <2> QED
    BY <1>1, <2>1 DEF Target, Serving
<1>h. "late" \notin harm' => HostInv
    BY DEF DeployInv, Switch, NotRendered
<1>4. CASE Rendered(Target) /\ Go("observe") /\ UNCHANGED <<slot, harm>>
  <2>1. /\ DOMAIN script' = ScriptFields /\ script'.at = "observe"
        /\ script'.tag = script.tag /\ script'.active = script.active
        /\ script'.activeTag = script.activeTag
        /\ Target' = Target /\ Serving' = Serving
    BY <1>3, <1>4
  <2>2. Shape'
    BY <1>1, <1>4, <2>1 DEF Shape, Stages
  <2>3. HostInv => HostInv'
    BY <1>1, <1>4, <2>1 DEF HostInv, Rendered, Past, At
  <2>4. JobInv' /\ WarmInv'
    BY <1>1, <1>4, <2>1 DEF JobInv, WarmInv, At
  <2>5. FilesInv'
    BY <1>1, <1>4, <2>1 DEF FilesInv, Rendered, Past
  <2> QED
    BY <1>h, <2>2, <2>3, <2>4, <2>5 DEF DeployInv
<1>5. CASE /\ UNCHANGED workers /\ Go("dead")
           /\ UNCHANGED <<upstream, harm>> \/ "apart" \in harm'
           /\ StopTarget \/ UNCHANGED slot
  <2>1. DOMAIN script' = ScriptFields /\ script'.at = "dead" /\ Serving' = Serving
    BY <1>3, <1>5
  <2>2. /\ DOMAIN slot' = Slots
        /\ \A s \in Slots : DOMAIN slot'[s] = {"image", "running", "gated"}
        /\ slot'[script.active] = slot[script.active]
        /\ slot'[Target] = slot[Target] \/ ~slot'[Target].running
    BY <1>1, <1>5, Stops DEF Shape
  <2>3. Shape'
    BY <1>1, <2>1, <2>2 DEF Shape, Ended
  <2>4. HostInv => \A s \in Slots : slot'[s].running => slot'[s].gated
    BY <1>1, <1>2, <2>2 DEF HostInv, At
  <2>5. HostInv => HostInv'
    BY <1>1, <1>5, <2>1, <2>2, <2>4 DEF HostInv, Past
  <2>6. JobInv' /\ WarmInv'
    BY <2>1 DEF JobInv, WarmInv, Stages, At
  <2>7. FilesInv'
    BY <1>1, <1>5, <2>1, <2>2 DEF FilesInv, Past
  <2> QED
    BY <1>h, <2>3, <2>5, <2>6, <2>7 DEF DeployInv
<1> QED
    BY <1>4, <1>5 DEF Switch, NotRendered, Die

LEMMA ObserveStep ==
    ASSUME DeployInv, Observe
    PROVE  DeployInv'
<1>1. /\ Shape /\ FilesInv /\ JobInv /\ script.at = "observe"
      /\ UNCHANGED <<files, metric, upstream, workers, slot, harm>>
    BY DEF Observe, DeployInv, At, Quiet
<1>2. /\ DOMAIN script' = ScriptFields /\ script'.at \in Past
      /\ script'.tag = script.tag /\ script'.active = script.active
      /\ script'.activeTag = script.activeTag
    BY <1>1 DEF Observe, Shape, ScriptFields, Past
<1>3. Target' = Target /\ Serving' = Serving
    BY <1>1, <1>2 DEF Target, Serving
<1>4. Shape'
    BY <1>1, <1>2 DEF Shape, Stages, Past
<1>5. "late" \notin harm' => HostInv'
    BY <1>1, <1>2, <1>3 DEF DeployInv, HostInv, Past, At
<1>6. JobInv'
    BY <1>1, <1>2, <1>3 DEF JobInv, Past, Held, Stages
<1>7. WarmInv'
    BY <1>2 DEF WarmInv, At, Past
<1>8. FilesInv'
    BY <1>1, <1>2, <1>3 DEF FilesInv, Past
<1> QED
    BY <1>4, <1>5, <1>6, <1>7, <1>8 DEF DeployInv

\* A script that dies late leaves what no files need to tell: they and the
\* traffic may be apart, and the target may run without a verdict.
LEMMA LateDeath ==
    ASSUME DeployInv, Go("dead"), "late" \in harm', UNCHANGED slot,
           /\ DOMAIN files' = {"slot", "tag", "previous"}
           /\ files'.slot \in Slots \cup {NoTag}
           /\ files'.previous \in Tag \cup {NoTag}
           /\ files'.tag \in Tag \cup {NoTag}
           /\ DOMAIN metric' = {"expected", "deployed"},
           "apart" \notin harm' =>
             /\ script.at \notin Past /\ "apart" \notin harm
             /\ UNCHANGED <<files, metric, upstream, workers>>
    PROVE  DeployInv'
<1>1. DOMAIN script' = ScriptFields /\ script'.at = "dead"
    BY Goes DEF DeployInv, Shape
<1>2. Shape'
    BY <1>1 DEF DeployInv, Shape, Ended
<1>3. JobInv'
    BY <1>1 DEF JobInv, Stages
<1>4. FilesInv'
    BY <1>1 DEF DeployInv, FilesInv, Serving, Past
<1> QED
    BY <1>2, <1>3, <1>4 DEF DeployInv

\* The traffic returns to the slot that served, or the error is ignored
\* (rollback.sh) or only reported (deploy.sh).
LEMMA BackStep ==
    ASSUME DeployInv, SwitchBack
    PROVE  DeployInv'
<1>1. /\ Shape /\ FilesInv /\ JobInv /\ script.at = "back"
      /\ files.slot = script.active /\ script.active \in Slots
      /\ Target \in Slots /\ Serving = script.active
      /\ UNCHANGED <<files, metric>> /\ Go("dead")
    BY OtherSlot, DeployAssumption
    DEF SwitchBack, DeployInv, JobInv, At, Stages, Target, Serving, Die
<1>2. CASE UNCHANGED slot /\ harm' = harm \cup {"late", "apart"}
    BY <1>1, <1>2, LateDeath DEF Shape
<1>3. CASE /\ Rendered(script.active) /\ UNCHANGED harm
           /\ StopTarget \/ UNCHANGED slot
  <2>1. \A s \in Slots : s = Target \/ s = script.active
    BY <1>1 DEF Target, Slots, Other
  <2>2. DOMAIN script' = ScriptFields /\ script'.at = "dead"
    BY <1>1, Goes DEF Shape
  <2>3. /\ DOMAIN slot' = Slots
        /\ \A s \in Slots : DOMAIN slot'[s] = {"image", "running", "gated"}
        /\ slot'[script.active] = slot[script.active]
        /\ slot'[Target] = slot[Target] \/ ~slot'[Target].running
    BY <1>1, <1>3, Stops DEF Shape
  <2>4. Shape'
    BY <1>1, <2>2, <2>3 DEF Shape, Ended
  <2>5. HostInv => \A s \in Slots : slot'[s].running => slot'[s].gated
    BY <1>1, <2>1, <2>3 DEF HostInv, At
  <2>6. Serving' = Serving
    BY <1>1 DEF Serving
  <2>7. HostInv => HostInv'
    BY <1>1, <1>3, <2>2, <2>3, <2>5, <2>6 DEF HostInv, Past, Rendered
  <2>8. FilesInv'
    BY <1>1, <1>3, <2>2, <2>3, <2>6 DEF FilesInv, Past, Rendered
  <2>9. JobInv' /\ WarmInv'
    BY <2>2 DEF JobInv, WarmInv, Stages, At
  <2> QED
    BY <1>3, <2>4, <2>7, <2>8, <2>9 DEF DeployInv
<1> QED
    BY <1>2, <1>3 DEF SwitchBack

\* The files are written when the traffic has moved: all of them, and they are
\* true whatever they said before, or some of them.
LEMMA RecordStep ==
    ASSUME DeployInv, Record
    PROVE  DeployInv'
<1>1. /\ Shape /\ FilesInv /\ JobInv /\ script.at = "record"
      /\ files.slot = script.active /\ script.active \in Slots
      /\ script.activeTag = files.tag /\ script.tag \in Tag
      /\ slot[Target].running /\ slot[Target].image = script.tag
      /\ Target \in Slots /\ Serving = script.active
      /\ Other(Target) = script.active /\ Target = Other(script.active)
      /\ UNCHANGED <<upstream, workers, slot>>
    BY OtherSlot, DeployAssumption
    DEF Record, DeployInv, JobInv, At, Stages, Target, Serving, Held, Past
<1>2. ASSUME NEW n \in 1..4, Recorded(n)
      PROVE  /\ DOMAIN files' = {"slot", "tag", "previous"}
             /\ files'.slot \in {Target, files.slot}
             /\ files'.tag \in {script.tag, files.tag}
             /\ files'.previous \in {files.tag, files.previous}
             /\ DOMAIN metric' = {"expected", "deployed"}
    BY <1>1, <1>2 DEF Recorded, Shape
<1>3. CASE /\ harm' = harm \cup {"late", "apart"} /\ Go("dead")
           /\ \E n \in 1..3 : Recorded(n)
    BY <1>1, <1>2, <1>3, LateDeath DEF Shape
<1>4. CASE Recorded(4) /\ Go("done") /\ harm' = harm \ {"apart"}
  <2>1. DOMAIN script' = ScriptFields /\ script'.at = "done"
    BY <1>1, <1>4, Goes DEF Shape
  <2>2. /\ DOMAIN files' = {"slot", "tag", "previous"}
        /\ files'.slot = Target /\ files'.tag = script.tag
        /\ files'.previous = files.tag
        /\ DOMAIN metric' = {"expected", "deployed"}
        /\ metric'.deployed = script.tag
    BY <1>1, <1>4 DEF Recorded, Shape
  <2>3. Serving' = Target
    BY <1>1, <2>2, DeployAssumption DEF Serving
  <2>4. Shape'
    BY <1>1, <2>1, <2>2 DEF Shape, Ended
  <2>5. workers = Target /\ upstream = Target
    BY <1>1 DEF FilesInv, Past
  <2>6. FilesInv'
    BY <1>1, <2>1, <2>2, <2>3, <2>5 DEF FilesInv, Past
  <2>7. HostInv => \A s \in Slots : slot'[s].running => slot'[s].gated
    BY <1>1 DEF HostInv, At
  <2>8. HostInv => HostInv'
    BY <1>1, <2>1, <2>2, <2>3, <2>5, <2>7 DEF HostInv, Past
  <2>9. JobInv'
    BY <2>1 DEF JobInv, Stages
  <2>10. HostInv => WarmInv'
    BY <1>1, <2>2 DEF WarmInv, HostInv
  <2> QED
    BY <1>4, <2>4, <2>6, <2>8, <2>9, <2>10 DEF DeployInv
<1> QED
    BY <1>3, <1>4 DEF Record, Die

LEMMA CrashStep ==
    ASSUME DeployInv, Crash
    PROVE  DeployInv'
<1>1. /\ script.at \in Stages /\ Go("dead")
      /\ UNCHANGED <<files, metric, upstream, workers, slot>>
      /\ harm' = harm \cup KillHarms(script.at)
    BY DeployAssumption DEF Crash, Die
<1>2. CASE script.at \in {"pull", "migrate", "start", "switch"}
  <2>1. harm' = harm
    BY <1>1, <1>2 DEF KillHarms, Past
  <2> QED
    BY <1>1, <1>2, <2>1, QuietStep
<1>3. CASE script.at \in Past \cup {"gate"}
  <2>1. /\ "late" \in harm'
        /\ script.at \in Past => "apart" \in harm'
        /\ "apart" \in harm => "apart" \in harm'
    BY <1>1, <1>3 DEF KillHarms, Harms
  <2>2. "apart" \notin harm' => script.at \notin Past /\ "apart" \notin harm
    BY <2>1
  <2>3. /\ DOMAIN files' = {"slot", "tag", "previous"}
        /\ files'.slot \in Slots \cup {NoTag}
        /\ files'.previous \in Tag \cup {NoTag}
        /\ files'.tag \in Tag \cup {NoTag}
        /\ DOMAIN metric' = {"expected", "deployed"}
    BY <1>1 DEF DeployInv, Shape
  <2> QED
    BY <1>1, <2>1, <2>2, <2>3, LateDeath
<1> QED
    BY <1>1, <1>2, <1>3 DEF Stages, Past

-----------------------------------------------------------------------------
(***************************************************************************)
(* A script that begins finds the host as the last one left it.            *)
(***************************************************************************)

LEMMA BeginDeployStep ==
    ASSUME DeployInv, script.at \in Ended, NEW t \in Tag, BeginDeploy(t),
           UNCHANGED <<metric, upstream, workers, slot, harm>>
    PROVE  DeployInv'
<1>1. Serving \in Slots
    BY DEF Serving, DeployInv, Shape, Slots
<1>2. /\ DOMAIN files' = {"slot", "tag", "previous"} /\ files'.slot = Serving
      /\ files'.tag = files.tag /\ files'.previous = files.previous
      /\ DOMAIN script' = ScriptFields /\ script'.at = "pull" /\ script'.tag = t
      /\ script'.active = Serving /\ script'.activeTag = files.tag
    BY DEF BeginDeploy, DeployInv, Shape, ScriptFields, Serving
<1>3. Serving' = Serving
    BY <1>1, <1>2, DeployAssumption DEF Serving
<1>4. Shape'
    BY <1>1, <1>2 DEF Shape, DeployInv, Stages
<1>5. "late" \notin harm => HostInv'
    BY <1>2, <1>3 DEF HostInv, DeployInv, Past, At, Ended
<1>6. JobInv'
    BY <1>1, <1>2 DEF JobInv, Held, Past
<1>7. WarmInv'
    BY <1>2 DEF WarmInv, At
<1>8. FilesInv'
    BY <1>2, <1>3 DEF FilesInv, DeployInv, Past, Ended
<1> QED
    BY <1>4, <1>5, <1>6, <1>7, <1>8 DEF DeployInv

LEMMA BeginRollbackStep ==
    ASSUME DeployInv, script.at \in Ended, NEW arg \in Tag \cup {NoTag},
           BeginRollback(arg),
           UNCHANGED <<metric, upstream, workers, slot, harm>>
    PROVE  DeployInv'
<1> DEFINE t == RollbackTag(arg)
           refused == t = NoTag \/ files.slot = NoTag \/ t = files.tag
<1>1. Serving \in Slots /\ t \in Tag \cup {NoTag}
    BY DEF Serving, DeployInv, Shape, Slots, RollbackTag
<1>2. /\ UNCHANGED files /\ DOMAIN script' = ScriptFields
      /\ script'.at = (IF refused THEN "dead"
                       ELSE IF AlreadyUp(Other(Serving), t) THEN "switch" ELSE "start")
      /\ script'.tag = t /\ script'.active = Serving
      /\ script'.activeTag = files.tag
    BY DEF BeginRollback, ScriptFields, Serving
<1>3. Serving' = Serving
    BY <1>2 DEF Serving
<1>4. Shape'
    BY <1>2 DEF Shape, DeployInv, Stages, Ended
<1>5. "late" \notin harm => HostInv'
    BY <1>2, <1>3 DEF HostInv, DeployInv, Past, At, Ended
<1>6. JobInv'
  <2>1. CASE refused
    BY <1>2, <2>1 DEF JobInv, Stages
  <2>2. CASE ~refused
    <3>1. files.slot = Serving /\ t \in Tag
      BY <1>1, <2>2 DEF Serving
    <3>2. script'.at = "switch" =>
            slot[Other(Serving)].running /\ slot[Other(Serving)].image = t
      BY <1>2, <2>2 DEF AlreadyUp
    <3>3. Target' = Other(Serving)
      BY <1>2 DEF Target
    <3> HIDE DEF t, refused
    <3>4. script'.at \in {"switch", "start"}
      BY <1>2, <2>2
    <3> QED
      BY <1>1, <1>2, <3>1, <3>2, <3>3, <3>4 DEF JobInv, Held, Past
  <2> QED
    BY <2>1, <2>2
<1>7. WarmInv'
    BY <1>2 DEF WarmInv, At
<1>8. FilesInv'
    BY <1>2, <1>3 DEF FilesInv, DeployInv, Past, Ended
<1> QED
    BY <1>4, <1>5, <1>6, <1>7, <1>8 DEF DeployInv

-----------------------------------------------------------------------------
LEMMA DeployInit == Init => DeployInv
<1> SUFFICES ASSUME Init PROVE DeployInv
    OBVIOUS
<1>1. PICK t \in Tag :
        slot = [s \in Slots |-> [image |-> t, running |-> TRUE, gated |-> TRUE]]
    BY DEF Init
<1>2. Serving = "blue" /\ "blue" \in Slots /\ At("ready")
    BY DEF Init, Serving, Slots, At
<1>3. Shape
    BY <1>1 DEF Init, Shape, ScriptFields, Ended
<1>4. HostInv
    BY <1>1, <1>2 DEF Init, HostInv, Past
<1>5. JobInv /\ WarmInv
    BY <1>2 DEF JobInv, WarmInv, At, Stages
<1>6. FilesInv
    BY <1>1, <1>2 DEF Init, FilesInv, Past
<1> QED
    BY <1>3, <1>4, <1>5, <1>6 DEF DeployInv

LEMMA DeployNext == DeployInv /\ [Next]_vars => DeployInv'
<1> SUFFICES ASSUME DeployInv, [Next]_vars PROVE DeployInv'
    OBVIOUS
<1>1. ASSUME NEW t \in Tag, Release(t)
      PROVE  DeployInv'
    BY <1>1, BeginDeployStep DEF Release, NewJob, LockFree
<1>2. ASSUME NEW t \in Tag \cup {NoTag}, RollbackJob(t)
      PROVE  DeployInv'
    BY <1>2, BeginRollbackStep DEF RollbackJob, NewJob, LockFree
<1>3. CASE RollBackAfterFailure
    BY <1>3, BeginRollbackStep DEF RollBackAfterFailure, At, Ended
<1>4. CASE Pull \/ Migrate
    BY <1>4, QuietStep DEF Pull, Migrate, At, Quiet, Die
<1>5. CASE Start
    BY <1>5, StartStep
<1>6. CASE Gate
    BY <1>6, GateStep
<1>7. CASE Switch
    BY <1>7, SwitchStep
<1>8. CASE Observe
    BY <1>8, ObserveStep
<1>9. CASE SwitchBack
    BY <1>9, BackStep
<1>10. CASE Record
    BY <1>10, RecordStep
<1>11. CASE Crash
    BY <1>11, CrashStep
<1>12. CASE UNCHANGED vars
  <2>1. UNCHANGED <<Serving, Target>>
    BY <1>12 DEF Serving, Target, vars
  <2> QED
    BY <1>12, <2>1 DEF DeployInv, Shape, HostInv, JobInv, FilesInv, WarmInv, At, vars
<1> QED
    BY <1>1, <1>2, <1>3, <1>4, <1>5, <1>6, <1>7, <1>8, <1>9, <1>10, <1>11, <1>12
    DEF Next, Step

LEMMA DeployInvariant == Spec => []DeployInv
    BY DeployInit, DeployNext, PTL DEF Spec

-----------------------------------------------------------------------------
\* Whatever is released, rolled back or fails, requests reach a container that
\* runs and has passed its health gate on the image it runs, until a script is
\* killed from its gate on (the switch aside) or cannot switch back
\* (deploy.sh, rollback.sh).
THEOREM TrafficStaysGated == Spec => []TrafficIsGated
<1>1. DeployInv => TrafficIsGated
  <2> SUFFICES ASSUME DeployInv, "late" \notin harm
               PROVE  slot[workers].running /\ slot[workers].gated
      BY DEF TrafficIsGated
  <2>1. Serving \in Slots /\ HostInv
    BY DEF Serving, DeployInv, Shape, Slots
  <2>2. CASE script.at \in Past
    <3>1. slot[Target].running /\ workers = Target /\ Target \in Slots
      BY <2>2, OtherSlot
      DEF DeployInv, JobInv, FilesInv, Target, Past, Held, Stages
    <3> QED
      BY <2>1, <2>2, <3>1 DEF HostInv, At, Past
  <2>3. CASE script.at \notin Past
    <3>1. workers = Serving /\ slot[Serving].running
      BY <2>1, <2>3 DEF HostInv
    <3>2. At("gate") => Target # Serving
      BY OtherSlot, DeployAssumption
      DEF DeployInv, JobInv, Serving, Target, At, Stages
    <3> QED
      BY <2>1, <3>1, <3>2 DEF HostInv
  <2> QED
    BY <2>2, <2>3
<1> QED
    BY <1>1, DeployInvariant, PTL

\* Between scripts the state files and the upstream file name the slot, and the
\* release, that requests reach: what the next script reads is true.  A script
\* that dies or fails after its switch may part them, until the next one that
\* ends well, whatever the files said meanwhile.
THEOREM FilesAreTrue == Spec => []FilesTellWhoServes
<1>1. DeployInv => FilesTellWhoServes
  <2> SUFFICES ASSUME DeployInv, script.at \in Ended, files.slot # NoTag,
                      "apart" \notin harm
               PROVE  /\ workers = files.slot /\ upstream = files.slot
                      /\ files.tag # NoTag => slot[workers].image = files.tag
      BY DEF FilesTellWhoServes
  <2>1. workers = Serving /\ upstream = Serving /\ Serving = files.slot
    BY DEF DeployInv, FilesInv, Serving, Past, Ended
  <2> QED
    BY <2>1 DEF DeployInv, FilesInv
<1> QED
    BY <1>1, DeployInvariant, PTL

\* After a script that succeeded, the release it replaced still runs, gated, in
\* the other slot: rollback.sh finds it up and only reloads nginx.  No script
\* was killed from its gate on and no switch back failed.
THEOREM RollbackStaysWarm == Spec => []RollbackIsWarm
<1>1. DeployInv => RollbackIsWarm
  <2> SUFFICES ASSUME DeployInv, At("done"), "late" \notin harm
               PROVE  /\ slot[Other(files.slot)].running
                      /\ slot[Other(files.slot)].gated
                      /\ files.previous # NoTag =>
                           slot[Other(files.slot)].image = files.previous
      BY DEF RollbackIsWarm
  <2>1. Other(files.slot) \in Slots
    BY OtherSlot DEF DeployInv, WarmInv
  <2> QED
    BY <2>1 DEF DeployInv, WarmInv, HostInv, At
<1> QED
    BY <1>1, DeployInvariant, PTL

\* Between scripts, when the release last attempted is not the one that
\* requests reach, the metrics differ and the drift rule fires, except while
\* the traffic and the files are apart.
THEOREM DriftStaysVisible == Spec => []DriftIsVisible
<1>1. DeployInv => DriftIsVisible
  <2> SUFFICES ASSUME DeployInv, script.at \in Ended, "apart" \notin harm
               PROVE  \/ metric.expected \in {NoTag, slot[workers].image}
                      \/ metric.deployed # metric.expected
      BY DEF DriftIsVisible
  <2>1. workers = Serving
    BY DEF DeployInv, FilesInv, Past, Ended
  <2> QED
    BY <2>1 DEF DeployInv, FilesInv
<1> QED
    BY <1>1, DeployInvariant, PTL
=============================================================================
