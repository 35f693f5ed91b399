------------------------------- MODULE Server -------------------------------
(***************************************************************************)
(* One server process: the state behind web/src/lib/data.ts.  The schema   *)
(* is applied once; the background loop is started at most once; the loop  *)
(* and the on-demand route index through one rotating reader; requests     *)
(* read the index or fall back to the chain, and the last failure of an    *)
(* index read is what /api/health reports.                                 *)
(***************************************************************************)
EXTENDS Endpoints

CONSTANTS
  Loop,       \* the reader of the background loop
  Boots,      \* calls of ensureSyncLoop (a hot reload calls it again)
  Requests,   \* requests that read the index, /api/health among them
  MaxFaults   \* bound: failures of endpoints and of the database

ASSUME ServerAssumption == Loop \in Readers /\ MaxFaults \in Nat

VARIABLES
  broken,      \* endpoint -> what fails on it: nothing, getLogs, everything
  database,    \* does MySQL answer
  faults,
  migrated,    \* state.ready: the schema migration, started with the process
  boot,        \* ensureSyncLoop calls: waiting for the schema, or returned
  loops,       \* background loops running
  sync,        \* reader -> where its syncOnce stands
  asked,       \* request -> its index read: none, sent, sent to a dead database
  indexError   \* is a failure recorded for /api/health

worldVars == <<broken, database, faults>>
processVars == <<migrated, boot, loops, sync, asked, indexError>>
vars == <<rotationVars, worldVars, processVars>>

TypeOK ==
  /\ RotationTypeOK
  /\ broken \in [Positions -> {"nothing", "logs", "all"}]
  /\ database \in BOOLEAN /\ faults \in 0..MaxFaults
  /\ migrated \in {"pending", "ok", "failed"}
  /\ boot \in [Boots -> {"waiting", "returned"}]
  /\ loops \in 0..Cardinality(Boots)
  /\ sync \in [Readers -> {"off", "rest", "head", "plan", "logs", "persist", "done"}]
  /\ asked \in [Requests -> {"none", "sent", "lost"}]
  /\ indexError \in BOOLEAN

Init ==
  /\ RotationInit
  /\ broken = [e \in Positions |-> "nothing"]
  /\ database \in BOOLEAN /\ faults = 0
  /\ migrated = "pending"
  /\ boot = [b \in Boots |-> "waiting"] /\ loops = 0
  /\ sync = [r \in Readers |-> IF r = Loop THEN "off" ELSE "rest"]
  /\ asked = [q \in Requests |-> "none"]
  /\ indexError = FALSE

-----------------------------------------------------------------------------
\* The world: endpoints and the database fail and come back.
Fault == faults < MaxFaults /\ faults' = faults + 1

EndpointChanges(e, to) ==
  /\ Fault /\ broken[e] # to
  /\ \E other \in Positions \ {e} : broken[other] = "nothing"
  /\ broken' = [broken EXCEPT ![e] = to]
  /\ UNCHANGED <<rotationVars, database, processVars>>

DatabaseChanges ==
  /\ Fault
  /\ database' = ~database
  /\ UNCHANGED <<rotationVars, broken, processVars>>

-----------------------------------------------------------------------------
\* migrate(), once per process; what it answers is what every ready() awaits.
Migration ==
  /\ migrated = "pending"
  /\ migrated' = IF database THEN "ok" ELSE "failed"
  /\ UNCHANGED <<rotationVars, worldVars, boot, loops, sync, asked, indexError>>

\* ready(): a rejected migration is recorded again by every caller.
Ready == migrated # "pending"
ErrorAfterReady == indexError \/ migrated = "failed"

\* ensureSyncLoop after its await: no other call runs between test and set.
EnsureSyncLoop(b) ==
  /\ Ready /\ boot[b] = "waiting"
  /\ boot' = [boot EXCEPT ![b] = "returned"]
  /\ indexError' = ErrorAfterReady
  /\ IF loops = 0
     THEN loops' = 1 /\ sync' = [sync EXCEPT ![Loop] = "rest"]
     ELSE UNCHANGED <<loops, sync>>
  /\ UNCHANGED <<rotationVars, worldVars, migrated, asked>>

-----------------------------------------------------------------------------
(***************************************************************************)
(* syncOnce, as far as it reads: the head, the cursor, the logs, the       *)
(* transaction.  Any failure ends the iteration; only a failed read of the *)
(* chain is counted against the endpoint.  Whether there is anything to    *)
(* index is left open.                                                     *)
(***************************************************************************)
Step(r, from, to) == sync[r] = from /\ sync' = [sync EXCEPT ![r] = to]
SyncQuiet == UNCHANGED <<worldVars, migrated, boot, loops, asked, indexError>>

\* startSyncLoop's next iteration; POST /api/index/sync awaits ready() first.
BeginSync(r) ==
  /\ Step(r, "rest", "head") \/ Step(r, "done", "head")
  /\ r = Loop \/ Ready
  /\ Send(r)
  /\ indexError' = IF r = Loop THEN indexError ELSE ErrorAfterReady
  /\ UNCHANGED <<worldVars, migrated, boot, loops, asked>>

HeadAnswered(r) ==
  /\ Step(r, "head", "plan")
  /\ broken[flying[r]] # "all"
  /\ ReadSucceeds(r)
  /\ SyncQuiet

LogsAnswered(r) ==
  /\ Step(r, "logs", "persist")
  /\ broken[flying[r]] = "nothing"
  /\ ReadSucceeds(r)
  /\ SyncQuiet

ReadRefused(r) ==
  /\ \/ Step(r, "head", "rest") /\ broken[flying[r]] = "all"
     \/ Step(r, "logs", "rest") /\ broken[flying[r]] # "nothing"
  /\ ReadFails(r)
  /\ SyncQuiet

\* readCursor and the plan: up to date, or a range to fetch.
Plan(r) ==
  /\ \/ database /\ Step(r, "plan", "done") /\ UNCHANGED rotationVars
     \/ database /\ Step(r, "plan", "logs") /\ Send(r)
     \/ ~database /\ Step(r, "plan", "rest") /\ UNCHANGED rotationVars
  /\ SyncQuiet

Persist(r) ==
  /\ Step(r, "persist", IF database THEN "done" ELSE "rest")
  /\ UNCHANGED rotationVars
  /\ SyncQuiet

SyncStep(r) == BeginSync(r) \/ HeadAnswered(r) \/ LogsAnswered(r)
               \/ ReadRefused(r) \/ Plan(r) \/ Persist(r)

-----------------------------------------------------------------------------
(***************************************************************************)
(* A request that reads the index: ready(), then the query.  A query sent  *)
(* to a dead database may report its failure after the database is back.   *)
(***************************************************************************)
Ask(q) ==
  /\ Ready /\ asked[q] = "none"
  /\ asked' = [asked EXCEPT ![q] = IF database THEN "sent" ELSE "lost"]
  /\ indexError' = ErrorAfterReady
  /\ UNCHANGED <<rotationVars, worldVars, migrated, boot, loops, sync>>

\* Mutant: the failure is served from the chain and forgotten.
IndexReadEndsSilently(q) ==
  /\ asked[q] # "none"
  /\ asked' = [asked EXCEPT ![q] = "none"]
  /\ indexError' = FALSE
  /\ UNCHANGED <<rotationVars, worldVars, migrated, boot, loops, sync>>

\* withIndex: success clears the recorded failure, failure records it.
IndexReadEnds(q) ==
  /\ asked[q] # "none"
  /\ asked' = [asked EXCEPT ![q] = "none"]
  /\ indexError' = (asked[q] = "lost" \/ ~database)
  /\ UNCHANGED <<rotationVars, worldVars, migrated, boot, loops, sync>>

RequestStep(q) == Ask(q) \/ IndexReadEnds(q)

-----------------------------------------------------------------------------
Next ==
  \/ Migration
  \/ \E b \in Boots : EnsureSyncLoop(b)
  \/ \E r \in Readers : SyncStep(r)
  \/ \E q \in Requests : RequestStep(q)
  \/ DatabaseChanges
  \/ \E e \in Positions, to \in {"nothing", "logs", "all"} : EndpointChanges(e, to)

(***************************************************************************)
(* The process runs what it has started; the loop starts its next          *)
(* iteration by itself; probes read /api/health for ever.  Nobody has to   *)
(* call the on-demand route.                                               *)
(***************************************************************************)
Fairness ==
  /\ WF_vars(Migration)
  /\ \A b \in Boots : WF_vars(EnsureSyncLoop(b))
  /\ WF_vars(SyncStep(Loop))
  /\ \A q \in Requests : WF_vars(RequestStep(q))

Spec == Init /\ [][Next]_vars /\ Fairness

-----------------------------------------------------------------------------
(***************************************************************************)
(* As long as one endpoint answers and none answers in part only, the loop *)
(* reads the chain again and again, whichever endpoints die.               *)
(***************************************************************************)
ReadsResume ==
  <>[](\A e \in Positions : broken[e] # "logs") =>
    []<>(sync[Loop] \in {"persist", "plan"})

(***************************************************************************)
(* A database that stays down is reported, whatever the other requests do, *)
(* and one that recovers stops being reported without a restart, provided  *)
(* the schema was applied when the process started.                        *)
(***************************************************************************)
OutageIsReported ==
  /\ <>[](~database) => <>[]indexError
  /\ <>[](database /\ migrated = "ok") => <>[](~indexError)
=============================================================================
