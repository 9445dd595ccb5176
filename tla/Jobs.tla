-------------------------------- MODULE Jobs --------------------------------
(***************************************************************************)
(* The long-running job plane of the backend: the `jobs` table with its    *)
(* partial unique index, the HTTP handlers that start, cancel and retry a  *)
(* job, and the in-process JobRunner task that drives one execution of it. *)
(*                                                                         *)
(* A handler or a run is an async function: it is split at its awaits, so  *)
(* every database statement, and every stretch of code between two         *)
(* statements, is one step.  An early return that changes nothing is not   *)
(* an action.                                                              *)
(***************************************************************************)
EXTENDS Naturals, FiniteSets

CONSTANTS
    Job,         \* job ids (rows the table can hold)
    Run,         \* runner tasks that can be alive at once
    Request,     \* HTTP requests that can be in flight at once
    Types,       \* job types the clients of this instance ask for
    Configured,  \* Deployment job types the operator has configured
    Faults,      \* which of "crash", "db", "drop" can happen
    NoJob, NoRun, NoType

\* The Job Policy Registry: the fields the runner and the routes branch on.
SeedJobs ==
    LET D(k, r, e) == [resource_key |-> k, retryable |-> r, executor |-> e]
    IN  [t \in {"pmp.update.check", "pmp.update.apply", "pmp.update.cancel",
                "pmp.update.force", "ppf.build", "backup"} |->
           CASE t \in {"pmp.update.check", "pmp.update.apply"}  -> D("server", TRUE, "FixedCli")
             [] t \in {"pmp.update.cancel", "pmp.update.force"} -> D("server", FALSE, "FixedCli")
             [] t = "ppf.build" -> D("ppf", FALSE, "Deployment")
             [] t = "backup"    -> D("server", FALSE, "Deployment")]

ASSUME JobsAssumption ==
    /\ Types \subseteq DOMAIN SeedJobs
    /\ Configured \subseteq {"ppf.build", "backup"}
    /\ Faults \subseteq {"crash", "db", "drop"}
    /\ NoJob \notin Job
    /\ NoRun \notin Run
    /\ NoType \notin Types

VARIABLES
    type,      \* jobs.type of every row, NoType for a row not inserted yet
    state,     \* jobs.state of every row
    cancels,   \* JobRunner.cancels: the run whose cancel flag is registered
    flag,      \* the AtomicBool of every run
    pc,        \* where every runner task stands
    runJob,    \* the job a runner task works on
    result,    \* what `execute` returned to a runner task
    at,        \* where every request stands
    reqJob,    \* the job a request is about
    lastEvent, \* state in the last job.updated event published for a job
    contended, \* history: jobs re-queued while something still drove them
    orphaned   \* history: jobs whose driver, or its last write, was lost

vars == <<type, state, cancels, flag, pc, runJob, result, at, reqJob, lastEvent, contended, orphaned>>
runVars == <<cancels, flag, pc, runJob, result>>
reqVars == <<at, reqJob>>
history == <<contended, orphaned>>

Active == {"queued", "running"}
Terminal == {"succeeded", "failed", "cancelled"}
States == {"none"} \cup Active \cup Terminal

\* Runner positions, in the order a run passes them.
BeforeDispatch == {"spawned", "started", "staging", "staged", "sleeping"}
Cancelling == {"cancelling", "cancelled"}
Pcs == {"idle"} \cup BeforeDispatch \cup Cancelling \cup {"dispatched", "finishing", "finished"}

Key(j) == SeedJobs[type[j]].resource_key

Init ==
    /\ type = [j \in Job |-> NoType]
    /\ state = [j \in Job |-> "none"]
    /\ cancels = [j \in Job |-> NoRun]
    /\ flag = [r \in Run |-> FALSE]
    /\ pc = [r \in Run |-> "idle"]
    /\ runJob = [r \in Run |-> NoJob]
    /\ result = [r \in Run |-> "none"]
    /\ at = [q \in Request |-> "idle"]
    /\ reqJob = [q \in Request |-> NoJob]
    /\ lastEvent = [j \in Job |-> "none"]
    /\ contended = {}
    /\ orphaned = {}

-----------------------------------------------------------------------------
(* The table.                                                              *)

\* The partial unique index: may row j, holding key k, take state s?  Every
\* seed has a non-empty key.
IndexAllowsAlways(j, k, s) == TRUE
IndexAllows(j, k, s) ==
    s \in Active =>
        \A i \in Job \ {j} : state[i] \in Active => Key(i) # k

\* update_state by a runner: the outcome is ignored (`let _ =`), and the
\* statement may fail on the index or with the database.
UpdateState(j, s) ==
    \/ /\ IndexAllows(j, Key(j), s)
       /\ state' = [state EXCEPT ![j] = s]
       /\ orphaned' = IF s \in Terminal THEN orphaned \ {j} ELSE orphaned
    \/ /\ ~ IndexAllows(j, Key(j), s) \/ "db" \in Faults
       /\ orphaned' = IF s \in Terminal THEN orphaned \cup {j} ELSE orphaned
       /\ UNCHANGED state

Publish(j, s) == lastEvent' = [lastEvent EXCEPT ![j] = s]

-----------------------------------------------------------------------------
(* Requests.                                                               *)

\* The row of the request is written, and no run of it is spawned yet.
AboutToSpawn(q) == at[q] \in {"inserted", "requeued"}

\* Registers a fresh cancel flag and spawns `run` (no await in between).
Spawn(q, r) ==
    /\ pc[r] = "idle"
    /\ pc' = [pc EXCEPT ![r] = "spawned"]
    /\ runJob' = [runJob EXCEPT ![r] = reqJob[q]]
    /\ flag' = [flag EXCEPT ![r] = FALSE]
    /\ cancels' = [cancels EXCEPT ![reqJob[q]] = r]
    /\ at' = [at EXCEPT ![q] = "idle"]
    /\ reqJob' = [reqJob EXCEPT ![q] = NoJob]
    /\ UNCHANGED <<type, state, result, lastEvent, history>>

JobConfigured(t) == SeedJobs[t].executor = "Deployment" => t \in Configured

\* POST /admin/jobs up to the INSERT, which the index may refuse (409).
Start(q, j, t) ==
    /\ at[q] = "idle"
    /\ state[j] = "none"
    /\ JobConfigured(t)
    /\ IndexAllows(j, SeedJobs[t].resource_key, "queued")
    /\ type' = [type EXCEPT ![j] = t]
    /\ state' = [state EXCEPT ![j] = "queued"]
    /\ at' = [at EXCEPT ![q] = "inserted"]
    /\ reqJob' = [reqJob EXCEPT ![q] = j]
    /\ UNCHANGED <<runVars, lastEvent, history>>

StartSpawn(q, r) == at[q] = "inserted" /\ Spawn(q, r)

\* A request moves on without touching anything else.
Advance(q, a, j) ==
    /\ at' = [at EXCEPT ![q] = a]
    /\ reqJob' = [reqJob EXCEPT ![q] = j]
    /\ UNCHANGED <<type, state, runVars, lastEvent, contended>>

\* POST /admin/jobs/{id}/retry: the route's retryable gate and the lookup.
RetryLookup(q, j) ==
    /\ at[q] = "idle"
    /\ state[j] \in {"failed", "cancelled"}
    /\ SeedJobs[type[j]].retryable
    /\ Advance(q, "looked", j)
    /\ UNCHANGED orphaned

\* ensure_resource_free: COUNT of the active rows under the key.
RetryCheckFree(q) ==
    /\ at[q] = "looked"
    /\ IF \A i \in Job : state[i] \in Active => Key(i) # Key(reqJob[q])
       THEN Advance(q, "free", reqJob[q])
       ELSE Advance(q, "idle", NoJob)
    /\ UNCHANGED orphaned

\* UPDATE jobs SET state = 'queued' ... WHERE id = $1: no guard on the state
\* the row is in by now; only the index can refuse it (409).
RetryRequeue(q) ==
    /\ at[q] = "free"
    /\ LET j == reqJob[q] IN
         IF IndexAllows(j, Key(j), "queued")
         THEN /\ state' = [state EXCEPT ![j] = "queued"]
              /\ at' = [at EXCEPT ![q] = "requeued"]
              /\ contended' = IF \/ state[j] \notin {"failed", "cancelled"}
                                \/ \E r \in Run : runJob[r] = j
                              THEN contended \cup {j} ELSE contended
              /\ UNCHANGED <<type, runVars, reqJob, lastEvent>>
         ELSE Advance(q, "idle", NoJob)
    /\ UNCHANGED orphaned

RetrySpawn(q, r) == at[q] = "requeued" /\ Spawn(q, r)

\* POST /admin/jobs/{id}/cancel: the lookup; any state but queued is a 409.
CancelLookup(q, j) ==
    /\ at[q] = "idle"
    /\ state[j] = "queued"
    /\ Advance(q, "cancelling", j)
    /\ UNCHANGED orphaned

\* The flag, if one is registered, is raised; the answer is 200 either way.
CancelFlag(q) ==
    /\ at[q] = "cancelling"
    /\ LET r == cancels[reqJob[q]] IN
         flag' = IF r = NoRun THEN flag ELSE [flag EXCEPT ![r] = TRUE]
    /\ at' = [at EXCEPT ![q] = "idle"]
    /\ reqJob' = [reqJob EXCEPT ![q] = NoJob]
    /\ UNCHANGED <<type, state, cancels, pc, runJob, result, lastEvent, history>>

\* The client goes away and the server drops the handler's future at an await.
DropRequest(q) ==
    /\ "drop" \in Faults
    /\ at[q] # "idle"
    /\ Advance(q, "idle", NoJob)
    /\ orphaned' = IF AboutToSpawn(q)
                   THEN orphaned \cup {reqJob[q]} ELSE orphaned

-----------------------------------------------------------------------------
(* The runner task.                                                        *)

\* A database step of run r: write state s of its job, go on to position p.
RunWrite(r, from, s, p) ==
    /\ pc[r] = from
    /\ UpdateState(runJob[r], s)
    /\ pc' = [pc EXCEPT ![r] = p]
    /\ UNCHANGED <<type, cancels, flag, runJob, result, reqVars, lastEvent, contended>>

RunStarting(r) == RunWrite(r, "spawned", "running", "started")

\* Publishes running/starting, then tick_stage loads the cancel flag.
RunCheckCancel(r) ==
    /\ pc[r] = "started"
    /\ Publish(runJob[r], "running")
    /\ pc' = [pc EXCEPT ![r] = IF flag[r] THEN "cancelling" ELSE "staging"]
    /\ UNCHANGED <<type, state, cancels, flag, runJob, result, reqVars, history>>

RunWriteCancelled(r) == RunWrite(r, "cancelling", "cancelled", "cancelled")

\* Publishes cancelled; `execute` returns Err("cancelled").
RunPublishCancelled(r) ==
    /\ pc[r] = "cancelled"
    /\ Publish(runJob[r], "cancelled")
    /\ pc' = [pc EXCEPT ![r] = "finishing"]
    /\ result' = [result EXCEPT ![r] = "cancelled"]
    /\ UNCHANGED <<type, state, cancels, flag, runJob, reqVars, history>>

RunWriteStage(r) == RunWrite(r, "staging", "running", "staged")

RunPublishStage(r) ==
    /\ pc[r] = "staged"
    /\ Publish(runJob[r], "running")
    /\ pc' = [pc EXCEPT ![r] = "sleeping"]
    /\ UNCHANGED <<type, state, cancels, flag, runJob, result, reqVars, history>>

\* After the 500 ms sleep: cli_execute / run_job is called.
RunDispatch(r) ==
    /\ pc[r] = "sleeping"
    /\ pc' = [pc EXCEPT ![r] = "dispatched"]
    /\ UNCHANGED <<type, state, cancels, flag, runJob, result, reqVars, lastEvent, history>>

RunReturn(r, from, res) ==
    /\ pc[r] = from
    /\ pc' = [pc EXCEPT ![r] = "finishing"]
    /\ result' = [result EXCEPT ![r] = res]
    /\ UNCHANGED <<type, state, cancels, flag, runJob, reqVars, lastEvent, history>>

\* ppf.build reads its configuration first; a failing read ends the run.
RunLoadConfigFails(r) ==
    /\ "db" \in Faults
    /\ pc[r] = "sleeping"
    /\ type[runJob[r]] = "ppf.build"
    /\ RunReturn(r, "sleeping", "failed")

\* The command answered, failed, or the connection it was waiting on closed.
RunReply(r, res) == RunReturn(r, "dispatched", res)

\* `run` matches on the result: Err("cancelled") takes the catch-all arm.  (No
\* executor returns the "not_implemented" of the remaining arm.)
FinalStateWritesStage(res) == IF res = "ok" THEN "succeeded" ELSE "timeout"
FinalStateForgetsFailure(res) == IF res = "ok" THEN "succeeded" ELSE "running"
FinalState(res) == IF res = "ok" THEN "succeeded" ELSE "failed"

RunFinish(r) == RunWrite(r, "finishing", FinalState(result[r]), "finished")

\* Publishes the final state; cancels.remove(job) is by job, not by run.
RunEndKeepsFlag(r) ==
    /\ pc[r] = "finished"
    /\ Publish(runJob[r], FinalState(result[r]))
    /\ pc' = [pc EXCEPT ![r] = "idle"]
    /\ runJob' = [runJob EXCEPT ![r] = NoJob]
    /\ result' = [result EXCEPT ![r] = "none"]
    /\ flag' = [flag EXCEPT ![r] = FALSE]
    /\ UNCHANGED <<type, state, cancels, reqVars, history>>
RunEndSilently(r) ==
    /\ pc[r] = "finished"
    /\ cancels' = [cancels EXCEPT ![runJob[r]] = NoRun]
    /\ pc' = [pc EXCEPT ![r] = "idle"]
    /\ runJob' = [runJob EXCEPT ![r] = NoJob]
    /\ result' = [result EXCEPT ![r] = "none"]
    /\ flag' = [flag EXCEPT ![r] = FALSE]
    /\ UNCHANGED <<type, state, reqVars, lastEvent, history>>
RunEnd(r) ==
    /\ pc[r] = "finished"
    /\ Publish(runJob[r], FinalState(result[r]))
    /\ cancels' = [cancels EXCEPT ![runJob[r]] = NoRun]
    /\ pc' = [pc EXCEPT ![r] = "idle"]
    /\ runJob' = [runJob EXCEPT ![r] = NoJob]
    /\ result' = [result EXCEPT ![r] = "none"]
    /\ flag' = [flag EXCEPT ![r] = FALSE]
    /\ UNCHANGED <<type, state, reqVars, history>>

-----------------------------------------------------------------------------
\* A run works on job j, or a request is about to spawn one.
Held(j) ==
    \/ \E r \in Run : runJob[r] = j
    \/ \E q \in Request : reqJob[q] = j /\ AboutToSpawn(q)

\* The process dies and starts again: only the table survives (and what the
\* dashboards have received), and nothing at start-up looks at the rows that
\* are queued or running.
Crash ==
    /\ "crash" \in Faults
    /\ cancels' = [j \in Job |-> NoRun]
    /\ flag' = [r \in Run |-> FALSE]
    /\ pc' = [r \in Run |-> "idle"]
    /\ runJob' = [r \in Run |-> NoJob]
    /\ result' = [r \in Run |-> "none"]
    /\ at' = [q \in Request |-> "idle"]
    /\ reqJob' = [q \in Request |-> NoJob]
    /\ orphaned' = orphaned \cup {j \in Job : Held(j)}
    /\ UNCHANGED <<type, state, lastEvent, contended>>

RunStep(r) ==
    \/ RunStarting(r) \/ RunCheckCancel(r)
    \/ RunWriteCancelled(r) \/ RunPublishCancelled(r)
    \/ RunWriteStage(r) \/ RunPublishStage(r)
    \/ RunDispatch(r) \/ RunLoadConfigFails(r)
    \/ \E res \in {"ok", "failed"} : RunReply(r, res)
    \/ RunFinish(r) \/ RunEnd(r)

RequestStep(q) ==
    \/ \E r \in Run : StartSpawn(q, r) \/ RetrySpawn(q, r)
    \/ RetryCheckFree(q) \/ RetryRequeue(q) \/ CancelFlag(q)

NewRequest(q) ==
    \/ \E j \in Job, t \in Types : Start(q, j, t)
    \/ \E j \in Job : RetryLookup(q, j) \/ CancelLookup(q, j)

Next ==
    \/ \E r \in Run : RunStep(r)
    \/ \E q \in Request : RequestStep(q) \/ NewRequest(q) \/ DropRequest(q)
    \/ Crash

Spec == Init /\ [][Next]_vars

\* The tokio runtime polls every task that is ready, and a dispatched command
\* ends: PMP answers or its connection closes, a deployment command is killed
\* at its timeout.  Clients owe nothing.
FairSpec ==
    /\ Spec
    /\ \A r \in Run : WF_vars(RunStep(r))
    /\ \A q \in Request : WF_vars(RequestStep(q))

-----------------------------------------------------------------------------
(* Properties.                                                             *)

TypeOK ==
    /\ type \in [Job -> Types \cup {NoType}]
    /\ state \in [Job -> States]
    /\ cancels \in [Job -> Run \cup {NoRun}]
    /\ flag \in [Run -> BOOLEAN]
    /\ pc \in [Run -> Pcs]
    /\ runJob \in [Run -> Job \cup {NoJob}]
    /\ result \in [Run -> {"none", "ok", "failed", "cancelled"}]
    /\ at \in [Request -> {"idle", "inserted", "looked", "free", "requeued", "cancelling"}]
    /\ reqJob \in [Request -> Job \cup {NoJob}]
    /\ lastEvent \in [Job -> States]
    /\ contended \subseteq Job
    /\ orphaned \subseteq Job
    /\ \A j \in Job : state[j] = "none" <=> type[j] = NoType
    /\ \A r \in Run : /\ pc[r] = "idle" <=> runJob[r] = NoJob
                      /\ runJob[r] \in Job => state[runJob[r]] # "none"
    /\ \A q \in Request : /\ at[q] = "idle" <=> reqJob[q] = NoJob
                          /\ reqJob[q] \in Job => state[reqJob[q]] # "none"

Dispatched == {r \in Run : pc[r] = "dispatched"}

\* Two commands for one resource are never out at the same time, what the
\* index of migration 0007 is there for, unless a retry re-queued one of the
\* two jobs over an execution, or another retry, that was still under way.
\* It holds through crashes, failed writes and dropped requests.
NoOverlap ==
    \A r1, r2 \in Dispatched :
        /\ r1 # r2
        /\ Key(runJob[r1]) = Key(runJob[r2])
        => runJob[r1] \in contended \/ runJob[r2] \in contended

\* The same without the exception: jobs under one resource_key "can never
\* overlap" (jobs/registry.rs).
KeyIsExclusive ==
    \A r1, r2 \in Dispatched : r1 # r2 => Key(runJob[r1]) # Key(runJob[r2])

\* NoOverlap is not inductive: these are the facts it rests on.
RowsExclusive ==
    \A i, j \in Job : i # j /\ state[i] \in Active /\ state[j] \in Active => Key(i) # Key(j)
SpawnIsFresh ==
    \A q \in Request : AboutToSpawn(q) /\ reqJob[q] \notin contended =>
        /\ state[reqJob[q]] = "queued"
        /\ \A r \in Run : runJob[r] # reqJob[q]
        /\ \A p \in Request \ {q} : AboutToSpawn(p) => reqJob[p] # reqJob[q]
OneRunPerJob ==
    \A r1, r2 \in Run : r1 # r2 /\ runJob[r1] = runJob[r2] => runJob[r1] \in contended \cup {NoJob}
RunHoldsRow ==
    \A r \in Run : /\ pc[r] \in BeforeDispatch \cup {"cancelling", "dispatched"}
                   /\ runJob[r] \notin contended
                   => state[runJob[r]] \in Active
ExclusionInv ==
    /\ TypeOK
    /\ RowsExclusive
    /\ SpawnIsFresh
    /\ OneRunPerJob
    /\ RunHoldsRow

\* A row never outlives its driver: whenever a row is queued or running, and
\* so keeps its resource locked, a run or a request about to spawn one is
\* still going to move it, unless a crash, a client that left or a failed
\* write took the driver away.  (Nothing in the code releases such a row.)
DrivenBy(j) ==
    \/ \E r \in Run : runJob[r] = j /\ pc[r] # "finished"
    \/ \E q \in Request : reqJob[q] = j /\ AboutToSpawn(q)

ActiveRowHasDriver ==
    \A j \in Job : state[j] \in Active => DrivenBy(j) \/ j \in orphaned

\* A registered cancel flag always belongs to a live run of that very job:
\* flags are neither leaked after a run ends nor handed to another job.
FlagsBelongToLiveRuns ==
    \A j \in Job : cancels[j] # NoRun =>
        /\ pc[cancels[j]] # "idle"
        /\ runJob[cancels[j]] = j

\* Once nothing works on a job any more, the last job.updated event a dashboard
\* received tells the state the row ended in, unless executions of the job
\* overlapped or its driver was lost.
LastEventIsFinalState ==
    \A j \in Job :
        /\ state[j] # "none"
        /\ ~ Held(j)
        /\ j \notin contended \cup orphaned
        => lastEvent[j] = state[j]

\* Every queued or running job reaches a terminal state, or has lost its driver.
JobsSettle ==
    \A j \in Job : state[j] \in Active ~> state[j] \in Terminal \/ j \in orphaned
=============================================================================
