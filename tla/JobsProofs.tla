----------------------------- MODULE JobsProofs -----------------------------
(***************************************************************************)
(* Theorems about the job plane, for every set of jobs, runs and requests. *)
(***************************************************************************)
EXTENDS Jobs, TLAPS

\* Every step of a handler, a run or a crash keeps the type invariant.
LEMMA TypeStep == TypeOK /\ [Next]_vars => TypeOK'
<1> SUFFICES ASSUME TypeOK, [Next]_vars PROVE TypeOK'
  OBVIOUS
<1> USE JobsAssumption DEF TypeOK, States, Active, Terminal, Pcs, BeforeDispatch, Cancelling
<1>1. ASSUME NEW q \in Request, NEW r \in Run, NEW a \in {"inserted", "requeued"},
             at[q] = a, Spawn(q, r)
      PROVE  TypeOK'
  BY <1>1 DEF Spawn, history
<1>2. ASSUME NEW q \in Request, NEW j \in Job, NEW t \in Types, Start(q, j, t)
      PROVE  TypeOK'
  BY <1>2 DEF Start, runVars, history
<1>3. ASSUME NEW q \in Request, NEW a \in {"looked", "free", "cancelling"}, NEW j \in Job,
             state[j] # "none", Advance(q, a, j), orphaned' \in SUBSET Job
      PROVE  TypeOK'
  BY <1>3 DEF Advance, runVars
<1>4. ASSUME NEW q \in Request, Advance(q, "idle", NoJob), orphaned' \in SUBSET Job
      PROVE  TypeOK'
  BY <1>4 DEF Advance, runVars
<1>5. ASSUME NEW q \in Request, RetryRequeue(q)
      PROVE  TypeOK'
  <2>1. CASE Advance(q, "idle", NoJob)
    BY <1>4, <1>5, <2>1 DEF RetryRequeue
  <2>2. CASE ~ Advance(q, "idle", NoJob)
    BY <1>5, <2>2 DEF RetryRequeue, runVars
  <2> QED BY <2>1, <2>2
<1>6. ASSUME NEW q \in Request, CancelFlag(q)
      PROVE  TypeOK'
  BY <1>6 DEF CancelFlag, history
<1>7. ASSUME NEW r \in Run, NEW from \in Pcs \ {"idle"}, NEW s \in Active \cup Terminal,
             NEW p \in Pcs \ {"idle"}, RunWrite(r, from, s, p)
      PROVE  TypeOK'
  BY <1>7 DEF RunWrite, UpdateState, reqVars
<1>8. ASSUME NEW r \in Run, RunStep(r)
      PROVE  TypeOK'
  <2>1. CASE RunStarting(r)
    BY <1>7, <2>1 DEF RunStarting
  <2>2. CASE RunCheckCancel(r)
    BY <2>2 DEF RunCheckCancel, Publish, reqVars, history
  <2>3. CASE RunWriteCancelled(r)
    BY <1>7, <2>3 DEF RunWriteCancelled
  <2>4. CASE RunPublishCancelled(r)
    BY <2>4 DEF RunPublishCancelled, Publish, reqVars, history
  <2>5. CASE RunWriteStage(r)
    BY <1>7, <2>5 DEF RunWriteStage
  <2>6. CASE RunPublishStage(r)
    BY <2>6 DEF RunPublishStage, Publish, reqVars, history
  <2>7. CASE RunDispatch(r)
    BY <2>7 DEF RunDispatch, reqVars, history
  <2>8. CASE RunLoadConfigFails(r)
    BY <2>8 DEF RunLoadConfigFails, RunReturn, reqVars, history
  <2>9. CASE \E res \in {"ok", "failed"} : RunReply(r, res)
    BY <2>9 DEF RunReply, RunReturn, reqVars, history
  <2>10. CASE RunFinish(r)
    BY <1>7, <2>10 DEF RunFinish, FinalState
  <2>11. CASE RunEnd(r)
    BY <2>11 DEF RunEnd, Publish, FinalState, reqVars, history
  <2> QED
    BY <1>8, <2>1, <2>2, <2>3, <2>4, <2>5, <2>6, <2>7, <2>8, <2>9, <2>10, <2>11 DEF RunStep
<1>9. ASSUME NEW q \in Request, RequestStep(q) \/ NewRequest(q) \/ DropRequest(q)
      PROVE  TypeOK'
  <2>1. CASE \E r \in Run : StartSpawn(q, r) \/ RetrySpawn(q, r)
    BY <1>1, <2>1 DEF StartSpawn, RetrySpawn
  <2>2. CASE RetryCheckFree(q)
    BY <1>3, <1>4, <2>2 DEF RetryCheckFree
  <2>3. CASE \E j \in Job, t \in Types : Start(q, j, t)
    BY <1>2, <2>3
  <2>4. CASE \E j \in Job : RetryLookup(q, j) \/ CancelLookup(q, j)
    BY <1>3, <2>4 DEF RetryLookup, CancelLookup
  <2>5. CASE DropRequest(q)
    BY <1>4, <2>5 DEF DropRequest, AboutToSpawn
  <2> QED
    BY <1>5, <1>6, <1>9, <2>1, <2>2, <2>3, <2>4, <2>5 DEF RequestStep, NewRequest
<1>10. CASE Crash
  BY <1>10 DEF Crash
<1>11. CASE UNCHANGED vars
  BY <1>11 DEF vars
<1> QED
  BY <1>8, <1>9, <1>10, <1>11 DEF Next

\* The type invariant of the job table, the runner and the handlers
\* (runner.rs, jobs/mod.rs): every row, run and request stays in its domain,
\* and whatever a run or a request works on is a row of the table.
THEOREM TypeCorrect == Spec => []TypeOK
<1>1. Init => TypeOK
  BY JobsAssumption DEF Init, TypeOK, States, Pcs, Active, Terminal
<1> QED
  BY <1>1, TypeStep, PTL DEF Spec

-----------------------------------------------------------------------------
\* Nothing is under way at first: the facts mutual exclusion rests on hold.
LEMMA ExclusionInit == Init => ExclusionInv
<1> SUFFICES ASSUME Init PROVE ExclusionInv
  OBVIOUS
<1>1. TypeOK
  BY JobsAssumption DEF Init, TypeOK, States, Pcs, Active, Terminal
<1> QED
  BY <1>1 DEF Init, ExclusionInv, RowsExclusive, SpawnIsFresh, AboutToSpawn,
              OneRunPerJob, RunHoldsRow, Active, BeforeDispatch

\* Every step keeps the facts mutual exclusion rests on.
LEMMA ExclusionStep == ExclusionInv /\ [Next]_vars => ExclusionInv'
<1> SUFFICES ASSUME ExclusionInv, [Next]_vars PROVE ExclusionInv'
  OBVIOUS
<1>0. TypeOK /\ TypeOK'
  BY TypeStep DEF ExclusionInv
<1> DEFINE Rest == RowsExclusive /\ SpawnIsFresh /\ OneRunPerJob /\ RunHoldsRow
<1> SUFFICES Rest'
  BY <1>0 DEF ExclusionInv
<1> USE <1>0, JobsAssumption DEF ExclusionInv, RowsExclusive, SpawnIsFresh, AboutToSpawn,
                OneRunPerJob, RunHoldsRow, TypeOK, Active, BeforeDispatch, Key, history
<1>1. ASSUME NEW q \in Request, NEW r \in Run, AboutToSpawn(q), Spawn(q, r)
      PROVE  Rest'
  BY <1>1 DEF Spawn
<1>2. ASSUME NEW q \in Request, NEW j \in Job, NEW t \in Types, Start(q, j, t)
      PROVE  Rest'
  BY <1>2 DEF Start, runVars, IndexAllows
<1>3. ASSUME NEW q \in Request, NEW a \in {"idle", "cancelling", "looked", "free"},
             NEW j \in Job \cup {NoJob}, Advance(q, a, j)
      PROVE  Rest'
  BY <1>3 DEF Advance, runVars
<1>4. ASSUME NEW q \in Request, CancelFlag(q)
      PROVE  Rest'
  BY <1>4 DEF CancelFlag
<1>5. ASSUME NEW q \in Request, RetryRequeue(q)
      PROVE  Rest'
  <2>1. CASE Advance(q, "idle", NoJob)
    BY <1>3, <2>1
  <2>2. CASE ~ Advance(q, "idle", NoJob)
    <3>1. /\ at[q] = "free"
          /\ IndexAllows(reqJob[q], Key(reqJob[q]), "queued")
          /\ state' = [state EXCEPT ![reqJob[q]] = "queued"]
          /\ at' = [at EXCEPT ![q] = "requeued"]
          /\ contended' = IF \/ state[reqJob[q]] \notin {"failed", "cancelled"}
                             \/ \E r \in Run : runJob[r] = reqJob[q]
                          THEN contended \cup {reqJob[q]} ELSE contended
          /\ UNCHANGED <<type, runVars, reqJob, lastEvent>>
      BY <1>5, <2>2 DEF RetryRequeue
    <3>2. RowsExclusive' /\ OneRunPerJob' /\ RunHoldsRow'
      BY <3>1 DEF IndexAllows, runVars
    <3>3. SpawnIsFresh'
      <4>1. CASE reqJob[q] \in contended'
        BY <3>1, <4>1 DEF runVars
      <4>2. CASE reqJob[q] \notin contended'
        BY <3>1, <4>2 DEF runVars
      <4> QED BY <4>1, <4>2
    <3> QED BY <3>2, <3>3
  <2> QED BY <2>1, <2>2
<1>6. ASSUME NEW r \in Run, RunStep(r)
      PROVE  Rest'
  <2>1. CASE RunStarting(r)
    BY <2>1 DEF RunStarting, RunWrite, UpdateState, IndexAllows, reqVars
  <2>2. CASE RunCheckCancel(r)
    BY <2>2 DEF RunCheckCancel, reqVars
  <2>3. CASE RunWriteCancelled(r)
    BY <2>3 DEF RunWriteCancelled, RunWrite, UpdateState, IndexAllows, reqVars
  <2>4. CASE RunPublishCancelled(r)
    BY <2>4 DEF RunPublishCancelled, reqVars
  <2>5. CASE RunWriteStage(r)
    BY <2>5 DEF RunWriteStage, RunWrite, UpdateState, IndexAllows, reqVars
  <2>6. CASE RunPublishStage(r)
    BY <2>6 DEF RunPublishStage, reqVars
  <2>7. CASE RunDispatch(r)
    BY <2>7 DEF RunDispatch, reqVars
  <2>8. CASE RunLoadConfigFails(r)
    BY <2>8 DEF RunLoadConfigFails, RunReturn, reqVars
  <2>9. CASE \E res \in {"ok", "failed"} : RunReply(r, res)
    BY <2>9 DEF RunReply, RunReturn, reqVars
  <2>10. CASE RunFinish(r)
    BY <2>10 DEF RunFinish, FinalState, RunWrite, UpdateState, IndexAllows, reqVars
  <2>11. CASE RunEnd(r)
    BY <2>11 DEF RunEnd, reqVars
  <2> QED
    BY <1>6, <2>1, <2>2, <2>3, <2>4, <2>5, <2>6, <2>7, <2>8, <2>9, <2>10, <2>11 DEF RunStep
<1>7. ASSUME NEW q \in Request, RequestStep(q) \/ NewRequest(q) \/ DropRequest(q)
      PROVE  Rest'
  <2>1. CASE \E r \in Run : StartSpawn(q, r) \/ RetrySpawn(q, r)
    BY <1>1, <2>1 DEF StartSpawn, RetrySpawn
  <2>2. CASE RetryCheckFree(q)
    BY <1>3, <2>2 DEF RetryCheckFree
  <2>3. CASE \E j \in Job, t \in Types : Start(q, j, t)
    BY <1>2, <2>3
  <2>4. CASE \E j \in Job : RetryLookup(q, j) \/ CancelLookup(q, j)
    BY <1>3, <2>4 DEF RetryLookup, CancelLookup
  <2>5. CASE DropRequest(q)
    BY <1>3, <2>5 DEF DropRequest
  <2> QED
    BY <1>4, <1>5, <1>7, <2>1, <2>2, <2>3, <2>4, <2>5 DEF RequestStep, NewRequest
<1>8. CASE Crash
  BY <1>8 DEF Crash
<1>9. CASE UNCHANGED vars
  BY <1>9 DEF vars
<1> QED
  BY <1>6, <1>7, <1>8, <1>9 DEF Next

\* Two commands for one resource are never out at once (the purpose of
\* migration 0007), whatever crashes, failed writes and dropped requests
\* happen, unless a retry re-queued one of the jobs while something still
\* drove it: the unguarded UPDATE of the retry route is the only way to break
\* mutual exclusion.
THEOREM Exclusion == Spec => []NoOverlap
<1>1. ExclusionInv => NoOverlap
  BY JobsAssumption DEF ExclusionInv, NoOverlap, Dispatched, TypeOK, RowsExclusive,
                        OneRunPerJob, RunHoldsRow
<1> QED
  BY <1>1, ExclusionInit, ExclusionStep, PTL DEF Spec

-----------------------------------------------------------------------------
\* A registered cancel flag belongs to a live run of that very job, through
\* retries, overlapping runs of one job and crashes: `cancels` neither leaks
\* entries nor hands a flag to another job.
THEOREM FlagsSound == Spec => []FlagsBelongToLiveRuns
<1> DEFINE Inv == TypeOK /\ FlagsBelongToLiveRuns
<1>1. Init => Inv
  <2> SUFFICES ASSUME Init PROVE Inv
    OBVIOUS
  <2>1. TypeOK
    BY JobsAssumption DEF Init, TypeOK, States, Pcs, Active, Terminal
  <2> QED
    BY <2>1 DEF Init, FlagsBelongToLiveRuns
<1>2. Inv /\ [Next]_vars => Inv'
  <2> SUFFICES ASSUME Inv, [Next]_vars PROVE FlagsBelongToLiveRuns'
    BY TypeStep
  <2> USE JobsAssumption DEF TypeOK, FlagsBelongToLiveRuns
  <2>1. ASSUME NEW q \in Request, NEW r \in Run, at[q] # "idle", Spawn(q, r)
        PROVE  FlagsBelongToLiveRuns'
    BY <2>1 DEF Spawn
  <2>2. ASSUME NEW r \in Run, RunStep(r)
        PROVE  FlagsBelongToLiveRuns'
    <3>1. CASE RunEnd(r)
      BY <3>1 DEF RunEnd
    <3>2. CASE ~ RunEnd(r)
      BY <2>2, <3>2 DEF RunStep, RunStarting, RunCheckCancel, RunWriteCancelled,
           RunPublishCancelled, RunWriteStage, RunPublishStage, RunDispatch, RunLoadConfigFails,
           RunReply, RunFinish, RunWrite, RunReturn
    <3> QED BY <3>1, <3>2
  <2>3. ASSUME NEW q \in Request, RequestStep(q) \/ NewRequest(q) \/ DropRequest(q)
        PROVE  FlagsBelongToLiveRuns'
    <3>1. CASE \E r \in Run : StartSpawn(q, r) \/ RetrySpawn(q, r)
      BY <2>1, <3>1 DEF StartSpawn, RetrySpawn
    <3>2. CASE ~ \E r \in Run : StartSpawn(q, r) \/ RetrySpawn(q, r)
      BY <2>3, <3>2 DEF RequestStep, NewRequest, DropRequest, RetryCheckFree, RetryRequeue,
           CancelFlag, Start, RetryLookup, CancelLookup, Advance, runVars
    <3> QED BY <3>1, <3>2
  <2>4. CASE Crash
    BY <2>4 DEF Crash
  <2>5. CASE UNCHANGED vars
    BY <2>5 DEF vars
  <2> QED
    BY <2>2, <2>3, <2>4, <2>5 DEF Next
<1> QED
  BY <1>1, <1>2, PTL DEF Spec

\* A row that keeps its resource locked has a run, or a request about to spawn
\* one, that is still going to release it, unless a crash, a dropped request or
\* a failed final write took its driver away: no interleaving of starts,
\* cancels, retries and runs alone strands a resource.
THEOREM NoStrandedRow == Spec => []ActiveRowHasDriver
<1> DEFINE Inv == TypeOK /\ ActiveRowHasDriver
<1>1. Init => Inv
  <2> SUFFICES ASSUME Init PROVE Inv
    OBVIOUS
  <2>1. TypeOK
    BY JobsAssumption DEF Init, TypeOK, States, Pcs, Active, Terminal
  <2> QED
    BY <2>1 DEF Init, ActiveRowHasDriver, Active
<1>2. Inv /\ [Next]_vars => Inv'
  <2> SUFFICES ASSUME Inv, [Next]_vars PROVE ActiveRowHasDriver'
    BY TypeStep
  <2> USE JobsAssumption DEF TypeOK, ActiveRowHasDriver, DrivenBy, AboutToSpawn, Active, Terminal, Pcs,
                              BeforeDispatch, Cancelling, history
  <2>1. ASSUME NEW q \in Request, NEW r \in Run, AboutToSpawn(q), Spawn(q, r)
        PROVE  ActiveRowHasDriver'
    BY <2>1 DEF Spawn
  <2>2. ASSUME NEW r \in Run, NEW from \in Pcs \ {"idle", "finished"}, NEW s,
               NEW p \in Pcs \ {"idle", "finished"}, RunWrite(r, from, s, p)
        PROVE  ActiveRowHasDriver'
    BY <2>2 DEF RunWrite, UpdateState, reqVars
  <2>3. ASSUME NEW r \in Run, RunStep(r)
        PROVE  ActiveRowHasDriver'
    <3>1. CASE RunStarting(r) \/ RunWriteCancelled(r) \/ RunWriteStage(r)
      BY <2>2, <3>1 DEF RunStarting, RunWriteCancelled, RunWriteStage
    <3>2. CASE RunCheckCancel(r) \/ RunPublishCancelled(r) \/ RunPublishStage(r)
      BY <3>2 DEF RunCheckCancel, RunPublishCancelled, RunPublishStage, reqVars
    <3>3. CASE RunDispatch(r)
      BY <3>3 DEF RunDispatch, reqVars
    <3>4. CASE RunLoadConfigFails(r) \/ \E res \in {"ok", "failed"} : RunReply(r, res)
      BY <3>4 DEF RunLoadConfigFails, RunReply, RunReturn, reqVars
    <3>5. CASE RunFinish(r)
      BY <3>5 DEF RunFinish, FinalState, RunWrite, UpdateState, IndexAllows, reqVars
    <3>6. CASE RunEnd(r)
      BY <3>6 DEF RunEnd, reqVars
    <3> QED
      BY <2>3, <3>1, <3>2, <3>3, <3>4, <3>5, <3>6 DEF RunStep
  <2>4. ASSUME NEW q \in Request, NEW j \in Job, NEW t \in Types, Start(q, j, t)
        PROVE  ActiveRowHasDriver'
    BY <2>4 DEF Start, runVars
  <2>5. ASSUME NEW q \in Request, NEW a, NEW j, ~ AboutToSpawn(q), Advance(q, a, j), UNCHANGED orphaned
        PROVE  ActiveRowHasDriver'
    BY <2>5 DEF Advance, runVars
  <2>6. ASSUME NEW q \in Request, RetryRequeue(q)
        PROVE  ActiveRowHasDriver'
    <3>1. CASE Advance(q, "idle", NoJob)
      BY <2>5, <2>6, <3>1 DEF RetryRequeue
    <3>2. CASE ~ Advance(q, "idle", NoJob)
      BY <2>6, <3>2 DEF RetryRequeue, runVars
    <3> QED BY <3>1, <3>2
  <2>7. ASSUME NEW q \in Request, CancelFlag(q)
        PROVE  ActiveRowHasDriver'
    BY <2>7 DEF CancelFlag
  <2>8. ASSUME NEW q \in Request, RequestStep(q) \/ NewRequest(q) \/ DropRequest(q)
        PROVE  ActiveRowHasDriver'
    <3>1. CASE \E r \in Run : StartSpawn(q, r) \/ RetrySpawn(q, r)
      BY <2>1, <3>1 DEF StartSpawn, RetrySpawn
    <3>2. CASE RetryCheckFree(q)
      BY <2>5, <3>2 DEF RetryCheckFree
    <3>3. CASE \E j \in Job : RetryLookup(q, j) \/ CancelLookup(q, j)
      BY <2>5, <3>3 DEF RetryLookup, CancelLookup
    <3>4. CASE DropRequest(q)
      BY <3>4 DEF DropRequest, Advance, runVars
    <3> QED
      BY <2>4, <2>6, <2>7, <2>8, <3>1, <3>2, <3>3, <3>4 DEF RequestStep, NewRequest
  <2>9. CASE Crash
    BY <2>9 DEF Crash, Held
  <2>10. CASE UNCHANGED vars
    BY <2>10 DEF vars
  <2> QED
    BY <2>3, <2>8, <2>9, <2>10 DEF Next
<1> QED
  BY <1>1, <1>2, PTL DEF Spec

-----------------------------------------------------------------------------
\* A run that is through with its final write left the state it will publish,
\* unless its job is contended or the write failed.
FinishedIsWritten ==
    \A r \in Run : pc[r] = "finished" /\ runJob[r] \notin contended \cup orphaned
                     => state[runJob[r]] = FinalState(result[r])

EventInv == ExclusionInv /\ FinishedIsWritten /\ LastEventIsFinalState

\* Every step keeps the facts that tie the last event to the final state.
LEMMA EventStep == EventInv /\ [Next]_vars => EventInv'
<1> SUFFICES ASSUME EventInv, [Next]_vars PROVE (FinishedIsWritten /\ LastEventIsFinalState)'
  BY ExclusionStep DEF EventInv
<1> DEFINE Goal == FinishedIsWritten /\ LastEventIsFinalState
<1>0. TypeOK /\ TypeOK' /\ OneRunPerJob
  BY TypeStep DEF EventInv, ExclusionInv
<1> USE <1>0, JobsAssumption DEF EventInv, FinishedIsWritten, LastEventIsFinalState, TypeOK, Held,
          AboutToSpawn, OneRunPerJob, Terminal, history
<1>1. ASSUME NEW q \in Request, NEW r \in Run, AboutToSpawn(q), Spawn(q, r)
      PROVE  Goal'
  BY <1>1 DEF Spawn
<1>2. ASSUME NEW q \in Request, NEW j \in Job, NEW t \in Types, Start(q, j, t)
      PROVE  Goal'
  BY <1>2 DEF Start, runVars
<1>3. ASSUME NEW q \in Request, NEW a, NEW j, ~ AboutToSpawn(q), Advance(q, a, j), UNCHANGED orphaned
      PROVE  Goal'
  BY <1>3 DEF Advance, runVars
<1>4. ASSUME NEW q \in Request, RetryRequeue(q)
      PROVE  Goal'
  <2>1. CASE Advance(q, "idle", NoJob)
    BY <1>3, <1>4, <2>1 DEF RetryRequeue
  <2>2. CASE ~ Advance(q, "idle", NoJob)
    BY <1>4, <2>2 DEF RetryRequeue, runVars
  <2> QED BY <2>1, <2>2
<1>5. ASSUME NEW r \in Run, NEW from \in Pcs \ {"idle", "finished"}, NEW s,
             NEW p \in Pcs \ {"idle", "finished"}, RunWrite(r, from, s, p)
      PROVE  Goal'
  BY <1>5 DEF RunWrite, UpdateState, reqVars
<1>6. ASSUME NEW r \in Run, RunStep(r)
      PROVE  Goal'
  <2>1. CASE RunStarting(r) \/ RunWriteCancelled(r) \/ RunWriteStage(r)
    BY <1>5, <2>1 DEF RunStarting, RunWriteCancelled, RunWriteStage, Pcs, BeforeDispatch, Cancelling
  <2>2. CASE RunCheckCancel(r) \/ RunPublishCancelled(r) \/ RunPublishStage(r)
    BY <2>2 DEF RunCheckCancel, RunPublishCancelled, RunPublishStage, Publish, reqVars
  <2>3. CASE RunDispatch(r)
    BY <2>3 DEF RunDispatch, reqVars
  <2>4. CASE RunLoadConfigFails(r) \/ \E res \in {"ok", "failed"} : RunReply(r, res)
    BY <2>4 DEF RunLoadConfigFails, RunReply, RunReturn, reqVars
  <2>5. CASE RunFinish(r)
    BY <2>5 DEF RunFinish, FinalState, RunWrite, UpdateState, reqVars
  <2>6. CASE RunEnd(r)
    BY <2>6 DEF RunEnd, Publish, reqVars
  <2> QED
    BY <1>6, <2>1, <2>2, <2>3, <2>4, <2>5, <2>6 DEF RunStep
<1>7. ASSUME NEW q \in Request, RequestStep(q) \/ NewRequest(q) \/ DropRequest(q)
      PROVE  Goal'
  <2>1. CASE \E r \in Run : StartSpawn(q, r) \/ RetrySpawn(q, r)
    BY <1>1, <2>1 DEF StartSpawn, RetrySpawn
  <2>2. CASE RetryCheckFree(q)
    BY <1>3, <2>2 DEF RetryCheckFree
  <2>3. CASE CancelFlag(q)
    BY <2>3 DEF CancelFlag
  <2>4. CASE \E j \in Job : RetryLookup(q, j) \/ CancelLookup(q, j)
    BY <1>3, <2>4 DEF RetryLookup, CancelLookup
  <2>5. CASE DropRequest(q)
    BY <2>5 DEF DropRequest, Advance, runVars
  <2> QED
    BY <1>2, <1>4, <1>7, <2>1, <2>2, <2>3, <2>4, <2>5 DEF RequestStep, NewRequest
<1>8. CASE Crash
  BY <1>8 DEF Crash
<1>9. CASE UNCHANGED vars
  BY <1>9 DEF vars
<1> QED
  BY <1>6, <1>7, <1>8, <1>9 DEF Next

\* When nothing works on a job any more, the last job.updated event dashboards
\* received is the state its row ended in, through crashes, failed writes,
\* dropped requests and retries, but for jobs whose executions overlapped or
\* whose driver was lost.
THEOREM EventsFinal == Spec => []LastEventIsFinalState
<1>1. Init => EventInv
  BY ExclusionInit DEF Init, EventInv, FinishedIsWritten, LastEventIsFinalState
<1>2. EventInv => LastEventIsFinalState
  BY DEF EventInv
<1> QED
  BY <1>1, <1>2, EventStep, PTL DEF Spec
=============================================================================
