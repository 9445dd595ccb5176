------------------------------ MODULE Runbooks ------------------------------
(***************************************************************************)
(* Automation: one runbook, edited and deleted by administrators, and the  *)
(* handlers that run it.  A run loads the definition, inserts its row with *)
(* a snapshot, executes the steps one after the other inside the HTTP      *)
(* request and writes the final status; a cancel only updates the row.     *)
(*                                                                         *)
(* A step is a wait, a long-running action (refused) or an action, which   *)
(* is submitted to the command broker and awaited.  Arguments, redaction   *)
(* and audit are left out.                                                 *)
(***************************************************************************)
EXTENDS Naturals, Sequences

CONSTANTS
    Run,
    Wait,         \* wait-only steps
    Long,         \* steps with a long-running or job-only action
    Action,       \* steps with any other action
    Definition,   \* the definitions administrators save
    Faults,       \* which of "drop", "error", "delete" can happen
    NoDefinition

Step == Wait \cup Long \cup Action

ASSUME RunbooksAssumption ==
    /\ Definition \subseteq Seq(Step)
    /\ NoDefinition \notin Definition
    /\ Faults \subseteq {"drop", "error", "delete"}
    /\ Wait \cap Long = {}
    /\ Wait \cap Action = {}
    /\ Long \cap Action = {}

VARIABLES
    book,       \* the stored definition
    permitted,  \* whether the principal holds the actions' permissions
    row,        \* runbook_runs.status
    snapshot,   \* runbook_runs.definition_snapshot
    pc,         \* where the handler of every run stands
    loaded,     \* the definition the handler has in memory
    at,         \* the step it is on
    ok,         \* its verdict so far
    ran,        \* the actions it submitted, in order
    good,       \* how many of them were answered Ok
    abandoned   \* history: runs whose handler ended before its final update

vars == <<book, permitted, row, snapshot, pc, loaded, at, ok, ran, good, abandoned>>
storeVars == <<book, permitted, row, snapshot>>
progressVars == <<loaded, at, ok, ran, good, abandoned>>

Running == {"fetched", "step", "sleep", "authorize", "submit", "awaiting", "finish"}

Init ==
    /\ book \in Definition
    /\ permitted = TRUE
    /\ row = [r \in Run |-> "none"]
    /\ snapshot = [r \in Run |-> NoDefinition]
    /\ pc = [r \in Run |-> "none"]
    /\ loaded = [r \in Run |-> NoDefinition]
    /\ at = [r \in Run |-> 1]
    /\ ok = [r \in Run |-> TRUE]
    /\ ran = [r \in Run |-> <<>>]
    /\ good = [r \in Run |-> 0]
    /\ abandoned = {}

-----------------------------------------------------------------------------
(* Administrators.                                                         *)

Update(d) ==
    /\ book # NoDefinition
    /\ book' = d
    /\ UNCHANGED <<permitted, row, snapshot, pc, progressVars>>

\* The rows of its runs go with the runbook (ON DELETE CASCADE).
DeleteRunbook ==
    /\ "delete" \in Faults
    /\ book # NoDefinition
    /\ book' = NoDefinition
    /\ row' = [r \in Run |-> IF row[r] = "none" THEN "none" ELSE "deleted"]
    /\ UNCHANGED <<permitted, snapshot, pc, progressVars>>

SetPermission ==
    /\ permitted' = ~permitted
    /\ UNCHANGED <<book, row, snapshot, pc, progressVars>>

CancelRun(r) ==
    /\ row[r] = "running"
    /\ row' = [row EXCEPT ![r] = "cancelled"]
    /\ UNCHANGED <<book, permitted, snapshot, pc, progressVars>>

-----------------------------------------------------------------------------
(* The handler of a run.                                                   *)

Goto(r, to) == pc' = [pc EXCEPT ![r] = to]

Fetch(r) ==
    /\ pc[r] = "none"
    /\ book # NoDefinition
    /\ Goto(r, "fetched")
    /\ loaded' = [loaded EXCEPT ![r] = book]
    /\ UNCHANGED <<storeVars, at, ok, ran, good, abandoned>>

\* The row refers to the runbook: without it the insert fails.
InsertRereads(r) ==
    /\ pc[r] = "fetched"
    /\ IF book # NoDefinition
       THEN /\ row' = [row EXCEPT ![r] = "running"]
            /\ snapshot' = [snapshot EXCEPT ![r] = book]
            /\ Goto(r, "step")
       ELSE Goto(r, "done") /\ UNCHANGED <<row, snapshot>>
    /\ UNCHANGED <<book, permitted, progressVars>>
Insert(r) ==
    /\ pc[r] = "fetched"
    /\ IF book # NoDefinition
       THEN /\ row' = [row EXCEPT ![r] = "running"]
            /\ snapshot' = [snapshot EXCEPT ![r] = loaded[r]]
            /\ Goto(r, "step")
       ELSE Goto(r, "done") /\ UNCHANGED <<row, snapshot>>
    /\ UNCHANGED <<book, permitted, progressVars>>

Current(r) == loaded[r][at[r]]

\* The head of the loop.
StepsLeft(r) == at[r] <= Len(loaded[r])

StepEnd(r) ==
    /\ pc[r] = "step"
    /\ ~StepsLeft(r)
    /\ Goto(r, "finish")
    /\ UNCHANGED <<storeVars, progressVars>>

StepWait(r) ==
    /\ pc[r] = "step"
    /\ StepsLeft(r) /\ Current(r) \in Wait
    /\ Goto(r, "sleep")
    /\ UNCHANGED <<storeVars, progressVars>>

StepLongReturns(r) ==
    /\ pc[r] = "step"
    /\ StepsLeft(r) /\ Current(r) \in Long
    /\ ok' = [ok EXCEPT ![r] = FALSE]
    /\ Goto(r, "done")
    /\ UNCHANGED <<storeVars, loaded, at, ran, good, abandoned>>
StepLong(r) ==
    /\ pc[r] = "step"
    /\ StepsLeft(r) /\ Current(r) \in Long
    /\ ok' = [ok EXCEPT ![r] = FALSE]
    /\ Goto(r, "finish")
    /\ UNCHANGED <<storeVars, loaded, at, ran, good, abandoned>>

StepAction(r) ==
    /\ pc[r] = "step"
    /\ StepsLeft(r) /\ Current(r) \in Action
    /\ Goto(r, "authorize")
    /\ UNCHANGED <<storeVars, progressVars>>

Sleep(r) ==
    /\ pc[r] = "sleep"
    /\ at' = [at EXCEPT ![r] = @ + 1]
    /\ Goto(r, "step")
    /\ UNCHANGED <<storeVars, loaded, ok, ran, good, abandoned>>

\* Every action is authorized again when its turn comes.
Authorize(r) ==
    /\ pc[r] = "authorize"
    /\ ok' = [ok EXCEPT ![r] = permitted]
    /\ Goto(r, IF permitted THEN "submit" ELSE "finish")
    /\ UNCHANGED <<storeVars, loaded, at, ran, good, abandoned>>

Submit(r) ==
    /\ pc[r] = "submit"
    /\ ran' = [ran EXCEPT ![r] = Append(@, Current(r))]
    /\ Goto(r, "awaiting")
    /\ UNCHANGED <<storeVars, loaded, at, ok, good, abandoned>>

\* The completion channel: the command's Ok, then the step's own wait; its
\* Err, or a dropped sender, ends the loop.
Completed(r) ==
    /\ pc[r] = "awaiting"
    /\ good' = [good EXCEPT ![r] = @ + 1]
    /\ Goto(r, "sleep")
    /\ UNCHANGED <<storeVars, loaded, at, ok, ran, abandoned>>

CommandFailedIgnored(r) ==
    /\ pc[r] = "awaiting"
    /\ Goto(r, "finish")
    /\ UNCHANGED <<storeVars, progressVars>>
CommandFailed(r) ==
    /\ pc[r] = "awaiting"
    /\ ok' = [ok EXCEPT ![r] = FALSE]
    /\ Goto(r, "finish")
    /\ UNCHANGED <<storeVars, loaded, at, ran, good, abandoned>>

\* The final UPDATE, whatever the status is by now.
FinishOtherStatus(r) ==
    /\ pc[r] = "finish"
    /\ row' = IF row[r] = "deleted" THEN row ELSE [row EXCEPT ![r] = "finished"]
    /\ Goto(r, "done")
    /\ UNCHANGED <<book, permitted, snapshot, progressVars>>
Finish(r) ==
    /\ pc[r] = "finish"
    /\ row' = IF row[r] = "deleted" THEN row
              ELSE [row EXCEPT ![r] = IF ok[r] THEN "succeeded" ELSE "failed"]
    /\ Goto(r, "done")
    /\ UNCHANGED <<book, permitted, snapshot, progressVars>>

\* The handler of run r ends where it stands; its row stays as it is.
Abandon(r) ==
    /\ Goto(r, "done")
    /\ abandoned' = abandoned \cup {r}
    /\ UNCHANGED <<storeVars, loaded, at, ok, ran, good>>

\* A reauth context that has expired by this step, a failing query (insert of
\* the run, permission, insert of the command, final update) or a full queue
\* returns from the handler.
EarlyReturn(r) ==
    /\ "error" \in Faults
    /\ pc[r] \in {"fetched", "authorize", "submit", "finish"}
    /\ Abandon(r)

\* The administrator's client goes away and the handler is dropped where it
\* awaits.
Drop(r) ==
    /\ "drop" \in Faults
    /\ pc[r] \in Running
    /\ Abandon(r)

HandlerStep(r) ==
    \/ Insert(r) \/ StepEnd(r) \/ StepWait(r) \/ StepLong(r) \/ StepAction(r) \/ Sleep(r)
    \/ Authorize(r) \/ Submit(r) \/ Completed(r) \/ CommandFailed(r) \/ Finish(r)

Next ==
    \/ \E d \in Definition : Update(d)
    \/ DeleteRunbook
    \/ SetPermission
    \/ \E r \in Run : CancelRun(r) \/ Fetch(r) \/ HandlerStep(r) \/ EarlyReturn(r) \/ Drop(r)

Spec == Init /\ [][Next]_vars

\* The runtime polls the handler, and the command it awaits ends: the broker
\* answers or drops every completion it was given (CommandsAreAudited
\* and WaitersAreServed of CommandBroker).
FairSpec == Spec /\ \A r \in Run : WF_vars(HandlerStep(r))

-----------------------------------------------------------------------------
(* Properties.                                                             *)

TypeOK ==
    /\ book \in Definition \cup {NoDefinition}
    /\ permitted \in BOOLEAN
    /\ row \in [Run -> {"none", "running", "cancelled", "succeeded", "failed", "deleted"}]
    /\ snapshot \in [Run -> Definition \cup {NoDefinition}]
    /\ pc \in [Run -> {"none", "done"} \cup Running]
    /\ loaded \in [Run -> Definition \cup {NoDefinition}]
    /\ at \in [Run -> Nat \ {0}]
    /\ ok \in [Run -> BOOLEAN]
    /\ ran \in [Run -> Seq(Action)]
    /\ good \in [Run -> Nat]
    /\ abandoned \subseteq Run

\* The commands s are the actions among the first n steps of d, each once
\* and in their order: f[i] is the step the i-th command was submitted for.
ActionsOf(s, d, n) ==
    \E f \in [1..Len(s) -> 1..n] :
        /\ \A i \in 1..Len(s) : s[i] = d[f[i]]
        /\ \A i, j \in 1..Len(s) : i < j => f[i] < f[j]
        /\ {f[i] : i \in 1..Len(s)} = {m \in 1..n : d[m] \in Action}

\* The snapshot kept for audit is what ran: the commands submitted so far are
\* the first actions of the snapshot in its order, however the runbook was
\* edited meanwhile.
RanTheSnapshot ==
    \A r \in Run : row[r] # "none" /\ snapshot[r] # NoDefinition =>
        \E n \in 0..Len(snapshot[r]) : ActionsOf(ran[r], snapshot[r], n)

\* A run is recorded as succeeded only when every action of its snapshot was
\* executed and answered Ok, and no step was refused.
SucceededMeansAll ==
    \A r \in Run : row[r] = "succeeded" =>
        /\ ActionsOf(ran[r], snapshot[r], Len(snapshot[r]))
        /\ good[r] = Len(ran[r])
        /\ \A n \in 1..Len(snapshot[r]) : snapshot[r][n] \notin Long

(* The snapshot kept for audit is what a run executed, and a run recorded  *)
(* as succeeded executed all of it, each action answered Ok, however the   *)
(* runbook was edited meanwhile.  automation/routes.rs:317-505.            *)
RunsAreTrue == TypeOK /\ RanTheSnapshot /\ SucceededMeansAll

\* A run does not stay "running", unless an error or the end of its client's
\* connection ended its handler: refused steps, denied permissions, failed
\* commands, edits and deletions all lead to a final status.
RunsEnd == \A r \in Run : row[r] = "running" ~> row[r] # "running" \/ r \in abandoned
=============================================================================
