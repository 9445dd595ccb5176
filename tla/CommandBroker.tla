---------------------------- MODULE CommandBroker ----------------------------
(***************************************************************************)
(* The command plane: the handlers that submit a registered action, the    *)
(* broker with one bounded queue and one worker task per queue key, the    *)
(* executor that runs a command and records it, and the raw console route, *)
(* which runs its command in the handler itself.                           *)
(*                                                                         *)
(* Every action the routes let through is audited and none is              *)
(* long_running (the long_running seeds are job-only), so a submitting     *)
(* handler always waits on a completion channel.                           *)
(***************************************************************************)
EXTENDS Naturals, Sequences

CONSTANTS
    Command,    \* command ids
    Key,        \* queue keys, one per room, user or server
    Principal,  \* callers
    Capacity,   \* bound of a worker's channel (64 in the code)
    Faults,     \* which of "panic", "drop", "db", "crash" can happen
    NoCommand

ASSUME BrokerAssumption ==
    /\ Capacity \in Nat \ {0}
    /\ Faults \subseteq {"panic", "drop", "db", "crash"}
    /\ NoCommand \notin Command

VARIABLES
    runStatus, \* command_runs.status, "none" before the INSERT
    audit,     \* result in the command's audit event, "none" before it
    key,       \* queue key of a command
    caller,    \* who asked for a command
    client,    \* where the handler of a command stands, or what it answered
    queue,     \* the mpsc channel of every key
    worker,    \* where the worker task of every key stands
    current,   \* the command a worker works on
    sent,      \* commands handed to PMP
    outcome,   \* what the execution of a command returned
    taken,     \* commands try_send accepted
    lost,      \* history: commands a record of which was lost to a fault
    host       \* PMP: the real host of every room (key)

vars == <<runStatus, audit, key, caller, client, queue, worker, current,
          sent, outcome, taken, lost, host>>
rowVars == <<runStatus, audit>>
cmdVars == <<key, caller>>
workVars == <<queue, worker, current>>
pmpVars == <<sent, outcome, host>>

Outcomes == {"ok", "failed"}
Recorded(o) == IF o = "ok" THEN "succeeded" ELSE "failed"

Init ==
    /\ runStatus = [c \in Command |-> "none"]
    /\ audit = [c \in Command |-> "none"]
    /\ key \in [Command -> Key]
    /\ caller \in [Command -> Principal]
    /\ client = [c \in Command |-> "none"]
    /\ queue = [k \in Key |-> <<>>]
    /\ worker = [k \in Key |-> "none"]
    /\ current = [k \in Key |-> NoCommand]
    /\ sent = {}
    /\ outcome = [c \in Command |-> "none"]
    /\ taken = {}
    /\ lost = {}
    /\ host \in [Key -> Principal]

-----------------------------------------------------------------------------
(* The handler of an action.                                               *)

\* Authorisation (permission, or the real host asked of PMP), reauth, then
\* insert_queued.
ExecuteAction(c, permitted) ==
    /\ client[c] = "none"
    /\ permitted \/ host[key[c]] = caller[c]
    /\ runStatus' = [runStatus EXCEPT ![c] = "queued"]
    /\ client' = [client EXCEPT ![c] = "inserted"]
    /\ UNCHANGED <<audit, key, caller, workVars, taken, lost, pmpVars>>

\* submit: the key's worker is spawned on first use, then try_send.  A full
\* channel, or one whose worker is dead, refuses; the refusal is the error
\* code LongJobAccepted, which the error type maps to HTTP 202.
SubmitUnbounded(c) ==
    LET k == key[c] IN
    /\ client[c] = "inserted"
    /\ worker' = [worker EXCEPT ![k] = IF @ = "none" THEN "recv" ELSE @]
    /\ queue' = [queue EXCEPT ![k] = Append(@, c)]
    /\ taken' = taken \cup {c}
    /\ client' = [client EXCEPT ![c] = "waiting"]
    /\ UNCHANGED <<rowVars, cmdVars, current, lost, pmpVars>>
Submit(c) ==
    LET k == key[c] IN
    /\ client[c] = "inserted"
    /\ worker' = [worker EXCEPT ![k] = IF @ = "none" THEN "recv" ELSE @]
    /\ IF worker[k] # "dead" /\ Len(queue[k]) < Capacity
       THEN /\ queue' = [queue EXCEPT ![k] = Append(@, c)]
            /\ taken' = taken \cup {c}
            /\ client' = [client EXCEPT ![c] = "waiting"]
       ELSE /\ client' = [client EXCEPT ![c] = "202"]
            /\ UNCHANGED <<queue, taken>>
    /\ UNCHANGED <<rowVars, cmdVars, current, lost, pmpVars>>

\* The 30 s the handler waits are over: 502 "command timed out".
ClientTimeout(c) ==
    /\ client[c] = "waiting"
    /\ client' = [client EXCEPT ![c] = "timeout"]
    /\ UNCHANGED <<rowVars, cmdVars, workVars, taken, lost, pmpVars>>

\* The client goes away: the server drops the handler's future at its await.
ClientGone(c) ==
    /\ "drop" \in Faults
    /\ client[c] \in {"inserted", "waiting", "consoleInserted", "consoleSent",
                      "consoleReplied", "consoleMarked"}
    /\ client' = [client EXCEPT ![c] = "gone"]
    /\ lost' = IF c \in sent \ taken THEN lost \cup {c} ELSE lost
    /\ UNCHANGED <<rowVars, cmdVars, workVars, taken, pmpVars>>

-----------------------------------------------------------------------------
(* The worker of a key and the executor it calls.                          *)

\* The commands a worker holds: the one it works on and those in its channel.
HeldBy(k) == {c \in Command : c = current[k] \/ \E i \in DOMAIN queue[k] : queue[k][i] = c}

Lose(C) == lost' = lost \cup C

\* rx.recv, then the executor hands the command to PMP.
WorkerRunPeeks(k) ==
    /\ worker[k] = "recv"
    /\ queue[k] # <<>>
    /\ current' = [current EXCEPT ![k] = Head(queue[k])]
    /\ worker' = [worker EXCEPT ![k] = "running"]
    /\ sent' = sent \cup {Head(queue[k])}
    /\ UNCHANGED <<rowVars, cmdVars, client, queue, taken, lost, outcome, host>>
WorkerRun(k) ==
    /\ worker[k] = "recv"
    /\ queue[k] # <<>>
    /\ current' = [current EXCEPT ![k] = Head(queue[k])]
    /\ queue' = [queue EXCEPT ![k] = Tail(@)]
    /\ worker' = [worker EXCEPT ![k] = "running"]
    /\ sent' = sent \cup {Head(queue[k])}
    /\ UNCHANGED <<rowVars, cmdVars, client, taken, lost, outcome, host>>

\* The command returns: PMP's answer, its timeout, or a closed connection.
WorkerResult(k, o) ==
    /\ worker[k] = "running"
    /\ outcome' = [outcome EXCEPT ![current[k]] = o]
    /\ worker' = [worker EXCEPT ![k] = "finishing"]
    /\ UNCHANGED <<rowVars, cmdVars, client, queue, current, taken, lost, sent, host>>

\* mark_finished with the terminal status; an error is ignored (`let _ =`).
WorkerFinish(k) ==
    /\ worker[k] = "finishing"
    /\ \/ /\ runStatus' = [runStatus EXCEPT ![current[k]] = Recorded(outcome[current[k]])]
          /\ UNCHANGED lost
       \/ "db" \in Faults /\ Lose({current[k]}) /\ UNCHANGED runStatus
    /\ worker' = [worker EXCEPT ![k] = "auditing"]
    /\ UNCHANGED <<audit, cmdVars, client, queue, current, taken, pmpVars>>

\* truncate cuts an error text at byte 120; inside a multi-byte character it
\* panics.  The task dies, its receiver and with it every completion channel
\* it holds are dropped, the map of workers keeps the sender.
WorkerPanic(k) ==
    /\ "panic" \in Faults
    /\ worker[k] = "finishing"
    /\ outcome[current[k]] = "failed"
    /\ client' = [c \in Command |->
                    IF client[c] = "waiting" /\ c \in HeldBy(k) THEN "dropped" ELSE client[c]]
    /\ Lose(HeldBy(k))
    /\ queue' = [queue EXCEPT ![k] = <<>>]
    /\ current' = [current EXCEPT ![k] = NoCommand]
    /\ worker' = [worker EXCEPT ![k] = "dead"]
    /\ UNCHANGED <<rowVars, cmdVars, taken, pmpVars>>

\* record_completed_command with the terminal status; errors are ignored.
WorkerAuditOnlySuccess(k) ==
    /\ worker[k] = "auditing"
    /\ audit' = IF outcome[current[k]] = "ok" THEN [audit EXCEPT ![current[k]] = "succeeded"] ELSE audit
    /\ worker' = [worker EXCEPT ![k] = "replying"]
    /\ UNCHANGED <<runStatus, cmdVars, client, queue, current, taken, lost, pmpVars>>
WorkerAuditPresumesSuccess(k) ==
    /\ worker[k] = "auditing"
    /\ audit' = [audit EXCEPT ![current[k]] = "succeeded"]
    /\ worker' = [worker EXCEPT ![k] = "replying"]
    /\ UNCHANGED <<runStatus, cmdVars, client, queue, current, taken, lost, pmpVars>>
WorkerAudit(k) ==
    /\ worker[k] = "auditing"
    /\ \/ /\ audit' = [audit EXCEPT ![current[k]] = Recorded(outcome[current[k]])]
          /\ UNCHANGED lost
       \/ "db" \in Faults /\ Lose({current[k]}) /\ UNCHANGED audit
    /\ worker' = [worker EXCEPT ![k] = "replying"]
    /\ UNCHANGED <<runStatus, cmdVars, client, queue, current, taken, pmpVars>>

\* The completion is sent; nobody may be there to receive it.
WorkerReplyOnlySuccess(k) ==
    /\ worker[k] = "replying"
    /\ client' = [client EXCEPT ![current[k]] =
                    IF @ = "waiting" /\ outcome[current[k]] = "ok" THEN "ok" ELSE @]
    /\ current' = [current EXCEPT ![k] = NoCommand]
    /\ worker' = [worker EXCEPT ![k] = "recv"]
    /\ UNCHANGED <<rowVars, cmdVars, queue, taken, lost, pmpVars>>
WorkerReply(k) ==
    /\ worker[k] = "replying"
    /\ client' = [client EXCEPT ![current[k]] =
                    IF @ = "waiting" THEN outcome[current[k]] ELSE @]
    /\ current' = [current EXCEPT ![k] = NoCommand]
    /\ worker' = [worker EXCEPT ![k] = "recv"]
    /\ UNCHANGED <<rowVars, cmdVars, queue, taken, lost, pmpVars>>

-----------------------------------------------------------------------------
(* The raw console: POST /admin/commands/execute.                          *)

ConsoleInsert(c) ==
    /\ client[c] = "none"
    /\ runStatus' = [runStatus EXCEPT ![c] = "queued"]
    /\ client' = [client EXCEPT ![c] = "consoleInserted"]
    /\ UNCHANGED <<audit, cmdVars, workVars, taken, lost, pmpVars>>

ConsoleSend(c) ==
    /\ client[c] = "consoleInserted"
    /\ sent' = sent \cup {c}
    /\ client' = [client EXCEPT ![c] = "consoleSent"]
    /\ UNCHANGED <<rowVars, cmdVars, workVars, taken, lost, outcome, host>>

ConsoleResult(c, o) ==
    /\ client[c] = "consoleSent"
    /\ outcome' = [outcome EXCEPT ![c] = o]
    /\ client' = [client EXCEPT ![c] = "consoleReplied"]
    /\ UNCHANGED <<rowVars, cmdVars, workVars, taken, lost, sent, host>>

\* mark_finished; here an error is returned at once (500), before the audit.
ConsoleFinish(c) ==
    /\ client[c] = "consoleReplied"
    /\ \/ /\ runStatus' = [runStatus EXCEPT ![c] = Recorded(outcome[c])]
          /\ client' = [client EXCEPT ![c] = "consoleMarked"]
          /\ UNCHANGED lost
       \/ /\ "db" \in Faults
          /\ client' = [client EXCEPT ![c] = "error"]
          /\ Lose({c})
          /\ UNCHANGED runStatus
    /\ UNCHANGED <<audit, cmdVars, workVars, taken, pmpVars>>

\* The audit event, then the answer.
ConsoleAudit(c) ==
    /\ client[c] = "consoleMarked"
    /\ \/ audit' = [audit EXCEPT ![c] = Recorded(outcome[c])] /\ UNCHANGED lost
       \/ "db" \in Faults /\ Lose({c}) /\ UNCHANGED audit
    /\ client' = [client EXCEPT ![c] = outcome[c]]
    /\ UNCHANGED <<runStatus, cmdVars, workVars, taken, pmpVars>>

-----------------------------------------------------------------------------
\* PMP hands a room to another player.
SetHost(k, p) ==
    /\ host[k] # p
    /\ host' = [host EXCEPT ![k] = p]
    /\ UNCHANGED <<rowVars, cmdVars, client, workVars, taken, lost, sent, outcome>>

\* The process restarts: queues, workers and handlers are gone, rows stay.
Crash ==
    /\ "crash" \in Faults
    /\ queue' = [k \in Key |-> <<>>]
    /\ worker' = [k \in Key |-> "none"]
    /\ current' = [k \in Key |-> NoCommand]
    /\ client' = [c \in Command |->
                    IF client[c] \in {"inserted", "waiting", "consoleInserted", "consoleSent",
                                      "consoleReplied", "consoleMarked"}
                    THEN "gone" ELSE client[c]]
    /\ Lose((UNION {HeldBy(k) : k \in Key})
              \cup {c \in sent \ taken : client[c] \in {"consoleSent", "consoleReplied", "consoleMarked"}})
    /\ UNCHANGED <<rowVars, cmdVars, taken, pmpVars>>

WorkerStep(k) ==
    \/ WorkerRun(k) \/ \E o \in Outcomes : WorkerResult(k, o)
    \/ WorkerFinish(k) \/ WorkerPanic(k) \/ WorkerAudit(k) \/ WorkerReply(k)

ConsoleStep(c) ==
    \/ ConsoleSend(c) \/ \E o \in Outcomes : ConsoleResult(c, o)
    \/ ConsoleFinish(c) \/ ConsoleAudit(c)

Next ==
    \/ \E c \in Command :
          \/ \E permitted \in BOOLEAN : ExecuteAction(c, permitted)
          \/ Submit(c) \/ ClientTimeout(c) \/ ClientGone(c)
          \/ ConsoleInsert(c) \/ ConsoleStep(c)
    \/ \E k \in Key : WorkerStep(k)
    \/ \E k \in Key, p \in Principal : SetHost(k, p)
    \/ Crash

Spec == Init /\ [][Next]_vars

\* Tasks that are ready are polled, and a command handed to PMP returns (an
\* answer, the client's command timeout, or the end of the connection).
FairSpec ==
    /\ Spec
    /\ \A k \in Key : WF_vars(WorkerStep(k))
    /\ \A c \in Command : WF_vars(ConsoleStep(c))

-----------------------------------------------------------------------------
(* Properties.                                                             *)

ClientStates ==
    {"none", "inserted", "waiting", "202", "timeout", "gone", "dropped", "error",
     "consoleInserted", "consoleSent", "consoleReplied", "consoleMarked"} \cup Outcomes

Results == {"none", "succeeded", "failed"}

TypeOK ==
    /\ runStatus \in [Command -> Results \cup {"queued"}]
    /\ audit \in [Command -> Results]
    /\ key \in [Command -> Key]
    /\ caller \in [Command -> Principal]
    /\ client \in [Command -> ClientStates]
    /\ queue \in [Key -> Seq(Command)]
    /\ \A k \in Key : Len(queue[k]) <= Capacity
    /\ worker \in [Key -> {"none", "recv", "running", "finishing", "auditing", "replying", "dead"}]
    /\ current \in [Key -> Command \cup {NoCommand}]
    /\ \A k \in Key : current[k] \in Command
                        <=> worker[k] \in {"running", "finishing", "auditing", "replying"}
    /\ sent \subseteq Command
    /\ outcome \in [Command -> Outcomes \cup {"none"}]
    /\ taken \subseteq Command
    /\ lost \subseteq Command
    /\ host \in [Key -> Principal]

\* What the caller is told is what happened: an answer "ok" or "failed" is
\* the command's outcome, and the row and the audit event already say so too,
\* unless writing one of them failed (which the executor ignores).
AnswersAreTrue ==
    \A c \in Command : client[c] \in Outcomes =>
        /\ outcome[c] = client[c]
        /\ c \notin lost => runStatus[c] = Recorded(client[c]) /\ audit[c] = runStatus[c]

\* "never a pre-recorded success": an audit event exists only for a command
\* that was handed to PMP and returned, and carries that outcome.
AuditsAreFinal ==
    \A c \in Command : audit[c] # "none" =>
        c \in sent /\ outcome[c] # "none" /\ audit[c] = Recorded(outcome[c])

\* A command is held by at most one queue position or worker: it runs once.
HoldsAt(k, i, c) == IF i = 0 THEN current[k] = c ELSE i <= Len(queue[k]) /\ queue[k][i] = c

HeldOnce ==
    \A c \in Command, k, l \in Key, i, j \in 0..Capacity :
        HoldsAt(k, i, c) /\ HoldsAt(l, j, c) => k = l /\ i = j

\* Nobody waits for a command that nobody holds: a waiting handler's command
\* is in its key's queue or with its worker, also after a worker died.
WaitersAreServed == \A c \in Command : client[c] = "waiting" => c \in HeldBy(key[c])

(* Answers, rows and audit events say what happened, a command is held in  *)
(* one place, and nobody waits for a command that nobody holds, through    *)
(* panics, restarts, failing writes and clients that leave.                *)
(* commands/broker.rs, commands/executor.rs, actions/routes.rs.            *)
CommandsAreTrue == TypeOK /\ AnswersAreTrue /\ AuditsAreFinal /\ HeldOnce /\ WaitersAreServed

\* A command the broker took or PMP was sent is recorded and audited in the
\* end, whether or not its caller timed out ("failures and timeouts are
\* recorded too"); only a failed write, a panic, a restart or the end of a
\* console request in flight can lose the record.
CommandsAreAudited ==
    \A c \in Command : c \in taken \cup sent ~>
        (audit[c] # "none" /\ runStatus[c] = audit[c]) \/ c \in lost
=============================================================================
