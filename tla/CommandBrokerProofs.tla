------------------------- MODULE CommandBrokerProofs -------------------------
(***************************************************************************)
(* Proofs about the command plane, for any number of commands, queue keys  *)
(* and callers, any capacity of the channels and any set of faults.        *)
(***************************************************************************)
EXTENDS CommandBroker, TLAPS

-----------------------------------------------------------------------------
(* The inductive invariant.                                                *)

\* The handler has not handed its command to the broker and never will, or
\* not yet: no worker knows the command.
NotTaken == {"none", "inserted", "202", "error",
             "consoleInserted", "consoleSent", "consoleReplied", "consoleMarked"}

\* A channel holds commands of its own key, each once, which have not run.
QueueInv ==
    \A k \in Key : \A i \in 1..Len(queue[k]) :
        /\ key[queue[k][i]] = k
        /\ queue[k][i] \in taken
        /\ outcome[queue[k][i]] = "none"
        /\ current[k] # queue[k][i]
        /\ \A j \in 1..Len(queue[k]) : queue[k][i] = queue[k][j] => i = j

\* What a worker has established about its command, step by step.
WorkerInv ==
    \A k \in Key : worker[k] \in {"running", "finishing", "auditing", "replying"} =>
        /\ key[current[k]] = k
        /\ current[k] \in taken \cap sent
        /\ worker[k] = "running" <=> outcome[current[k]] = "none"
        /\ worker[k] \in {"auditing", "replying"} /\ current[k] \notin lost
              => runStatus[current[k]] = Recorded(outcome[current[k]])
        /\ worker[k] = "replying" /\ current[k] \notin lost
              => audit[current[k]] = Recorded(outcome[current[k]])

\* The same for the handler of a console command, and who was taken.
HandlerInv ==
    \A c \in Command :
        /\ client[c] \in NotTaken => c \notin taken
        /\ client[c] \in {"none", "inserted", "consoleInserted", "consoleSent"} => outcome[c] = "none"
        /\ client[c] \in {"consoleReplied", "consoleMarked"} => outcome[c] # "none"
        /\ client[c] \in {"consoleSent", "consoleReplied", "consoleMarked"} => c \in sent
        /\ client[c] = "consoleMarked" => runStatus[c] = Recorded(outcome[c])
        /\ outcome[c] # "none" => c \in sent

WaitInv == \A c \in Command : client[c] = "waiting" =>
    current[key[c]] = c \/ \E i \in 1..Len(queue[key[c]]) : queue[key[c]][i] = c

BrokerInv ==
    /\ TypeOK
    /\ QueueInv
    /\ WorkerInv
    /\ HandlerInv
    /\ WaitInv
    /\ AnswersAreTrue
    /\ AuditsAreFinal

\* A submitted command goes to the end of its key's channel or is refused.
LEMMA SubmitStep == ASSUME NEW c \in Command, BrokerInv, Submit(c) PROVE BrokerInv'
<1> DEFINE k == key[c]
<1> USE BrokerAssumption DEF BrokerInv, TypeOK
<1>0. k \in Key /\ queue[k] \in Seq(Command)
  OBVIOUS
<1>1. CASE worker[k] # "dead" /\ Len(queue[k]) < Capacity
  <2>1. /\ queue' = [queue EXCEPT ![k] = Append(queue[k], c)]
        /\ taken' = taken \cup {c}
        /\ client' = [client EXCEPT ![c] = "waiting"]
        /\ client[c] = "inserted"
        /\ worker' = [worker EXCEPT ![k] = IF worker[k] = "none" THEN "recv" ELSE worker[k]]
        /\ UNCHANGED <<runStatus, audit, key, caller, current, lost, sent, outcome, host>>
    BY <1>1 DEF Submit, rowVars, cmdVars, pmpVars
  <2>2. /\ Append(queue[k], c) \in Seq(Command)
        /\ Len(Append(queue[k], c)) = Len(queue[k]) + 1
        /\ \A i \in 1..Len(queue[k]) : Append(queue[k], c)[i] = queue[k][i]
        /\ Append(queue[k], c)[Len(queue[k]) + 1] = c
    BY <1>0
  <2>3. TypeOK'
    BY <1>0, <1>1, <2>1, <2>2 DEF ClientStates, Outcomes, Results
  <2>4. c \notin taken /\ outcome[c] = "none" /\ current[k] # c
    BY <2>1 DEF HandlerInv, NotTaken, WorkerInv, ClientStates
  <2>5. QueueInv'
    BY <1>0, <2>1, <2>2, <2>4 DEF QueueInv
  <2>6. WorkerInv'
    BY <2>1 DEF WorkerInv
  <2>7. HandlerInv'
    BY <2>1 DEF HandlerInv, NotTaken
  <2>8. WaitInv'
    <3> SUFFICES ASSUME NEW d \in Command, client'[d] = "waiting"
                 PROVE  current[key[d]] = d
                        \/ \E i \in 1..Len(queue'[key[d]]) : queue'[key[d]][i] = d
      BY ZenonT(40), <2>1 DEF WaitInv
    <3>1. CASE d = c
      <4>1. Len(queue[k]) + 1 \in 1..Len(queue'[k]) /\ queue'[k][Len(queue[k]) + 1] = c
        BY <1>0, <2>1, <2>2
      <4>2. QED
        BY <3>1, <4>1
    <3>2. CASE d # c
      <4>1. current[key[d]] = d \/ \E i \in 1..Len(queue[key[d]]) : queue[key[d]][i] = d
        BY <2>1, <3>2 DEF WaitInv
      <4>2. \A i \in 1..Len(queue[key[d]]) :
              i \in 1..Len(queue'[key[d]]) /\ queue'[key[d]][i] = queue[key[d]][i]
        BY <1>0, <2>1, <2>2
      <4>3. QED
        BY <4>1, <4>2
    <3>3. QED
      BY <3>1, <3>2
  <2>9. AnswersAreTrue' /\ AuditsAreFinal'
    BY <2>1 DEF AnswersAreTrue, AuditsAreFinal, Outcomes
  <2>10. QED
    BY <2>3, <2>5, <2>6, <2>7, <2>8, <2>9
<1>2. CASE ~(worker[k] # "dead" /\ Len(queue[k]) < Capacity)
  <2>1. /\ client' = [client EXCEPT ![c] = "202"]
        /\ client[c] = "inserted"
        /\ worker' = [worker EXCEPT ![k] = IF worker[k] = "none" THEN "recv" ELSE worker[k]]
        /\ UNCHANGED <<queue, taken, runStatus, audit, key, caller, current, lost, sent, outcome, host>>
    BY <1>2 DEF Submit, rowVars, cmdVars, pmpVars
  <2>2. TypeOK'
    BY <1>0, <2>1 DEF ClientStates, Outcomes, Results
  <2>3. QueueInv'
    BY <2>1 DEF QueueInv
  <2>7. WorkerInv'
    BY <1>0, <2>1 DEF WorkerInv
  <2>4. HandlerInv' /\ WaitInv'
    BY <2>1 DEF HandlerInv, NotTaken, WaitInv
  <2>5. AnswersAreTrue' /\ AuditsAreFinal'
    BY <2>1 DEF AnswersAreTrue, AuditsAreFinal, Outcomes
  <2>6. QED
    BY <2>2, <2>3, <2>4, <2>5, <2>7
<1>3. QED
  BY <1>1, <1>2

\* A handler that inserts, waits, gives up or drives a console command.
LEMMA HandlerStep ==
    ASSUME NEW c \in Command, BrokerInv,
           \/ \E permitted \in BOOLEAN : ExecuteAction(c, permitted)
           \/ ClientTimeout(c) \/ ClientGone(c)
           \/ ConsoleInsert(c) \/ ConsoleStep(c)
    PROVE  BrokerInv'
<1>0. /\ TypeOK /\ QueueInv /\ WorkerInv /\ HandlerInv /\ WaitInv
      /\ AnswersAreTrue /\ AuditsAreFinal /\ BrokerAssumption
  BY BrokerAssumption DEF BrokerInv
<1>1. ASSUME NEW permitted \in BOOLEAN, ExecuteAction(c, permitted) PROVE BrokerInv'
  <2>1. TypeOK'
    BY <1>0, <1>1 DEF ExecuteAction, TypeOK, ClientStates, Outcomes, Results, Recorded, rowVars, cmdVars, workVars, pmpVars, Lose
  <2>2. QueueInv'
    BY <1>0, <1>1 DEF ExecuteAction, TypeOK, QueueInv, HandlerInv, NotTaken, rowVars, cmdVars, workVars, pmpVars, Lose
  <2>3. WorkerInv'
    BY <1>0, <1>1 DEF ExecuteAction, TypeOK, WorkerInv, HandlerInv, NotTaken, rowVars, cmdVars, workVars, pmpVars, Lose
  <2>4. HandlerInv'
    BY <1>0, <1>1 DEF ExecuteAction, TypeOK, WorkerInv, HandlerInv, NotTaken, Outcomes, rowVars, cmdVars, workVars, pmpVars, Lose
  <2>5. WaitInv'
    BY <1>0, <1>1 DEF ExecuteAction, TypeOK, WaitInv, Outcomes, rowVars, cmdVars, workVars, pmpVars, Lose
  <2>6. AnswersAreTrue'
    BY <1>0, <1>1 DEF ExecuteAction, TypeOK, WorkerInv, HandlerInv, AnswersAreTrue, Outcomes, Recorded, rowVars, cmdVars, workVars, pmpVars, Lose
  <2>7. AuditsAreFinal'
    BY <1>0, <1>1 DEF ExecuteAction, TypeOK, WorkerInv, HandlerInv, AuditsAreFinal, Outcomes, Recorded, rowVars, cmdVars, workVars, pmpVars, Lose
  <2>8. QED
    BY <2>1, <2>2, <2>3, <2>4, <2>5, <2>6, <2>7 DEF BrokerInv
<1>2. CASE ClientTimeout(c)
  <2>1. TypeOK'
    BY <1>0, <1>2 DEF ClientTimeout, TypeOK, ClientStates, Outcomes, Results, Recorded, rowVars, cmdVars, workVars, pmpVars, Lose
  <2>2. QueueInv'
    BY <1>0, <1>2 DEF ClientTimeout, TypeOK, QueueInv, HandlerInv, NotTaken, rowVars, cmdVars, workVars, pmpVars, Lose
  <2>3. WorkerInv'
    BY <1>0, <1>2 DEF ClientTimeout, TypeOK, WorkerInv, HandlerInv, NotTaken, rowVars, cmdVars, workVars, pmpVars, Lose
  <2>4. HandlerInv'
    BY <1>0, <1>2 DEF ClientTimeout, TypeOK, WorkerInv, HandlerInv, NotTaken, Outcomes, rowVars, cmdVars, workVars, pmpVars, Lose
  <2>5. WaitInv'
    BY <1>0, <1>2 DEF ClientTimeout, TypeOK, WaitInv, Outcomes, rowVars, cmdVars, workVars, pmpVars, Lose
  <2>6. AnswersAreTrue'
    BY <1>0, <1>2 DEF ClientTimeout, TypeOK, WorkerInv, HandlerInv, AnswersAreTrue, Outcomes, Recorded, rowVars, cmdVars, workVars, pmpVars, Lose
  <2>7. AuditsAreFinal'
    BY <1>0, <1>2 DEF ClientTimeout, TypeOK, WorkerInv, HandlerInv, AuditsAreFinal, Outcomes, Recorded, rowVars, cmdVars, workVars, pmpVars, Lose
  <2>8. QED
    BY <2>1, <2>2, <2>3, <2>4, <2>5, <2>6, <2>7 DEF BrokerInv
<1>3. CASE ClientGone(c)
  <2>1. TypeOK'
    BY <1>0, <1>3 DEF ClientGone, TypeOK, ClientStates, Outcomes, Results, Recorded, rowVars, cmdVars, workVars, pmpVars, Lose
  <2>2. QueueInv'
    BY <1>0, <1>3 DEF ClientGone, TypeOK, QueueInv, HandlerInv, NotTaken, rowVars, cmdVars, workVars, pmpVars, Lose
  <2>3. WorkerInv'
    BY <1>0, <1>3 DEF ClientGone, TypeOK, WorkerInv, HandlerInv, NotTaken, rowVars, cmdVars, workVars, pmpVars, Lose
  <2>4. HandlerInv'
    BY <1>0, <1>3 DEF ClientGone, TypeOK, WorkerInv, HandlerInv, NotTaken, Outcomes, rowVars, cmdVars, workVars, pmpVars, Lose
  <2>5. WaitInv'
    BY <1>0, <1>3 DEF ClientGone, TypeOK, WaitInv, Outcomes, rowVars, cmdVars, workVars, pmpVars, Lose
  <2>6. AnswersAreTrue'
    BY <1>0, <1>3 DEF ClientGone, TypeOK, WorkerInv, HandlerInv, AnswersAreTrue, Outcomes, Recorded, rowVars, cmdVars, workVars, pmpVars, Lose
  <2>7. AuditsAreFinal'
    BY <1>0, <1>3 DEF ClientGone, TypeOK, WorkerInv, HandlerInv, AuditsAreFinal, Outcomes, Recorded, rowVars, cmdVars, workVars, pmpVars, Lose
  <2>8. QED
    BY <2>1, <2>2, <2>3, <2>4, <2>5, <2>6, <2>7 DEF BrokerInv
<1>4. CASE ConsoleInsert(c)
  <2>1. TypeOK'
    BY <1>0, <1>4 DEF ConsoleInsert, TypeOK, ClientStates, Outcomes, Results, Recorded, rowVars, cmdVars, workVars, pmpVars, Lose
  <2>2. QueueInv'
    BY <1>0, <1>4 DEF ConsoleInsert, TypeOK, QueueInv, HandlerInv, NotTaken, rowVars, cmdVars, workVars, pmpVars, Lose
  <2>3. WorkerInv'
    BY <1>0, <1>4 DEF ConsoleInsert, TypeOK, WorkerInv, HandlerInv, NotTaken, rowVars, cmdVars, workVars, pmpVars, Lose
  <2>4. HandlerInv'
    BY <1>0, <1>4 DEF ConsoleInsert, TypeOK, WorkerInv, HandlerInv, NotTaken, Outcomes, rowVars, cmdVars, workVars, pmpVars, Lose
  <2>5. WaitInv'
    BY <1>0, <1>4 DEF ConsoleInsert, TypeOK, WaitInv, Outcomes, rowVars, cmdVars, workVars, pmpVars, Lose
  <2>6. AnswersAreTrue'
    BY <1>0, <1>4 DEF ConsoleInsert, TypeOK, WorkerInv, HandlerInv, AnswersAreTrue, Outcomes, Recorded, rowVars, cmdVars, workVars, pmpVars, Lose
  <2>7. AuditsAreFinal'
    BY <1>0, <1>4 DEF ConsoleInsert, TypeOK, WorkerInv, HandlerInv, AuditsAreFinal, Outcomes, Recorded, rowVars, cmdVars, workVars, pmpVars, Lose
  <2>8. QED
    BY <2>1, <2>2, <2>3, <2>4, <2>5, <2>6, <2>7 DEF BrokerInv
<1>5. CASE ConsoleSend(c)
  <2>1. TypeOK'
    BY <1>0, <1>5 DEF ConsoleSend, TypeOK, ClientStates, Outcomes, Results, Recorded, rowVars, cmdVars, workVars, pmpVars, Lose
  <2>2. QueueInv'
    BY <1>0, <1>5 DEF ConsoleSend, TypeOK, QueueInv, HandlerInv, NotTaken, rowVars, cmdVars, workVars, pmpVars, Lose
  <2>3. WorkerInv'
    BY <1>0, <1>5 DEF ConsoleSend, TypeOK, WorkerInv, HandlerInv, NotTaken, rowVars, cmdVars, workVars, pmpVars, Lose
  <2>4. HandlerInv'
    BY <1>0, <1>5 DEF ConsoleSend, TypeOK, WorkerInv, HandlerInv, NotTaken, Outcomes, rowVars, cmdVars, workVars, pmpVars, Lose
  <2>5. WaitInv'
    BY <1>0, <1>5 DEF ConsoleSend, TypeOK, WaitInv, Outcomes, rowVars, cmdVars, workVars, pmpVars, Lose
  <2>6. AnswersAreTrue'
    BY <1>0, <1>5 DEF ConsoleSend, TypeOK, WorkerInv, HandlerInv, AnswersAreTrue, Outcomes, Recorded, rowVars, cmdVars, workVars, pmpVars, Lose
  <2>7. AuditsAreFinal'
    BY <1>0, <1>5 DEF ConsoleSend, TypeOK, WorkerInv, HandlerInv, AuditsAreFinal, Outcomes, Recorded, rowVars, cmdVars, workVars, pmpVars, Lose
  <2>8. QED
    BY <2>1, <2>2, <2>3, <2>4, <2>5, <2>6, <2>7 DEF BrokerInv
<1>6. ASSUME NEW o \in Outcomes, ConsoleResult(c, o) PROVE BrokerInv'
  <2>1. TypeOK'
    BY <1>0, <1>6 DEF ConsoleResult, TypeOK, ClientStates, Outcomes, Results, Recorded, rowVars, cmdVars, workVars, pmpVars, Lose
  <2>2. QueueInv'
    BY <1>0, <1>6 DEF ConsoleResult, TypeOK, QueueInv, HandlerInv, NotTaken, rowVars, cmdVars, workVars, pmpVars, Lose
  <2>3. WorkerInv'
    BY <1>0, <1>6 DEF ConsoleResult, TypeOK, WorkerInv, HandlerInv, NotTaken, rowVars, cmdVars, workVars, pmpVars, Lose
  <2>4. HandlerInv'
    BY <1>0, <1>6 DEF ConsoleResult, TypeOK, WorkerInv, HandlerInv, NotTaken, Outcomes, rowVars, cmdVars, workVars, pmpVars, Lose
  <2>5. WaitInv'
    BY <1>0, <1>6 DEF ConsoleResult, TypeOK, WaitInv, Outcomes, rowVars, cmdVars, workVars, pmpVars, Lose
  <2>6. AnswersAreTrue'
    BY <1>0, <1>6 DEF ConsoleResult, TypeOK, WorkerInv, HandlerInv, AnswersAreTrue, Outcomes, Recorded, rowVars, cmdVars, workVars, pmpVars, Lose
  <2>7. AuditsAreFinal'
    BY <1>0, <1>6 DEF ConsoleResult, TypeOK, WorkerInv, HandlerInv, AuditsAreFinal, Outcomes, Recorded, rowVars, cmdVars, workVars, pmpVars, Lose
  <2>8. QED
    BY <2>1, <2>2, <2>3, <2>4, <2>5, <2>6, <2>7 DEF BrokerInv
<1>7. CASE ConsoleFinish(c)
  <2>1. TypeOK'
    <3>1. runStatus' \in [Command -> Results \cup {"queued"}]
      BY <1>0, <1>7 DEF ConsoleFinish, TypeOK, Results, Recorded
    <3>2. client' \in [Command -> ClientStates]
      <4>1. client' = [client EXCEPT ![c] = "consoleMarked"] \/ client' = [client EXCEPT ![c] = "error"]
        BY <1>7 DEF ConsoleFinish
      <4>2. "consoleMarked" \in ClientStates /\ "error" \in ClientStates
        BY DEF ClientStates
      <4>3. client \in [Command -> ClientStates]
        BY <1>0 DEF TypeOK
      <4>4. QED
        BY <4>1, <4>2, <4>3
    <3>3. lost' \subseteq Command
      BY <1>0, <1>7 DEF ConsoleFinish, TypeOK, Lose
    <3>4. QED
      BY <1>0, <1>7, <3>1, <3>2, <3>3 DEF ConsoleFinish, TypeOK, cmdVars, workVars, pmpVars
  <2>2. QueueInv'
    BY <1>0, <1>7 DEF ConsoleFinish, TypeOK, QueueInv, HandlerInv, NotTaken, rowVars, cmdVars, workVars, pmpVars, Lose
  <2>3. WorkerInv'
    BY <1>0, <1>7 DEF ConsoleFinish, TypeOK, WorkerInv, HandlerInv, NotTaken, rowVars, cmdVars, workVars, pmpVars, Lose
  <2>4. HandlerInv'
    BY <1>0, <1>7 DEF ConsoleFinish, TypeOK, WorkerInv, HandlerInv, NotTaken, Outcomes, rowVars, cmdVars, workVars, pmpVars, Lose
  <2>5. WaitInv'
    <3>1. \A d \in Command : client'[d] = "waiting" => client[d] = "waiting"
      BY <1>0, <1>7 DEF ConsoleFinish, TypeOK
    <3>2. UNCHANGED <<key, queue, current>>
      BY <1>7 DEF ConsoleFinish, cmdVars, workVars
    <3>3. QED
      BY <1>0, <3>1, <3>2 DEF WaitInv
  <2>6. AnswersAreTrue'
    BY <1>0, <1>7 DEF ConsoleFinish, TypeOK, WorkerInv, HandlerInv, AnswersAreTrue, Outcomes, Recorded, rowVars, cmdVars, workVars, pmpVars, Lose
  <2>7. AuditsAreFinal'
    BY <1>0, <1>7 DEF ConsoleFinish, TypeOK, WorkerInv, HandlerInv, AuditsAreFinal, Outcomes, Recorded, rowVars, cmdVars, workVars, pmpVars, Lose
  <2>8. QED
    BY <2>1, <2>2, <2>3, <2>4, <2>5, <2>6, <2>7 DEF BrokerInv
<1>8. CASE ConsoleAudit(c)
  <2>1. TypeOK'
    BY <1>0, <1>8 DEF ConsoleAudit, TypeOK, ClientStates, Outcomes, Results, Recorded, rowVars, cmdVars, workVars, pmpVars, Lose
  <2>2. QueueInv'
    BY <1>0, <1>8 DEF ConsoleAudit, TypeOK, QueueInv, HandlerInv, NotTaken, rowVars, cmdVars, workVars, pmpVars, Lose
  <2>3. WorkerInv'
    BY <1>0, <1>8 DEF ConsoleAudit, TypeOK, WorkerInv, HandlerInv, NotTaken, rowVars, cmdVars, workVars, pmpVars, Lose
  <2>4. HandlerInv'
    <3>1. outcome[c] \in {"ok", "failed"}
      BY <1>0, <1>8 DEF ConsoleAudit, TypeOK, HandlerInv, Outcomes
    <3>2. /\ client' = [client EXCEPT ![c] = outcome[c]]
          /\ UNCHANGED <<taken, outcome, sent, runStatus>>
      BY <1>8 DEF ConsoleAudit, pmpVars
    <3>3. QED
      BY <1>0, <3>1, <3>2 DEF TypeOK, HandlerInv, NotTaken
  <2>5. WaitInv'
    BY ZenonT(40), <1>0, <1>8 DEF ConsoleAudit, TypeOK, WaitInv, Outcomes, rowVars, cmdVars, workVars, pmpVars, Lose
  <2>6. AnswersAreTrue'
    BY <1>0, <1>8 DEF ConsoleAudit, TypeOK, WorkerInv, HandlerInv, AnswersAreTrue, Outcomes, Recorded, rowVars, cmdVars, workVars, pmpVars, Lose
  <2>7. AuditsAreFinal'
    BY <1>0, <1>8 DEF ConsoleAudit, TypeOK, WorkerInv, HandlerInv, AuditsAreFinal, Outcomes, Recorded, rowVars, cmdVars, workVars, pmpVars, Lose
  <2>8. QED
    BY <2>1, <2>2, <2>3, <2>4, <2>5, <2>6, <2>7 DEF BrokerInv
<1>9. QED
  BY <1>1, <1>2, <1>3, <1>4, <1>5, <1>6, <1>7, <1>8 DEF ConsoleStep

\* A worker takes the head of its channel.
LEMMA RunStep == ASSUME NEW k \in Key, BrokerInv, WorkerRun(k) PROVE BrokerInv'
<1> DEFINE q == queue[k]
           h == q[1]
<1> USE BrokerAssumption DEF BrokerInv, TypeOK
<1>1. /\ q \in Seq(Command) /\ q # <<>> /\ Len(q) >= 1
      /\ h \in Command /\ Head(q) = h
      /\ Tail(q) \in Seq(Command) /\ Len(Tail(q)) = Len(q) - 1
      /\ \A i \in 1..(Len(q) - 1) : Tail(q)[i] = q[i + 1]
  BY DEF WorkerRun
<1>2. /\ worker[k] = "recv"
      /\ current' = [current EXCEPT ![k] = h]
      /\ queue' = [queue EXCEPT ![k] = Tail(q)]
      /\ worker' = [worker EXCEPT ![k] = "running"]
      /\ sent' = sent \cup {h}
      /\ UNCHANGED <<runStatus, audit, key, caller, client, taken, lost, outcome, host>>
  BY <1>1 DEF WorkerRun, rowVars, cmdVars
<1>3. TypeOK'
  BY <1>1, <1>2 DEF Outcomes, Results, ClientStates
<1>4. h \in taken /\ outcome[h] = "none" /\ key[h] = k
  BY <1>1 DEF QueueInv
<1>5. QueueInv'
  <2>0. key' = key /\ taken' = taken /\ outcome' = outcome
    BY <1>2
  <2> SUFFICES ASSUME NEW l \in Key, NEW i \in 1..Len(queue'[l])
               PROVE  /\ key[queue'[l][i]] = l
                      /\ queue'[l][i] \in taken
                      /\ outcome[queue'[l][i]] = "none"
                      /\ current'[l] # queue'[l][i]
                      /\ \A j \in 1..Len(queue'[l]) : queue'[l][i] = queue'[l][j] => i = j
    BY <2>0 DEF QueueInv
  <2>1. CASE l # k
    BY <1>2, <2>1 DEF QueueInv
  <2>2. CASE l = k
    <3>1. queue'[l] = Tail(q) /\ current'[l] = h /\ i \in 1..(Len(q) - 1)
      BY <1>1, <1>2, <2>2
    <3>2. /\ i + 1 \in 1..Len(q) /\ Tail(q)[i] = q[i + 1] /\ 1 \in 1..Len(q)
          /\ \A j \in 1..Len(Tail(q)) : j + 1 \in 1..Len(q) /\ Tail(q)[j] = q[j + 1]
      BY <1>1, <3>1
    <3>3. /\ key[q[i + 1]] = k /\ q[i + 1] \in taken /\ outcome[q[i + 1]] = "none"
          /\ \A j \in 1..Len(q) : q[i + 1] = q[j] => i + 1 = j
      BY <3>2 DEF QueueInv
    <3>4. h # q[i + 1]
      BY <3>2, <3>3
    <3>5. \A j \in 1..Len(Tail(q)) : Tail(q)[i] = Tail(q)[j] => i = j
      BY <3>2, <3>3
    <3>6. QED
      BY <2>2, <3>1, <3>2, <3>3, <3>4, <3>5
  <2>3. QED
    BY <2>1, <2>2
<1>6. WorkerInv'
  BY <1>1, <1>2, <1>4 DEF WorkerInv
<1>7. HandlerInv'
  BY <1>1, <1>2 DEF HandlerInv
<1>8. WaitInv'
  <2> SUFFICES ASSUME NEW c \in Command, client[c] = "waiting"
               PROVE  current'[key[c]] = c
                      \/ \E i \in 1..Len(queue'[key[c]]) : queue'[key[c]][i] = c
    BY <1>2 DEF WaitInv
  <2>1. CASE key[c] # k
    BY <1>2, <2>1 DEF WaitInv
  <2>2. CASE key[c] = k
    <3>0. current[k] # c
      BY <1>2
    <3>1. PICK i \in 1..Len(q) : q[i] = c
      BY <2>2, <3>0 DEF WaitInv
    <3>2. CASE i = 1
      BY <1>2, <2>2, <3>1, <3>2
    <3>3. CASE i # 1
      <4>1. i - 1 \in 1..Len(Tail(q)) /\ Tail(q)[i - 1] = c
        BY <1>1, <3>1, <3>3
      <4>2. QED
        BY <1>2, <2>2, <4>1
    <3>4. QED
      BY <3>2, <3>3
  <2>3. QED
    BY <2>1, <2>2
<1>9. AnswersAreTrue' /\ AuditsAreFinal'
  BY <1>2 DEF AnswersAreTrue, AuditsAreFinal
<1>10. QED
  BY <1>3, <1>5, <1>6, <1>7, <1>8, <1>9

\* A worker records, audits and answers the command it holds.
LEMMA WorkStep ==
    ASSUME NEW k \in Key, BrokerInv,
           \/ \E o \in Outcomes : WorkerResult(k, o)
           \/ WorkerFinish(k) \/ WorkerAudit(k) \/ WorkerReply(k)
    PROVE  BrokerInv'
<1>0. /\ TypeOK /\ QueueInv /\ WorkerInv /\ HandlerInv /\ WaitInv
      /\ AnswersAreTrue /\ AuditsAreFinal /\ BrokerAssumption
  BY BrokerAssumption DEF BrokerInv
<1>1. ASSUME NEW o \in Outcomes, WorkerResult(k, o) PROVE BrokerInv'
  <2>1. TypeOK'
    BY <1>0, <1>1 DEF WorkerResult, TypeOK, ClientStates, Outcomes, Results, Recorded, rowVars, cmdVars, workVars, pmpVars, Lose
  <2>2. QueueInv'
    <3>1. \A l \in Key : \A i \in 1..Len(queue[l]) : queue[l][i] # current[k]
      BY <1>0, <1>1 DEF WorkerResult, TypeOK, QueueInv, WorkerInv
    <3>2. \A l \in Key : \A i \in 1..Len(queue[l]) : queue[l][i] \in Command
      BY <1>0 DEF TypeOK
    <3>3. /\ outcome' = [outcome EXCEPT ![current[k]] = o]
          /\ UNCHANGED <<queue, key, taken, current>>
      BY <1>1 DEF WorkerResult, cmdVars
    <3>4. \A l \in Key : \A i \in 1..Len(queue[l]) : outcome'[queue[l][i]] = outcome[queue[l][i]]
      BY <1>0, <3>1, <3>2, <3>3 DEF TypeOK
    <3>5. QED
      BY <1>0, <3>3, <3>4 DEF QueueInv
  <2>3. WorkerInv'
    <3>1. current[k] \in Command /\ key[current[k]] = k /\ o # "none"
      BY <1>0, <1>1 DEF WorkerResult, TypeOK, WorkerInv, Outcomes
    <3>2. QED
      BY <1>0, <1>1, <3>1 DEF WorkerResult, TypeOK, WorkerInv, rowVars, cmdVars
  <2>4. HandlerInv'
    BY <1>0, <1>1 DEF WorkerResult, TypeOK, WorkerInv, HandlerInv, NotTaken, Outcomes, rowVars, cmdVars, workVars, pmpVars, Lose
  <2>5. WaitInv'
    BY <1>0, <1>1 DEF WorkerResult, TypeOK, WaitInv, Outcomes, rowVars, cmdVars, workVars, pmpVars, Lose
  <2>6. AnswersAreTrue'
    BY <1>0, <1>1 DEF WorkerResult, TypeOK, WorkerInv, HandlerInv, AnswersAreTrue, Outcomes, Recorded, rowVars, cmdVars, workVars, pmpVars, Lose
  <2>7. AuditsAreFinal'
    BY <1>0, <1>1 DEF WorkerResult, TypeOK, WorkerInv, HandlerInv, AuditsAreFinal, Outcomes, Recorded, rowVars, cmdVars, workVars, pmpVars, Lose
  <2>8. QED
    BY <2>1, <2>2, <2>3, <2>4, <2>5, <2>6, <2>7 DEF BrokerInv
<1>2. CASE WorkerFinish(k)
  <2>1. TypeOK'
    BY <1>0, <1>2 DEF WorkerFinish, TypeOK, ClientStates, Outcomes, Results, Recorded, rowVars, cmdVars, workVars, pmpVars, Lose
  <2>2. QueueInv'
    BY <1>0, <1>2 DEF WorkerFinish, TypeOK, QueueInv, HandlerInv, NotTaken, rowVars, cmdVars, workVars, pmpVars, Lose
  <2>3. WorkerInv'
    BY <1>0, <1>2 DEF WorkerFinish, TypeOK, WorkerInv, HandlerInv, NotTaken, rowVars, cmdVars, workVars, pmpVars, Lose
  <2>4. HandlerInv'
    BY <1>0, <1>2 DEF WorkerFinish, TypeOK, WorkerInv, HandlerInv, NotTaken, Outcomes, rowVars, cmdVars, workVars, pmpVars, Lose
  <2>5. WaitInv'
    BY <1>0, <1>2 DEF WorkerFinish, TypeOK, WaitInv, Outcomes, rowVars, cmdVars, workVars, pmpVars, Lose
  <2>6. AnswersAreTrue'
    BY <1>0, <1>2 DEF WorkerFinish, TypeOK, WorkerInv, HandlerInv, AnswersAreTrue, Outcomes, Recorded, rowVars, cmdVars, workVars, pmpVars, Lose
  <2>7. AuditsAreFinal'
    BY <1>0, <1>2 DEF WorkerFinish, TypeOK, WorkerInv, HandlerInv, AuditsAreFinal, Outcomes, Recorded, rowVars, cmdVars, workVars, pmpVars, Lose
  <2>8. QED
    BY <2>1, <2>2, <2>3, <2>4, <2>5, <2>6, <2>7 DEF BrokerInv
<1>3. CASE WorkerAudit(k)
  <2>1. TypeOK'
    BY <1>0, <1>3 DEF WorkerAudit, TypeOK, ClientStates, Outcomes, Results, Recorded, rowVars, cmdVars, workVars, pmpVars, Lose
  <2>2. QueueInv'
    BY <1>0, <1>3 DEF WorkerAudit, TypeOK, QueueInv, HandlerInv, NotTaken, rowVars, cmdVars, workVars, pmpVars, Lose
  <2>3. WorkerInv'
    BY <1>0, <1>3 DEF WorkerAudit, TypeOK, WorkerInv, HandlerInv, NotTaken, rowVars, cmdVars, workVars, pmpVars, Lose
  <2>4. HandlerInv'
    BY <1>0, <1>3 DEF WorkerAudit, TypeOK, WorkerInv, HandlerInv, NotTaken, Outcomes, rowVars, cmdVars, workVars, pmpVars, Lose
  <2>5. WaitInv'
    BY <1>0, <1>3 DEF WorkerAudit, TypeOK, WaitInv, Outcomes, rowVars, cmdVars, workVars, pmpVars, Lose
  <2>6. AnswersAreTrue'
    BY <1>0, <1>3 DEF WorkerAudit, TypeOK, WorkerInv, HandlerInv, AnswersAreTrue, Outcomes, Recorded, rowVars, cmdVars, workVars, pmpVars, Lose
  <2>7. AuditsAreFinal'
    BY <1>0, <1>3 DEF WorkerAudit, TypeOK, WorkerInv, HandlerInv, AuditsAreFinal, Outcomes, Recorded, rowVars, cmdVars, workVars, pmpVars, Lose
  <2>8. QED
    BY <2>1, <2>2, <2>3, <2>4, <2>5, <2>6, <2>7 DEF BrokerInv
<1>4. CASE WorkerReply(k)
  <2>1. TypeOK'
    BY <1>0, <1>4 DEF WorkerReply, TypeOK, ClientStates, Outcomes, Results, Recorded, rowVars, cmdVars, workVars, pmpVars, Lose
  <2>2. QueueInv'
    BY <1>0, <1>4 DEF WorkerReply, TypeOK, QueueInv, HandlerInv, NotTaken, rowVars, cmdVars, workVars, pmpVars, Lose
  <2>3. WorkerInv'
    BY <1>0, <1>4 DEF WorkerReply, TypeOK, WorkerInv, HandlerInv, NotTaken, rowVars, cmdVars, workVars, pmpVars, Lose
  <2>4. HandlerInv'
    <3>1. current[k] \in Command /\ outcome[current[k]] \in {"ok", "failed"}
      BY <1>0, <1>4 DEF WorkerReply, TypeOK, WorkerInv, Outcomes
    <3>2. \A d \in Command : client'[d] = client[d] \/ client'[d] \in {"ok", "failed"}
      BY <1>0, <1>4, <3>1 DEF WorkerReply, TypeOK
    <3>3. UNCHANGED <<taken, outcome, sent, runStatus>>
      BY <1>4 DEF WorkerReply, rowVars, pmpVars
    <3>4. QED
      BY <1>0, <3>2, <3>3 DEF HandlerInv, NotTaken
  <2>5. WaitInv'
    BY ZenonT(40), <1>0, <1>4 DEF WorkerReply, TypeOK, WaitInv, Outcomes, rowVars, cmdVars, workVars, pmpVars, Lose
  <2>6. AnswersAreTrue'
    BY <1>0, <1>4 DEF WorkerReply, TypeOK, WorkerInv, HandlerInv, AnswersAreTrue, Outcomes, Recorded, rowVars, cmdVars, workVars, pmpVars, Lose
  <2>7. AuditsAreFinal'
    BY <1>0, <1>4 DEF WorkerReply, TypeOK, WorkerInv, HandlerInv, AuditsAreFinal, Outcomes, Recorded, rowVars, cmdVars, workVars, pmpVars, Lose
  <2>8. QED
    BY <2>1, <2>2, <2>3, <2>4, <2>5, <2>6, <2>7 DEF BrokerInv
<1>5. QED
  BY <1>1, <1>2, <1>3, <1>4

\* A worker that panics, and the end of the process, drop what they hold.
LEMMA FaultStep ==
    ASSUME BrokerInv, (\E k \in Key : WorkerPanic(k)) \/ Crash
    PROVE  BrokerInv'
<1>0. /\ TypeOK /\ QueueInv /\ WorkerInv /\ HandlerInv /\ WaitInv
      /\ AnswersAreTrue /\ AuditsAreFinal /\ BrokerAssumption
  BY BrokerAssumption DEF BrokerInv
<1>1. ASSUME NEW k \in Key, WorkerPanic(k) PROVE BrokerInv'
  <2>1. TypeOK'
    BY <1>0, <1>1 DEF WorkerPanic, TypeOK, ClientStates, Outcomes, Results, Recorded, rowVars, cmdVars, workVars, pmpVars, Lose, HeldBy
  <2>2. QueueInv'
    BY <1>0, <1>1 DEF WorkerPanic, TypeOK, QueueInv, HandlerInv, NotTaken, rowVars, cmdVars, workVars, pmpVars, Lose, HeldBy
  <2>3. WorkerInv'
    BY <1>0, <1>1 DEF WorkerPanic, TypeOK, WorkerInv, HandlerInv, NotTaken, rowVars, cmdVars, workVars, pmpVars, Lose, HeldBy
  <2>4. HandlerInv'
    BY <1>0, <1>1 DEF WorkerPanic, TypeOK, WorkerInv, HandlerInv, NotTaken, Outcomes, rowVars, cmdVars, workVars, pmpVars, Lose, HeldBy
  <2>5. WaitInv'
    <3> SUFFICES ASSUME NEW c \in Command, client'[c] = "waiting"
                 PROVE  current'[key[c]] = c
                        \/ \E i \in 1..Len(queue'[key[c]]) : queue'[key[c]][i] = c
      BY <1>1 DEF WaitInv, WorkerPanic, cmdVars
    <3>1. client[c] = "waiting" /\ c \notin HeldBy(k)
      BY <1>1 DEF WorkerPanic
    <3>2. key[c] # k
      <4>1. current[k] # c /\ ~ \E i \in DOMAIN queue[k] : queue[k][i] = c
        BY <3>1 DEF HeldBy
      <4>2. DOMAIN queue[k] = 1..Len(queue[k])
        BY <1>0 DEF TypeOK
      <4>3. QED
        BY <1>0, <3>1, <4>1, <4>2 DEF WaitInv
    <3>3. queue'[key[c]] = queue[key[c]] /\ current'[key[c]] = current[key[c]]
      BY <1>0, <1>1, <3>2 DEF WorkerPanic, TypeOK
    <3>4. QED
      BY <1>0, <3>1, <3>3 DEF WaitInv
  <2>6. AnswersAreTrue'
    BY <1>0, <1>1 DEF WorkerPanic, TypeOK, WorkerInv, HandlerInv, AnswersAreTrue, Outcomes, Recorded, rowVars, cmdVars, workVars, pmpVars, Lose, HeldBy
  <2>7. AuditsAreFinal'
    BY <1>0, <1>1 DEF WorkerPanic, TypeOK, WorkerInv, HandlerInv, AuditsAreFinal, Outcomes, Recorded, rowVars, cmdVars, workVars, pmpVars, Lose, HeldBy
  <2>8. QED
    BY <2>1, <2>2, <2>3, <2>4, <2>5, <2>6, <2>7 DEF BrokerInv
<1>2. CASE Crash
  <2>1. TypeOK'
    <3>1. client' \in [Command -> ClientStates]
      BY <1>0, <1>2 DEF Crash, TypeOK, ClientStates
    <3>2. lost' \subseteq Command
      <4>1. \A k \in Key : HeldBy(k) \subseteq Command
        BY DEF HeldBy
      <4> DEFINE H == UNION {HeldBy(k) : k \in Key}
                 X == {c \in sent \ taken : client[c] \in {"consoleSent", "consoleReplied", "consoleMarked"}}
      <4>2. H \subseteq Command
        BY <4>1
      <4>3. lost' = lost \cup (H \cup X)
        BY <1>2 DEF Crash, Lose
      <4>4. lost \subseteq Command /\ X \subseteq Command
        BY <1>0 DEF TypeOK
      <4> HIDE DEF H, X
      <4>5. QED
        BY <4>2, <4>3, <4>4
    <3>3. /\ queue' \in [Key -> Seq(Command)]
          /\ \A k \in Key : Len(queue'[k]) <= Capacity
      BY <1>0, <1>2 DEF Crash, BrokerAssumption
    <3>4. QED
      BY <1>0, <1>2, <3>1, <3>2, <3>3 DEF Crash, TypeOK, BrokerAssumption, rowVars, cmdVars, pmpVars
  <2>2. QueueInv'
    BY <1>0, <1>2 DEF Crash, TypeOK, QueueInv, HandlerInv, NotTaken, rowVars, cmdVars, workVars, pmpVars, Lose, HeldBy
  <2>3. WorkerInv'
    BY <1>0, <1>2 DEF Crash, TypeOK, WorkerInv, HandlerInv, NotTaken, rowVars, cmdVars, workVars, pmpVars, Lose, HeldBy
  <2>4. HandlerInv'
    BY <1>0, <1>2 DEF Crash, TypeOK, WorkerInv, HandlerInv, NotTaken, Outcomes, rowVars, cmdVars, workVars, pmpVars, Lose, HeldBy
  <2>5. WaitInv'
    BY <1>0, <1>2 DEF Crash, TypeOK, WaitInv, Outcomes, rowVars, cmdVars, workVars, pmpVars, Lose, HeldBy
  <2>6. AnswersAreTrue'
    BY <1>0, <1>2 DEF Crash, TypeOK, WorkerInv, HandlerInv, AnswersAreTrue, Outcomes, Recorded, rowVars, cmdVars, workVars, pmpVars, Lose, HeldBy
  <2>7. AuditsAreFinal'
    BY <1>0, <1>2 DEF Crash, TypeOK, WorkerInv, HandlerInv, AuditsAreFinal, Outcomes, Recorded, rowVars, cmdVars, workVars, pmpVars, Lose, HeldBy
  <2>8. QED
    BY <2>1, <2>2, <2>3, <2>4, <2>5, <2>6, <2>7 DEF BrokerInv
<1>3. QED
  BY <1>1, <1>2

\* Every step preserves the invariant.
LEMMA BrokerInvStep == BrokerInv /\ [Next]_vars => BrokerInv'
<1> SUFFICES ASSUME BrokerInv, [Next]_vars PROVE BrokerInv'
  OBVIOUS
<1>1. ASSUME NEW k \in Key, NEW p \in Principal, SetHost(k, p) PROVE BrokerInv'
  BY SMTT(20), <1>1 DEF SetHost, BrokerInv, TypeOK, QueueInv, WorkerInv, HandlerInv, WaitInv,
     AnswersAreTrue, AuditsAreFinal, rowVars, cmdVars, workVars
<1>2. CASE UNCHANGED vars
  BY <1>2 DEF vars, BrokerInv, TypeOK, QueueInv, WorkerInv, HandlerInv, WaitInv,
     AnswersAreTrue, AuditsAreFinal
<1>3. QED
  BY <1>1, <1>2, SubmitStep, HandlerStep, RunStep, WorkStep, FaultStep DEF Next, WorkerStep

\* The invariant holds throughout.
THEOREM BrokerInvariant == Spec => []BrokerInv
<1>1. Init => BrokerInv
  BY BrokerAssumption DEF Init, BrokerInv, TypeOK, QueueInv, WorkerInv, HandlerInv, WaitInv,
     AnswersAreTrue, AuditsAreFinal, ClientStates, Results, Outcomes, NotTaken
<1>2. QED
  BY <1>1, BrokerInvStep, PTL DEF Spec

\* Answers, rows and audit events say what happened, a command is held in one
\* place and nobody waits for a command that nobody holds.
THEOREM CommandsTrue == Spec => []CommandsAreTrue
<1>1. BrokerInv => CommandsAreTrue
  <2> SUFFICES ASSUME BrokerInv PROVE HeldOnce /\ WaitersAreServed
    BY DEF BrokerInv, CommandsAreTrue
  <2>1. ASSUME NEW c \in Command, NEW k \in Key, NEW i \in 0..Capacity, HoldsAt(k, i, c)
        PROVE  key[c] = k
    BY <2>1, BrokerAssumption DEF HoldsAt, BrokerInv, TypeOK, QueueInv, WorkerInv
  <2>2. ASSUME NEW c \in Command, NEW k \in Key, NEW i \in 0..Capacity, NEW j \in 0..Capacity,
               HoldsAt(k, i, c), HoldsAt(k, j, c)
        PROVE  i = j
    BY <2>2, BrokerAssumption DEF HoldsAt, BrokerInv, TypeOK, QueueInv
  <2>3. HeldOnce
    BY <2>1, <2>2 DEF HeldOnce
  <2>4. WaitersAreServed
    BY DEF BrokerInv, TypeOK, WaitInv, WaitersAreServed, HeldBy
  <2>5. QED
    BY <2>3, <2>4
<1>2. QED
  BY <1>1, BrokerInvariant, PTL
=============================================================================
