-------------------------------- MODULE MCPmp --------------------------------
(***************************************************************************)
(* What PMP is asked to do: the commands of the broker and of the console, *)
(* and the join intents, which wait for a player to come online.  The two  *)
(* share no state, so one run explores each of them from its own initial   *)
(* states: `part' says which.                                              *)
(***************************************************************************)
EXTENDS CommandBroker, JoinIntents

VARIABLE part

\* Whose rooms and commands there are where they do not matter.
Host == {CHOOSE p \in Principal : TRUE}

pmpRunVars == <<part, vars, intentVars>>

PmpInit ==
    /\ part \in {"broker", "intents"}
    /\ Init /\ IntentsInit
    /\ part # "broker" => caller \in [Command -> Host] /\ host \in [Key -> Host]

InBroker == part = "broker" /\ UNCHANGED <<part, intentVars>>
InIntents == part = "intents" /\ UNCHANGED <<part, vars>>
BrokerPart == InBroker /\ Next
IntentsPart == InIntents /\ IntentsNext

PmpNext == BrokerPart \/ IntentsPart

\* The fairness of CommandBroker and of JoinIntents.
PmpSpec ==
    /\ PmpInit /\ [][PmpNext]_pmpRunVars
    /\ \A k \in Key : WF_pmpRunVars(InBroker /\ WorkerStep(k))
    /\ \A c \in Command : WF_pmpRunVars(InBroker /\ ConsoleStep(c))
    /\ WF_pmpRunVars(InIntents /\ ListenerStep)
    /\ WF_pmpRunVars(InIntents /\ SweepStep)
    /\ \A i \in Intent : WF_pmpRunVars(InIntents /\ Age(i))

(* Every intent leaves the store, also one nobody cancels or polls.        *)
(* join_intent/mod.rs, join_intent/routes.rs.                              *)
IntentsDrain == StoreDrains
=============================================================================
