----------------------------- MODULE MCServices -----------------------------
(***************************************************************************)
(* What runs to its end on behalf of a caller: the runs of runbooks, the   *)
(* calls to Phira with their cache, retries and redirects, and the calls   *)
(* to PMP over its connection.  The parts share no state, so one run       *)
(* explores each of them from its own initial states: `part' says which.   *)
(***************************************************************************)
EXTENDS Runbooks, PhiraGateway, PhiraRetry, OpenUds

CONSTANTS w, l, a, b

VARIABLE part

Saved == {<<a, w, b>>, <<b>>, <<a, l>>}

serviceVars == <<part, vars, gatewayVars, retryVars, udsVars>>

ServicesInit ==
    /\ part \in {"runbooks", "gateway", "retry", "link"}
    /\ Init /\ GatewayInit /\ RetryInit /\ UdsInit
    /\ part # "runbooks" => book = <<b>>
    /\ part # "retry" => kind = "gateway"

InRunbooks == part = "runbooks" /\ UNCHANGED <<part, gatewayVars, retryVars, udsVars>>
InGateway == part = "gateway" /\ UNCHANGED <<part, vars, retryVars, udsVars>>
InLink == part = "link" /\ UNCHANGED <<part, vars, gatewayVars, retryVars>>
RunbooksPart == InRunbooks /\ Next
GatewayPart == InGateway /\ GatewayNext
RetryPart == part = "retry" /\ RetryNext /\ UNCHANGED <<part, vars, gatewayVars, udsVars>>
LinkPart == InLink /\ UdsNext

ServicesNext == RunbooksPart \/ GatewayPart \/ RetryPart \/ LinkPart

\* The fairness of Runbooks, of PhiraGateway and of OpenUds.
ServicesSpec ==
    /\ ServicesInit /\ [][ServicesNext]_serviceVars
    /\ \A r \in Run : WF_serviceVars(InRunbooks /\ HandlerStep(r))
    /\ \A c \in Caller : WF_serviceVars(InGateway /\ Serve(c))
    /\ WF_serviceVars(InLink /\ LinkStep)
    /\ \A c \in Call : WF_serviceVars(InLink /\ CallStep(c))

(* After a loss the client comes back to connecting and every caller that  *)
(* was waiting returns, also one without a timeout.                        *)
(* pmp/openuds/client.rs:126-230.                                          *)
LossIsRepaired == LossReleasesWaiters /\ KeepsReconnecting
=============================================================================
