------------------------------ MODULE Requests ------------------------------
(***************************************************************************)
(* What the models of the HTTP routes share: the requests served at the    *)
(* same time, one handler each, and the absence of a value.                *)
(***************************************************************************)
EXTENDS FiniteSets

CONSTANTS
    Handler,  \* requests served at the same time
    None      \* no row, no value
ASSUME RequestsAssumption == IsFiniteSet(Handler)

\* A handler that serves no request.
Idle == [pc |-> "idle"]
=============================================================================
