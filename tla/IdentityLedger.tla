--------------------------- MODULE IdentityLedger ---------------------------
(***************************************************************************)
(* What GitHub login promises, without its states, callbacks and races: a  *)
(* ledger in which a GitHub account has at most one owner and changes      *)
(* hands only by being given up, and sessions that are each opened once,   *)
(* for a user who has owned the account.  GithubLogin implements it.       *)
(***************************************************************************)
CONSTANTS Account, Github, Token, None

VARIABLES
    owner,    \* github account -> its user, or None
    bound,    \* <<github account, user>> that once was a row
    opened    \* sessions, each with the OAuth state that opened it

ledgerVars == <<owner, bound, opened>>

LedgerInit ==
    /\ owner = [g \in Github |-> None]
    /\ bound = {}
    /\ opened = {}

Bind(g, u) ==
    /\ owner[g] = None
    /\ owner' = [owner EXCEPT ![g] = u]
    /\ bound' = bound \cup {<<g, u>>}
    /\ UNCHANGED opened

Unbind(g) ==
    /\ owner' = [owner EXCEPT ![g] = None]
    /\ UNCHANGED <<bound, opened>>

Open(t, g, u) ==
    /\ <<g, u>> \in bound
    /\ \A s \in opened : s.token # t
    /\ opened' = opened \cup {[token |-> t, user |-> u, gh |-> g]}
    /\ UNCHANGED <<owner, bound>>

LedgerNext ==
    \E g \in Github :
        \/ Unbind(g)
        \/ \E u \in Account : Bind(g, u) \/ \E t \in Token : Open(t, g, u)

LedgerSpec == LedgerInit /\ [][LedgerNext]_ledgerVars
=============================================================================
