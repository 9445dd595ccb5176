---------------------------- MODULE GithubLogin ----------------------------
(***************************************************************************)
(* GitHub OAuth: the pending states of auth/github.rs, the three routes    *)
(* that start, finish and undo a binding or a login, and the rows of       *)
(* user_identities with provider 'github'.                                 *)
(*                                                                         *)
(* A callback is four steps with awaits between them: it consumes the      *)
(* state, exchanges the code, reads the identity, and then opens a session *)
(* or inserts the row.  An unbind reads the rows of its user and deletes   *)
(* them one by one.  An age of a state is FALSE while it is younger than   *)
(* STATE_TTL_SECS.                                                         *)
(***************************************************************************)
EXTENDS Requests, Naturals, FiniteSets

CONSTANTS
    Account,     \* users of this backend
    Github,      \* GitHub accounts
    Token,       \* OAuth states, each drawn once
    MaxPending   \* MAX_PENDING_STATES
ASSUME GithubAssumption == MaxPending \in Nat \ {0} /\ IsFiniteSet(Token)

VARIABLES
    oauth,       \* token -> the server's record of it, or None
    drawn,       \* tokens already handed out
    owner,       \* user_identities: github account -> user, or None
    call,        \* what every handler does
    opened,      \* history: sessions opened, with the row that allowed them
    bound        \* history: <<github account, user>> that once was a row

githubVars == <<oauth, drawn, owner, call, opened, bound>>

Pending == {t \in Token : oauth[t] # None}
\* What the routes make of the record that authorize_url put there.
bind_state_to_user(user) ==
    [mode |-> "bind", user |-> user, accepted |-> FALSE, old |-> FALSE]
mark_login_state(accepted) ==
    [mode |-> "login", user |-> None, accepted |-> accepted, old |-> FALSE]

GithubInit ==
    /\ oauth = [t \in Token |-> None]
    /\ drawn = {}
    /\ owner = [g \in Github |-> None]
    /\ call = [h \in Handler |-> Idle]
    /\ opened = {}
    /\ bound = {}

-----------------------------------------------------------------------------
prune_states(states) ==
    [t \in Token |-> IF states[t] # None /\ states[t].old THEN None ELSE states[t]]

Inserting == {h \in Handler : call[h].pc = "insert"}
\* The tokens bound the states ever drawn.
TokenLeft == Cardinality(Inserting) < Cardinality(Token \ drawn)

\* authorize_url prunes and counts; it inserts in a statement of its own.
\* `as' is what the route will make of the record.
AuthorizeCheckFree(h, as) ==
    /\ call[h] = Idle /\ TokenLeft
    /\ oauth' = prune_states(oauth)
    /\ call' = [call EXCEPT ![h] = [pc |-> "insert", as |-> as]]
    /\ UNCHANGED <<drawn, owner, opened, bound>>
AuthorizeCheck(h, as) ==
    LET kept == prune_states(oauth) IN
    /\ call[h] = Idle /\ TokenLeft
    /\ oauth' = kept
    /\ IF Cardinality({t \in Token : kept[t] # None}) < MaxPending
       THEN call' = [call EXCEPT ![h] = [pc |-> "insert", as |-> as]]
       ELSE UNCHANGED call
    /\ UNCHANGED <<drawn, owner, opened, bound>>

\* GET /auth/github/start by user u, and GET /auth/github/login/start by
\* anybody, with or without the consent to the current documents.
github_start(h, u) == AuthorizeCheck(h, bind_state_to_user(u))
github_login_start(h, accepted) == AuthorizeCheck(h, mark_login_state(accepted))

\* The insert, and bind_state_to_user or mark_login_state after it; nobody
\* has the token before the route answers.
AuthorizeInsert(h, t) ==
    /\ call[h].pc = "insert"
    /\ t \notin drawn
    /\ drawn' = drawn \cup {t}
    /\ oauth' = [oauth EXCEPT ![t] = call[h].as]
    /\ call' = [call EXCEPT ![h] = Idle]
    /\ UNCHANGED <<owner, opened, bound>>

Ages(t) ==
    /\ oauth[t] # None
    /\ oauth' = [oauth EXCEPT ![t].old = TRUE]
    /\ UNCHANGED <<drawn, owner, call, opened, bound>>

-----------------------------------------------------------------------------
(* GET /auth/github/callback.                                              *)

consume_state(states, t) == [prune_states(states) EXCEPT ![t] = None]

\* With an error from GitHub, or without a code, the callback ends here.
CallbackBegin(h, t) ==
    LET kept == prune_states(oauth) IN
    /\ call[h] = Idle
    /\ kept[t] # None
    /\ oauth' = consume_state(oauth, t)
    /\ \/ call' = [call EXCEPT ![h] = [pc |-> "exchange", as |-> kept[t], token |-> t]]
       \/ UNCHANGED call
    /\ UNCHANGED <<drawn, owner, opened, bound>>

\* GitHub names the account that authorized, or fails.
exchange_code(h) ==
    /\ call[h].pc = "exchange"
    /\ \/ \E g \in Github :
             call' = [call EXCEPT ![h] =
                 [pc |-> "find", as |-> call[h].as, token |-> call[h].token, gh |-> g]]
       \/ call' = [call EXCEPT ![h] = Idle]
    /\ UNCHANGED <<oauth, drawn, owner, opened, bound>>

find_by_provider(g) == owner[g]

\* A login needs a row; a binding needs no row or a row of the same user.
MayBind(as, found) == as.mode = "bind" /\ found \in {None, as.user}

FindIdentity(h) ==
    LET as == call[h].as
        found == find_by_provider(call[h].gh) IN
    /\ call[h].pc = "find"
    /\ IF (as.mode = "login" /\ found # None) \/ MayBind(as, found)
       THEN call' = [call EXCEPT ![h] =
           [pc |-> as.mode, as |-> as, token |-> call[h].token, gh |-> call[h].gh,
            user |-> IF as.mode = "login" THEN found ELSE as.user]]
       ELSE call' = [call EXCEPT ![h] = Idle]
    /\ UNCHANGED <<oauth, drawn, owner, opened, bound>>

\* Consent is on record or accepted with the state, and a session opens; or
\* one of the statements fails.
LoginFinish(h) ==
    /\ call[h].pc = "login"
    /\ \/ opened' = opened \cup
              {[token |-> call[h].token, user |-> call[h].user, gh |-> call[h].gh]}
       \/ UNCHANGED opened
    /\ call' = [call EXCEPT ![h] = Idle]
    /\ UNCHANGED <<oauth, drawn, owner, bound>>

\* INSERT ... ON CONFLICT DO NOTHING: the first of two racing users wins and
\* both are told that they are bound.
bind_githubOver(g, u) == [owner EXCEPT ![g] = u]
bind_github(g, u) == [owner EXCEPT ![g] = IF @ = None THEN u ELSE @]

BindFinish(h) ==
    LET g == call[h].gh IN
    /\ call[h].pc = "bind"
    /\ \/ /\ owner' = bind_github(g, call[h].user)
          /\ bound' = bound \cup {<<g, owner'[g]>>}
       \/ UNCHANGED <<owner, bound>>                       \* the statement failed
    /\ call' = [call EXCEPT ![h] = Idle]
    /\ UNCHANGED <<oauth, drawn, opened>>

-----------------------------------------------------------------------------
(* POST /auth/github/unbind: list_for_user, then one DELETE per row.       *)

list_for_user(u) == {g \in Github : owner[g] = u}

github_unbind(h, u) ==
    /\ call[h] = Idle
    /\ call' = [call EXCEPT ![h] = [pc |-> "unbind", user |-> u, left |-> list_for_user(u)]]
    /\ UNCHANGED <<oauth, drawn, owner, opened, bound>>

\* A DELETE that fails ends the request.
unbind_github(h) ==
    /\ call[h].pc = "unbind"
    /\ \/ \E g \in call[h].left :
             /\ owner' = [owner EXCEPT ![g] = IF @ = call[h].user THEN None ELSE @]
             /\ call' = [call EXCEPT ![h].left = @ \ {g}]
       \/ call' = [call EXCEPT ![h] = Idle] /\ UNCHANGED owner
    /\ UNCHANGED <<oauth, drawn, opened, bound>>

-----------------------------------------------------------------------------
GithubNext ==
    \/ \E h \in Handler :
        \/ exchange_code(h) \/ FindIdentity(h) \/ LoginFinish(h)
        \/ BindFinish(h) \/ unbind_github(h)
        \/ \E u \in Account : github_start(h, u) \/ github_unbind(h, u)
        \/ \E accepted \in BOOLEAN : github_login_start(h, accepted)
        \/ \E t \in Token : AuthorizeInsert(h, t) \/ CallbackBegin(h, t)
    \/ \E t \in Token : Ages(t)

GithubSpec == GithubInit /\ [][GithubNext]_githubVars

GithubTypeOK ==
    /\ \A t \in Token : oauth[t] # None =>
          t \in drawn /\ oauth[t].mode \in {"bind", "login"}
    /\ owner \in [Github -> Account \cup {None}]
    /\ bound \subseteq Github \X Account

(* A GitHub login opens a session of a user who had bound that GitHub      *)
(* account, and one OAuth state opens at most one session, also when the   *)
(* same callback arrives twice and bindings change between its steps.      *)
(* auth/routes.rs:647-760.                                                 *)
LoginIsBound ==
    /\ \A s \in opened : <<s.gh, s.user>> \in bound
    /\ \A s, r \in opened : s.token = r.token => s = r

(* However callbacks, bindings and unbinds race, the rows and the sessions *)
(* behave as the ledger says: a binding never takes an account over, and a *)
(* session is opened once, for a user who has owned the account.           *)
(* auth/routes.rs:643-841, identities/repo.rs:60-90.                       *)
Ledger == INSTANCE IdentityLedger
ImplementsLedger == Ledger!LedgerSpec

(* The pending states exceed their limit by at most the requests that are  *)
(* between the count and the insert.  auth/github.rs:77-86.                *)
PendingIsBounded ==
    Cardinality(Pending) + Cardinality(Inserting)
        <= MaxPending + Cardinality(Handler) - 1

(* A GitHub login opens a session of a user who had bound the account, a   *)
(* state opens at most one session, and the pending states exceed their    *)
(* limit at most by the requests under way.  auth/routes.rs:647-760,       *)
(* auth/github.rs:77-86.                                                   *)
GithubIsSound == GithubTypeOK /\ LoginIsBound /\ PendingIsBounded
=============================================================================
