----------------------------- MODULE Elevation -----------------------------
(***************************************************************************)
(* The root password and the re-authentication that dangerous requests     *)
(* need: auth/root.rs, auth/reauth.rs and their routes.                    *)
(*                                                                         *)
(* A password is a serial number.  The server (bootstrap, reset) draws a   *)
(* new one; a request that changes it may name a new one or any that was   *)
(* in use before; bcrypt tells two passwords apart.  The single row of     *)
(* root_credentials is read and written by separate statements.  A reauth  *)
(* token is a signed copy of its claims that the client keeps: it is shown *)
(* to any session, any number of times, until its exp.                     *)
(***************************************************************************)
EXTENDS Requests, Naturals

CONSTANTS
    Sid,         \* sessions
    AccountOf,   \* session -> the account it belongs to, or "root"
    PhiraLogin,  \* Phira accounts whose password somebody may type
    MaxSecrets   \* bound on the passwords ever drawn
ASSUME ElevationAssumption == MaxSecrets \in Nat

VARIABLES
    root,        \* root_credentials: None or [pw, must_change_password]
    secrets,     \* number of passwords drawn so far
    generated,   \* history: those drawn by the server, which printed them
    chosen,      \* history: those a request asked for
    req,         \* what every handler does
    tokens,      \* claims of the reauth tokens issued and not past their exp
    elevated,    \* history: [sid, risk, token] of the last request let through
    proved,      \* history: <<sid, account>> whose password was checked
    rooted       \* root sessions opened so far

elevVars == <<root, secrets, generated, chosen, req, tokens, elevated, proved, rooted>>

Risk == {"high", "critical"}

ElevInit ==
    /\ root = None
    /\ secrets = 0
    /\ generated = {}
    /\ chosen = {}
    /\ req = [h \in Handler |-> Idle]
    /\ tokens = {}
    /\ elevated = None
    /\ proved = {}
    /\ rooted = {}

verify(pw) == root # None /\ root.pw = pw

Draw == secrets < MaxSecrets /\ secrets' = secrets + 1

-----------------------------------------------------------------------------
(* First boot: the server, and `ppb-server root init' beside it.           *)

bootstrapRead(h) ==
    /\ req[h] = Idle
    /\ root = None
    /\ req' = [req EXCEPT ![h] = [pc |-> "bootstrap"]]
    /\ UNCHANGED <<root, secrets, generated, chosen, tokens, elevated, proved, rooted>>

\* ON CONFLICT DO UPDATE: the later of two first boots decides.  The
\* statement may fail.
bootstrapWrite(h) ==
    /\ req[h].pc = "bootstrap"
    /\ \/ /\ Draw
          /\ root' = [pw |-> secrets, must |-> TRUE]
          /\ generated' = generated \cup {secrets}
       \/ UNCHANGED <<root, secrets, generated>>
    /\ req' = [req EXCEPT ![h] = Idle]
    /\ UNCHANGED <<chosen, tokens, elevated, proved, rooted>>

\* The server does the same when it starts.
root_init(h) == bootstrapRead(h)

\* ppctl root reset-password: one UPDATE, of no row before the first boot.
reset_password(pw) == IF root = None THEN None ELSE [pw |-> pw, must |-> TRUE]

run_root_reset ==
    /\ Draw
    /\ root' = reset_password(secrets)
    /\ generated' = generated \cup {secrets}
    /\ UNCHANGED <<chosen, req, tokens, elevated, proved, rooted>>

-----------------------------------------------------------------------------
(* POST /admin/auth/root/login: the password is verified, then the session *)
(* is stored.                                                              *)

RootLoginVerify(h, s, pw) ==
    /\ req[h] = Idle
    /\ AccountOf[s] = "root" /\ s \notin rooted
    /\ verify(pw)
    /\ req' = [req EXCEPT ![h] = [pc |-> "login", sid |-> s]]
    /\ UNCHANGED <<root, secrets, generated, chosen, tokens, elevated, proved, rooted>>

root_login(h) ==
    /\ req[h].pc = "login"
    /\ rooted' = rooted \cup {req[h].sid}
    /\ req' = [req EXCEPT ![h] = Idle]
    /\ UNCHANGED <<root, secrets, generated, chosen, tokens, elevated, proved>>

-----------------------------------------------------------------------------
(* POST /admin/auth/root/change-password, in a root session.               *)

must_change_password(h) ==
    /\ req[h] = Idle
    /\ rooted # {}
    /\ req' = [req EXCEPT ![h] = [pc |-> IF root.must THEN "set" ELSE "verify"]]
    /\ UNCHANGED <<root, secrets, generated, chosen, tokens, elevated, proved, rooted>>

ChangeVerify(h, pw) ==
    /\ req[h].pc = "verify"
    /\ req' = [req EXCEPT ![h] = IF verify(pw) THEN [pc |-> "set"] ELSE Idle]
    /\ UNCHANGED <<root, secrets, generated, chosen, tokens, elevated, proved, rooted>>

\* A password of at least 12 bytes is stored, without a look at the one it
\* replaces; a shorter one is refused, and the statement may fail.
Choose(pw) ==
    /\ IF pw = secrets THEN Draw ELSE pw < secrets /\ UNCHANGED secrets
    /\ chosen' = chosen \cup {pw}

change_passwordKeepFlag(h, pw) ==
    /\ req[h].pc = "set"
    /\ \/ Choose(pw) /\ root' = [root EXCEPT !.pw = pw]
       \/ UNCHANGED <<secrets, chosen, root>>
    /\ req' = [req EXCEPT ![h] = Idle]
    /\ UNCHANGED <<generated, tokens, elevated, proved, rooted>>
change_password(h, pw) ==
    /\ req[h].pc = "set"
    /\ \/ Choose(pw) /\ root' = [pw |-> pw, must |-> FALSE]
       \/ UNCHANGED <<secrets, chosen, root>>
    /\ req' = [req EXCEPT ![h] = Idle]
    /\ UNCHANGED <<generated, tokens, elevated, proved, rooted>>

-----------------------------------------------------------------------------
(* POST /auth/phira/reauth and the header that carries its answer.         *)

\* Root proves its password, a user logs in to Phira: `who' is the account
\* whose password was right.
ReauthProve(h, s, risk, who) ==
    /\ req[h] = Idle
    /\ IF AccountOf[s] = "root" THEN who = "root" /\ s \in rooted ELSE who \in PhiraLogin
    /\ req' = [req EXCEPT ![h] = [pc |-> "reauth", sid |-> s, risk |-> risk, who |-> who]]
    /\ proved' = proved \cup {<<s, who>>}
    /\ UNCHANGED <<root, secrets, generated, chosen, tokens, elevated, rooted>>

\* The Phira account must be the session's own.
claims(r) == [sid |-> r.sid, risk |-> r.risk]

ReauthIssueAny(h) ==
    LET r == req[h] IN
    /\ r.pc = "reauth"
    /\ tokens' = tokens \cup {claims(r)}
    /\ req' = [req EXCEPT ![h] = Idle]
    /\ UNCHANGED <<root, secrets, generated, chosen, elevated, proved, rooted>>
ReauthIssue(h) ==
    LET r == req[h] IN
    /\ r.pc = "reauth"
    /\ IF r.who = AccountOf[r.sid]
       THEN tokens' = tokens \cup {claims(r)}
       ELSE UNCHANGED tokens
    /\ req' = [req EXCEPT ![h] = Idle]
    /\ UNCHANGED <<root, secrets, generated, chosen, elevated, proved, rooted>>

Lapses(t) ==
    /\ tokens' = tokens \ {t}
    /\ UNCHANGED <<root, secrets, generated, chosen, req, elevated, proved, rooted>>

decode_reauth(t, s) == t \in tokens /\ t.sid = s

\* A request of session s to a route that needs `risk', with token t.
check_reauth_header(t, s, risk) ==
    /\ decode_reauth(t, s)
    /\ risk = "critical" => t.risk = "critical"
    /\ elevated' = [sid |-> s, risk |-> risk, token |-> t]
    /\ UNCHANGED <<root, secrets, generated, chosen, req, tokens, proved, rooted>>

-----------------------------------------------------------------------------
ElevNext ==
    \/ run_root_reset
    \/ \E h \in Handler :
        \/ root_init(h) \/ bootstrapWrite(h) \/ root_login(h)
        \/ must_change_password(h) \/ ReauthIssue(h)
        \/ \E pw \in 0..MaxSecrets : ChangeVerify(h, pw) \/ change_password(h, pw)
        \/ \E s \in Sid, pw \in 0..MaxSecrets : RootLoginVerify(h, s, pw)
        \/ \E s \in Sid, risk \in Risk, who \in PhiraLogin \cup {"root"} :
              ReauthProve(h, s, risk, who)
    \/ \E t \in tokens : Lapses(t)
    \/ \E t \in tokens, s \in Sid, risk \in Risk : check_reauth_header(t, s, risk)

ElevSpec == ElevInit /\ [][ElevNext]_elevVars

ElevTypeOK ==
    /\ root # None => root.pw \in 0..(MaxSecrets - 1) /\ root.must \in BOOLEAN
    /\ secrets \in 0..MaxSecrets
    /\ tokens \subseteq [sid : Sid, risk : Risk]

(* The root password either must be changed, and then it is one the server *)
(* printed and no request asked for; or it need not, and then a request    *)
(* asked for it.  No interleaving of first boots, resets and changes drops *)
(* the obligation for a password nobody asked for.  The code compares the  *)
(* new password with nothing (root.rs:108-124): who asks for the printed   *)
(* one again is rid of the obligation too, and a change that was verified  *)
(* before a reset still replaces what the reset printed.                   *)
(* auth/root.rs:33-124, auth/routes.rs:923-942.                            *)
GeneratedMustChange ==
    root # None => IF root.must THEN root.pw \in generated \ chosen ELSE root.pw \in chosen

(* A request is let through a reauth check only in a session in which the  *)
(* password of the session's own account was proved, and at no higher risk *)
(* than asked for.  auth/routes.rs:227-246 and 328-382, auth/reauth.rs.    *)
ElevationIsEarned ==
    elevated # None =>
        /\ <<elevated.sid, AccountOf[elevated.sid]>> \in proved
        /\ elevated.risk = "critical" => elevated.token.risk = "critical"

(* A printed root password has to be changed unless a request asked for    *)
(* it, and a request passes a reauth check only after its session's own    *)
(* password was proved.                                                    *)
(* auth/root.rs:33-124, auth/routes.rs:227-246.                            *)
ElevationIsSound == ElevTypeOK /\ GeneratedMustChange /\ ElevationIsEarned
=============================================================================
