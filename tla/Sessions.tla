------------------------------ MODULE Sessions ------------------------------
(***************************************************************************)
(* Accounts and their sessions: Phira password login, refresh-token        *)
(* rotation, logout, revocation, the Phira credential that gates a         *)
(* refresh, and the acceptance of the legal documents.  Every handler is   *)
(* split at its awaits; what it read before one may be stale after it.     *)
(* A handler ends early when a statement fails, when its client leaves or  *)
(* when the process restarts; what it wrote stays.                         *)
(*                                                                         *)
(* A refresh token is a number and its stored hash the same number.  A     *)
(* browser is one cookie jar; several requests of it may be under way.     *)
(* Sessions of Root and GitHub logins are not in this module.              *)
(***************************************************************************)
EXTENDS Naturals

CONSTANTS
    User, Browser, Sid, Req,
    None,
    MaxToken,       \* bound: refresh tokens minted
    MaxVersion      \* bound: legal document versions deployed

ASSUME SessionsAssumption ==
    /\ None \notin User \cup Sid \cup Browser
    /\ MaxToken \in Nat
    /\ MaxVersion \in Nat \ {0}

VARIABLES
    known,      \* users: rows of the users table
    cred,       \* phira_credentials.state of every user
    lapsed,     \* users whose stored refresh_expires_at has passed
    accepted,   \* account_legal_acceptances: <<user, version>>
    version,    \* the legal version pair the process is configured with
    owner,      \* sessions.user_id, None: no such row
    hash,       \* sessions.refresh_hash
    active,     \* rows neither revoked nor expired
    minted,     \* tokens handed out by generate_refresh_token
    jar,        \* the auth cookies of every browser
    req,        \* the handlers under way
    crossed,    \* history: sessions whose token was replaced behind a request
                \* that carried it, or whose new token never arrived
    clobbered,  \* history: users who logged in while a refresh was about to
                \* mark the credential it had read before
    loggedOut   \* history: sessions whose logout was answered

vars == <<known, cred, lapsed, accepted, version, owner, hash, active, minted,
          jar, req, crossed, clobbered, loggedOut>>
accountVars == <<known, cred, lapsed, accepted, version, clobbered>>
rowVars == <<owner, hash, active, minted>>

Token == 0 .. MaxToken
Version == 1 .. MaxVersion

LoginPc == {"find", "consent", "upsert", "store", "record", "create"}
RefreshPc == {"lookup", "gate", "mark", "rotate"}
LogoutPc == {"logout_find", "logout_revoke", "logout_reply"}
RevokePc == {"other_find", "other_revoke"}
Pc == {"idle", "grant"} \cup LoginPc \cup RefreshPc \cup LogoutPc \cup RevokePc

Jar == [sid : Sid \cup {None}, access : BOOLEAN, tok : Token]
Request == [pc : Pc, by : Browser \cup {None}, user : User \cup {None},
            sid : Sid \cup {None}, tok : Token, flag : BOOLEAN]

Empty == [sid |-> None, access |-> FALSE, tok |-> 0]
Idle == [pc |-> "idle", by |-> None, user |-> None, sid |-> None, tok |-> 0,
         flag |-> FALSE]

Init ==
    /\ known = {}
    /\ cred = [u \in User |-> "none"]
    /\ lapsed = {}
    /\ accepted = {}
    /\ version = 1
    /\ owner = [s \in Sid |-> None]
    /\ hash = [s \in Sid |-> 0]
    /\ active = {}
    /\ minted = 0
    /\ jar = [b \in Browser |-> Empty]
    /\ req = [r \in Req |-> Idle]
    /\ crossed = {}
    /\ clobbered = {}
    /\ loggedOut = {}

At(r, pc) == req[r].pc = pc
Become(r, q) == req' = [req EXCEPT ![r] = q]
Goto(r, pc) == Become(r, [req[r] EXCEPT !.pc = pc])
End(r) == Become(r, Idle)

Begin(r, pc, b, u, s, t) ==
    /\ At(r, "idle")
    /\ Become(r, [pc |-> pc, by |-> b, user |-> u, sid |-> s, tok |-> t,
                  flag |-> FALSE])

\* AuthPrincipal: a valid access token of a session that is active.
Authenticated(b) == jar[b].access /\ jar[b].sid \in active

-----------------------------------------------------------------------------
(* POST /auth/phira/login                                                  *)

\* The Phira service has accepted the password as that of u.
Login(r, b, u) ==
    /\ Begin(r, "find", b, u, None, 0)
    /\ UNCHANGED <<accountVars, rowVars, jar, crossed, loggedOut>>

LoginFind(r) ==
    /\ At(r, "find")
    /\ Become(r, [req[r] EXCEPT !.pc = "consent",
                               !.flag = req[r].user \in known])
    /\ UNCHANGED <<accountVars, rowVars, jar, crossed, loggedOut>>

HasCurrentAcceptance(u) == <<u, version>> \in accepted

GivenByAnyUser(r) == req[r].flag

\* acceptance_for_login: an existing user who accepted the versions in force.
Given(r) == req[r].flag /\ HasCurrentAcceptance(req[r].user)

\* agreed: the body accepts the versions in force (validate_acceptance).
\* From here on flag says that an acceptance has to be recorded.
LoginConsent(r, agreed) ==
    /\ At(r, "consent")
    /\ IF Given(r) \/ agreed
       THEN Become(r, [req[r] EXCEPT !.pc = "upsert", !.flag = ~Given(r)])
       ELSE End(r)
    /\ UNCHANGED <<accountVars, rowVars, jar, crossed, loggedOut>>

UsersUpsert(u) == known \cup {u}

\* commit_login, first half: the user row and the phira identity.
LoginUpsert(r) ==
    /\ At(r, "upsert")
    /\ known' = UsersUpsert(req[r].user)
    /\ Goto(r, "store")
    /\ UNCHANGED <<cred, lapsed, accepted, version, clobbered, rowVars, jar,
                   crossed, loggedOut>>

\* Refreshes that have decided to mark the credential of u as spent.
Marking(u) == {r \in Req : At(r, "mark") /\ req[r].user = u}

StoredState(u) == "active"

\* commit_login, second half: the new credential and the default group.
LoginStore(r) ==
    LET u == req[r].user
    IN  /\ At(r, "store")
        /\ cred' = [cred EXCEPT ![u] = StoredState(u)]
        /\ lapsed' = lapsed \ {u}
        /\ clobbered' = IF Marking(u) = {} THEN clobbered \ {u}
                                           ELSE clobbered \cup {u}
        /\ Goto(r, IF req[r].flag THEN "record" ELSE "create")
        /\ UNCHANGED <<known, accepted, version, rowVars, jar, crossed,
                       loggedOut>>

LoginRecord(r) ==
    /\ At(r, "record")
    /\ accepted' = accepted \cup {<<req[r].user, version>>}
    /\ Goto(r, "create")
    /\ UNCHANGED <<known, cred, lapsed, version, clobbered, rowVars, jar,
                   crossed, loggedOut>>

\* issue_session_and_jwt
LoginCreate(r, s) ==
    /\ At(r, "create")
    /\ owner[s] = None
    /\ minted < MaxToken
    /\ minted' = minted + 1
    /\ owner' = [owner EXCEPT ![s] = req[r].user]
    /\ hash' = [hash EXCEPT ![s] = minted + 1]
    /\ active' = active \cup {s}
    /\ Become(r, [req[r] EXCEPT !.pc = "grant", !.sid = s, !.tok = minted + 1])
    /\ UNCHANGED <<accountVars, jar, crossed, loggedOut>>

\* The response of a login or a refresh reaches the browser.
Grant(r) ==
    /\ At(r, "grant")
    /\ jar' = [jar EXCEPT ![req[r].by] =
                   [sid |-> req[r].sid, access |-> TRUE, tok |-> req[r].tok]]
    /\ End(r)
    /\ UNCHANGED <<accountVars, rowVars, crossed, loggedOut>>

-----------------------------------------------------------------------------
(* POST /auth/refresh                                                      *)

\* req.sid is the session the browser means; the handler does not know it yet.
Refresh(r, b) ==
    /\ jar[b].tok # 0
    /\ Begin(r, "lookup", b, None, jar[b].sid, jar[b].tok)
    /\ UNCHANGED <<accountVars, rowVars, jar, crossed, loggedOut>>

FoundByHash(t) == {s \in active : hash[s] = t}

RefreshLookup(r) ==
    /\ At(r, "lookup")
    /\ IF FoundByHash(req[r].tok) = {}
       THEN End(r)
       ELSE \E s \in FoundByHash(req[r].tok) :
                Become(r, [req[r] EXCEPT !.pc = "gate", !.sid = s,
                                         !.user = owner[s]])
    /\ UNCHANGED <<accountVars, rowVars, jar, crossed, loggedOut>>

\* The credential is spent: its expiry has passed or its state says so.
Spent(u) == u \in lapsed \/ cred[u] # "active"

RefreshGate(r) ==
    /\ At(r, "gate")
    /\ Goto(r, IF cred[req[r].user] # "none" /\ Spent(req[r].user)
               THEN "mark" ELSE "rotate")
    /\ UNCHANGED <<accountVars, rowVars, jar, crossed, loggedOut>>

\* mark_reauth_required, and the error response.
RefreshMark(r) ==
    /\ At(r, "mark")
    /\ cred' = [cred EXCEPT ![req[r].user] = "reauth_required"]
    /\ End(r)
    /\ UNCHANGED <<known, lapsed, accepted, version, clobbered, rowVars, jar,
                   crossed, loggedOut>>

\* Other requests that still carry the token about to be replaced.
Behind(r) == {q \in Req \ {r} :
                 /\ req[q].sid = req[r].sid
                 /\ req[q].pc \in {"gate", "rotate", "logout_find"}}

RefreshHashOld(s, t) == hash

RefreshHash(s, t) == [hash EXCEPT ![s] = t]

RefreshRotateRevives(r) ==
    /\ At(r, "rotate")
    /\ minted < MaxToken
    /\ minted' = minted + 1
    /\ hash' = RefreshHash(req[r].sid, minted + 1)
    /\ active' = active \cup {req[r].sid}
    /\ Become(r, [req[r] EXCEPT !.pc = "grant", !.tok = minted + 1])
    /\ crossed' = IF Behind(r) = {} THEN crossed ELSE crossed \cup {req[r].sid}
    /\ UNCHANGED <<accountVars, owner, jar, loggedOut>>

\* UPDATE sessions SET refresh_hash WHERE id: whatever the row is by now.
RefreshRotate(r) ==
    /\ At(r, "rotate")
    /\ minted < MaxToken
    /\ minted' = minted + 1
    /\ hash' = RefreshHash(req[r].sid, minted + 1)
    /\ Become(r, [req[r] EXCEPT !.pc = "grant", !.tok = minted + 1])
    /\ crossed' = IF Behind(r) = {} THEN crossed ELSE crossed \cup {req[r].sid}
    /\ UNCHANGED <<accountVars, owner, active, jar, loggedOut>>

-----------------------------------------------------------------------------
(* POST /auth/logout, for a client that sends its cookies                  *)

\* A browser sends the refresh cookie it holds, which need not be current: the
\* response with the current one may be on its way.
Outdated(b) == {s \in active : s = jar[b].sid /\ hash[s] # jar[b].tok}

Logout(r, b) ==
    /\ jar[b].tok # 0
    /\ Begin(r, "logout_find", b, None, jar[b].sid, jar[b].tok)
    /\ crossed' = crossed \cup Outdated(b)
    /\ UNCHANGED <<accountVars, rowVars, jar, loggedOut>>

\* Without a refresh cookie the access token names the session.
LogoutByAccess(r, b) ==
    /\ jar[b].access
    /\ Begin(r, "logout_revoke", b, None, jar[b].sid, 0)
    /\ UNCHANGED <<accountVars, rowVars, jar, crossed, loggedOut>>

LogoutFind(r) ==
    /\ At(r, "logout_find")
    /\ IF FoundByHash(req[r].tok) = {}
       THEN Goto(r, "logout_reply")
       ELSE \E s \in FoundByHash(req[r].tok) :
                Become(r, [req[r] EXCEPT !.pc = "logout_revoke", !.sid = s])
    /\ UNCHANGED <<accountVars, rowVars, jar, crossed, loggedOut>>

RevokedNot(s) == active

\* revoke: UPDATE sessions SET revoked_at WHERE id.
Revoked(s) == active \ {s}

LogoutRevoke(r) ==
    /\ At(r, "logout_revoke")
    /\ active' = Revoked(req[r].sid)
    /\ Goto(r, "logout_reply")
    /\ UNCHANGED <<accountVars, owner, hash, minted, jar, crossed, loggedOut>>

\* 204 and two cleared cookies.
LogoutReply(r) ==
    /\ At(r, "logout_reply")
    /\ jar' = [jar EXCEPT ![req[r].by] = Empty]
    /\ loggedOut' = loggedOut \cup {req[r].sid}
    /\ End(r)
    /\ UNCHANGED <<accountVars, rowVars, crossed>>

-----------------------------------------------------------------------------
(* Revocation by the owner and by an administrator                         *)

\* DELETE /me/sessions/{s}: another session than the caller's own.
RevokeOther(r, b, s) ==
    /\ Authenticated(b)
    /\ s # jar[b].sid
    /\ Begin(r, "other_find", b, owner[jar[b].sid], s, 0)
    /\ UNCHANGED <<accountVars, rowVars, jar, crossed, loggedOut>>

RevokeOtherFind(r) ==
    /\ At(r, "other_find")
    /\ IF owner[req[r].sid] = req[r].user /\ req[r].sid \in active
       THEN Goto(r, "other_revoke")
       ELSE End(r)
    /\ UNCHANGED <<accountVars, rowVars, jar, crossed, loggedOut>>

RevokeOtherRevoke(r) ==
    /\ At(r, "other_revoke")
    /\ active' = Revoked(req[r].sid)
    /\ End(r)
    /\ UNCHANGED <<accountVars, owner, hash, minted, jar, crossed, loggedOut>>

\* The command user.revoke_sessions.
RevokeAll(u) ==
    /\ u \in known
    /\ active' = {s \in active : owner[s] # u}
    /\ UNCHANGED <<accountVars, owner, hash, minted, jar, req, crossed,
                   loggedOut>>

-----------------------------------------------------------------------------
(* Time and failure                                                        *)

ExpireSession(s) ==
    /\ s \in active
    /\ active' = active \ {s}
    /\ UNCHANGED <<accountVars, owner, hash, minted, jar, req, crossed,
                   loggedOut>>

ExpireAccess(b) ==
    /\ jar[b].access
    /\ jar' = [jar EXCEPT ![b] = [@ EXCEPT !.access = FALSE]]
    /\ UNCHANGED <<accountVars, rowVars, req, crossed, loggedOut>>

\* The expiry Phira gave for its refresh token passes.
Lapse(u) ==
    /\ cred[u] # "none"
    /\ u \notin lapsed
    /\ lapsed' = lapsed \cup {u}
    /\ UNCHANGED <<known, cred, accepted, version, clobbered, rowVars, jar,
                   req, crossed, loggedOut>>

\* Sessions whose new token is in a response that is lost now.
Undelivered(R) == {req[r].sid : r \in {q \in R : At(q, "grant")}}

Cut(r) ==
    /\ ~At(r, "idle")
    /\ End(r)
    /\ crossed' = crossed \cup Undelivered({r})
    /\ UNCHANGED <<accountVars, rowVars, jar, loggedOut>>

\* A restart, with new legal documents in the configuration.
Redeploy ==
    /\ version < MaxVersion
    /\ version' = version + 1
    /\ req' = [r \in Req |-> Idle]
    /\ crossed' = crossed \cup Undelivered(Req)
    /\ UNCHANGED <<known, cred, lapsed, accepted, clobbered, rowVars, jar,
                   loggedOut>>

-----------------------------------------------------------------------------
LoginStep(r) ==
    \/ \E b \in Browser, u \in User : Login(r, b, u)
    \/ LoginFind(r)
    \/ \E agreed \in BOOLEAN : LoginConsent(r, agreed)
    \/ LoginUpsert(r)
    \/ LoginStore(r)
    \/ LoginRecord(r)
    \/ \E s \in Sid : LoginCreate(r, s)
    \/ Grant(r)

RefreshStep(r) ==
    \/ \E b \in Browser : Refresh(r, b)
    \/ RefreshLookup(r)
    \/ RefreshGate(r)
    \/ RefreshMark(r)
    \/ RefreshRotate(r)

LogoutStep(r) ==
    \/ \E b \in Browser : Logout(r, b) \/ LogoutByAccess(r, b)
    \/ LogoutFind(r)
    \/ LogoutRevoke(r)
    \/ LogoutReply(r)

RevokeStep(r) ==
    \/ \E b \in Browser, s \in Sid : RevokeOther(r, b, s)
    \/ RevokeOtherFind(r)
    \/ RevokeOtherRevoke(r)

Next ==
    \/ \E r \in Req : \/ LoginStep(r) \/ RefreshStep(r)
                      \/ LogoutStep(r) \/ RevokeStep(r)
                      \/ Cut(r)
    \/ \E u \in User : RevokeAll(u) \/ Lapse(u)
    \/ \E s \in Sid : ExpireSession(s)
    \/ \E b \in Browser : ExpireAccess(b)
    \/ Redeploy

Spec == Init /\ [][Next]_vars
-----------------------------------------------------------------------------
(* Correctness                                                             *)

\* Tokens, rows and requests are well-formed; acceptances and sessions refer to
\* existing users.
TypeOK ==
    /\ known \subseteq User
    /\ cred \in [User -> {"none", "active", "reauth_required"}]
    /\ lapsed \subseteq User
    /\ accepted \subseteq known \X Version
    /\ version \in Version
    /\ owner \in [Sid -> known \cup {None}]
    /\ hash \in [Sid -> Token]
    /\ active \subseteq {s \in Sid : owner[s] # None}
    /\ minted \in Token
    /\ jar \in [Browser -> Jar]
    /\ req \in [Req -> Request]
    /\ crossed \subseteq Sid
    /\ clobbered \subseteq User
    /\ loggedOut \subseteq Sid

InFlight(s) == \E r \in Req : At(r, "grant") /\ req[r].sid = s

\* Rotation keeps browser and row in step: a browser in an active session with
\* no response on its way holds the refresh token the row is found by, unless
\* two requests of the session crossed or a response was lost.
JarIsUsable ==
    \A b \in Browser :
        jar[b].sid \in active \ crossed /\ ~InFlight(jar[b].sid)
            => jar[b].tok = hash[jar[b].sid]

\* "Revoke the session and clear cookies" (logout): once it is answered, the
\* session the browser was in is over, unless a refresh replaced the token
\* while the logout that carried it was on its way.
LogoutRevokes == loggedOut \cap active \subseteq crossed

\* "Credential state must stay in sync: reauth_required -> active"
\* (commit_login): a credential is marked as spent only while its expiry has
\* passed, unless a refresh decided on the one a login has just replaced.
MarkedMeansLapsed ==
    \A u \in User : cred[u] = "reauth_required" => u \in lapsed \cup clobbered

\* No session is created for a user who has not accepted the legal versions in
\* force at that moment, whatever the login read before and whatever was
\* deployed since.
ConsentBacksSession ==
    [][\A s \in Sid : owner[s] = None /\ owner'[s] # None
                          => <<owner'[s], version>> \in accepted]_vars

\* A revoked or expired session never comes back, although a refresh that found
\* it active may still write to its row; and a session stays with its user.
RevocationSticks ==
    [][\A s \in Sid : owner[s] # None => /\ owner'[s] = owner[s]
                                         /\ s \in active' => s \in active]_vars
=============================================================================
