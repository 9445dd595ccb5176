-------------------------------- MODULE Tabs --------------------------------
(***************************************************************************)
(* The pages of one browser and the native client in front of the same     *)
(* API: what every request passes before its handler (csrf_middleware and  *)
(* the AuthPrincipal extractor) and the handlers that hand out, renew and  *)
(* take back cookies.  All pages share the cookies; a page keeps the CSRF  *)
(* token of the session GET /me last showed it, and goes on showing that   *)
(* session when another page logs in, refreshes or logs out.               *)
(*                                                                         *)
(* An access token is its session with whether it is still fresh; the HMAC *)
(* of a session id is taken to be free of collisions.  Rotation of the     *)
(* refresh token and expiry of sessions are module Sessions.  The native   *)
(* client sends its access token as Bearer and no cookies.                 *)
(***************************************************************************)
EXTENDS Naturals, FiniteSets, Requests

CONSTANTS
    Front,      \* pages of PPF and the panel
    Proxied,    \* those whose requests carry an Authorization header that is not Bearer, as
                \* browsers add for a proxy that asks for a password (other sites may not: CORS)
    Gate,       \* the login page of the gateway
    Foreign,    \* pages of other sites
    Native,     \* native clients
    MaxSessions, \* bound on the sessions created
    MaxOpen     \* bound on the requests under way at once

VARIABLES
    jar,        \* the browser's cookies: [access, fresh, refresh]
    active,     \* sessions neither revoked nor expired
    used,       \* number of sessions created so far, which are 1..used
    showing,    \* page -> the session GET /me showed it, or None
    sent,       \* page -> the request it has under way
    acted       \* history: what the last step did on behalf of a session, or None

ASSUME TabsAssumption ==
    /\ MaxSessions \in Nat /\ None \notin Nat /\ Proxied \subseteq Front
    /\ Front \cap (Gate \cup Foreign \cup Native) = {}
    /\ Gate \cap (Foreign \cup Native) = {} /\ Foreign \cap Native = {}

tabVars == <<jar, active, used, showing, sent, acted>>

Page == Front \cup Gate \cup Foreign \cup Native
Empty == [access |-> None, fresh |-> FALSE, refresh |-> None]

TabInit ==
    /\ jar = Empty
    /\ active = {} /\ used = 0
    /\ showing = [p \in Page |-> None]
    /\ sent = [p \in Page |-> Idle]
    /\ acted = None

Ends(p) == sent' = [sent EXCEPT ![p] = Idle]

\* One value for all sessions.
csrf_token_forServer(s) == None
csrf_token_for(s) == s

\* Two cookies in one answer, and both cleared in one answer.
issue_cookies(s) == [access |-> s, fresh |-> TRUE, refresh |-> s]
clear_cookie == Empty

-----------------------------------------------------------------------------
(* A page sends a request with the cookies of this moment.  The native     *)
(* client has an access token of its own.                                  *)

Kinds(p) ==
    CASE p \in Front -> {"me", "change", "refresh", "logout"}
      [] p \in Gate -> {"login"}
      [] p \in Foreign -> {"change", "refresh", "logout"}
      [] p \in Native -> {"login", "change"}

\* The request as it leaves, with the cookies and the token of this moment.
Request(p, kind) ==
    [pc |-> IF kind \in {"me", "change"} THEN "auth" ELSE "handle", kind |-> kind,
     cookies |-> IF p \in Native THEN Empty ELSE jar,
     bearer |-> IF p \in Native /\ kind # "login" THEN showing[p] ELSE None,
     other |-> p \in Proxied,
     token |-> IF p \in Front THEN showing[p] ELSE None,
     from |-> showing[p],
     live |-> kind = "change" /\ (IF p \in Native THEN showing[p] ELSE jar.access) \in active,
     sid |-> None]

is_state_changing(kind) == kind # "me"
\* Any Authorization header counts here, only Bearer in the extractor below.
authorization(r) == r.bearer # None \/ r.other
uses_cookie_auth(r) == ~authorization(r) /\ (r.cookies.access # None \/ r.cookies.refresh # None)
origin_allowed(p) == p \notin Foreign
decode_access(r) == r.cookies.access # None /\ r.cookies.fresh

\* A cookie that does not decode is left to the extractor.
csrf_middleware(p, r) ==
    is_state_changing(r.kind) /\ uses_cookie_auth(r) =>
        /\ origin_allowed(p)
        /\ decode_access(r) => r.token = csrf_token_for(r.cookies.access)

\* The middleware looks at nothing but the request, so it is one step with it.
Send(p, kind) ==
    /\ sent[p] = Idle
    /\ Cardinality({q \in Page : sent[q] # Idle}) < MaxOpen
    /\ sent' = [sent EXCEPT ![p] =
          IF csrf_middleware(p, Request(p, kind)) THEN Request(p, kind) ELSE Idle]
    /\ acted' = None
    /\ UNCHANGED <<jar, active, used, showing>>

extract_bearer_or_cookie(r) == IF r.bearer # None THEN r.bearer ELSE r.cookies.access
Decodes(r) == r.bearer # None \/ decode_access(r)

\* The OptionalAuthPrincipal of public routes.
from_request_partsOptional(p) ==
    LET r == sent[p] IN
    /\ r.pc = "auth"
    /\ sent' = [sent EXCEPT ![p] =
          IF Decodes(r) THEN [r EXCEPT !.pc = "act", !.sid = extract_bearer_or_cookie(r)] ELSE Idle]
    /\ acted' = None
    /\ UNCHANGED <<jar, active, used, showing>>
from_request_parts(p) ==
    LET r == sent[p] IN
    /\ r.pc = "auth"
    /\ sent' = [sent EXCEPT ![p] =
          IF Decodes(r) /\ extract_bearer_or_cookie(r) \in active
          THEN [r EXCEPT !.pc = "act", !.sid = extract_bearer_or_cookie(r)] ELSE Idle]
    /\ acted' = None
    /\ UNCHANGED <<jar, active, used, showing>>

-----------------------------------------------------------------------------
(* Handlers.  What they answer reaches its page later, and in any order.   *)

Did(p, s) ==
    acted' = [page |-> p, kind |-> sent[p].kind, sid |-> s, from |-> sent[p].from,
              live |-> sent[p].live, checked |-> decode_access(sent[p]), other |-> sent[p].other]

Serves(p, pc, kind) == sent[p].pc = pc /\ sent[p].kind = kind
Finds(p, s) == sent' = [sent EXCEPT ![p].pc = "found", ![p].sid = s]
Replies(p, s) ==
    sent' = [sent EXCEPT ![p] = [pc |-> "answer", kind |-> sent[p].kind, sid |-> s]]

\* Any route that changes state on behalf of its principal.
Change(p) ==
    /\ Serves(p, "act", "change")
    /\ Did(p, sent[p].sid)
    /\ Ends(p)
    /\ UNCHANGED <<jar, active, used, showing>>

\* A password was right, and the session is stored.
issue_session_and_jwt(p) ==
    LET s == used + 1 IN
    /\ Serves(p, "handle", "login")
    /\ used < MaxSessions
    /\ used' = s /\ active' = active \cup {s}
    /\ Replies(p, s)
    /\ acted' = None
    /\ UNCHANGED <<jar, showing>>

\* The session of the refresh cookie; an earlier rotation may have replaced
\* the token, or the Phira credential may be over.
refresh(p) ==
    LET s == sent[p].cookies.refresh IN
    /\ Serves(p, "handle", "refresh")
    /\ \/ s \in active /\ Finds(p, s)
       \/ Ends(p)
    /\ acted' = None
    /\ UNCHANGED <<jar, active, used, showing>>

RefreshRotate(p) ==
    /\ Serves(p, "found", "refresh")
    /\ Did(p, sent[p].sid)
    /\ Replies(p, sent[p].sid)
    /\ UNCHANGED <<jar, active, used, showing>>

\* The refresh cookie decides; the access cookie only where there is none.
logout(p) ==
    LET r == sent[p] IN
    /\ Serves(p, "handle", "logout")
    /\ \/ r.cookies.refresh \in active /\ Finds(p, r.cookies.refresh)
       \/ r.cookies.refresh # None /\ Replies(p, None)
       \/ /\ r.cookies.refresh = None
          /\ IF decode_access(r) THEN Finds(p, r.cookies.access) ELSE Replies(p, None)
    /\ acted' = None
    /\ UNCHANGED <<jar, active, used, showing>>

LogoutRevoke(p) ==
    /\ Serves(p, "found", "logout")
    /\ active' = active \ {sent[p].sid}
    /\ Did(p, sent[p].sid)
    /\ Replies(p, None)
    /\ UNCHANGED <<jar, used, showing>>

\* Cookies of the answer are the whole browser's; the native client takes its
\* access token from them.
auth_response(p) ==
    LET r == sent[p] IN
    /\ r.pc = "answer"
    /\ jar' = IF p \in Native THEN jar
              ELSE IF r.kind = "logout" THEN clear_cookie ELSE issue_cookies(r.sid)
    /\ showing' = IF p \in Native THEN [showing EXCEPT ![p] = r.sid] ELSE showing
    /\ Ends(p)
    /\ acted' = None
    /\ UNCHANGED <<active, used>>

\* The answer carries the CSRF token of the session it speaks of.
me(p) ==
    /\ Serves(p, "act", "me")
    /\ showing' = [showing EXCEPT ![p] = sent[p].sid]
    /\ Ends(p)
    /\ acted' = None
    /\ UNCHANGED <<jar, active, used>>

-----------------------------------------------------------------------------
\* The access token expires; the browser drops its cookie then or later.
AccessExpires ==
    /\ jar.access # None
    /\ \/ jar.fresh /\ jar' = [jar EXCEPT !.fresh = FALSE]
       \/ jar' = [jar EXCEPT !.access = None, !.fresh = FALSE]
    /\ acted' = None
    /\ UNCHANGED <<active, used, showing, sent>>

\* DELETE /me/sessions/{id} of another device.
Revoked(s) ==
    /\ active' = active \ {s}
    /\ acted' = None
    /\ UNCHANGED <<jar, used, showing, sent>>

TabNext ==
    \/ AccessExpires
    \/ \E s \in active : Revoked(s)
    \/ \E p \in Page :
        \/ \E kind \in Kinds(p) : Send(p, kind)
        \/ from_request_parts(p) \/ me(p) \/ Change(p)
        \/ issue_session_and_jwt(p) \/ refresh(p) \/ RefreshRotate(p)
        \/ logout(p) \/ LogoutRevoke(p) \/ auth_response(p)

TabSpec == TabInit /\ [][TabNext]_tabVars

TabTypeOK ==
    /\ used \in 0..MaxSessions /\ active \subseteq 1..used
    /\ {jar.access, jar.refresh} \subseteq 1..used \cup {None}
    /\ showing \in [Page -> 1..used \cup {None}]

(* A page acts only under the session it shows, whatever other pages did   *)
(* to the cookies meanwhile: a change happens in the session GET /me last  *)
(* showed its page, which was active when it was asked for; a refresh or a *)
(* logout touches another session only if the browser's access token had   *)
(* run out, when no CSRF token is compared; and no page of another site    *)
(* has any effect.  A request with an Authorization header other than      *)
(* Bearer is compared with nothing (csrf.rs:67) and still acts under the   *)
(* cookie (auth.rs:92-101): of it only the session's being active is       *)
(* claimed.  middleware/csrf.rs:83-130, middleware/auth.rs:19-57,          *)
(* auth/routes.rs:385-494.                                                 *)
ActsAsShown ==
    /\ TabTypeOK
    /\ acted # None =>
        /\ acted.page \notin Foreign
        /\ acted.kind = "change" => acted.live
        /\ (acted.kind = "change" \/ acted.checked) /\ ~acted.other => acted.sid = acted.from
=============================================================================
