---------------------------- MODULE SessionsProofs ----------------------------
(* Proofs about Sessions, for any users, browsers, sessions and requests. *)
EXTENDS Sessions, TLAPS

(***************************************************************************)
(* The inductive invariant.                                                *)
(***************************************************************************)

Row(s) == s \in Sid /\ owner[s] # None

\* Pcs of a request whose sid names a row.
OnRow == {"gate", "mark", "rotate", "grant", "logout_find", "logout_revoke",
          "logout_reply", "lookup"}

\* What a request carries depends on where it stands.
RequestsFit ==
    \A r \in Req :
        /\ ~At(r, "idle") => req[r].by \in Browser
        /\ req[r].pc \in LoginPc => req[r].user \in User
        /\ req[r].pc \in {"store", "record", "create"} => req[r].user \in known
        /\ req[r].pc \in OnRow => Row(req[r].sid)
        /\ req[r].pc \in {"gate", "mark", "rotate"}
               => req[r].user = owner[req[r].sid]
        /\ req[r].pc \in RevokePc => req[r].sid \in Sid
        /\ At(r, "idle") => req[r] = Idle
        /\ req[r].pc \in {"lookup", "logout_find", "grant"} => req[r].tok # 0

JarsFit ==
    /\ \A b \in Browser : jar[b] # Empty => Row(jar[b].sid) /\ jar[b].tok # 0
    /\ loggedOut \subseteq {s \in Sid : owner[s] # None}

\* A refresh about to mark a credential has a reason that still stands.
MarksFit ==
    \A r \in Req : At(r, "mark") => req[r].user \in lapsed \cup clobbered

\* A login past the consent check has the acceptance or will record it.
ConsentsFit ==
    \A r \in Req :
        At(r, "create") \/ (req[r].pc \in {"upsert", "store"} /\ ~req[r].flag)
            => <<req[r].user, version>> \in accepted

Carries == {"lookup", "gate", "rotate", "grant", "logout_find"}

\* Tokens are never reused: whatever is held was minted, and a token belongs
\* to one session.
TokensFit ==
    /\ \A s \in Sid : hash[s] <= minted
    /\ \A b \in Browser : jar[b].tok <= minted
    /\ \A r \in Req : req[r].tok <= minted
    /\ \A s, t \in Sid : Row(s) /\ Row(t) /\ hash[s] = hash[t] => s = t
    /\ \A s \in Sid : Row(s) => hash[s] # 0
    /\ \A b \in Browser, s \in Sid :
           jar[b] # Empty /\ Row(s) /\ hash[s] = jar[b].tok => s = jar[b].sid
    /\ \A r \in Req, s \in Sid :
           req[r].pc \in Carries /\ Row(s) /\ hash[s] = req[r].tok
               => s = req[r].sid

\* A session lives in one browser.
OneBrowser ==
    /\ \A b, c \in Browser : jar[b] # Empty /\ jar[b].sid = jar[c].sid => b = c
    /\ \A r \in Req, b \in Browser :
           req[r].pc \in Carries /\ jar[b].sid = req[r].sid => req[r].by = b
    /\ \A r, q \in Req :
           req[r].pc \in Carries /\ req[q].pc \in Carries
               /\ req[r].sid = req[q].sid
               => req[r].by = req[q].by

\* A token in a response on its way is held by nobody else yet.
Fresh ==
    \A r \in Req : At(r, "grant") =>
        /\ \A b \in Browser : jar[b].tok # req[r].tok
        /\ \A q \in Req \ {r} : req[q].pc \in Carries => req[q].tok # req[r].tok

\* A token that a request holds against its session is the session's current
\* one, or the session is over or has crossed requests.
Current ==
    \A r \in Req :
        req[r].pc \in {"gate", "rotate", "grant", "logout_find"}
            /\ req[r].sid \in active \ crossed
            => req[r].tok = hash[req[r].sid]

RepliesFit ==
    \A r \in Req : At(r, "logout_reply") => req[r].sid \notin active \ crossed

IInv ==
    /\ TypeOK /\ RequestsFit /\ JarsFit /\ MarkedMeansLapsed /\ MarksFit
    /\ ConsentsFit /\ TokensFit /\ OneBrowser /\ Fresh /\ Current
    /\ JarIsUsable /\ RepliesFit /\ LogoutRevokes

USE SessionsAssumption
    DEF At, Become, Goto, End, Begin, Idle, Empty, accountVars, rowVars

\* What a request looks like after its handler moved on.
LEMMA EditPc ==
    ASSUME NEW q \in Request, NEW pc \in Pc
    PROVE  LET p == [q EXCEPT !.pc = pc]
           IN  /\ p \in Request /\ p.pc = pc /\ p.by = q.by /\ p.user = q.user
               /\ p.sid = q.sid /\ p.tok = q.tok /\ p.flag = q.flag
BY DEF Request

\* A handler that ends early leaves what it wrote; a response that is lost
\* with it crosses its session.
LEMMA CutKeeps ==
    ASSUME IInv, NEW r \in Req, Cut(r)
    PROVE  IInv'
<1>1. TypeOK'
    BY DEF IInv, Cut, Undelivered, TypeOK, Token, Version, Jar, Request, Pc,
       LoginPc, RefreshPc, LogoutPc, RevokePc, RequestsFit, Row, OnRow,
       JarsFit
<1>2. RequestsFit' /\ JarsFit'
    BY DEF IInv, Cut, Undelivered, TypeOK, Jar, Request, RequestsFit, Row,
       OnRow, LoginPc, RevokePc, JarsFit
<1>3. MarkedMeansLapsed' /\ MarksFit' /\ ConsentsFit'
    BY DEF IInv, Cut, Undelivered, TypeOK, Jar, Request, MarkedMeansLapsed,
       MarksFit, ConsentsFit, RequestsFit
<1>4. TokensFit' /\ OneBrowser' /\ Fresh'
    BY DEF IInv, Cut, Undelivered, TypeOK, Jar, Request, TokensFit, Token,
       RequestsFit, JarsFit, Row, OnRow, Carries, OneBrowser, Fresh
<1>5. Current' /\ JarIsUsable' /\ RepliesFit' /\ LogoutRevokes'
    BY DEF IInv, Cut, Undelivered, TypeOK, Jar, Request, Current, Fresh,
       TokensFit, RequestsFit, JarsFit, Row, OnRow, Carries, JarIsUsable,
       InFlight, OneBrowser, RepliesFit, LogoutRevokes
<1> QED BY <1>1, <1>2, <1>3, <1>4, <1>5 DEF IInv

\* A handler that answers with an error changes nothing but its own request.
LEMMA RefusedKeeps ==
    ASSUME IInv, NEW r \in Req, ~At(r, "grant"), ~At(r, "idle"), End(r),
           UNCHANGED <<accountVars, rowVars, jar, crossed, loggedOut>>
    PROVE  IInv'
BY CutKeeps DEF Cut, Undelivered

\* A request that has read nothing yet.
LEMMA LoginKeeps ==
    ASSUME IInv, NEW r \in Req, NEW b \in Browser, NEW u \in User,
           Login(r, b, u)
    PROVE  IInv'
<1>1. TypeOK'
    BY DEF IInv, Login, TypeOK, Token, Version, Jar, Request, Pc, LoginPc,
       RefreshPc, LogoutPc, RevokePc, RequestsFit, Row, OnRow, JarsFit
<1>2. RequestsFit' /\ JarsFit'
    BY DEF IInv, Login, TypeOK, Jar, Request, RequestsFit, Row, OnRow,
       LoginPc, RevokePc, JarsFit
<1>3. MarkedMeansLapsed' /\ MarksFit' /\ ConsentsFit'
    BY DEF IInv, Login, TypeOK, Jar, Request, MarkedMeansLapsed, MarksFit,
       ConsentsFit, RequestsFit
<1>4. TokensFit' /\ OneBrowser' /\ Fresh'
    BY DEF IInv, Login, TypeOK, Jar, Request, TokensFit, Token, RequestsFit,
       JarsFit, Row, OnRow, Carries, OneBrowser, Fresh
<1>5. Current' /\ JarIsUsable' /\ RepliesFit' /\ LogoutRevokes'
    BY DEF IInv, Login, TypeOK, Jar, Request, Current, Fresh, TokensFit,
       RequestsFit, JarsFit, Row, OnRow, Carries, JarIsUsable, InFlight,
       OneBrowser, RepliesFit, LogoutRevokes
<1> QED BY <1>1, <1>2, <1>3, <1>4, <1>5 DEF IInv

\* find_by_phira_id: the answer may be stale as soon as it is there.
LEMMA LoginFindKeeps ==
    ASSUME IInv, NEW r \in Req, LoginFind(r)
    PROVE  IInv'
<1> DEFINE p == req[r]
           f == p.user \in known
           q == [p EXCEPT !.pc = "consent", !.flag = f]
<1>1. req[r] \in Request /\ req[r].pc = "find" /\ "consent" \in Pc
    BY DEF IInv, TypeOK, Pc, LoginPc, LoginFind
<1>2. p \in Request /\ f \in BOOLEAN
    BY <1>1
<1> HIDE DEF p, f
<1>3. /\ q \in Request /\ q.pc = "consent" /\ q.by = p.by
      /\ q.user = p.user /\ q.tok = p.tok
    BY <1>1, <1>2 DEF Request
<1> USE DEF p, f
<1>4. /\ req' = [req EXCEPT ![r] = q]
      /\ UNCHANGED <<accountVars, rowVars, jar, crossed, loggedOut>>
    BY DEF LoginFind
<1> HIDE DEF q
<1>5. TypeOK'
    BY <1>1, <1>3, <1>4 DEF IInv, TypeOK, Token, Version, Jar, Request, Pc,
       LoginPc, RefreshPc, LogoutPc, RevokePc, RequestsFit, Row, OnRow,
       JarsFit
<1>6. RequestsFit' /\ JarsFit'
    BY ZenonT(40), <1>1, <1>3, <1>4 DEF IInv, TypeOK, Jar, Request, RequestsFit, Row,
       OnRow, LoginPc, RevokePc, JarsFit
<1>7. MarkedMeansLapsed' /\ MarksFit' /\ ConsentsFit'
    BY <1>1, <1>3, <1>4 DEF IInv, TypeOK, Jar, Request, MarkedMeansLapsed,
       MarksFit, ConsentsFit, RequestsFit
<1>8. TokensFit' /\ OneBrowser' /\ Fresh'
    BY <1>1, <1>3, <1>4 DEF IInv, TypeOK, Jar, Request, TokensFit, Token,
       RequestsFit, JarsFit, Row, OnRow, Carries, OneBrowser, Fresh
<1>9. Current' /\ JarIsUsable' /\ RepliesFit' /\ LogoutRevokes'
    BY <1>1, <1>3, <1>4 DEF IInv, TypeOK, Jar, Request, Current, Fresh,
       TokensFit, RequestsFit, JarsFit, Row, OnRow, Carries, JarIsUsable,
       InFlight, OneBrowser, RepliesFit, LogoutRevokes
<1> QED BY <1>5, <1>6, <1>7, <1>8, <1>9 DEF IInv

\* The consent check establishes ConsentsFit for the rest of the login.
LEMMA LoginConsentKeeps ==
    ASSUME IInv, NEW r \in Req, NEW agreed \in BOOLEAN, LoginConsent(r, agreed)
    PROVE  IInv'
<1>1. CASE ~(Given(r) \/ agreed)
    BY <1>1, RefusedKeeps DEF LoginConsent
<1>2. CASE Given(r) \/ agreed
  <2> DEFINE p == req[r]
             f == ~Given(r)
             q == [p EXCEPT !.pc = "upsert", !.flag = f]
  <2>1. req[r] \in Request /\ req[r].pc = "consent" /\ "upsert" \in Pc
      BY DEF IInv, TypeOK, Pc, LoginPc, LoginConsent
  <2>2. p \in Request /\ f \in BOOLEAN
      BY <2>1
  <2> HIDE DEF p, f
  <2>3. /\ q \in Request /\ q.pc = "upsert" /\ q.by = p.by
        /\ q.user = p.user /\ q.tok = p.tok /\ q.flag = f
      BY <2>1, <2>2 DEF Request
  <2> USE DEF p, f
  <2>4. ~q.flag => <<q.user, version>> \in accepted
      BY <2>3 DEF Given, HasCurrentAcceptance
  <2>5. /\ req' = [req EXCEPT ![r] = q]
        /\ UNCHANGED <<accountVars, rowVars, jar, crossed, loggedOut>>
      BY <1>2 DEF LoginConsent
  <2> HIDE DEF q
  <2>6. TypeOK'
      BY <2>1, <2>3, <2>4, <2>5 DEF IInv, TypeOK, Token, Version, Jar, Request,
         Pc, LoginPc, RefreshPc, LogoutPc, RevokePc, RequestsFit, Row, OnRow,
         JarsFit
  <2>7. RequestsFit' /\ JarsFit'
      BY <2>1, <2>3, <2>4, <2>5 DEF IInv, TypeOK, Jar, Request, RequestsFit,
         Row, OnRow, LoginPc, RevokePc, JarsFit
  <2>8. MarkedMeansLapsed' /\ MarksFit' /\ ConsentsFit'
      BY <2>1, <2>3, <2>4, <2>5 DEF IInv, TypeOK, Jar, Request,
         MarkedMeansLapsed, MarksFit, ConsentsFit, RequestsFit
  <2>9. TokensFit' /\ OneBrowser' /\ Fresh'
      BY <2>1, <2>3, <2>4, <2>5 DEF IInv, TypeOK, Jar, Request, TokensFit,
         Token, RequestsFit, JarsFit, Row, OnRow, Carries, OneBrowser, Fresh
  <2>10. Current' /\ JarIsUsable' /\ RepliesFit' /\ LogoutRevokes'
      BY <2>1, <2>3, <2>4, <2>5 DEF IInv, TypeOK, Jar, Request, Current, Fresh,
         TokensFit, RequestsFit, JarsFit, Row, OnRow, Carries, JarIsUsable,
         InFlight, OneBrowser, RepliesFit, LogoutRevokes
  <2> QED BY <2>6, <2>7, <2>8, <2>9, <2>10 DEF IInv
<1> QED BY <1>1, <1>2

\* The user row exists before anything refers to it.
LEMMA LoginUpsertKeeps ==
    ASSUME IInv, NEW r \in Req, LoginUpsert(r)
    PROVE  IInv'
<1>1. TypeOK'
    BY DEF IInv, LoginUpsert, UsersUpsert, TypeOK, Token, Version, Jar,
       Request, Pc, LoginPc, RefreshPc, LogoutPc, RevokePc, RequestsFit, Row,
       OnRow, JarsFit
<1>2. RequestsFit' /\ JarsFit'
    BY DEF IInv, LoginUpsert, UsersUpsert, TypeOK, Jar, Request, RequestsFit,
       Row, OnRow, LoginPc, RevokePc, JarsFit
<1>3. MarkedMeansLapsed' /\ MarksFit' /\ ConsentsFit'
    BY DEF IInv, LoginUpsert, UsersUpsert, TypeOK, Jar, Request,
       MarkedMeansLapsed, MarksFit, ConsentsFit, RequestsFit
<1>4. TokensFit' /\ OneBrowser' /\ Fresh'
    BY DEF IInv, LoginUpsert, UsersUpsert, TypeOK, Jar, Request, TokensFit,
       Token, RequestsFit, JarsFit, Row, OnRow, Carries, OneBrowser, Fresh
<1>5. Current' /\ JarIsUsable' /\ RepliesFit' /\ LogoutRevokes'
    BY DEF IInv, LoginUpsert, UsersUpsert, TypeOK, Jar, Request, Current,
       Fresh, TokensFit, RequestsFit, JarsFit, Row, OnRow, Carries,
       JarIsUsable, InFlight, OneBrowser, RepliesFit, LogoutRevokes
<1> QED BY <1>1, <1>2, <1>3, <1>4, <1>5 DEF IInv

\* A stored credential is active; refreshes that meant the old one go on.
LEMMA LoginStoreKeeps ==
    ASSUME IInv, NEW r \in Req, LoginStore(r)
    PROVE  IInv'
<1>1. TypeOK'
    BY DEF IInv, LoginStore, StoredState, Marking, TypeOK, Token, Version,
       Jar, Request, Pc, LoginPc, RefreshPc, LogoutPc, RevokePc, RequestsFit,
       Row, OnRow, JarsFit
<1>2. RequestsFit' /\ JarsFit'
    BY DEF IInv, LoginStore, StoredState, Marking, TypeOK, Jar, Request,
       RequestsFit, Row, OnRow, LoginPc, RevokePc, JarsFit
<1>3. MarkedMeansLapsed' /\ MarksFit' /\ ConsentsFit'
    BY DEF IInv, LoginStore, StoredState, Marking, TypeOK, Jar, Request,
       MarkedMeansLapsed, MarksFit, ConsentsFit, RequestsFit
<1>4. TokensFit' /\ OneBrowser' /\ Fresh'
    BY DEF IInv, LoginStore, StoredState, Marking, TypeOK, Jar, Request,
       TokensFit, Token, RequestsFit, JarsFit, Row, OnRow, Carries,
       OneBrowser, Fresh
<1>5. Current' /\ JarIsUsable' /\ RepliesFit' /\ LogoutRevokes'
    BY DEF IInv, LoginStore, StoredState, Marking, TypeOK, Jar, Request,
       Current, Fresh, TokensFit, RequestsFit, JarsFit, Row, OnRow, Carries,
       JarIsUsable, InFlight, OneBrowser, RepliesFit, LogoutRevokes
<1> QED BY <1>1, <1>2, <1>3, <1>4, <1>5 DEF IInv

\* record_acceptance, for the versions the process is configured with.
LEMMA LoginRecordKeeps ==
    ASSUME IInv, NEW r \in Req, LoginRecord(r)
    PROVE  IInv'
<1>1. TypeOK'
    BY DEF IInv, LoginRecord, TypeOK, Token, Version, Jar, Request, Pc,
       LoginPc, RefreshPc, LogoutPc, RevokePc, RequestsFit, Row, OnRow,
       JarsFit
<1>2. RequestsFit' /\ JarsFit'
    BY DEF IInv, LoginRecord, TypeOK, Jar, Request, RequestsFit, Row, OnRow,
       LoginPc, RevokePc, JarsFit
<1>3. MarkedMeansLapsed' /\ MarksFit' /\ ConsentsFit'
    BY DEF IInv, LoginRecord, TypeOK, Jar, Request, MarkedMeansLapsed,
       MarksFit, ConsentsFit, RequestsFit
<1>4. TokensFit' /\ OneBrowser' /\ Fresh'
    BY DEF IInv, LoginRecord, TypeOK, Jar, Request, TokensFit, Token,
       RequestsFit, JarsFit, Row, OnRow, Carries, OneBrowser, Fresh
<1>5. Current' /\ JarIsUsable' /\ RepliesFit' /\ LogoutRevokes'
    BY SMTT(20) DEF IInv, LoginRecord, TypeOK, Jar, Request, Current, Fresh, TokensFit,
       RequestsFit, JarsFit, Row, OnRow, Carries, JarIsUsable, InFlight,
       OneBrowser, RepliesFit, LogoutRevokes
<1> QED BY <1>1, <1>2, <1>3, <1>4, <1>5 DEF IInv

\* The new row and the response have a token nobody else holds.
LEMMA LoginCreateKeeps ==
    ASSUME IInv, NEW r \in Req, NEW s \in Sid, LoginCreate(r, s)
    PROVE  IInv'
<1> DEFINE p == req[r]
           t == minted + 1
           q == [p EXCEPT !.pc = "grant", !.sid = s, !.tok = t]
<1>1. /\ req[r] \in Request /\ req[r].pc = "create" /\ "grant" \in Pc
      /\ req[r].user \in known /\ req[r].user \in User /\ req[r].by \in Browser
      /\ owner[s] = None /\ s \notin active
    BY DEF IInv, TypeOK, RequestsFit, Pc, LoginPc, LoginCreate
<1>2. minted \in Nat /\ minted + 1 \in Token /\ minted + 1 # 0
    BY DEF IInv, TypeOK, Token, LoginCreate
<1> HIDE DEF p, t
<1>3. /\ q \in Request /\ q.pc = "grant" /\ q.by = p.by
      /\ q.sid = s /\ q.tok = t
  <2>1. p \in Request /\ t \in Token
      BY <1>1, <1>2 DEF p, t
  <2> QED BY <2>1, <1>1 DEF Request
<1> USE DEF p, t
<1>4. /\ req' = [req EXCEPT ![r] = q]
      /\ minted' = minted + 1
      /\ owner' = [owner EXCEPT ![s] = req[r].user]
      /\ hash' = [hash EXCEPT ![s] = minted + 1]
      /\ active' = active \cup {s}
      /\ UNCHANGED <<accountVars, jar, crossed, loggedOut>>
    BY DEF LoginCreate
<1> HIDE DEF q
<1>5. TypeOK'
    BY <1>1, <1>2, <1>3, <1>4 DEF IInv, TypeOK, Token, Version, Jar, Request,
       Pc, LoginPc, RefreshPc, LogoutPc, RevokePc, RequestsFit, Row, OnRow,
       JarsFit
<1>6. RequestsFit' /\ JarsFit'
  <2>1. \A x : Row(x) => x \in Sid /\ owner'[x] = owner[x] /\ owner[x] # None
      BY <1>1, <1>4 DEF IInv, TypeOK, Row
  <2>2. owner'[s] # None
      BY <1>1, <1>4 DEF IInv, TypeOK
  <2>3. RequestsFit'
    <3> SUFFICES ASSUME NEW x \in Req PROVE RequestsFit!(x)'
        BY DEF RequestsFit
    <3>1. CASE x = r
        BY <3>1, <1>1, <1>2, <1>3, <1>4, <2>2 DEF IInv, TypeOK, RequestsFit,
           Row, OnRow, LoginPc, RevokePc
    <3>2. CASE x # r
        BY <3>2, <1>4, <2>1 DEF IInv, TypeOK, RequestsFit, Row, OnRow, LoginPc,
           RevokePc
    <3> QED BY <3>1, <3>2
  <2>4. JarsFit'
      BY <1>4, <2>1 DEF IInv, TypeOK, JarsFit, Row
  <2> QED BY <2>3, <2>4
<1>7. MarkedMeansLapsed' /\ MarksFit' /\ ConsentsFit'
    BY <1>1, <1>2, <1>3, <1>4 DEF IInv, TypeOK, Jar, Request,
       MarkedMeansLapsed, MarksFit, ConsentsFit, RequestsFit
<1>8. TokensFit' /\ OneBrowser' /\ Fresh'
    BY <1>1, <1>2, <1>3, <1>4 DEF IInv, TypeOK, Jar, Request, TokensFit,
       Token, RequestsFit, JarsFit, Row, OnRow, Carries, OneBrowser, Fresh
<1>9. Current' /\ JarIsUsable' /\ RepliesFit' /\ LogoutRevokes'
    BY <1>1, <1>2, <1>3, <1>4 DEF IInv, TypeOK, Jar, Request, Current, Fresh,
       TokensFit, RequestsFit, JarsFit, Row, OnRow, Carries, JarIsUsable,
       InFlight, OneBrowser, RepliesFit, LogoutRevokes
<1> QED BY <1>5, <1>6, <1>7, <1>8, <1>9 DEF IInv

\* The response makes its token the one of the browser.
LEMMA GrantKeeps ==
    ASSUME IInv, NEW r \in Req, Grant(r)
    PROVE  IInv'
<1> DEFINE b == req[r].by
           s == req[r].sid
           j == [sid |-> s, access |-> TRUE, tok |-> req[r].tok]
<1>1. /\ req[r] \in Request /\ req[r].pc = "grant" /\ b \in Browser
      /\ b = req[r].by /\ s = req[r].sid
      /\ s \in Sid /\ owner[s] # None /\ req[r].tok # 0 /\ req[r].tok \in Token
    BY DEF IInv, TypeOK, RequestsFit, Row, OnRow, Request, Grant
<1>2. j \in Jar /\ j.sid = s /\ j.tok = req[r].tok /\ j # Empty
    BY <1>1 DEF Jar
<1>3. /\ jar' = [jar EXCEPT ![b] = j] /\ req' = [req EXCEPT ![r] = Idle]
      /\ UNCHANGED <<accountVars, rowVars, crossed, loggedOut>>
    BY DEF Grant
<1>4. \A c \in Browser : jar[c].sid = s => c = b
    BY <1>1 DEF IInv, OneBrowser, Carries
<1>5. \A p \in Req : req[p].pc \in Carries /\ req[p].sid = s => req[p].by = b
    BY <1>1 DEF IInv, OneBrowser, Carries
<1>6. Idle.pc = "idle" /\ Idle.tok = 0 /\ Idle \in Request
    BY DEF Request, Pc, Token
<1> HIDE DEF j, b, s
<1>7. TypeOK'
    BY <1>1, <1>2, <1>3, <1>4, <1>5, <1>6 DEF IInv, TypeOK, Token, Version,
       Jar, Request, Pc, LoginPc, RefreshPc, LogoutPc, RevokePc, RequestsFit,
       Row, OnRow, JarsFit
<1>8. RequestsFit' /\ JarsFit'
  <2>1. RequestsFit'
      BY <1>1, <1>3, <1>6 DEF IInv, TypeOK, RequestsFit, Row, OnRow, LoginPc,
         RevokePc
  <2>2. JarsFit'
      BY <1>1, <1>2, <1>3 DEF IInv, TypeOK, JarsFit, Row
  <2> QED BY <2>1, <2>2
<1>9. MarkedMeansLapsed' /\ MarksFit' /\ ConsentsFit'
    BY <1>1, <1>2, <1>3, <1>4, <1>5, <1>6 DEF IInv, TypeOK, Jar, Request,
       MarkedMeansLapsed, MarksFit, ConsentsFit, RequestsFit
<1>10. TokensFit'
    BY <1>1, <1>2, <1>3, <1>4, <1>5, <1>6 DEF IInv, TypeOK, Jar, Request,
       TokensFit, Token, RequestsFit, JarsFit, Row, OnRow, Carries
<1>11. OneBrowser'
  <2>1. jar'[b].sid = s /\ \A c \in Browser \ {b} : jar'[c] = jar[c]
      BY <1>1, <1>2, <1>3 DEF IInv, TypeOK
  <2>2. req'[r].pc = "idle" /\ \A p \in Req \ {r} : req'[p] = req[p]
      BY <1>3, <1>6 DEF IInv, TypeOK
  <2>3. OneBrowser!1'
      BY <1>4, <2>1 DEF IInv, OneBrowser
  <2>4. OneBrowser!2'
      BY <1>5, <2>1, <2>2 DEF IInv, OneBrowser, Carries
  <2>5. OneBrowser!3'
      BY <2>2 DEF IInv, OneBrowser, Carries
  <2> QED BY <2>3, <2>4, <2>5 DEF OneBrowser
<1>12. Fresh'
    BY <1>1, <1>2, <1>3, <1>4, <1>5, <1>6 DEF IInv, TypeOK, Jar, Request,
       Token, Fresh, TokensFit, RequestsFit, JarsFit, Row, OnRow, Carries
<1>13. Current'
    BY <1>1, <1>2, <1>3, <1>4, <1>5, <1>6 DEF IInv, TypeOK, Jar, Request,
       Current, Fresh, TokensFit, RequestsFit, JarsFit, Row, OnRow, Carries
<1>14. JarIsUsable'
  <2> SUFFICES ASSUME NEW c \in Browser, jar'[c].sid \in active \ crossed,
                      ~InFlight(jar[c].sid)'
               PROVE  jar'[c].tok = hash[jar'[c].sid]
      BY <1>3 DEF JarIsUsable, rowVars
  <2>1. CASE c = b
      BY <2>1, <1>1, <1>2, <1>3 DEF IInv, TypeOK, Current
  <2>2. CASE c # b
    <3>1. jar'[c] = jar[c] /\ jar[c].sid # s
        BY <2>2, <1>3, <1>4 DEF IInv, TypeOK
    <3>2. ~InFlight(jar[c].sid)
        BY <3>1, <1>1, <1>3 DEF IInv, TypeOK, InFlight
    <3> QED BY <3>1, <3>2 DEF IInv, JarIsUsable
  <2> QED BY <2>1, <2>2
<1>15. RepliesFit' /\ LogoutRevokes'
    BY <1>1, <1>2, <1>3, <1>4, <1>5, <1>6 DEF IInv, TypeOK, Jar, Request,
       RepliesFit, Current, RequestsFit, Row, OnRow, LogoutRevokes, JarsFit
<1> QED BY <1>7, <1>8, <1>9, <1>10, <1>11, <1>12, <1>13, <1>14, <1>15 DEF IInv

\* A refresh carries the cookie of its browser.
LEMMA RefreshKeeps ==
    ASSUME IInv, NEW r \in Req, NEW b \in Browser, Refresh(r, b)
    PROVE  IInv'
<1>1. TypeOK'
    BY DEF IInv, Refresh, TypeOK, Token, Version, Jar, Request, Pc, LoginPc,
       RefreshPc, LogoutPc, RevokePc, RequestsFit, Row, OnRow, JarsFit
<1>2. RequestsFit' /\ JarsFit'
    BY DEF IInv, Refresh, TypeOK, Jar, Request, RequestsFit, Row, OnRow,
       LoginPc, RevokePc, JarsFit
<1>3. MarkedMeansLapsed' /\ MarksFit' /\ ConsentsFit'
    BY DEF IInv, Refresh, TypeOK, Jar, Request, MarkedMeansLapsed, MarksFit,
       ConsentsFit, RequestsFit
<1>4. TokensFit' /\ OneBrowser' /\ Fresh'
    BY DEF IInv, Refresh, TypeOK, Jar, Request, TokensFit, Token, RequestsFit,
       JarsFit, Row, OnRow, Carries, OneBrowser, Fresh
<1>5. Current' /\ JarIsUsable' /\ RepliesFit' /\ LogoutRevokes'
    BY SMTT(20) DEF IInv, Refresh, TypeOK, Jar, Request, Current, Fresh, TokensFit,
       RequestsFit, JarsFit, Row, OnRow, Carries, JarIsUsable, InFlight,
       OneBrowser, RepliesFit, LogoutRevokes
<1> QED BY <1>1, <1>2, <1>3, <1>4, <1>5 DEF IInv

\* A token leads to its own session or to none.
LEMMA RefreshLookupKeeps ==
    ASSUME IInv, NEW r \in Req, RefreshLookup(r)
    PROVE  IInv'
<1>1. CASE FoundByHash(req[r].tok) = {}
    BY <1>1, RefusedKeeps DEF RefreshLookup
<1>2. CASE FoundByHash(req[r].tok) # {}
  <2>1. PICK s \in FoundByHash(req[r].tok) :
            Become(r, [req[r] EXCEPT !.pc = "gate", !.sid = s,
                                     !.user = owner[s]])
      BY <1>2 DEF RefreshLookup
  <2> DEFINE p == req[r]
             u == owner[s]
             q == [p EXCEPT !.pc = "gate", !.sid = s, !.user = u]
  <2>2. /\ req[r] \in Request /\ req[r].pc = "lookup" /\ req[r].sid \in Sid
        /\ s \in active /\ hash[s] = req[r].tok /\ owner[s] \in known
      BY DEF IInv, TypeOK, RequestsFit, Row, OnRow, FoundByHash, RefreshLookup
  <2>3. s = req[r].sid
      BY <2>2 DEF IInv, TypeOK, TokensFit, Row, Carries
  <2>4. req[r].by \in Browser /\ owner[s] \in User /\ s \in Sid /\ "gate" \in Pc
      BY <2>2 DEF IInv, TypeOK, RequestsFit, Pc, RefreshPc
  <2> HIDE DEF p, u
  <2>5. /\ q \in Request /\ q.pc = "gate" /\ q.by = p.by /\ q.sid = s
        /\ q.tok = p.tok /\ q.user = u
    <3>1. p \in Request /\ u \in User
        BY <2>2, <2>4 DEF p, u
    <3> QED BY <3>1, <2>4 DEF Request
  <2> USE DEF p, u
  <2>6. /\ req' = [req EXCEPT ![r] = q]
        /\ UNCHANGED <<accountVars, rowVars, jar, crossed, loggedOut>>
      BY <2>1 DEF RefreshLookup
  <2> HIDE DEF q
  <2>7. TypeOK'
      BY <2>2, <2>3, <2>4, <2>5, <2>6 DEF IInv, TypeOK, Token, Version, Jar,
         Request, Pc, LoginPc, RefreshPc, LogoutPc, RevokePc, RequestsFit, Row,
         OnRow, JarsFit
  <2>8. RequestsFit' /\ JarsFit'
      BY ZenonT(40), <2>2, <2>3, <2>4, <2>5, <2>6 DEF IInv, TypeOK, Jar, Request,
         RequestsFit, Row, OnRow, LoginPc, RevokePc, JarsFit
  <2>9. MarkedMeansLapsed' /\ MarksFit' /\ ConsentsFit'
      BY <2>2, <2>3, <2>4, <2>5, <2>6 DEF IInv, TypeOK, Jar, Request,
         MarkedMeansLapsed, MarksFit, ConsentsFit, RequestsFit
  <2>10. TokensFit' /\ OneBrowser' /\ Fresh'
      BY <2>2, <2>3, <2>4, <2>5, <2>6 DEF IInv, TypeOK, Jar, Request,
         TokensFit, Token, RequestsFit, JarsFit, Row, OnRow, Carries,
         OneBrowser, Fresh
  <2>11. Current' /\ JarIsUsable' /\ RepliesFit' /\ LogoutRevokes'
      BY <2>2, <2>3, <2>4, <2>5, <2>6 DEF IInv, TypeOK, Jar, Request, Current,
         Fresh, TokensFit, RequestsFit, JarsFit, Row, OnRow, Carries,
         JarIsUsable, InFlight, OneBrowser, RepliesFit, LogoutRevokes
  <2> QED BY <2>7, <2>8, <2>9, <2>10, <2>11 DEF IInv
<1> QED BY <1>1, <1>2

\* A refresh turns to "mark" only with a cause.
LEMMA RefreshGateKeeps ==
    ASSUME IInv, NEW r \in Req, RefreshGate(r)
    PROVE  IInv'
<1>1. req[r] \in Request /\ req[r].pc = "gate" /\ req[r].user \in User
    BY DEF IInv, TypeOK, RequestsFit, Row, OnRow, Request, RefreshGate
<1>2. cred[req[r].user] # "none" /\ Spent(req[r].user)
          => req[r].user \in lapsed \cup clobbered
    BY <1>1 DEF IInv, TypeOK, MarkedMeansLapsed, Spent
<1>3. TypeOK'
    BY <1>1, <1>2 DEF IInv, RefreshGate, TypeOK, Token, Version, Jar, Request,
       Pc, LoginPc, RefreshPc, LogoutPc, RevokePc, RequestsFit, Row, OnRow,
       JarsFit
<1>4. RequestsFit' /\ JarsFit'
    BY <1>1, <1>2 DEF IInv, RefreshGate, TypeOK, Jar, Request, RequestsFit,
       Row, OnRow, LoginPc, RevokePc, JarsFit
<1>5. MarkedMeansLapsed' /\ MarksFit' /\ ConsentsFit'
    BY <1>1, <1>2 DEF IInv, RefreshGate, TypeOK, Jar, Request,
       MarkedMeansLapsed, MarksFit, ConsentsFit, RequestsFit
<1>6. TokensFit' /\ OneBrowser' /\ Fresh'
    BY <1>1, <1>2 DEF IInv, RefreshGate, TypeOK, Jar, Request, TokensFit,
       Token, RequestsFit, JarsFit, Row, OnRow, Carries, OneBrowser, Fresh
<1>7. Current' /\ JarIsUsable' /\ RepliesFit' /\ LogoutRevokes'
    BY <1>1, <1>2 DEF IInv, RefreshGate, TypeOK, Jar, Request, Current, Fresh,
       TokensFit, RequestsFit, JarsFit, Row, OnRow, Carries, JarIsUsable,
       InFlight, OneBrowser, RepliesFit, LogoutRevokes
<1> QED BY <1>3, <1>4, <1>5, <1>6, <1>7 DEF IInv

\* The cause it had is still there, or a login has clobbered it.
LEMMA RefreshMarkKeeps ==
    ASSUME IInv, NEW r \in Req, RefreshMark(r)
    PROVE  IInv'
<1>1. TypeOK'
    BY DEF IInv, RefreshMark, TypeOK, Token, Version, Jar, Request, Pc,
       LoginPc, RefreshPc, LogoutPc, RevokePc, RequestsFit, Row, OnRow,
       JarsFit
<1>2. RequestsFit' /\ JarsFit'
    BY DEF IInv, RefreshMark, TypeOK, Jar, Request, RequestsFit, Row, OnRow,
       LoginPc, RevokePc, JarsFit
<1>3. MarkedMeansLapsed' /\ MarksFit' /\ ConsentsFit'
    BY DEF IInv, RefreshMark, TypeOK, Jar, Request, MarkedMeansLapsed,
       MarksFit, ConsentsFit, RequestsFit
<1>4. TokensFit' /\ OneBrowser' /\ Fresh'
    BY DEF IInv, RefreshMark, TypeOK, Jar, Request, TokensFit, Token,
       RequestsFit, JarsFit, Row, OnRow, Carries, OneBrowser, Fresh
<1>5. Current' /\ JarIsUsable' /\ RepliesFit' /\ LogoutRevokes'
    BY DEF IInv, RefreshMark, TypeOK, Jar, Request, Current, Fresh, TokensFit,
       RequestsFit, JarsFit, Row, OnRow, Carries, JarIsUsable, InFlight,
       OneBrowser, RepliesFit, LogoutRevokes
<1> QED BY <1>1, <1>2, <1>3, <1>4, <1>5 DEF IInv

\* Whoever still carries the replaced token is behind: the session crosses.
LEMMA RefreshRotateKeeps ==
    ASSUME IInv, NEW r \in Req, RefreshRotate(r)
    PROVE  IInv'
<1> DEFINE p == req[r]
           s == p.sid
           t == minted + 1
           q == [p EXCEPT !.pc = "grant", !.tok = t]
<1>1. /\ req[r] \in Request /\ req[r].pc = "rotate" /\ "grant" \in Pc
      /\ s \in Sid /\ owner[s] # None /\ req[r].by \in Browser
      /\ s = req[r].sid
    BY DEF IInv, TypeOK, RequestsFit, Row, OnRow, Pc, RefreshRotate
<1>2. minted \in Nat /\ minted + 1 \in Token /\ minted + 1 # 0
    BY DEF IInv, TypeOK, Token, RefreshRotate
<1> HIDE DEF p, t
<1>3. /\ q \in Request /\ q.pc = "grant" /\ q.by = p.by
      /\ q.sid = s /\ q.tok = t
  <2>1. p \in Request /\ t \in Token
      BY <1>1, <1>2 DEF p, t
  <2> QED BY <2>1, <1>1 DEF Request
<1> USE DEF p, t
<1>4. /\ req' = [req EXCEPT ![r] = q]
      /\ minted' = minted + 1
      /\ hash' = [hash EXCEPT ![s] = minted + 1]
      /\ UNCHANGED <<accountVars, owner, active, jar, loggedOut>>
    BY DEF RefreshRotate, RefreshHash
<1>5. /\ crossed \subseteq crossed' /\ crossed' \subseteq Sid
      /\ s \notin crossed' => \A x \in Req \ {r} :
             req[x].sid = s
                 => req[x].pc \notin {"gate", "rotate", "logout_find"}
    BY <1>1 DEF IInv, TypeOK, RefreshRotate, Behind
<1>6. s \in active \ crossed' => \A x \in Req \ {r} :
          req[x].sid = s => req[x].pc # "grant"
    BY <1>1, <1>5 DEF IInv, Current, Fresh, Carries
<1> HIDE DEF q, s
<1>7. TypeOK'
    BY <1>1, <1>2, <1>3, <1>4, <1>5, <1>6 DEF IInv, TypeOK, Token, Version,
       Jar, Request, Pc, LoginPc, RefreshPc, LogoutPc, RevokePc, RequestsFit,
       Row, OnRow, JarsFit
<1>8. RequestsFit' /\ JarsFit'
    BY ZenonT(40), <1>1, <1>2, <1>3, <1>4, <1>5, <1>6 DEF IInv, TypeOK, Jar, Request,
       RequestsFit, Row, OnRow, LoginPc, RevokePc, JarsFit
<1>9. MarkedMeansLapsed' /\ MarksFit' /\ ConsentsFit'
    BY <1>1, <1>2, <1>3, <1>4, <1>5, <1>6 DEF IInv, TypeOK, Jar, Request,
       MarkedMeansLapsed, MarksFit, ConsentsFit, RequestsFit
<1>10. TokensFit' /\ OneBrowser' /\ Fresh'
  <2>1. TokensFit'
      BY <1>1, <1>2, <1>3, <1>4, <1>5 DEF IInv, TypeOK, Jar, Request, Token,
         TokensFit, RequestsFit, JarsFit, Row, OnRow, Carries
  <2>2. OneBrowser'
      BY <1>1, <1>2, <1>3, <1>4, <1>5 DEF IInv, TypeOK, Jar, Request,
         OneBrowser, RequestsFit, JarsFit, Row, OnRow, Carries
  <2>3. Fresh'
      BY <1>1, <1>2, <1>3, <1>4, <1>5 DEF IInv, TypeOK, Jar, Request, Token,
         Fresh, TokensFit, RequestsFit, JarsFit, Row, OnRow, Carries
  <2> QED BY <2>1, <2>2, <2>3
<1>11. Current' /\ JarIsUsable' /\ RepliesFit' /\ LogoutRevokes'
    BY <1>1, <1>2, <1>3, <1>4, <1>5, <1>6 DEF IInv, TypeOK, Jar, Request,
       Current, Fresh, TokensFit, RequestsFit, JarsFit, Row, OnRow, Carries,
       JarIsUsable, InFlight, OneBrowser, RepliesFit, LogoutRevokes
<1> QED BY <1>7, <1>8, <1>9, <1>10, <1>11 DEF IInv

\* A logout carries a current token or crosses its session.
LEMMA LogoutKeeps ==
    ASSUME IInv, NEW r \in Req, NEW b \in Browser, Logout(r, b)
    PROVE  IInv'
<1>1. TypeOK'
    BY DEF IInv, Logout, Outdated, TypeOK, Token, Version, Jar, Request, Pc,
       LoginPc, RefreshPc, LogoutPc, RevokePc, RequestsFit, Row, OnRow,
       JarsFit
<1>2. RequestsFit' /\ JarsFit'
    BY DEF IInv, Logout, Outdated, TypeOK, Jar, Request, RequestsFit, Row,
       OnRow, LoginPc, RevokePc, JarsFit
<1>3. MarkedMeansLapsed' /\ MarksFit' /\ ConsentsFit'
    BY DEF IInv, Logout, Outdated, TypeOK, Jar, Request, MarkedMeansLapsed,
       MarksFit, ConsentsFit, RequestsFit
<1>4. TokensFit' /\ OneBrowser' /\ Fresh'
    BY DEF IInv, Logout, Outdated, TypeOK, Jar, Request, TokensFit, Token,
       RequestsFit, JarsFit, Row, OnRow, Carries, OneBrowser, Fresh
<1>5. Current' /\ JarIsUsable' /\ RepliesFit' /\ LogoutRevokes'
    BY DEF IInv, Logout, Outdated, TypeOK, Jar, Request, Current, Fresh,
       TokensFit, RequestsFit, JarsFit, Row, OnRow, Carries, JarIsUsable,
       InFlight, OneBrowser, RepliesFit, LogoutRevokes
<1> QED BY <1>1, <1>2, <1>3, <1>4, <1>5 DEF IInv

\* The access token names the session itself.
LEMMA LogoutByAccessKeeps ==
    ASSUME IInv, NEW r \in Req, NEW b \in Browser, LogoutByAccess(r, b)
    PROVE  IInv'
<1>1. TypeOK'
    BY DEF IInv, LogoutByAccess, TypeOK, Token, Version, Jar, Request, Pc,
       LoginPc, RefreshPc, LogoutPc, RevokePc, RequestsFit, Row, OnRow,
       JarsFit
<1>2. RequestsFit' /\ JarsFit'
    BY DEF IInv, LogoutByAccess, TypeOK, Jar, Request, RequestsFit, Row,
       OnRow, LoginPc, RevokePc, JarsFit
<1>3. MarkedMeansLapsed' /\ MarksFit' /\ ConsentsFit'
    BY DEF IInv, LogoutByAccess, TypeOK, Jar, Request, MarkedMeansLapsed,
       MarksFit, ConsentsFit, RequestsFit
<1>4. TokensFit' /\ OneBrowser' /\ Fresh'
    BY DEF IInv, LogoutByAccess, TypeOK, Jar, Request, TokensFit, Token,
       RequestsFit, JarsFit, Row, OnRow, Carries, OneBrowser, Fresh
<1>5. Current' /\ JarIsUsable' /\ RepliesFit' /\ LogoutRevokes'
    BY DEF IInv, LogoutByAccess, TypeOK, Jar, Request, Current, Fresh,
       TokensFit, RequestsFit, JarsFit, Row, OnRow, Carries, JarIsUsable,
       InFlight, OneBrowser, RepliesFit, LogoutRevokes
<1> QED BY <1>1, <1>2, <1>3, <1>4, <1>5 DEF IInv

\* A logout that finds nothing was behind a rotation or came late.
LEMMA LogoutFindKeeps ==
    ASSUME IInv, NEW r \in Req, LogoutFind(r)
    PROVE  IInv'
<1>1. /\ req[r] \in Request /\ req[r].pc = "logout_find"
      /\ req[r].sid \in Sid /\ req[r].by \in Browser
      /\ UNCHANGED <<accountVars, rowVars, jar, crossed, loggedOut>>
    BY DEF IInv, TypeOK, RequestsFit, Row, OnRow, LogoutFind
<1>2. CASE FoundByHash(req[r].tok) = {}
  <2> DEFINE q == [req[r] EXCEPT !.pc = "logout_reply"]
  <2>1. /\ q \in Request /\ q.pc = "logout_reply" /\ q.by = req[r].by
        /\ q.sid = req[r].sid /\ q.tok = req[r].tok
        /\ req' = [req EXCEPT ![r] = q]
      BY <1>1, <1>2, EditPc DEF LogoutFind, Pc, LogoutPc
  <2>2. q.sid \notin active \ crossed
      BY <1>1, <1>2, <2>1 DEF IInv, Current, FoundByHash
  <2> HIDE DEF q
  <2>3. TypeOK'
      BY <1>1, <2>1, <2>2 DEF IInv, TypeOK, Token, Version, Jar, Request, Pc,
         LoginPc, RefreshPc, LogoutPc, RevokePc, RequestsFit, Row, OnRow,
         JarsFit
  <2>4. RequestsFit' /\ JarsFit'
      BY ZenonT(40), <1>1, <2>1, <2>2 DEF IInv, TypeOK, Jar, Request, RequestsFit, Row,
         OnRow, LoginPc, RevokePc, JarsFit
  <2>5. MarkedMeansLapsed' /\ MarksFit' /\ ConsentsFit'
      BY <1>1, <2>1, <2>2 DEF IInv, TypeOK, Jar, Request, MarkedMeansLapsed,
         MarksFit, ConsentsFit, RequestsFit
  <2>6. TokensFit' /\ OneBrowser' /\ Fresh'
      BY <1>1, <2>1, <2>2 DEF IInv, TypeOK, Jar, Request, TokensFit, Token,
         RequestsFit, JarsFit, Row, OnRow, Carries, OneBrowser, Fresh
  <2>7. Current' /\ JarIsUsable' /\ RepliesFit' /\ LogoutRevokes'
      BY <1>1, <2>1, <2>2 DEF IInv, TypeOK, Jar, Request, Current, Fresh,
         TokensFit, RequestsFit, JarsFit, Row, OnRow, Carries, JarIsUsable,
         InFlight, OneBrowser, RepliesFit, LogoutRevokes
  <2> QED BY <2>3, <2>4, <2>5, <2>6, <2>7 DEF IInv
<1>3. CASE FoundByHash(req[r].tok) # {}
  <2>1. PICK s \in FoundByHash(req[r].tok) :
            Become(r, [req[r] EXCEPT !.pc = "logout_revoke", !.sid = s])
      BY <1>3 DEF LogoutFind
  <2> DEFINE p == req[r]
             q == [p EXCEPT !.pc = "logout_revoke", !.sid = s]
  <2>2. s \in active /\ s \in Sid /\ owner[s] # None
      BY DEF IInv, TypeOK, FoundByHash
  <2> HIDE DEF p
  <2>3. /\ q \in Request /\ q.pc = "logout_revoke" /\ q.by = p.by
        /\ q.sid = s /\ q.tok = p.tok
    <3>1. p \in Request
        BY <1>1 DEF p
    <3> QED BY <3>1, <2>2 DEF Request, Pc, LogoutPc
  <2> USE DEF p
  <2>4. req' = [req EXCEPT ![r] = q]
      BY <2>1
  <2> HIDE DEF q
  <2>5. TypeOK'
      BY <1>1, <2>2, <2>3, <2>4 DEF IInv, TypeOK, Token, Version, Jar, Request,
         Pc, LoginPc, RefreshPc, LogoutPc, RevokePc, RequestsFit, Row, OnRow,
         JarsFit
  <2>6. RequestsFit' /\ JarsFit'
      BY <1>1, <2>2, <2>3, <2>4 DEF IInv, TypeOK, Jar, Request, RequestsFit,
         Row, OnRow, LoginPc, RevokePc, JarsFit
  <2>7. MarkedMeansLapsed' /\ MarksFit' /\ ConsentsFit'
      BY <1>1, <2>2, <2>3, <2>4 DEF IInv, TypeOK, Jar, Request,
         MarkedMeansLapsed, MarksFit, ConsentsFit, RequestsFit
  <2>8. TokensFit' /\ OneBrowser' /\ Fresh'
      BY <1>1, <2>2, <2>3, <2>4 DEF IInv, TypeOK, Jar, Request, TokensFit,
         Token, RequestsFit, JarsFit, Row, OnRow, Carries, OneBrowser, Fresh
  <2>9. Current' /\ JarIsUsable' /\ RepliesFit' /\ LogoutRevokes'
      BY <1>1, <2>2, <2>3, <2>4 DEF IInv, TypeOK, Jar, Request, Current, Fresh,
         TokensFit, RequestsFit, JarsFit, Row, OnRow, Carries, JarIsUsable,
         InFlight, OneBrowser, RepliesFit, LogoutRevokes
  <2> QED BY <2>5, <2>6, <2>7, <2>8, <2>9 DEF IInv
<1> QED BY <1>2, <1>3

\* The session is over when the reply is due.
LEMMA LogoutRevokeKeeps ==
    ASSUME IInv, NEW r \in Req, LogoutRevoke(r)
    PROVE  IInv'
<1>1. TypeOK'
    BY SMTT(20) DEF IInv, LogoutRevoke, Revoked, TypeOK, Token, Version, Jar, Request,
       Pc, LoginPc, RefreshPc, LogoutPc, RevokePc, RequestsFit, Row, OnRow,
       JarsFit
<1>2. RequestsFit' /\ JarsFit'
    BY DEF IInv, LogoutRevoke, Revoked, TypeOK, Jar, Request, RequestsFit,
       Row, OnRow, LoginPc, RevokePc, JarsFit
<1>3. MarkedMeansLapsed' /\ MarksFit' /\ ConsentsFit'
    BY DEF IInv, LogoutRevoke, Revoked, TypeOK, Jar, Request,
       MarkedMeansLapsed, MarksFit, ConsentsFit, RequestsFit
<1>4. TokensFit' /\ OneBrowser' /\ Fresh'
    BY DEF IInv, LogoutRevoke, Revoked, TypeOK, Jar, Request, TokensFit,
       Token, RequestsFit, JarsFit, Row, OnRow, Carries, OneBrowser, Fresh
<1>5. Current' /\ JarIsUsable' /\ RepliesFit' /\ LogoutRevokes'
    BY DEF IInv, LogoutRevoke, Revoked, TypeOK, Jar, Request, Current, Fresh,
       TokensFit, RequestsFit, JarsFit, Row, OnRow, Carries, JarIsUsable,
       InFlight, OneBrowser, RepliesFit, LogoutRevokes
<1> QED BY <1>1, <1>2, <1>3, <1>4, <1>5 DEF IInv

\* The reply clears the cookies of a session that is over or crossed.
LEMMA LogoutReplyKeeps ==
    ASSUME IInv, NEW r \in Req, LogoutReply(r)
    PROVE  IInv'
<1> DEFINE b == req[r].by
<1>1. /\ req[r] \in Request /\ req[r].pc = "logout_reply" /\ b \in Browser
      /\ b = req[r].by
      /\ req[r].sid \in Sid /\ owner[req[r].sid] # None
    BY DEF IInv, TypeOK, RequestsFit, Row, OnRow, LogoutReply
<1>2. /\ jar' = [jar EXCEPT ![b] = Empty] /\ req' = [req EXCEPT ![r] = Idle]
      /\ loggedOut' = loggedOut \cup {req[r].sid}
      /\ UNCHANGED <<accountVars, rowVars, crossed>>
    BY DEF LogoutReply
<1>3. /\ Idle.pc = "idle" /\ Idle.tok = 0 /\ Idle \in Request
      /\ Empty.sid = None /\ Empty.tok = 0 /\ Empty \in Jar
    BY DEF Request, Jar, Pc, Token
<1> HIDE DEF b
<1>4. TypeOK'
    BY <1>1, <1>2, <1>3 DEF IInv, TypeOK, Token, Version, Jar, Request, Pc,
       LoginPc, RefreshPc, LogoutPc, RevokePc, RequestsFit, Row, OnRow,
       JarsFit
<1>5. RequestsFit' /\ JarsFit'
    BY ZenonT(40), <1>1, <1>2, <1>3 DEF IInv, TypeOK, Jar, Request, RequestsFit, Row,
       OnRow, LoginPc, RevokePc, JarsFit
<1>6. MarkedMeansLapsed' /\ MarksFit' /\ ConsentsFit'
    BY <1>1, <1>2, <1>3 DEF IInv, TypeOK, Jar, Request, MarkedMeansLapsed,
       MarksFit, ConsentsFit, RequestsFit
<1>7. TokensFit'
    BY <1>1, <1>2, <1>3 DEF IInv, TypeOK, Jar, Request, TokensFit, Token,
       RequestsFit, JarsFit, Row, OnRow, Carries
<1>8. OneBrowser'
  <2>1. jar'[b] = Empty /\ \A c \in Browser \ {b} : jar'[c] = jar[c]
      BY <1>1, <1>2 DEF IInv, TypeOK
  <2>2. req'[r].pc = "idle" /\ \A p \in Req \ {r} : req'[p] = req[p]
      BY <1>2, <1>3 DEF IInv, TypeOK
  <2>3. \A c \in Browser : jar[c] # Empty => jar[c].sid # None
      BY DEF IInv, TypeOK, JarsFit, Row
  <2>4. \A p \in Req : req[p].pc \in Carries => req[p].sid # None
      BY DEF IInv, TypeOK, RequestsFit, Row, OnRow, Carries
  <2>5. Empty.sid = None
      OBVIOUS
  <2> HIDE DEF Empty, Idle
  <2>6. OneBrowser!1'
      BY <2>1, <2>3, <2>5 DEF IInv, OneBrowser
  <2>7. OneBrowser!2'
      BY <2>1, <2>2, <2>4, <2>5 DEF IInv, OneBrowser, Carries
  <2>8. OneBrowser!3'
      BY <2>2 DEF IInv, OneBrowser, Carries
  <2> QED BY <2>6, <2>7, <2>8 DEF OneBrowser
<1>9. Fresh'
    BY <1>1, <1>2, <1>3 DEF IInv, TypeOK, Jar, Request, Token, Fresh,
       TokensFit, RequestsFit, JarsFit, Row, OnRow, Carries
<1>10. Current'
    BY <1>1, <1>2, <1>3 DEF IInv, TypeOK, Jar, Request, Current, Fresh,
       TokensFit, RequestsFit, JarsFit, Row, OnRow, Carries
<1>11. JarIsUsable'
  <2> SUFFICES ASSUME NEW c \in Browser, jar'[c].sid \in active \ crossed,
                      ~InFlight(jar[c].sid)'
               PROVE  jar'[c].tok = hash[jar'[c].sid]
      BY <1>2 DEF JarIsUsable, rowVars
  <2>1. c # b /\ jar'[c] = jar[c]
      BY <1>1, <1>2, <1>3 DEF IInv, TypeOK
  <2>2. ~InFlight(jar[c].sid)
      BY <2>1, <1>1, <1>2 DEF IInv, TypeOK, InFlight
  <2> QED BY <2>1, <2>2 DEF IInv, JarIsUsable
<1>12. RepliesFit' /\ LogoutRevokes'
    BY <1>1, <1>2, <1>3 DEF IInv, TypeOK, Jar, Request, RepliesFit, Current,
       RequestsFit, Row, OnRow, LogoutRevokes, JarsFit
<1> QED BY <1>4, <1>5, <1>6, <1>7, <1>8, <1>9, <1>10, <1>11, <1>12 DEF IInv

\* me_session_revoke before its lookup.
LEMMA RevokeOtherKeeps ==
    ASSUME IInv, NEW r \in Req, NEW b \in Browser, NEW s \in Sid,
           RevokeOther(r, b, s)
    PROVE  IInv'
<1>1. TypeOK'
    BY DEF IInv, RevokeOther, Authenticated, TypeOK, Token, Version, Jar,
       Request, Pc, LoginPc, RefreshPc, LogoutPc, RevokePc, RequestsFit, Row,
       OnRow, JarsFit
<1>2. RequestsFit' /\ JarsFit'
    BY DEF IInv, RevokeOther, Authenticated, TypeOK, Jar, Request,
       RequestsFit, Row, OnRow, LoginPc, RevokePc, JarsFit
<1>3. MarkedMeansLapsed' /\ MarksFit' /\ ConsentsFit'
    BY DEF IInv, RevokeOther, Authenticated, TypeOK, Jar, Request,
       MarkedMeansLapsed, MarksFit, ConsentsFit, RequestsFit
<1>4. TokensFit' /\ OneBrowser' /\ Fresh'
    BY DEF IInv, RevokeOther, Authenticated, TypeOK, Jar, Request, TokensFit,
       Token, RequestsFit, JarsFit, Row, OnRow, Carries, OneBrowser, Fresh
<1>5. Current' /\ JarIsUsable' /\ RepliesFit' /\ LogoutRevokes'
    BY DEF IInv, RevokeOther, Authenticated, TypeOK, Jar, Request, Current,
       Fresh, TokensFit, RequestsFit, JarsFit, Row, OnRow, Carries,
       JarIsUsable, InFlight, OneBrowser, RepliesFit, LogoutRevokes
<1> QED BY <1>1, <1>2, <1>3, <1>4, <1>5 DEF IInv

\* me_session_revoke between its lookup and its update.
LEMMA RevokeOtherFindKeeps ==
    ASSUME IInv, NEW r \in Req, RevokeOtherFind(r)
    PROVE  IInv'
<1>1. CASE ~(owner[req[r].sid] = req[r].user /\ req[r].sid \in active)
    BY <1>1, RefusedKeeps DEF RevokeOtherFind
<1>2. CASE owner[req[r].sid] = req[r].user /\ req[r].sid \in active
  <2> DEFINE q == [req[r] EXCEPT !.pc = "other_revoke"]
  <2>1. /\ req[r] \in Request /\ req[r].pc = "other_find" /\ q \in Request
        /\ q.pc = "other_revoke" /\ q.by = req[r].by /\ q.sid = req[r].sid
        /\ q.tok = req[r].tok
      BY SMTT(20), EditPc DEF IInv, TypeOK, Pc, RevokePc, RevokeOtherFind
  <2>2. /\ req' = [req EXCEPT ![r] = q]
        /\ UNCHANGED <<accountVars, rowVars, jar, crossed, loggedOut>>
      BY <1>2 DEF RevokeOtherFind
  <2> HIDE DEF q
  <2>3. TypeOK'
      BY <2>1, <2>2 DEF IInv, TypeOK, Token, Version, Jar, Request, Pc,
         LoginPc, RefreshPc, LogoutPc, RevokePc, RequestsFit, Row, OnRow,
         JarsFit
  <2>4. RequestsFit' /\ JarsFit'
      BY ZenonT(40), <2>1, <2>2 DEF IInv, TypeOK, Jar, Request, RequestsFit, Row, OnRow,
         LoginPc, RevokePc, JarsFit
  <2>5. MarkedMeansLapsed' /\ MarksFit' /\ ConsentsFit'
      BY <2>1, <2>2 DEF IInv, TypeOK, Jar, Request, MarkedMeansLapsed,
         MarksFit, ConsentsFit, RequestsFit
  <2>6. TokensFit' /\ OneBrowser' /\ Fresh'
      BY <2>1, <2>2 DEF IInv, TypeOK, Jar, Request, TokensFit, Token,
         RequestsFit, JarsFit, Row, OnRow, Carries, OneBrowser, Fresh
  <2>7. Current' /\ JarIsUsable' /\ RepliesFit' /\ LogoutRevokes'
      BY <2>1, <2>2 DEF IInv, TypeOK, Jar, Request, Current, Fresh, TokensFit,
         RequestsFit, JarsFit, Row, OnRow, Carries, JarIsUsable, InFlight,
         OneBrowser, RepliesFit, LogoutRevokes
  <2> QED BY <2>3, <2>4, <2>5, <2>6, <2>7 DEF IInv
<1> QED BY <1>1, <1>2

\* me_session_revoke ends the session.
LEMMA RevokeOtherRevokeKeeps ==
    ASSUME IInv, NEW r \in Req, RevokeOtherRevoke(r)
    PROVE  IInv'
<1>1. TypeOK'
    BY DEF IInv, RevokeOtherRevoke, Revoked, TypeOK, Token, Version, Jar,
       Request, Pc, LoginPc, RefreshPc, LogoutPc, RevokePc, RequestsFit, Row,
       OnRow, JarsFit
<1>2. RequestsFit' /\ JarsFit'
    BY DEF IInv, RevokeOtherRevoke, Revoked, TypeOK, Jar, Request,
       RequestsFit, Row, OnRow, LoginPc, RevokePc, JarsFit
<1>3. MarkedMeansLapsed' /\ MarksFit' /\ ConsentsFit'
    BY DEF IInv, RevokeOtherRevoke, Revoked, TypeOK, Jar, Request,
       MarkedMeansLapsed, MarksFit, ConsentsFit, RequestsFit
<1>4. TokensFit' /\ OneBrowser' /\ Fresh'
    BY DEF IInv, RevokeOtherRevoke, Revoked, TypeOK, Jar, Request, TokensFit,
       Token, RequestsFit, JarsFit, Row, OnRow, Carries, OneBrowser, Fresh
<1>5. Current' /\ JarIsUsable' /\ RepliesFit' /\ LogoutRevokes'
    BY DEF IInv, RevokeOtherRevoke, Revoked, TypeOK, Jar, Request, Current,
       Fresh, TokensFit, RequestsFit, JarsFit, Row, OnRow, Carries,
       JarIsUsable, InFlight, OneBrowser, RepliesFit, LogoutRevokes
<1> QED BY <1>1, <1>2, <1>3, <1>4, <1>5 DEF IInv

\* revoke_all_for_user only shrinks the set of active sessions.
LEMMA RevokeAllKeeps ==
    ASSUME IInv, NEW u \in User, RevokeAll(u)
    PROVE  IInv'
<1>1. TypeOK'
    BY DEF IInv, RevokeAll, TypeOK, Token, Version, Jar, Request, Pc, LoginPc,
       RefreshPc, LogoutPc, RevokePc, RequestsFit, Row, OnRow, JarsFit
<1>2. RequestsFit' /\ JarsFit'
    BY DEF IInv, RevokeAll, TypeOK, Jar, Request, RequestsFit, Row, OnRow,
       LoginPc, RevokePc, JarsFit
<1>3. MarkedMeansLapsed' /\ MarksFit' /\ ConsentsFit'
    BY DEF IInv, RevokeAll, TypeOK, Jar, Request, MarkedMeansLapsed, MarksFit,
       ConsentsFit, RequestsFit
<1>4. TokensFit' /\ OneBrowser' /\ Fresh'
    BY DEF IInv, RevokeAll, TypeOK, Jar, Request, TokensFit, Token,
       RequestsFit, JarsFit, Row, OnRow, Carries, OneBrowser, Fresh
<1>5. Current' /\ JarIsUsable' /\ RepliesFit' /\ LogoutRevokes'
    BY DEF IInv, RevokeAll, TypeOK, Jar, Request, Current, Fresh, TokensFit,
       RequestsFit, JarsFit, Row, OnRow, Carries, JarIsUsable, InFlight,
       OneBrowser, RepliesFit, LogoutRevokes
<1> QED BY <1>1, <1>2, <1>3, <1>4, <1>5 DEF IInv

\* A passed expiry is a cause to mark.
LEMMA LapseKeeps ==
    ASSUME IInv, NEW u \in User, Lapse(u)
    PROVE  IInv'
<1>1. TypeOK'
    BY DEF IInv, Lapse, TypeOK, Token, Version, Jar, Request, Pc, LoginPc,
       RefreshPc, LogoutPc, RevokePc, RequestsFit, Row, OnRow, JarsFit
<1>2. RequestsFit' /\ JarsFit'
    BY DEF IInv, Lapse, TypeOK, Jar, Request, RequestsFit, Row, OnRow,
       LoginPc, RevokePc, JarsFit
<1>3. MarkedMeansLapsed' /\ MarksFit' /\ ConsentsFit'
    BY DEF IInv, Lapse, TypeOK, Jar, Request, MarkedMeansLapsed, MarksFit,
       ConsentsFit, RequestsFit
<1>4. TokensFit' /\ OneBrowser' /\ Fresh'
    BY DEF IInv, Lapse, TypeOK, Jar, Request, TokensFit, Token, RequestsFit,
       JarsFit, Row, OnRow, Carries, OneBrowser, Fresh
<1>5. Current' /\ JarIsUsable' /\ RepliesFit' /\ LogoutRevokes'
    BY DEF IInv, Lapse, TypeOK, Jar, Request, Current, Fresh, TokensFit,
       RequestsFit, JarsFit, Row, OnRow, Carries, JarIsUsable, InFlight,
       OneBrowser, RepliesFit, LogoutRevokes
<1> QED BY <1>1, <1>2, <1>3, <1>4, <1>5 DEF IInv

\* expires_at passes.
LEMMA ExpireSessionKeeps ==
    ASSUME IInv, NEW s \in Sid, ExpireSession(s)
    PROVE  IInv'
<1>1. TypeOK'
    BY DEF IInv, ExpireSession, TypeOK, Token, Version, Jar, Request, Pc,
       LoginPc, RefreshPc, LogoutPc, RevokePc, RequestsFit, Row, OnRow,
       JarsFit
<1>2. RequestsFit' /\ JarsFit'
    BY DEF IInv, ExpireSession, TypeOK, Jar, Request, RequestsFit, Row, OnRow,
       LoginPc, RevokePc, JarsFit
<1>3. MarkedMeansLapsed' /\ MarksFit' /\ ConsentsFit'
    BY DEF IInv, ExpireSession, TypeOK, Jar, Request, MarkedMeansLapsed,
       MarksFit, ConsentsFit, RequestsFit
<1>4. TokensFit' /\ OneBrowser' /\ Fresh'
    BY DEF IInv, ExpireSession, TypeOK, Jar, Request, TokensFit, Token,
       RequestsFit, JarsFit, Row, OnRow, Carries, OneBrowser, Fresh
<1>5. Current' /\ JarIsUsable' /\ RepliesFit' /\ LogoutRevokes'
    BY DEF IInv, ExpireSession, TypeOK, Jar, Request, Current, Fresh,
       TokensFit, RequestsFit, JarsFit, Row, OnRow, Carries, JarIsUsable,
       InFlight, OneBrowser, RepliesFit, LogoutRevokes
<1> QED BY <1>1, <1>2, <1>3, <1>4, <1>5 DEF IInv

\* The access token runs out; the refresh cookie stays.
LEMMA ExpireAccessKeeps ==
    ASSUME IInv, NEW b \in Browser, ExpireAccess(b)
    PROVE  IInv'
<1> DEFINE j == [jar[b] EXCEPT !.access = FALSE]
<1>1. jar[b] \in Jar /\ jar[b] # Empty
    BY DEF IInv, TypeOK, ExpireAccess
<1>2. j \in Jar /\ j.sid = jar[b].sid /\ j.tok = jar[b].tok
    BY <1>1 DEF Jar
<1>3. jar[b].tok # 0
    BY <1>1 DEF IInv, JarsFit
<1>4. /\ jar' = [jar EXCEPT ![b] = j]
      /\ UNCHANGED <<accountVars, rowVars, req, crossed, loggedOut>>
    BY DEF ExpireAccess
<1> HIDE DEF j
<1>5. TypeOK'
    BY <1>1, <1>2, <1>3, <1>4 DEF IInv, TypeOK, Token, Version, Jar, Request,
       Pc, LoginPc, RefreshPc, LogoutPc, RevokePc, RequestsFit, Row, OnRow,
       JarsFit
<1>6. RequestsFit' /\ JarsFit'
    BY <1>1, <1>2, <1>3, <1>4 DEF IInv, TypeOK, Jar, Request, RequestsFit,
       Row, OnRow, LoginPc, RevokePc, JarsFit
<1>7. MarkedMeansLapsed' /\ MarksFit' /\ ConsentsFit'
    BY <1>1, <1>2, <1>3, <1>4 DEF IInv, TypeOK, Jar, Request,
       MarkedMeansLapsed, MarksFit, ConsentsFit, RequestsFit
<1>8. TokensFit' /\ OneBrowser' /\ Fresh'
  <2>1. TokensFit'
      BY <1>1, <1>2, <1>3, <1>4 DEF IInv, TypeOK, Jar, Request, Token,
         TokensFit, RequestsFit, JarsFit, Row, OnRow, Carries
  <2>2. OneBrowser'
    <3>1. \A c \in Browser : jar'[c].sid = jar[c].sid
        BY <1>2, <1>4 DEF IInv, TypeOK
    <3>2. \A c \in Browser : jar'[c] # Empty => jar[c] # Empty
        BY <1>1, <1>4 DEF IInv, TypeOK
    <3> HIDE DEF Empty
    <3> QED BY <1>4, <3>1, <3>2 DEF IInv, OneBrowser
  <2>3. Fresh'
      BY <1>1, <1>2, <1>3, <1>4 DEF IInv, TypeOK, Jar, Request, Token,
         Fresh, TokensFit, RequestsFit, JarsFit, Row, OnRow, Carries
  <2> QED BY <2>1, <2>2, <2>3
<1>9. Current' /\ JarIsUsable' /\ RepliesFit' /\ LogoutRevokes'
    BY <1>1, <1>2, <1>3, <1>4 DEF IInv, TypeOK, Jar, Request, Current, Fresh,
       TokensFit, RequestsFit, JarsFit, Row, OnRow, Carries, JarIsUsable,
       InFlight, OneBrowser, RepliesFit, LogoutRevokes
<1> QED BY <1>5, <1>6, <1>7, <1>8, <1>9 DEF IInv

\* A restart drops every handler and its response.
LEMMA RedeployKeeps ==
    ASSUME IInv, Redeploy
    PROVE  IInv'
<1>1. TypeOK'
    BY DEF IInv, Redeploy, Undelivered, TypeOK, Token, Version, Jar, Request,
       Pc, LoginPc, RefreshPc, LogoutPc, RevokePc, RequestsFit, Row, OnRow,
       JarsFit
<1>2. RequestsFit' /\ JarsFit'
    BY DEF IInv, Redeploy, Undelivered, TypeOK, Jar, Request, RequestsFit,
       Row, OnRow, LoginPc, RevokePc, JarsFit
<1>3. MarkedMeansLapsed' /\ MarksFit' /\ ConsentsFit'
    BY DEF IInv, Redeploy, Undelivered, TypeOK, Jar, Request,
       MarkedMeansLapsed, MarksFit, ConsentsFit, RequestsFit
<1>4. TokensFit' /\ OneBrowser' /\ Fresh'
    BY DEF IInv, Redeploy, Undelivered, TypeOK, Jar, Request, TokensFit,
       Token, RequestsFit, JarsFit, Row, OnRow, Carries, OneBrowser, Fresh
<1>5. Current' /\ JarIsUsable' /\ RepliesFit' /\ LogoutRevokes'
    BY DEF IInv, Redeploy, Undelivered, TypeOK, Jar, Request, Current, Fresh,
       TokensFit, RequestsFit, JarsFit, Row, OnRow, Carries, JarIsUsable,
       InFlight, OneBrowser, RepliesFit, LogoutRevokes
<1> QED BY <1>1, <1>2, <1>3, <1>4, <1>5 DEF IInv

\* The empty database.
LEMMA InitHolds == Init => IInv
<1> SUFFICES ASSUME Init PROVE IInv
    OBVIOUS
<1> HIDE DEF Empty, Idle
<1>1. /\ Empty \in Jar /\ Empty.sid = None /\ Empty.tok = 0
      /\ Idle \in Request /\ Idle.pc = "idle" /\ Idle.tok = 0
    BY DEF Empty, Idle, Jar, Request, Pc, Token
<1>2. TypeOK
    BY <1>1 DEF Init, TypeOK, Token, Version
<1>3. RequestsFit /\ JarsFit
    BY <1>1 DEF Init, RequestsFit, OnRow, LoginPc, RevokePc, JarsFit
<1>4. MarkedMeansLapsed /\ MarksFit /\ ConsentsFit
    BY <1>1 DEF Init, MarkedMeansLapsed, MarksFit, ConsentsFit
<1>5. TokensFit /\ OneBrowser /\ Fresh
    BY <1>1 DEF Init, TokensFit, OneBrowser, Fresh, Row, Carries
<1>6. Current /\ JarIsUsable /\ RepliesFit /\ LogoutRevokes
    BY <1>1 DEF Init, Current, JarIsUsable, RepliesFit, LogoutRevokes
<1> QED BY <1>2, <1>3, <1>4, <1>5, <1>6 DEF IInv

\* A step of nobody.
LEMMA StutterKeeps ==
    ASSUME IInv, UNCHANGED vars
    PROVE  IInv'
BY DEF vars, IInv, TypeOK, RequestsFit, JarsFit, MarkedMeansLapsed, MarksFit,
   ConsentsFit, TokensFit, OneBrowser, Fresh, Current, JarIsUsable, InFlight,
   RepliesFit, LogoutRevokes, Row

\* IInv is inductive: one lemma for every action.
LEMMA NextKeeps ==
    ASSUME IInv, [Next]_vars
    PROVE  IInv'
<1>1. ASSUME NEW r \in Req, LoginStep(r) PROVE IInv'
    BY <1>1, LoginKeeps, LoginFindKeeps, LoginConsentKeeps, LoginUpsertKeeps,
       LoginStoreKeeps, LoginRecordKeeps, LoginCreateKeeps, GrantKeeps
       DEF LoginStep
<1>2. ASSUME NEW r \in Req, RefreshStep(r) PROVE IInv'
    BY <1>2, RefreshKeeps, RefreshLookupKeeps, RefreshGateKeeps,
       RefreshMarkKeeps, RefreshRotateKeeps DEF RefreshStep
<1>3. ASSUME NEW r \in Req, LogoutStep(r) PROVE IInv'
    BY <1>3, LogoutKeeps, LogoutByAccessKeeps, LogoutFindKeeps,
       LogoutRevokeKeeps, LogoutReplyKeeps DEF LogoutStep
<1>4. ASSUME NEW r \in Req, RevokeStep(r) PROVE IInv'
    BY <1>4, RevokeOtherKeeps, RevokeOtherFindKeeps, RevokeOtherRevokeKeeps
       DEF RevokeStep
<1> QED BY <1>1, <1>2, <1>3, <1>4, CutKeeps, RevokeAllKeeps, LapseKeeps,
           ExpireSessionKeeps, ExpireAccessKeeps, RedeployKeeps, StutterKeeps
        DEF Next

\* The inductive invariant holds in every reachable state of the handlers of
\* auth/routes.rs and the revocations beside them.
THEOREM Invariant == Spec => []IInv
BY InitHolds, NextKeeps, PTL DEF Spec

\* Rows, tokens, cookies and requests are well-formed and every session and
\* acceptance has its user, whatever handlers are cut short.
THEOREM TypeCorrect == Spec => []TypeOK
<1>1. IInv => TypeOK
    BY DEF IInv
<1> QED BY <1>1, Invariant, PTL

\* Rotation (refresh) never strands the only browser of a session: it holds the
\* current token unless requests crossed or a response was lost.
THEOREM RotationKeepsJar == Spec => []JarIsUsable
<1>1. IInv => JarIsUsable
    BY DEF IInv
<1> QED BY <1>1, Invariant, PTL

\* An answered logout has revoked the session of its browser, except when a
\* rotation replaced the token the logout carried.
THEOREM LogoutEndsSession == Spec => []LogoutRevokes
<1>1. IInv => LogoutRevokes
    BY DEF IInv
<1> QED BY <1>1, Invariant, PTL

\* A credential is marked spent only with cause, except when a refresh marks
\* what a concurrent commit_login has replaced.
THEOREM MarksHaveCause == Spec => []MarkedMeansLapsed
<1>1. IInv => MarkedMeansLapsed
    BY DEF IInv
<1> QED BY <1>1, Invariant, PTL

\* phira_login creates a session only for a user whose acceptance of the legal
\* versions in force is on record.
THEOREM ConsentBeforeSession == Spec => ConsentBacksSession
<1>1. ASSUME IInv, [Next]_vars, NEW s \in Sid, owner[s] = None,
             owner'[s] # None
      PROVE  <<owner'[s], version>> \in accepted
  <2>1. PICK r \in Req, t \in Sid : LoginCreate(r, t)
      BY ZenonT(40), <1>1 DEF Next, LoginStep, RefreshStep, LogoutStep, RevokeStep, vars,
         Login, LoginFind, LoginConsent, LoginUpsert, LoginStore, LoginRecord,
         Grant, Refresh, RefreshLookup, RefreshGate, RefreshMark,
         RefreshRotate, Logout, LogoutByAccess, LogoutFind, LogoutRevoke,
         LogoutReply, RevokeOther, RevokeOtherFind, RevokeOtherRevoke, Cut,
         RevokeAll, Lapse, ExpireSession, ExpireAccess, Redeploy
  <2>2. s = t /\ owner'[s] = req[r].user
      BY <1>1, <2>1 DEF LoginCreate, IInv, TypeOK
  <2> QED BY <1>1, <2>1, <2>2 DEF LoginCreate, IInv, ConsentsFit
<1>2. IInv /\ [Next]_vars => \A s \in Sid :
          owner[s] = None /\ owner'[s] # None
              => <<owner'[s], version>> \in accepted
    BY <1>1
<1> QED BY <1>2, Invariant, PTL DEF Spec, ConsentBacksSession

\* Neither a refresh, which updates a row without looking at it again, nor any
\* other step brings a revoked or expired session back or gives it to another
\* user.
THEOREM RevokedStaysRevoked == Spec => RevocationSticks
<1>1. ASSUME IInv, [Next]_vars, NEW s \in Sid, owner[s] # None
      PROVE  /\ owner'[s] = owner[s]
             /\ s \in active' => s \in active
  <2>1. CASE \E r \in Req, t \in Sid : LoginCreate(r, t)
      BY <1>1, <2>1 DEF LoginCreate, IInv, TypeOK
  <2>2. CASE ~ \E r \in Req, t \in Sid : LoginCreate(r, t)
      BY ZenonT(40), <1>1, <2>2 DEF Next, LoginStep, RefreshStep, LogoutStep, RevokeStep,
         vars, Login, LoginFind, LoginConsent, LoginUpsert, LoginStore,
         LoginRecord, Grant, Refresh, RefreshLookup, RefreshGate, RefreshMark,
         RefreshRotate, Logout, LogoutByAccess, LogoutFind, LogoutRevoke,
         LogoutReply, RevokeOther, RevokeOtherFind, RevokeOtherRevoke,
         Revoked, Cut, RevokeAll, Lapse, ExpireSession, ExpireAccess, Redeploy
  <2> QED BY <2>1, <2>2
<1>2. IInv /\ [Next]_vars => \A s \in Sid :
          owner[s] # None => /\ owner'[s] = owner[s]
                             /\ s \in active' => s \in active
    BY <1>1
<1> QED BY <1>2, Invariant, PTL DEF Spec, RevocationSticks
=============================================================================
