--------------------------- MODULE CommunityProofs ---------------------------
(***************************************************************************)
(* Proofs about what users do with each other and with their own data, for *)
(* any number of users, requests, codes, devices and pages.  Each          *)
(* component has an inductive invariant, one lemma per group of actions,   *)
(* and the theorem about the property the run `community' checks.          *)
(***************************************************************************)
EXTENDS Social, Notifications, Buttons, Views, Coupons, Preferences, Tabs,
        FiniteSetTheorems, TLAPS

(***************************************************************************)
(* Social.  The friendship of a pair rests on an accepted request, which   *)
(* rests on a handler that had read it pending: what a handler about to    *)
(* commit knows is part of the invariant.                                  *)
(***************************************************************************)
Status == {"none", "pending"} \cup Answer
Task == [op : {"send", "block", "invite"} \cup Answer, by : User, pair : Pair,
         pc : {"friends?", "insert", "commit", "remove", "blocked?", "room"}]
(* An answer is given by the addressee of a request that exists. *)
TaskOK(t, rows) ==
    t # Idle =>
        /\ t \in Task
        /\ t.op \in Answer => t.by = t.pair[2] /\ rows[t.pair] # "none"
TablesOK ==
    /\ request \in [Pair -> Status]
    /\ friends \subseteq {p \in Pair : p[1] < p[2]}
    /\ blocks \in SUBSET Pair /\ noticed \in SUBSET Pair
    /\ invited \in SUBSET Pair /\ agreed \in SUBSET Pair
TasksOK ==
    /\ task = [h \in Handler |-> task[h]]
    /\ \A h \in Handler : TaskOK(task[h], request)
AgreedAreAnswered == \A q \in agreed : request[q] \in Answer
FriendsHaveAgreed == \A p \in friends : \E q \in agreed : {q[1], q[2]} = {p[1], p[2]}
SocialInv == TablesOK /\ TasksOK /\ AgreedAreAnswered /\ FriendsHaveAgreed

LEMMA Pairs ==
    ASSUME NEW p \in Pair
    PROVE  p = <<p[1], p[2]>> /\ p[1] \in User /\ p[2] \in User /\ p[1] # p[2]
BY DEF Pair

LEMMA Normalized ==
    ASSUME NEW p \in Pair
    PROVE  LET n == normalize_pair(p[1], p[2])
           IN  n \in Pair /\ n[1] < n[2] /\ {n[1], n[2]} = {p[1], p[2]}
<1>1. p[1] \in User /\ p[2] \in User /\ p[1] # p[2] /\ p[1] \in Nat /\ p[2] \in Nat
  BY Pairs, SocialAssumption
<1>2. CASE p[1] < p[2]
  BY <1>1, <1>2 DEF normalize_pair, Pair
<1>3. CASE ~(p[1] < p[2])
  BY <1>1, <1>3 DEF normalize_pair, Pair
<1>4. QED
  BY <1>2, <1>3

(* A handler that is not idle has a well-formed task. *)
LEMMA Busy ==
    ASSUME TasksOK, NEW h \in Handler, NEW op, NEW pc, At(h, op, pc), pc # "idle"
    PROVE  /\ task[h] \in Task /\ task[h].pair \in Pair /\ task[h].op = op
           /\ op \in Answer => task[h].by = task[h].pair[2] /\ request[task[h].pair] # "none"
<1>1. task[h] # Idle
  BY DEF At, Idle
<1>2. QED
  BY <1>1 DEF TasksOK, TaskOK, Task, At

(* Reads: the tables stay and one handler moves on or ends.                *)
LEMMA TaskStep ==
    ASSUME SocialInv, NEW h \in Handler, NEW t, task' = [task EXCEPT ![h] = t],
           TaskOK(t, request'),
           request' \in [Pair -> Status],
           \A p \in Pair : request[p] # "none" => request'[p] # "none"
    PROVE  TasksOK'
<1>1. task' = [k \in Handler |-> task'[k]]
  BY DEF SocialInv, TasksOK
<1>2. ASSUME NEW k \in Handler PROVE TaskOK(task'[k], request')
  <2>1. CASE k = h
    BY <2>1 DEF SocialInv, TasksOK
  <2>2. CASE k # h
    <3>1. task'[k] = task[k] /\ TaskOK(task[k], request)
      BY <2>2 DEF SocialInv, TasksOK
    <3>2. task[k] # Idle => task[k].pair \in Pair
      BY <3>1 DEF TaskOK, Task
    <3>3. QED
      BY <3>1, <3>2 DEF TaskOK
  <2>3. QED
    BY <2>1, <2>2
<1>3. QED
  BY <1>1, <1>2 DEF TasksOK

LEMMA BeginStep ==
    ASSUME SocialInv, NEW h \in Handler, NEW op \in {"send", "block", "invite"} \cup Answer,
           NEW by \in User, NEW p \in Pair,
           NEW pc \in {"friends?", "insert", "commit", "remove", "blocked?", "room"},
           Begin(h, op, by, p, pc), UNCHANGED request,
           op \in Answer => by = p[2] /\ request[p] # "none"
    PROVE  TasksOK'
<1> DEFINE t == [op |-> op, by |-> by, pair |-> p, pc |-> pc]
<1>1. TaskOK(t, request')
  BY DEF TaskOK, Task
<1>2. task' = [task EXCEPT ![h] = t]
  BY DEF Begin
<1> HIDE DEF t
<1>3. QED
  BY <1>1, <1>2, TaskStep DEF SocialInv, TablesOK

LEMMA GotoStep ==
    ASSUME SocialInv, NEW h \in Handler, task[h] \in Task,
           TaskOK(task[h], request),
           NEW pc \in {"friends?", "insert", "commit", "remove", "blocked?", "room"},
           Goto(h, pc), UNCHANGED request
    PROVE  TasksOK'
<1> DEFINE t == [op |-> task[h].op, by |-> task[h].by, pair |-> task[h].pair, pc |-> pc]
<1>1. [task[h] EXCEPT !.pc = pc] = t
  BY DEF Task
<1>2. task' = [task EXCEPT ![h] = [task[h] EXCEPT !.pc = pc]]
  BY DEF Goto, SocialInv, TasksOK
<1>3. TaskOK(t, request')
  BY DEF TaskOK, Task, Idle
<1> HIDE DEF t
<1>4. QED
  BY <1>1, <1>2, <1>3, TaskStep DEF SocialInv, TablesOK

LEMMA FinishStep ==
    ASSUME SocialInv, NEW h \in Handler, Finish(h), request' \in [Pair -> Status],
           \A p \in Pair : request[p] # "none" => request'[p] # "none"
    PROVE  TasksOK'
<1>1. TaskOK(Idle, request')
  BY DEF TaskOK
<1>2. QED
  BY <1>1, TaskStep DEF Finish

(* The steps of a handler that is under way. *)
LEMMA HandlerStep ==
    ASSUME SocialInv, NEW h \in Handler,
           \/ SendCheckFriends(h) \/ SendInsert(h) \/ RespondCommit(h)
           \/ BlockRemove(h) \/ InviteCheckBlock(h) \/ InvitePublish(h)
    PROVE  SocialInv' /\ \A p \in Pair : request[p] \in Answer => request'[p] \in Answer
<1>0. TablesOK /\ TasksOK /\ AgreedAreAnswered /\ FriendsHaveAgreed /\ TaskOK(task[h], request)
  BY DEF SocialInv, TasksOK
<1>a. ASSUME UNCHANGED request
      PROVE  request' \in [Pair -> Status]
             /\ \A p \in Pair : request[p] # "none" => request'[p] # "none"
  BY <1>0, <1>a DEF TablesOK
<1>1. CASE SendCheckFriends(h)
  <2>1. task[h] \in Task /\ UNCHANGED tables
    BY <1>0, <1>1, Busy DEF SendCheckFriends
  <2>2. TasksOK'
    BY <1>0, <1>1, <1>a, <2>1, FinishStep, GotoStep DEF SendCheckFriends, tables
  <2>3. QED
    BY <1>0, <2>1, <2>2 DEF SocialInv, tables, TablesOK, AgreedAreAnswered, FriendsHaveAgreed
<1>2. CASE SendInsert(h)
  <2> DEFINE p == task[h].pair
  <2>1. p \in Pair
    BY <1>0, <1>2, Busy DEF SendInsert
  <2>a. request' = request \/ (request[p] = "none" /\ request' = [request EXCEPT ![p] = "pending"])
    BY <1>2 DEF SendInsert
  <2>b. request \in [Pair -> Status]
    BY <1>0 DEF TablesOK
  <2> HIDE DEF p
  <2>2. \A q \in Pair : request'[q] = request[q] \/ (q = p /\ request[q] = "none" /\ request'[q] = "pending")
    BY <2>a, <2>b, <2>1
  <2>3. request' \in [Pair -> Status] /\ noticed' \in SUBSET Pair
    BY <1>0, <1>2, <2>1, <2>a, <2>b DEF SendInsert, TablesOK, Status, p
  <2>4. TablesOK'
    BY <1>0, <1>2, <2>3 DEF SendInsert, TablesOK
  <2>5. TasksOK'
    BY <1>0, <1>2, <2>2, <2>3, FinishStep DEF SendInsert
  <2>6. AgreedAreAnswered' /\ FriendsHaveAgreed'
    BY <1>0, <1>2, <2>2 DEF SendInsert, AgreedAreAnswered, FriendsHaveAgreed, TablesOK, Answer
  <2>7. QED
    BY <2>2, <2>4, <2>5, <2>6 DEF SocialInv, Answer
<1>3. CASE RespondCommit(h)
  <2> DEFINE p == task[h].pair
  <2>1. PICK answer \in Answer : At(h, answer, "commit")
    BY <1>3 DEF RespondCommit
  <2>2. p \in Pair /\ task[h].op = answer /\ task[h].by = p[2] /\ p = <<p[1], p[2]>>
    BY <1>0, <2>1, Busy, Pairs
  <2>3. request' = [request EXCEPT ![p] = answer]
    BY <1>3, <2>2 DEF RespondCommit
  <2>a. request \in [Pair -> Status]
    BY <1>0 DEF TablesOK
  <2> HIDE DEF p
  <2>b. \A q \in Pair : request'[q] = request[q] \/ (q = p /\ request'[q] = answer)
    BY <2>2, <2>3, <2>a
  <2>4. request' \in [Pair -> Status] /\ \A q \in Pair : request'[q] = request[q] \/ (q = p /\ request'[q] = answer)
    BY <2>2, <2>3, <2>a, <2>b DEF Status
  <2>5. TasksOK'
    BY <1>0, <1>3, <2>4, FinishStep DEF RespondCommit, Answer
  <2> DEFINE n == normalize_pair(p[1], p[2])
  <2>6. n \in Pair /\ n[1] < n[2] /\ {n[1], n[2]} = {p[1], p[2]}
    BY <2>2, Normalized
  <2>7. \/ friends' = friends \cup {n} /\ agreed' = agreed \cup {p}
        \/ UNCHANGED <<friends, agreed>>
    BY <1>3, <2>2 DEF RespondCommit, p
  <2> HIDE DEF n
  <2>8. TablesOK'
    BY <1>0, <1>3, <2>2, <2>4, <2>6, <2>7 DEF TablesOK, RespondCommit
  <2>9. AgreedAreAnswered'
    BY <1>0, <2>2, <2>3, <2>4, <2>7 DEF AgreedAreAnswered, TablesOK
  <2>10. FriendsHaveAgreed'
    BY <1>0, <2>6, <2>7 DEF FriendsHaveAgreed
  <2>11. QED
    BY <2>4, <2>5, <2>8, <2>9, <2>10 DEF SocialInv
<1>4. CASE BlockRemove(h)
  <2>1. friends' \subseteq friends /\ UNCHANGED <<request, blocks, noticed, invited, agreed>> /\ Finish(h)
    BY <1>4 DEF BlockRemove
  <2>2. TasksOK'
    BY <1>0, <1>a, <2>1, FinishStep
  <2>3. QED
    BY <1>0, <2>1, <2>2 DEF SocialInv, TablesOK, AgreedAreAnswered, FriendsHaveAgreed
<1>5. CASE InviteCheckBlock(h)
  <2>1. task[h] \in Task /\ UNCHANGED tables
    BY <1>0, <1>5, Busy DEF InviteCheckBlock
  <2>2. TasksOK'
    BY <1>0, <1>5, <1>a, <2>1, FinishStep, GotoStep DEF InviteCheckBlock, tables
  <2>3. QED
    BY <1>0, <2>1, <2>2 DEF SocialInv, tables, TablesOK, AgreedAreAnswered, FriendsHaveAgreed
<1>6. CASE InvitePublish(h)
  <2>1. task[h].pair \in Pair
    BY <1>0, <1>6, Busy DEF InvitePublish
  <2>2. TasksOK'
    BY <1>0, <1>6, <1>a, FinishStep DEF InvitePublish
  <2>3. QED
    BY <1>0, <1>6, <2>1, <2>2 DEF SocialInv, TablesOK, AgreedAreAnswered, FriendsHaveAgreed, InvitePublish
<1>7. QED
  BY <1>1, <1>2, <1>3, <1>4, <1>5, <1>6

(* The first steps of the routes, and the removal of a friend. *)
LEMMA RoutesStep ==
    ASSUME SocialInv, NEW p \in Pair,
           \/ \E h \in Handler :
                \/ SendBegin(h, p[1], p[2]) \/ block(h, p[1], p[2]) \/ InviteBegin(h, p[1], p[2])
                \/ \E by \in User :
                     respond_accept(h, p[1], p[2], by) \/ respond_reject(h, p[1], p[2], by)
           \/ friend_remove(p[1], p[2])
    PROVE  SocialInv' /\ UNCHANGED request
<1>0. /\ TablesOK /\ TasksOK /\ AgreedAreAnswered /\ FriendsHaveAgreed
      /\ p = <<p[1], p[2]>> /\ p[1] \in User /\ p[2] \in User
  BY Pairs DEF SocialInv
<1>1. ASSUME NEW h \in Handler, SendBegin(h, p[1], p[2]) \/ InviteBegin(h, p[1], p[2])
      PROVE  SocialInv' /\ UNCHANGED request
  <2>1. /\ UNCHANGED tables
        /\ Begin(h, "send", p[1], p, "friends?") \/ Begin(h, "invite", p[1], p, "blocked?")
    BY <1>0, <1>1 DEF SendBegin, InviteBegin
  <2>2. UNCHANGED request
    BY <2>1 DEF tables
  <2>3. TasksOK'
    BY <1>0, <2>1, <2>2, BeginStep DEF Answer
  <2>4. QED
    BY <1>0, <2>1, <2>3 DEF SocialInv, tables, TablesOK, AgreedAreAnswered, FriendsHaveAgreed
<1>2. ASSUME NEW h \in Handler, block(h, p[1], p[2])
      PROVE  SocialInv' /\ UNCHANGED request
  <2>1. /\ UNCHANGED <<request, friends, noticed, invited, agreed>>
        /\ blocks' = blocks \cup {p} /\ Begin(h, "block", p[1], p, "remove")
    BY <1>0, <1>2 DEF block, BlockInsert
  <2>2. TasksOK'
    BY <1>0, <2>1, BeginStep DEF Answer
  <2>3. QED
    BY <1>0, <2>1, <2>2 DEF SocialInv, TablesOK, AgreedAreAnswered, FriendsHaveAgreed
<1>3. ASSUME NEW h \in Handler, NEW by \in User,
             respond_accept(h, p[1], p[2], by) \/ respond_reject(h, p[1], p[2], by)
      PROVE  SocialInv' /\ UNCHANGED request
  <2>1. PICK answer \in Answer : RespondBegin(h, p[1], p[2], by, answer)
    BY <1>3 DEF respond_accept, respond_reject, Answer
  <2>2. /\ UNCHANGED tables /\ Begin(h, answer, by, p, "commit")
        /\ by = p[2] /\ request[p] # "none"
    BY <1>0, <2>1 DEF RespondBegin
  <2>3. UNCHANGED request
    BY <2>2 DEF tables
  <2>4. TasksOK'
    BY <1>0, <2>2, <2>3, BeginStep
  <2>5. QED
    BY <1>0, <2>2, <2>4 DEF SocialInv, tables, TablesOK, AgreedAreAnswered, FriendsHaveAgreed
<1>4. CASE friend_remove(p[1], p[2])
  <2>1. friends' \subseteq friends /\ UNCHANGED <<request, blocks, noticed, invited, task, agreed>>
    BY <1>4 DEF friend_remove, RemoveFriend
  <2>2. QED
    BY <1>0, <2>1 DEF SocialInv, TablesOK, TasksOK, AgreedAreAnswered, FriendsHaveAgreed
<1>5. QED
  BY <1>1, <1>2, <1>3, <1>4

LEMMA SocialStep ==
    SocialInv /\ [SocialNext]_socialVars =>
        SocialInv' /\ \A p \in Pair : request[p] \in Answer => request'[p] \in Answer
<1> SUFFICES ASSUME SocialInv, [SocialNext]_socialVars
             PROVE  SocialInv' /\ \A p \in Pair : request[p] \in Answer => request'[p] \in Answer
  OBVIOUS
<1>1. CASE UNCHANGED socialVars
  BY <1>1 DEF socialVars, SocialInv, TablesOK, TasksOK, AgreedAreAnswered, FriendsHaveAgreed
<1>2. CASE SocialNext
  BY <1>2, HandlerStep, RoutesStep DEF SocialNext
<1>3. QED
  BY <1>1, <1>2

LEMMA FriendsSound == SocialInv => SocialTypeOK /\ FriendsAgreed
<1> SUFFICES ASSUME SocialInv PROVE SocialTypeOK /\ FriendsAgreed
  OBVIOUS
<1>0. TablesOK /\ TasksOK /\ AgreedAreAnswered /\ FriendsHaveAgreed
  BY DEF SocialInv
<1>1. \A h \in Handler : task[h] = Idle \/ task[h].pair \in Pair
  BY <1>0 DEF TasksOK, TaskOK, Task
<1>2. SocialTypeOK
  BY <1>0, <1>1 DEF SocialTypeOK, TablesOK, Status
<1>3. ASSUME NEW u \in User, NEW v \in User, v \in list_friends(u)
      PROVE  /\ u \in list_friends(v)
             /\ \E p \in agreed \cap list_requests_for_user(u) \cap list_requests_for_user(v) :
                   {u, v} = {p[1], p[2]} /\ request[p] \in Answer
  <2>1. PICK q \in friends : (q[1] = u /\ q[2] = v) \/ (q[2] = u /\ q[1] = v)
    BY <1>3 DEF list_friends
  <2>2. u \in list_friends(v)
    BY <2>1 DEF list_friends
  <2>3. PICK p \in agreed : {p[1], p[2]} = {q[1], q[2]}
    BY <1>0, <2>1 DEF FriendsHaveAgreed
  <2>4. p \in Pair /\ request[p] \in Answer /\ {u, v} = {p[1], p[2]}
    BY <1>0, <2>1, <2>3 DEF AgreedAreAnswered, TablesOK
  <2>5. p \in list_requests_for_user(u) \cap list_requests_for_user(v)
    BY <2>4 DEF list_requests_for_user, Answer
  <2>6. QED
    BY <2>2, <2>3, <2>4, <2>5
<1>4. QED
  BY <1>2, <1>3 DEF FriendsAgreed

LEMMA SocialStart == SocialInit => SocialInv
BY DEF SocialInit, SocialInv, TablesOK, TasksOK, TaskOK, AgreedAreAnswered, FriendsHaveAgreed, Status

(* Two users are friends only if one asked and the other accepted, and an  *)
(* answered request is never open again, for any users and any number of   *)
(* overlapping sends, answers, blocks and removals (social/mod.rs:83-168). *)
THEOREM FriendshipStaysMutual == SocialSpec => FriendshipIsMutual
<1>1. SocialInv /\ [SocialNext]_socialVars => SocialInv'
  BY SocialStep
<1>2. SocialInv /\ [SocialNext]_socialVars
        => [\A p \in Pair : request[p] \in Answer => request'[p] \in Answer]_socialVars
  BY SocialStep
<1>3. QED
  BY <1>1, <1>2, SocialStart, FriendsSound, PTL
     DEF SocialSpec, FriendshipIsMutual, AnsweredStaysAnswered

(***************************************************************************)
(* Coupons.  The row lock is what makes the checks of a redemption last    *)
(* until its commit: whoever is past the SELECT holds the lock of its code *)
(* and has read what the row still says, the date aside.                   *)
(***************************************************************************)
Uses(c, R) == {p \in R : p[1] = c}
Attempt == [pc : {"locked", "checked", "executed"}, code : Coupon, user : Account, row : Row]
SameRow(r, s) ==
    r.action = s.action /\ r.max = s.max /\ r.used = s.used /\ r.revoked = s.revoked /\ r.holder = s.holder
AttemptOK(t, h, lk, cp, R) ==
    t # Idle =>
        /\ t \in Attempt
        /\ lk[t.code] = h /\ cp[t.code] \in Row /\ SameRow(t.row, cp[t.code])
        /\ t.pc \in {"checked", "executed"} =>
              /\ ~t.row.revoked /\ t.row.used < t.row.max
              /\ t.row.holder # None => t.row.holder = t.user
              /\ <<t.code, t.user>> \notin R
CodeOK(c, row_, R, w, at) ==
    /\ row_ = None => Uses(c, R) = {} /\ w = 0
    /\ row_ # None =>
          /\ row_.used = Cardinality(Uses(c, R)) /\ w = Cardinality(Uses(c, R))
          /\ Cardinality(Uses(c, R)) <= row_.max
          /\ row_.revoked => Cardinality(Uses(c, R)) = at
          /\ row_.holder # None => \A p \in R : p[1] = c => p[2] = row_.holder
CouponRows ==
    /\ coupon \in [Coupon -> Row \cup {None}]
    /\ redeemed \in SUBSET (Coupon \X Account) /\ IsFiniteSet(redeemed)
    /\ lock \in [Coupon -> Handler \cup {None}]
    /\ rewards \in [Coupon -> Nat] /\ revokedAt = [c \in Coupon |-> revokedAt[c]]
AttemptsOK ==
    /\ redeem = [h \in Handler |-> redeem[h]]
    /\ \A h \in Handler : AttemptOK(redeem[h], h, lock, coupon, redeemed)
CodesOK == \A c \in Coupon : CodeOK(c, coupon[c], redeemed, rewards[c], revokedAt[c])
CouponInv == CouponRows /\ AttemptsOK /\ CodesOK

LEMMA UsesCount ==
    ASSUME NEW R, IsFiniteSet(R), NEW c
    PROVE  IsFiniteSet(Uses(c, R)) /\ Cardinality(Uses(c, R)) \in Nat
<1>1. Uses(c, R) \subseteq R
  BY DEF Uses
<1>2. QED
  BY <1>1, FS_Subset, FS_CardinalityType

(* One more redemption of c. *)
LEMMA UsesAdd ==
    ASSUME NEW R, IsFiniteSet(R), NEW c, NEW u, <<c, u>> \notin R
    PROVE  /\ Cardinality(Uses(c, R \cup {<<c, u>>})) = Cardinality(Uses(c, R)) + 1
           /\ \A d : d # c => Uses(d, R \cup {<<c, u>>}) = Uses(d, R)
<1>1. Uses(c, R \cup {<<c, u>>}) = Uses(c, R) \cup {<<c, u>>}
  BY DEF Uses
<1>2. <<c, u>> \notin Uses(c, R) /\ IsFiniteSet(Uses(c, R))
  BY UsesCount DEF Uses
<1>3. \A d : d # c => Uses(d, R \cup {<<c, u>>}) = Uses(d, R)
  BY DEF Uses
<1>4. QED
  BY <1>1, <1>2, <1>3, FS_AddElement

(* What an attempt of another handler, on another code, keeps.             *)
LEMMA OtherAttempts ==
    ASSUME NEW t, NEW h, NEW lk, NEW cp, NEW R, NEW lk2, NEW cp2, NEW R2,
           AttemptOK(t, h, lk, cp, R),
           t # Idle => /\ lk2[t.code] = lk[t.code] /\ cp2[t.code] = cp[t.code]
                       /\ <<t.code, t.user>> \in R2 => <<t.code, t.user>> \in R
    PROVE  AttemptOK(t, h, lk2, cp2, R2)
BY DEF AttemptOK

(* Whoever is at work on a code holds its lock. *)
LEMMA LockExcludes ==
    ASSUME AttemptsOK, NEW h \in Handler, redeem[h] # Idle
    PROVE  /\ redeem[h] \in Attempt /\ redeem[h].code \in Coupon /\ lock[redeem[h].code] = h
           /\ coupon[redeem[h].code] \in Row
           /\ \A k \in Handler : k # h /\ redeem[k] # Idle => redeem[k].code # redeem[h].code
<1>1. AttemptOK(redeem[h], h, lock, coupon, redeemed)
  BY DEF AttemptsOK
<1>2. redeem[h] \in Attempt /\ lock[redeem[h].code] = h /\ coupon[redeem[h].code] \in Row
  BY <1>1 DEF AttemptOK
<1>3. ASSUME NEW k \in Handler, redeem[k] # Idle PROVE redeem[k].code \in Coupon /\ lock[redeem[k].code] = k
  <2>1. AttemptOK(redeem[k], k, lock, coupon, redeemed)
    BY DEF AttemptsOK
  <2>2. QED
    BY <1>3, <2>1 DEF AttemptOK, Attempt
<1>4. QED
  BY <1>2, <1>3 DEF Attempt

(* A code nobody holds has no attempt. *)
LEMMA FreeCode ==
    ASSUME AttemptsOK, NEW c \in Coupon, lock[c] = None \/ coupon[c] = None
    PROVE  \A h \in Handler : redeem[h] # Idle => redeem[h].code # c /\ redeem[h].code \in Coupon
<1>1. ASSUME NEW h \in Handler, redeem[h] # Idle
      PROVE  redeem[h].code # c /\ redeem[h].code \in Coupon
  <2>1. lock[redeem[h].code] = h /\ coupon[redeem[h].code] \in Row /\ redeem[h].code \in Coupon
    BY <1>1, LockExcludes
  <2>2. h # None /\ None \notin Row
    BY CouponsAssumption
  <2>3. QED
    BY <2>1, <2>2
<1>2. QED
  BY <1>1

LEMMA RowRevoked ==
    ASSUME NEW r \in Row, NEW b \in BOOLEAN
    PROVE  /\ [r EXCEPT !.revoked = b] \in Row
           /\ [r EXCEPT !.revoked = b].revoked = b
           /\ [r EXCEPT !.revoked = b].max = r.max
           /\ [r EXCEPT !.revoked = b].used = r.used
           /\ [r EXCEPT !.revoked = b].holder = r.holder
BY DEF Row

LEMMA RowExpired ==
    ASSUME NEW r \in Row, NEW b \in BOOLEAN
    PROVE  [r EXCEPT !.expired = b] \in Row /\ SameRow(r, [r EXCEPT !.expired = b])
BY DEF Row, SameRow

LEMMA RowUsed ==
    ASSUME NEW r \in Row, NEW n \in Nat
    PROVE  /\ [r EXCEPT !.used = n] \in Row
           /\ [r EXCEPT !.used = n].used = n
           /\ [r EXCEPT !.used = n].max = r.max
           /\ [r EXCEPT !.used = n].revoked = r.revoked
           /\ [r EXCEPT !.used = n].holder = r.holder
BY DEF Row

LEMMA CreateStep ==
    ASSUME CouponInv, NEW c \in Coupon, NEW a \in Action, NEW m \in 1..MaxUses,
           NEW mode \in {"creator", "manual"}, NEW u \in Account \cup {None}, create(c, a, m, mode, u)
    PROVE  CouponInv'
<1> DEFINE r == [action |-> a, max |-> m, used |-> 0, revoked |-> FALSE, expired |-> FALSE,
                 mode |-> mode, holder |-> u]
<1>0. CouponRows /\ AttemptsOK /\ CodesOK /\ coupon[c] = None
  BY DEF CouponInv, create
<1>a. r \in Row
  BY CouponsAssumption DEF Row
<1>1. r \in Row /\ r # None
  BY <1>a, CouponsAssumption
<1>2. coupon' = [coupon EXCEPT ![c] = r] /\ UNCHANGED <<redeemed, lock, redeem, rewards, revokedAt>>
  BY DEF create
<1>3. r.used = 0 /\ r.max = m /\ ~r.revoked
  OBVIOUS
<1> HIDE DEF r
<1>4. coupon' \in [Coupon -> Row \cup {None}] /\ \A d \in Coupon : coupon'[d] = IF d = c THEN r ELSE coupon[d]
  BY <1>0, <1>1, <1>2 DEF CouponRows
<1>5. CouponRows'
  BY <1>0, <1>2, <1>4 DEF CouponRows
<1>6. AttemptsOK'
  <2>1. ASSUME NEW h \in Handler PROVE AttemptOK(redeem[h], h, lock, coupon', redeemed)
    <3>1. AttemptOK(redeem[h], h, lock, coupon, redeemed)
      BY <1>0 DEF AttemptsOK
    <3>2. redeem[h] # Idle => coupon'[redeem[h].code] = coupon[redeem[h].code]
      BY <1>0, <1>4, FreeCode
    <3>3. QED
      BY <3>1, <3>2, OtherAttempts
  <2>2. QED
    BY <1>0, <1>2, <2>1 DEF AttemptsOK
<1>7. CodesOK'
  <2>1. Uses(c, redeemed) = {} /\ rewards[c] = 0
    BY <1>0 DEF CodesOK, CodeOK
  <2>2. Cardinality(Uses(c, redeemed)) = 0 /\ 0 <= m
    BY <2>1, FS_EmptySet, CouponsAssumption
  <2>3. \A p \in redeemed : p[1] # c
    BY <2>1 DEF Uses
  <2>4. CodeOK(c, r, redeemed, rewards[c], revokedAt[c])
    BY <1>1, <1>3, <2>1, <2>2, <2>3 DEF CodeOK
  <2>5. QED
    BY <1>0, <1>2, <1>4, <2>4 DEF CodesOK
<1>8. QED
  BY <1>5, <1>6, <1>7 DEF CouponInv

LEMMA RevokeStep ==
    ASSUME CouponInv, NEW c \in Coupon, revoke(c)
    PROVE  CouponInv'
<1> DEFINE r == [coupon[c] EXCEPT !.revoked = TRUE]
<1>0. CouponRows /\ AttemptsOK /\ CodesOK /\ coupon[c] # None /\ lock[c] = None
  BY DEF CouponInv, revoke
<1>1. coupon[c] \in Row
  BY <1>0 DEF CouponRows
<1>2. /\ r \in Row /\ r # None /\ r.max = coupon[c].max /\ r.used = coupon[c].used
      /\ r.holder = coupon[c].holder
  BY <1>1, RowRevoked, CouponsAssumption
<1>3. /\ coupon' = [coupon EXCEPT ![c] = r] /\ UNCHANGED <<redeemed, lock, redeem, rewards>>
      /\ revokedAt' = [revokedAt EXCEPT ![c] = coupon[c].used]
  BY <1>0 DEF revoke, CouponRows
<1> HIDE DEF r
<1>4. /\ coupon' \in [Coupon -> Row \cup {None}]
      /\ \A d \in Coupon : coupon'[d] = IF d = c THEN r ELSE coupon[d]
  BY <1>0, <1>2, <1>3 DEF CouponRows
<1>5. /\ revokedAt' = [d \in Coupon |-> revokedAt'[d]]
      /\ \A d \in Coupon : revokedAt'[d] = IF d = c THEN coupon[c].used ELSE revokedAt[d]
  BY <1>0, <1>3 DEF CouponRows
<1>6. CouponRows'
  BY <1>0, <1>3, <1>4, <1>5 DEF CouponRows
<1>7. AttemptsOK'
  <2>1. ASSUME NEW h \in Handler PROVE AttemptOK(redeem[h], h, lock, coupon', redeemed)
    <3>1. AttemptOK(redeem[h], h, lock, coupon, redeemed)
      BY <1>0 DEF AttemptsOK
    <3>2. redeem[h] # Idle => coupon'[redeem[h].code] = coupon[redeem[h].code]
      BY <1>0, <1>4, FreeCode
    <3>3. QED
      BY <3>1, <3>2, OtherAttempts
  <2>2. QED
    BY <1>0, <1>3, <2>1 DEF AttemptsOK
<1>8. CodesOK'
  <2>1. CodeOK(c, coupon[c], redeemed, rewards[c], revokedAt[c])
    BY <1>0 DEF CodesOK
  <2>2. CodeOK(c, r, redeemed, rewards[c], coupon[c].used)
    BY <1>0, <1>2, <2>1 DEF CodeOK
  <2>3. QED
    BY <1>0, <1>3, <1>4, <1>5, <2>2 DEF CodesOK
<1>9. QED
  BY <1>6, <1>7, <1>8 DEF CouponInv

LEMMA LapsesStep ==
    ASSUME CouponInv, NEW c \in Coupon, Lapses(c)
    PROVE  CouponInv'
<1> DEFINE r == [coupon[c] EXCEPT !.expired = TRUE]
<1>0. CouponRows /\ AttemptsOK /\ CodesOK /\ coupon[c] # None
  BY DEF CouponInv, Lapses
<1>1. coupon[c] \in Row
  BY <1>0 DEF CouponRows
<1>2. r \in Row /\ r # None /\ SameRow(coupon[c], r)
  BY <1>1, RowExpired, CouponsAssumption
<1>3. coupon' = [coupon EXCEPT ![c] = r] /\ UNCHANGED <<redeemed, lock, redeem, rewards, revokedAt>>
  BY <1>0 DEF Lapses, CouponRows
<1> HIDE DEF r
<1>4. /\ coupon' \in [Coupon -> Row \cup {None}]
      /\ \A d \in Coupon : coupon'[d] = IF d = c THEN r ELSE coupon[d]
  BY <1>0, <1>2, <1>3 DEF CouponRows
<1>5. CouponRows'
  BY <1>0, <1>3, <1>4 DEF CouponRows
<1>6. AttemptsOK'
  <2>1. ASSUME NEW h \in Handler PROVE AttemptOK(redeem[h], h, lock, coupon', redeemed)
    <3>1. AttemptOK(redeem[h], h, lock, coupon, redeemed)
      BY <1>0 DEF AttemptsOK
    <3>2. redeem[h] # Idle => redeem[h].code \in Coupon
      BY <3>1 DEF AttemptOK, Attempt
    <3>3. QED
      BY <1>2, <1>4, <3>1, <3>2 DEF AttemptOK, SameRow
  <2>2. QED
    BY <1>0, <1>3, <2>1 DEF AttemptsOK
<1>7. CodesOK'
  <2>1. CodeOK(c, coupon[c], redeemed, rewards[c], revokedAt[c])
    BY <1>0 DEF CodesOK
  <2>2. CodeOK(c, r, redeemed, rewards[c], revokedAt[c])
    BY <1>0, <1>2, <2>1 DEF CodeOK, SameRow
  <2>3. QED
    BY <1>0, <1>3, <1>4, <2>2 DEF CodesOK
<1>8. QED
  BY <1>5, <1>6, <1>7 DEF CouponInv

(* SELECT ... FOR UPDATE. *)
LEMMA LockStep ==
    ASSUME CouponInv, NEW h \in Handler, NEW c \in Coupon, NEW u \in Account, RedeemLock(h, c, u)
    PROVE  CouponInv'
<1> DEFINE t == [pc |-> "locked", code |-> c, user |-> u, row |-> coupon[c]]
<1>0. CouponRows /\ AttemptsOK /\ CodesOK /\ coupon[c] # None /\ lock[c] = None
  BY DEF CouponInv, RedeemLock
<1>1. coupon[c] \in Row
  BY <1>0 DEF CouponRows
<1>2. /\ redeem' = [redeem EXCEPT ![h] = t] /\ lock' = [lock EXCEPT ![c] = h]
      /\ UNCHANGED <<coupon, redeemed, rewards, revokedAt>>
  BY DEF RedeemLock
<1>3. t \in Attempt /\ t.code = c /\ t.row = coupon[c] /\ t.pc = "locked"
  BY <1>1 DEF Attempt
<1> HIDE DEF t
<1>4. /\ lock' \in [Coupon -> Handler \cup {None}]
      /\ \A d \in Coupon : lock'[d] = IF d = c THEN h ELSE lock[d]
  BY <1>0, <1>2 DEF CouponRows
<1>5. CouponRows'
  BY <1>0, <1>2, <1>4 DEF CouponRows
<1>6. AttemptOK(t, h, lock', coupon, redeemed)
  BY <1>1, <1>3, <1>4 DEF AttemptOK, SameRow
<1>7. ASSUME NEW k \in Handler PROVE AttemptOK(redeem'[k], k, lock', coupon, redeemed)
  <2>1. CASE k = h
    BY <1>0, <1>2, <1>6, <2>1 DEF AttemptsOK
  <2>2. CASE k # h
    <3>1. redeem'[k] = redeem[k] /\ AttemptOK(redeem[k], k, lock, coupon, redeemed)
      BY <1>0, <1>2, <2>2 DEF AttemptsOK
    <3>2. redeem[k] # Idle => lock'[redeem[k].code] = lock[redeem[k].code]
      BY <1>0, <1>4, FreeCode
    <3>3. AttemptOK(redeem[k], k, lock', coupon, redeemed)
      BY <3>1, <3>2, OtherAttempts
    <3>4. QED
      BY <3>1, <3>3
  <2>3. QED
    BY <2>1, <2>2
<1>8. AttemptsOK'
  BY <1>0, <1>2, <1>7 DEF AttemptsOK
<1>9. CodesOK'
  BY <1>0, <1>2 DEF CodesOK
<1>10. QED
  BY <1>5, <1>8, <1>9 DEF CouponInv

(* The lock of the code is given back, whatever became of its row.         *)
LEMMA ReleaseStep ==
    ASSUME CouponInv, NEW h \in Handler, redeem[h] # Idle, Release(h),
           coupon' \in [Coupon -> Row \cup {None}],
           \A d \in Coupon : d # redeem[h].code => coupon'[d] = coupon[d],
           \A d \in Coupon : \A u : d # redeem[h].code /\ <<d, u>> \in redeemed' => <<d, u>> \in redeemed
    PROVE  lock' \in [Coupon -> Handler \cup {None}] /\ AttemptsOK'
<1> DEFINE c == redeem[h].code
<1>0. CouponRows /\ AttemptsOK
  BY DEF CouponInv
<1>1. c \in Coupon /\ lock[c] = h /\ \A k \in Handler : k # h /\ redeem[k] # Idle => redeem[k].code # c
  BY <1>0, LockExcludes
<1>2. lock' = [lock EXCEPT ![c] = None] /\ redeem' = [redeem EXCEPT ![h] = Idle]
  BY <1>0, <1>1 DEF Release, CouponRows
<1>3. \A d \in Coupon : d # c => coupon'[d] = coupon[d]
  OBVIOUS
<1>4. \A d \in Coupon : \A u : d # c /\ <<d, u>> \in redeemed' => <<d, u>> \in redeemed
  OBVIOUS
<1> HIDE DEF c
<1>5. lock' \in [Coupon -> Handler \cup {None}] /\ \A d \in Coupon : d # c => lock'[d] = lock[d]
  BY <1>0, <1>1, <1>2 DEF CouponRows
<1>6. ASSUME NEW k \in Handler PROVE AttemptOK(redeem'[k], k, lock', coupon', redeemed')
  <2>1. CASE k = h
    BY <1>0, <1>2, <2>1 DEF AttemptsOK, AttemptOK
  <2>2. CASE k # h
    <3>1. redeem'[k] = redeem[k] /\ AttemptOK(redeem[k], k, lock, coupon, redeemed)
      BY <1>0, <1>2, <2>2 DEF AttemptsOK
    <3>2. redeem[k] # Idle => redeem[k].code # c /\ redeem[k].code \in Coupon
      BY <1>0, <1>1, <2>2, LockExcludes
    <3>a. redeem[k] # Idle =>
            /\ lock'[redeem[k].code] = lock[redeem[k].code]
            /\ coupon'[redeem[k].code] = coupon[redeem[k].code]
            /\ <<redeem[k].code, redeem[k].user>> \in redeemed'
                 => <<redeem[k].code, redeem[k].user>> \in redeemed
      BY <1>3, <1>4, <1>5, <3>2
    <3>3. AttemptOK(redeem[k], k, lock', coupon', redeemed')
      BY <3>1, <3>a, OtherAttempts
    <3>4. QED
      BY <3>1, <3>3
  <2>3. QED
    BY <2>1, <2>2
<1>7. QED
  BY <1>0, <1>2, <1>5, <1>6 DEF AttemptsOK

LEMMA AbortStep ==
    ASSUME CouponInv, NEW h \in Handler, redeem[h] # Idle, Abort(h)
    PROVE  CouponInv'
<1>1. Release(h) /\ UNCHANGED <<coupon, redeemed, rewards, revokedAt>>
  BY DEF Abort
<1>2. CouponRows /\ CodesOK
  BY DEF CouponInv
<1>3. coupon' \in [Coupon -> Row \cup {None}] /\ coupon' = coupon /\ redeemed' = redeemed
  BY <1>1, <1>2 DEF CouponRows
<1>4. lock' \in [Coupon -> Handler \cup {None}] /\ AttemptsOK'
  BY <1>1, <1>3, ReleaseStep
<1>5. CouponRows' /\ CodesOK'
  BY <1>1, <1>2, <1>4 DEF CouponRows, CodesOK
<1>6. QED
  BY <1>4, <1>5 DEF CouponInv

(* A handler passes its checks, or its effect. *)
LEMMA MoveOnStep ==
    ASSUME CouponInv, NEW h \in Handler, redeem[h] # Idle, NEW pc \in {"checked", "executed"},
           redeem' = [redeem EXCEPT ![h].pc = pc],
           UNCHANGED <<coupon, redeemed, lock, rewards, revokedAt>>,
           ~redeem[h].row.revoked, redeem[h].row.used < redeem[h].row.max,
           redeem[h].row.holder # None => redeem[h].row.holder = redeem[h].user,
           <<redeem[h].code, redeem[h].user>> \notin redeemed
    PROVE  CouponInv'
<1> DEFINE o == redeem[h]
           t == [pc |-> pc, code |-> o.code, user |-> o.user, row |-> o.row]
<1>0. CouponRows /\ AttemptsOK /\ CodesOK
  BY DEF CouponInv
<1>1. AttemptOK(o, h, lock, coupon, redeemed)
  BY <1>0 DEF AttemptsOK
<1>2. o \in Attempt /\ [o EXCEPT !.pc = pc] = t
  BY <1>1 DEF AttemptOK, Attempt
<1>3. redeem' = [redeem EXCEPT ![h] = t]
  BY <1>0, <1>2 DEF AttemptsOK
<1>4. t.code = o.code /\ t.user = o.user /\ t.row = o.row /\ t \in Attempt
  BY <1>2 DEF Attempt
<1>5. AttemptOK(t, h, lock, coupon, redeemed)
  BY <1>1, <1>4 DEF AttemptOK
<1> HIDE DEF t
<1>6. AttemptsOK'
  BY <1>0, <1>3, <1>5 DEF AttemptsOK
<1>7. CouponRows' /\ CodesOK'
  BY <1>0 DEF CouponRows, CodesOK
<1>8. QED
  BY <1>6, <1>7 DEF CouponInv

(* The redemption, the count and the effect are committed together.        *)
LEMMA CommitStep ==
    ASSUME CouponInv, NEW h \in Handler, RedeemCommit(h)
    PROVE  CouponInv'
<1> DEFINE t == redeem[h]
           c == t.code
           r == [coupon[c] EXCEPT !.used = coupon[c].used + 1]
<1>0. CouponRows /\ AttemptsOK /\ CodesOK /\ t.pc = "executed" /\ t # Idle
  BY DEF CouponInv, RedeemCommit, Idle
<1>1. AttemptOK(t, h, lock, coupon, redeemed) /\ t \in Attempt
  BY <1>0 DEF AttemptsOK, AttemptOK
<1>2. c \in Coupon /\ coupon[c] \in Row /\ t.user \in Account
  BY <1>0, <1>1 DEF AttemptOK, Attempt
<1>3. /\ coupon[c].used < coupon[c].max /\ ~coupon[c].revoked
      /\ coupon[c].holder # None => coupon[c].holder = t.user
      /\ <<c, t.user>> \notin redeemed
  BY <1>0, <1>1 DEF AttemptOK, SameRow
<1>4. /\ coupon' = [coupon EXCEPT ![c] = r] /\ redeemed' = redeemed \cup {<<c, t.user>>}
      /\ rewards' = [rewards EXCEPT ![c] = rewards[c] + 1] /\ Release(h) /\ UNCHANGED revokedAt
  BY <1>0, <1>2, <1>3 DEF RedeemCommit, CouponRows
<1>6. coupon[c].used \in Nat /\ coupon[c].used + 1 \in Nat /\ coupon[c].max \in Nat
  BY <1>2, CouponsAssumption DEF Row
<1>5. /\ r \in Row /\ r # None /\ r.used = coupon[c].used + 1 /\ r.max = coupon[c].max
      /\ r.holder = coupon[c].holder /\ r.revoked = coupon[c].revoked
  BY <1>2, <1>6, RowUsed, CouponsAssumption
<1> HIDE DEF r
<1>7. /\ coupon' \in [Coupon -> Row \cup {None}]
      /\ \A d \in Coupon : coupon'[d] = IF d = c THEN r ELSE coupon[d]
  BY <1>0, <1>2, <1>4, <1>5 DEF CouponRows
<1>8. /\ rewards' \in [Coupon -> Nat]
      /\ \A d \in Coupon : rewards'[d] = IF d = c THEN rewards[c] + 1 ELSE rewards[d]
  BY <1>0, <1>2, <1>4 DEF CouponRows
<1>a. IsFiniteSet(redeemed) /\ redeemed \in SUBSET (Coupon \X Account) /\ <<c, t.user>> \in Coupon \X Account
  BY <1>0, <1>2 DEF CouponRows
<1>b. IsFiniteSet(redeemed \cup {<<c, t.user>>})
  BY <1>a, FS_AddElement
<1>9. redeemed' \in SUBSET (Coupon \X Account) /\ IsFiniteSet(redeemed')
  BY <1>4, <1>a, <1>b
<1>10. \A d \in Coupon : \A u : d # c /\ <<d, u>> \in redeemed' => <<d, u>> \in redeemed
  BY <1>4
<1>11. lock' \in [Coupon -> Handler \cup {None}] /\ AttemptsOK'
  BY <1>0, <1>4, <1>7, <1>10, ReleaseStep
<1>12. CouponRows'
  BY <1>0, <1>4, <1>7, <1>8, <1>9, <1>11 DEF CouponRows
<1>13. CodesOK'
  <2>1. /\ Cardinality(Uses(c, redeemed')) = Cardinality(Uses(c, redeemed)) + 1
        /\ \A d : d # c => Uses(d, redeemed') = Uses(d, redeemed)
    BY <1>0, <1>3, <1>4, UsesAdd DEF CouponRows
  <2>2. CodeOK(c, coupon[c], redeemed, rewards[c], revokedAt[c])
    BY <1>0, <1>2 DEF CodesOK
  <2>3. coupon[c] # None /\ \A p \in redeemed' : p \in redeemed \/ p = <<c, t.user>>
    BY <1>2, <1>4, CouponsAssumption
  <2>4. CodeOK(c, r, redeemed', rewards[c] + 1, revokedAt[c])
    BY <1>3, <1>5, <1>6, <2>1, <2>2, <2>3 DEF CodeOK
  <2>5. ASSUME NEW d \in Coupon, d # c
        PROVE  CodeOK(d, coupon[d], redeemed', rewards[d], revokedAt[d])
    <3>1. CodeOK(d, coupon[d], redeemed, rewards[d], revokedAt[d]) /\ Uses(d, redeemed') = Uses(d, redeemed)
      BY <1>0, <2>1, <2>5 DEF CodesOK
    <3>2. \A p \in redeemed' : p[1] = d => p \in redeemed
      BY <2>3, <2>5
    <3>3. QED
      BY <3>1, <3>2 DEF CodeOK
  <2>6. QED
    BY <1>4, <1>7, <1>8, <2>4, <2>5 DEF CodesOK
<1>14. QED
  BY <1>11, <1>12, <1>13 DEF CouponInv

LEMMA CouponStep == CouponInv /\ [CouponNext]_couponVars => CouponInv'
<1> SUFFICES ASSUME CouponInv, [CouponNext]_couponVars PROVE CouponInv'
  OBVIOUS
<1>0. AttemptsOK
  BY DEF CouponInv
<1>1. ASSUME NEW h \in Handler, RedeemCheck(h) PROVE CouponInv'
  <2>1. redeem[h] # Idle
    BY <1>1 DEF RedeemCheck, Idle
  <2>2. CASE Abort(h)
    BY <2>1, <2>2, AbortStep
  <2>3. CASE /\ ~Refused(h) /\ <<redeem[h].code, redeem[h].user>> \notin redeemed
             /\ redeem' = [redeem EXCEPT ![h].pc = "checked"]
             /\ UNCHANGED <<coupon, redeemed, lock, rewards, revokedAt>>
    <3>1. redeem[h].row \in Row
      BY <1>0, <2>1, LockExcludes DEF Attempt
    <3>2. redeem[h].row.used \in Nat /\ redeem[h].row.max \in Nat
      BY <3>1, CouponsAssumption DEF Row
    <3>3. /\ ~redeem[h].row.revoked /\ redeem[h].row.used < redeem[h].row.max
          /\ redeem[h].row.holder # None => redeem[h].row.holder = redeem[h].user
      BY <2>3, <3>2 DEF Refused
    <3>4. QED
      BY <2>1, <2>3, <3>3, MoveOnStep
  <2>4. QED
    BY <1>1, <2>2, <2>3 DEF RedeemCheck
<1>2. ASSUME NEW h \in Handler, execute_action(h) PROVE CouponInv'
  <2>1. redeem[h] # Idle /\ redeem[h].pc = "checked"
    BY <1>2 DEF execute_action, Idle
  <2>2. CASE Abort(h)
    BY <2>1, <2>2, AbortStep
  <2>3. CASE /\ redeem' = [redeem EXCEPT ![h].pc = "executed"]
             /\ UNCHANGED <<coupon, redeemed, lock, rewards, revokedAt>>
    <3>1. AttemptOK(redeem[h], h, lock, coupon, redeemed)
      BY <1>0 DEF AttemptsOK
    <3>2. /\ ~redeem[h].row.revoked /\ redeem[h].row.used < redeem[h].row.max
          /\ redeem[h].row.holder # None => redeem[h].row.holder = redeem[h].user
          /\ <<redeem[h].code, redeem[h].user>> \notin redeemed
      BY <2>1, <3>1 DEF AttemptOK
    <3>3. QED
      BY <2>1, <2>3, <3>2, MoveOnStep
  <2>4. QED
    BY <1>2, <2>2, <2>3 DEF execute_action
<1>3. ASSUME NEW h \in Handler, Rollback(h) PROVE CouponInv'
  <2>1. redeem[h] # Idle /\ Abort(h)
    BY <1>3 DEF Rollback, Idle
  <2>2. QED
    BY <2>1, AbortStep
<1>4. CASE UNCHANGED couponVars
  BY <1>4 DEF couponVars, CouponInv, CouponRows, AttemptsOK, CodesOK
<1>5. CASE CouponNext
  BY <1>1, <1>2, <1>3, <1>5, CreateStep, RevokeStep, LapsesStep, LockStep, CommitStep DEF CouponNext
<1>6. QED
  BY <1>4, <1>5

LEMMA CouponStart == CouponInit => CouponInv
<1> SUFFICES ASSUME CouponInit PROVE CouponInv
  OBVIOUS
<1>1. CouponRows
  BY FS_EmptySet DEF CouponInit, CouponRows
<1>2. AttemptsOK
  BY DEF CouponInit, AttemptsOK, AttemptOK
<1>3. CodesOK
  BY DEF CouponInit, CodesOK, CodeOK, Uses
<1>4. QED
  BY <1>1, <1>2, <1>3 DEF CouponInv

(* Whatever redemptions, revocations and lapses overlap and however many   *)
(* codes there are, a code is never worth more than it says                *)
(* (admin/coupons.rs:59-79: the row lock outlives the checks).             *)
THEOREM CouponsStayHonoured == CouponSpec => []CouponsAreHonoured
<1>1. CouponInv => CouponsAreHonoured
  <2> SUFFICES ASSUME CouponInv PROVE CouponsAreHonoured
    OBVIOUS
  <2>0. CouponRows /\ AttemptsOK /\ CodesOK
    BY DEF CouponInv
  <2>1. \A h \in Handler : redeem[h].pc \in {"idle", "locked", "checked", "executed"}
    <3>1. ASSUME NEW h \in Handler, redeem[h] # Idle PROVE redeem[h].pc \in {"locked", "checked", "executed"}
      BY <2>0, <3>1, LockExcludes DEF Attempt
    <3>2. QED
      BY <3>1 DEF Idle
  <2>2. CouponTypeOK
    BY <2>0, <2>1 DEF CouponRows, CouponTypeOK
  <2>3. QED
    BY <2>0, <2>2 DEF CodesOK, CodeOK, Uses, CouponsAreHonoured
<1>2. QED
  BY <1>1, CouponStart, CouponStep, PTL DEF CouponSpec

(***************************************************************************)
(* Preferences.  `given' counts documents per revision, so two documents   *)
(* of one revision that are both in sight have made it two; a save that    *)
(* was not overtaken still sees the row it compared its base with.         *)
(***************************************************************************)
Doc == [revision : 0..MaxSaves, data : 0..MaxSaves]
Saver == [pc : {"idle", "called", "read"}, shown : Doc, base : 0..MaxSaves \cup {None},
          revision : 0..MaxSaves]
DocOK(d, n) == d \in Doc /\ d.revision <= n /\ d.data <= n /\ (d.revision = 0 => d = NoRow)
(* A saver against the row d after n saves; over: was it overtaken?        *)
SaverOK(t, d, over, n) ==
    /\ t \in Saver /\ DocOK(t.shown, n) /\ t.revision <= n
    /\ t.pc # "idle" /\ t.base # None => t.base = t.shown.revision
    /\ t.pc = "read" /\ ~over => t.revision = d.revision /\ (t.base # None => t.base = d.revision)
(* A document s that is shown, the row d and the counts g. *)
SeenOK(s, d, g) ==
    /\ s.revision > 0 => g[s.revision] >= 1
    /\ s.revision = d.revision /\ s # d => s.revision > 0 /\ g[s.revision] > 1
SaversOK ==
    /\ client = [c \in Client |-> client[c]]
    /\ \A c \in Client : /\ SaverOK(client[c], pref, c \in overtaken, saves)
                         /\ SeenOK(client[c].shown, pref, given)
RowOK ==
    /\ saves \in 0..MaxSaves /\ DocOK(pref, saves)
    /\ given \in [1..MaxSaves -> 0..saves] /\ disturbed \in BOOLEAN
    /\ overtaken \in SUBSET Client /\ overwrote \in SUBSET Client
    /\ pref.revision > 0 => given[pref.revision] >= 1
OverwroteOK == \A c \in overwrote \ overtaken : client[c].base \in 1..MaxSaves /\ given[client[c].base] > 1
RevisionsOK ==
    ~disturbed => /\ \A r \in 1..MaxSaves : given[r] <= 1
                  /\ \A r \in 1..MaxSaves : r > pref.revision => given[r] = 0
PrefInv == SaversOK /\ RowOK /\ OverwroteOK /\ RevisionsOK

LEMMA SaverEdits ==
    ASSUME NEW o \in Saver, NEW x, NEW y
    PROVE  /\ [[o EXCEPT !.pc = x] EXCEPT !.base = y]
                = [pc |-> x, shown |-> o.shown, base |-> y, revision |-> o.revision]
           /\ [[o EXCEPT !.pc = x] EXCEPT !.revision = y]
                = [pc |-> x, shown |-> o.shown, base |-> o.base, revision |-> y]
<1> DEFINE q == [pc |-> x, shown |-> o.shown, base |-> o.base, revision |-> o.revision]
<1>1. [o EXCEPT !.pc = x] = q
  BY DEF Saver
<1>2. [q EXCEPT !.base = y] = [pc |-> x, shown |-> o.shown, base |-> y, revision |-> o.revision]
  OBVIOUS
<1>3. [q EXCEPT !.revision = y] = [pc |-> x, shown |-> o.shown, base |-> o.base, revision |-> y]
  OBVIOUS
<1> HIDE DEF q
<1>4. QED
  BY <1>1, <1>2, <1>3

LEMMA SaverFields ==
    ASSUME NEW t \in Saver
    PROVE  /\ t.pc \in {"idle", "called", "read"} /\ t.shown \in Doc /\ t.revision \in Nat
           /\ t.shown.revision \in Nat /\ t.shown.data \in Nat
           /\ t = [pc |-> t.pc, shown |-> t.shown, base |-> t.base, revision |-> t.revision]
BY PreferencesAssumption DEF Saver, Doc

(* One client moves and the row stays. *)
LEMMA ClientStep ==
    ASSUME PrefInv, NEW c \in Client, NEW t, client' = [client EXCEPT ![c] = t],
           UNCHANGED <<pref, saves, given, disturbed>>,
           overtaken' \in SUBSET overtaken, overwrote' \in SUBSET overwrote,
           \A d \in Client : d # c => (d \in overtaken' <=> d \in overtaken),
           SaverOK(t, pref, c \in overtaken', saves), SeenOK(t.shown, pref, given),
           c \in overwrote' => (c \in overwrote \ overtaken /\ t.base = client[c].base) \/ c \in overtaken'
    PROVE  PrefInv'
<1>0. SaversOK /\ RowOK /\ OverwroteOK /\ RevisionsOK
  BY DEF PrefInv
<1>1. client' = [d \in Client |-> client'[d]] /\ client'[c] = t
      /\ \A d \in Client : d # c => client'[d] = client[d]
  BY <1>0 DEF SaversOK
<1>2. ASSUME NEW d \in Client, d # c
      PROVE  SaverOK(client'[d], pref', d \in overtaken', saves') /\ SeenOK(client'[d].shown, pref', given')
  <2>1. /\ SaverOK(client[d], pref, d \in overtaken, saves) /\ SeenOK(client[d].shown, pref, given)
        /\ client'[d] = client[d] /\ (d \in overtaken' <=> d \in overtaken)
    BY <1>0, <1>1, <1>2 DEF SaversOK
  <2>2. QED
    BY <2>1 DEF SaverOK
<1>3. SaversOK'
  BY <1>1, <1>2 DEF SaversOK
<1>4. RowOK'
  BY <1>0 DEF RowOK
<1>5. OverwroteOK'
  BY <1>0, <1>1 DEF OverwroteOK, RowOK
<1>6. RevisionsOK'
  BY <1>0 DEF RevisionsOK
<1>7. QED
  BY <1>3, <1>4, <1>5, <1>6 DEF PrefInv

LEMMA GetStep ==
    ASSUME PrefInv, NEW c \in Client, client[c].pc = "idle", get(c)
    PROVE  PrefInv'
<1> DEFINE o == client[c]
           t == [pc |-> o.pc, shown |-> pref, base |-> o.base, revision |-> o.revision]
<1>0. SaversOK /\ RowOK /\ OverwroteOK
  BY DEF PrefInv
<1>1. SaverOK(o, pref, c \in overtaken, saves) /\ DocOK(pref, saves) /\ o \in Saver
  BY <1>0 DEF SaversOK, RowOK, SaverOK
<1>2. [o EXCEPT !.shown = pref] = t
  BY <1>1 DEF Saver
<1>3. client' = [client EXCEPT ![c] = t] /\ UNCHANGED <<pref, saves, overtaken, overwrote, given, disturbed>>
  BY <1>0, <1>2 DEF get, SaversOK
<1>4. SaverOK(t, pref, c \in overtaken, saves)
  BY <1>1 DEF SaverOK, Saver, DocOK
<1>5. SeenOK(pref, pref, given)
  BY <1>0 DEF SeenOK, RowOK
<1>6. t.shown = pref /\ t.base = o.base
  OBVIOUS
<1> HIDE DEF t
<1>7. QED
  BY <1>3, <1>4, <1>5, <1>6, ClientStep

LEMMA UpdateStep ==
    ASSUME PrefInv, NEW c \in Client, NEW root, NEW named, NEW based, update(c, root, named, based)
    PROVE  PrefInv'
<1> DEFINE o == client[c]
           b == IF based THEN o.shown.revision ELSE None
           t == [pc |-> "called", shown |-> o.shown, base |-> b, revision |-> o.revision]
<1>0. SaversOK /\ RowOK
  BY DEF PrefInv
<1>1. SaverOK(o, pref, c \in overtaken, saves) /\ SeenOK(o.shown, pref, given) /\ o \in Saver
  BY <1>0 DEF SaversOK, SaverOK
<1>2. client' = [client EXCEPT ![c] = [[o EXCEPT !.pc = "called"] EXCEPT !.base = b]]
  BY <1>0 DEF update, SaversOK
<1>3. [[o EXCEPT !.pc = "called"] EXCEPT !.base = b] = t
  BY <1>1, SaverEdits
<1>4. /\ UNCHANGED <<pref, saves, given, disturbed>>
      /\ overtaken' = overtaken \ {c} /\ overwrote' = overwrote \ {c}
  BY DEF update
<1>5. b \in 0..MaxSaves \cup {None} /\ (b # None => b = o.shown.revision)
  BY <1>1 DEF SaverOK, DocOK, Doc
<1> HIDE DEF b
<1>6. SaverOK(t, pref, c \in overtaken', saves)
  BY <1>1, <1>5 DEF SaverOK, Saver
<1>7. t.shown = o.shown
  OBVIOUS
<1> HIDE DEF t
<1>8. client' = [client EXCEPT ![c] = t]
  BY <1>2, <1>3
<1>9. QED
  BY <1>1, <1>4, <1>6, <1>7, <1>8, ClientStep

LEMMA ReadStep ==
    ASSUME PrefInv, NEW c \in Client, UpsertRead(c)
    PROVE  PrefInv'
<1> DEFINE o == client[c]
           t == [pc |-> "idle", shown |-> o.shown, base |-> o.base, revision |-> o.revision]
           s == [pc |-> "read", shown |-> o.shown, base |-> o.base, revision |-> pref.revision]
<1>0. SaversOK /\ RowOK /\ OverwroteOK
  BY DEF PrefInv
<1>1. /\ SaverOK(o, pref, c \in overtaken, saves) /\ SeenOK(o.shown, pref, given) /\ o \in Saver
      /\ o.pc = "called" /\ DocOK(pref, saves)
  BY <1>0 DEF SaversOK, SaverOK, UpsertRead, RowOK
<1>2. UNCHANGED <<pref, saves, overtaken, overwrote, given, disturbed>>
  BY DEF UpsertRead
<1>3. c \in overwrote' => (c \in overwrote \ overtaken /\ o.base = client[c].base) \/ c \in overtaken'
  BY <1>2
<1>4. CASE o.base # None /\ o.base # pref.revision
  <2>1. [o EXCEPT !.pc = "idle"] = t
    BY <1>1 DEF Saver
  <2>2. client' = [client EXCEPT ![c] = t]
    BY <1>0, <1>4, <2>1 DEF UpsertRead, SaversOK
  <2>3. SaverOK(t, pref, c \in overtaken, saves) /\ t.shown = o.shown /\ t.base = o.base
    BY <1>1 DEF SaverOK, Saver
  <2> HIDE DEF t
  <2>4. QED
    BY <1>1, <1>2, <1>3, <2>2, <2>3, ClientStep
<1>5. CASE ~(o.base # None /\ o.base # pref.revision)
  <2>1. [[o EXCEPT !.pc = "read"] EXCEPT !.revision = pref.revision] = s
    BY <1>1, SaverEdits
  <2>2. client' = [client EXCEPT ![c] = [[o EXCEPT !.pc = "read"] EXCEPT !.revision = pref.revision]]
    BY <1>0, <1>5 DEF UpsertRead, SaversOK
  <2>3. pref.revision \in 0..MaxSaves /\ pref.revision <= saves
    BY <1>1 DEF DocOK, Doc
  <2>4. SaverOK(s, pref, c \in overtaken, saves) /\ s.shown = o.shown /\ s.base = o.base
    BY <1>1, <1>5, <2>3 DEF SaverOK, Saver
  <2> HIDE DEF s
  <2>5. client' = [client EXCEPT ![c] = s]
    BY <2>1, <2>2
  <2>6. QED
    BY <1>1, <1>2, <1>3, <2>4, <2>5, ClientStep
<1>6. QED
  BY <1>4, <1>5

(* Somebody who is not overtaken by a change of the row is not at work.    *)
LEMMA OvertakesAll ==
    ASSUME PrefInv, NEW c \in Client, Overtakes(c)
    PROVE  /\ overtaken' \in SUBSET Client /\ overtaken \subseteq overtaken'
           /\ \A d \in Client : d # c /\ client[d].pc = "read" => d \in overtaken'
           /\ c \in overtaken' <=> c \in overtaken
BY DEF PrefInv, RowOK, Overtakes

LEMMA DeleteStep ==
    ASSUME PrefInv, NEW c \in Client, client[c].pc = "idle", delete(c)
    PROVE  PrefInv'
<1>0. SaversOK /\ RowOK /\ OverwroteOK
  BY DEF PrefInv
<1>1. pref' = NoRow /\ disturbed' = TRUE /\ Overtakes(c) /\ UNCHANGED <<saves, client, overwrote, given>>
  BY DEF delete
<1>2. /\ overtaken' \in SUBSET Client /\ overtaken \subseteq overtaken'
      /\ \A d \in Client : d # c /\ client[d].pc = "read" => d \in overtaken'
  BY <1>1, OvertakesAll
<1>3. DocOK(NoRow, saves) /\ NoRow.revision = 0
  BY <1>0, PreferencesAssumption DEF DocOK, Doc, NoRow, RowOK
<1>4. RowOK'
  BY <1>0, <1>1, <1>2, <1>3 DEF RowOK
<1>5. ASSUME NEW d \in Client
      PROVE  SaverOK(client[d], NoRow, d \in overtaken', saves) /\ SeenOK(client[d].shown, NoRow, given)
  <2>1. SaverOK(client[d], pref, d \in overtaken, saves) /\ SeenOK(client[d].shown, pref, given)
    BY <1>0 DEF SaversOK
  <2>2. client[d].pc = "read" => d \in overtaken'
    BY <1>2
  <2>3. client[d].shown.revision = 0 => client[d].shown = NoRow
    BY <2>1 DEF SaverOK, DocOK
  <2>4. QED
    BY <1>3, <2>1, <2>2, <2>3 DEF SaverOK, SeenOK
<1>6. SaversOK'
  BY <1>0, <1>1, <1>5 DEF SaversOK
<1>7. OverwroteOK' /\ RevisionsOK'
  BY <1>0, <1>1, <1>2 DEF OverwroteOK, RevisionsOK
<1>8. QED
  BY <1>4, <1>6, <1>7 DEF PrefInv

LEMMA WriteStep ==
    ASSUME PrefInv, NEW c \in Client, UpsertWrite(c)
    PROVE  PrefInv'
<1> DEFINE o == client[c]
           n == [revision |-> o.revision + 1, data |-> saves + 1]
           t == [pc |-> "idle", shown |-> n, base |-> o.base, revision |-> o.revision]
<1>0. SaversOK /\ RowOK /\ OverwroteOK /\ RevisionsOK
  BY DEF PrefInv
<1>1. /\ SaverOK(o, pref, c \in overtaken, saves) /\ SeenOK(o.shown, pref, given) /\ o \in Saver
      /\ o.pc = "read" /\ saves < MaxSaves /\ saves' = saves + 1 /\ Overtakes(c)
      /\ disturbed' = (disturbed \/ overtaken' # {})
      /\ overwrote' = IF o.base # None /\ pref # o.shown THEN overwrote \cup {c} ELSE overwrote
      /\ pref' = n
  BY <1>0 DEF SaversOK, SaverOK, UpsertWrite
<1>2. /\ overtaken' \in SUBSET Client /\ overtaken \subseteq overtaken'
      /\ \A d \in Client : d # c /\ client[d].pc = "read" => d \in overtaken'
      /\ c \in overtaken' <=> c \in overtaken
  BY <1>1, OvertakesAll
<1>3. saves \in Nat /\ MaxSaves \in Nat /\ o.revision \in 0..saves /\ saves' \in 0..MaxSaves
  BY <1>0, <1>1, PreferencesAssumption DEF RowOK, SaverOK, Saver
<1> DEFINE r == o.revision + 1
<1>4. r \in 1..MaxSaves /\ r <= saves' /\ n.revision = r /\ n.data = saves + 1
  BY <1>1, <1>3
<1>5. n \in Doc /\ DocOK(n, saves')
  BY <1>1, <1>3, <1>4 DEF DocOK, Doc
<1> HIDE DEF n
<1>6. client' = [client EXCEPT ![c] = [[o EXCEPT !.pc = "idle"] EXCEPT !.shown = n]]
  BY <1>0, <1>1 DEF UpsertWrite, SaversOK
<1>b. o \in Saver
  BY <1>1
<1>7. [[o EXCEPT !.pc = "idle"] EXCEPT !.shown = n] = t
  <2> DEFINE q == [pc |-> "idle", shown |-> o.shown, base |-> o.base, revision |-> o.revision]
  <2>1. [o EXCEPT !.pc = "idle"] = q
    BY <1>b DEF Saver
  <2>2. [q EXCEPT !.shown = n] = t
    OBVIOUS
  <2> HIDE DEF q
  <2>3. QED
    BY <2>1, <2>2
<1>8. given' = [given EXCEPT ![r] = given[r] + 1]
  BY <1>0, <1>1, <1>4 DEF UpsertWrite, RowOK
<1>a. t \in Saver /\ t.shown = n /\ t.pc = "idle" /\ t.base = o.base /\ t.revision = o.revision
  BY <1>1, <1>5 DEF Saver
<1>9. given \in [1..MaxSaves -> 0..saves]
  BY <1>0 DEF RowOK
<1> HIDE DEF t, r
<1>10. /\ given' \in [1..MaxSaves -> 0..saves'] /\ given'[r] = given[r] + 1
       /\ \A q \in 1..MaxSaves : q # r => given'[q] = given[q]
       /\ \A q \in 1..MaxSaves : given[q] \in Nat /\ given'[q] \in Nat /\ given'[q] >= given[q]
  BY <1>1, <1>3, <1>4, <1>8, <1>9
<1>11. /\ client' = [d \in Client |-> client'[d]] /\ client'[c] = t
       /\ \A d \in Client : d # c => client'[d] = client[d]
  BY <1>0, <1>6, <1>7 DEF SaversOK
<1>12. RowOK'
  <2>1. overwrote' \in SUBSET Client /\ disturbed' \in BOOLEAN
    BY <1>0, <1>1 DEF RowOK
  <2>2. pref'.revision > 0 => given'[pref'.revision] >= 1
    BY <1>1, <1>4, <1>10
  <2>3. QED
    BY <1>1, <1>2, <1>3, <1>5, <1>10, <2>1, <2>2 DEF RowOK
<1>13. ASSUME NEW d \in Client, d # c
       PROVE  SaverOK(client[d], n, d \in overtaken', saves') /\ SeenOK(client[d].shown, n, given')
  <2> DEFINE k == client[d]
  <2>1. SaverOK(k, pref, d \in overtaken, saves) /\ SeenOK(k.shown, pref, given)
    BY <1>0 DEF SaversOK
  <2>2. k.pc = "read" => d \in overtaken'
    BY <1>2, <1>13
  <2>3. /\ k \in Saver /\ k.shown \in Doc /\ k.revision \in 0..saves /\ k.shown.revision \in 0..saves
        /\ k.shown.data \in 0..saves /\ k.shown.revision \in 0..MaxSaves
    BY <1>3, <2>1, SaverFields DEF SaverOK, DocOK, Doc, Saver
  <2>4. DocOK(k.shown, saves')
    BY <1>1, <1>3, <2>1, <2>3 DEF SaverOK, DocOK
  <2>5. SaverOK(k, n, d \in overtaken', saves')
    BY <1>1, <1>3, <2>1, <2>2, <2>3, <2>4 DEF SaverOK
  <2>6. SeenOK(k.shown, n, given')
    <3>1. k.shown.revision > 0 => k.shown.revision \in 1..MaxSaves /\ given[k.shown.revision] >= 1
      BY <2>1, <2>3, PreferencesAssumption DEF SeenOK
    <3>2. k.shown.revision > 0 => given'[k.shown.revision] >= 1
      BY <1>10, <3>1
    <3>3. k.shown.revision = n.revision => k.shown.revision > 0 /\ given'[k.shown.revision] > 1
      BY <1>4, <1>10, <3>1
    <3>4. QED
      BY <3>2, <3>3 DEF SeenOK
  <2>7. QED
    BY <2>5, <2>6
<1>14. SaverOK(t, n, c \in overtaken', saves')
  BY <1>a, <1>1, <1>3, <1>5 DEF SaverOK
<1>15. SeenOK(n, n, given')
  BY <1>4, <1>10 DEF SeenOK
<1>16. SaversOK'
  <2>1. ASSUME NEW d \in Client
        PROVE  SaverOK(client'[d], n, d \in overtaken', saves') /\ SeenOK(client'[d].shown, n, given')
    BY <1>a, <1>11, <1>13, <1>14, <1>15
  <2>2. QED
    BY <1>1, <1>11, <2>1 DEF SaversOK
<1>17. OverwroteOK'
  <2>1. ASSUME NEW d \in overwrote' \ overtaken'
        PROVE  client'[d].base \in 1..MaxSaves /\ given'[client'[d].base] > 1
    <3>1. d \notin overtaken /\ d \in Client
      BY <1>2, <1>12, <2>1 DEF RowOK
    <3>2. CASE d \in overwrote
      <4>1. client[d].base \in 1..MaxSaves /\ given[client[d].base] > 1
        BY <1>0, <3>1, <3>2 DEF OverwroteOK
      <4>2. client'[d].base = client[d].base
        BY <1>a, <1>11, <3>1
      <4>3. QED
        BY <1>10, <4>1, <4>2
    <3>3. CASE d \notin overwrote
      <4>1. d = c /\ o.base # None /\ pref # o.shown
        BY <1>1, <2>1, <3>3
      <4>2. o.base = o.shown.revision /\ o.base = pref.revision
        BY <1>1, <3>1, <4>1 DEF SaverOK
      <4>3. o.shown.revision > 0 /\ given[o.shown.revision] > 1
        BY <1>1, <4>1, <4>2 DEF SeenOK
      <4>4. o.shown.revision \in 0..MaxSaves
        BY <1>1 DEF SaverOK, DocOK, Doc
      <4>5. o.base \in 1..MaxSaves
        BY <4>2, <4>3, <4>4, PreferencesAssumption
      <4>6. QED
        BY <1>a, <1>10, <1>11, <4>1, <4>2, <4>3, <4>5
    <3>4. QED
      BY <3>2, <3>3
  <2>2. QED
    BY <2>1 DEF OverwroteOK
<1>18. RevisionsOK'
  <2>1. SUFFICES ASSUME ~disturbed'
                 PROVE  /\ \A q \in 1..MaxSaves : given'[q] <= 1
                        /\ \A q \in 1..MaxSaves : q > n.revision => given'[q] = 0
    BY <1>1 DEF RevisionsOK
  <2>2. ~disturbed /\ c \notin overtaken
    BY <1>0, <1>1, <1>2, <2>1 DEF RowOK
  <2>3. o.revision = pref.revision /\ pref.revision \in Nat
    BY <1>0, <1>1, <2>2 DEF SaverOK, RowOK, DocOK, Doc
  <2>4. r > pref.revision
    BY <2>3 DEF r
  <2>5. /\ \A q \in 1..MaxSaves : given[q] <= 1
        /\ \A q \in 1..MaxSaves : q > pref.revision => given[q] = 0
    BY <1>0, <2>2 DEF RevisionsOK
  <2>6. \A q \in 1..MaxSaves : q > r => q > pref.revision /\ q # r
    BY <1>4, <2>3, <2>4
  <2>7. QED
    BY <1>4, <1>10, <2>4, <2>5, <2>6
<1>19. QED
  BY <1>12, <1>16, <1>17, <1>18 DEF PrefInv

LEMMA PrefStep == PrefInv /\ [PrefNext]_prefVars => PrefInv'
<1> SUFFICES ASSUME PrefInv, [PrefNext]_prefVars PROVE PrefInv'
  OBVIOUS
<1>1. CASE UNCHANGED prefVars
  BY <1>1 DEF prefVars, PrefInv, SaversOK, RowOK, OverwroteOK, RevisionsOK
<1>2. CASE PrefNext
  BY <1>2, GetStep, UpdateStep, ReadStep, DeleteStep, WriteStep DEF PrefNext, get_one, delete_one
<1>3. QED
  BY <1>1, <1>2

LEMMA PrefStart == PrefInit => PrefInv
<1> SUFFICES ASSUME PrefInit PROVE PrefInv
  OBVIOUS
<1> DEFINE t == [pc |-> "idle", shown |-> NoRow, base |-> None, revision |-> 0]
<1>1. DocOK(NoRow, 0) /\ NoRow.revision = 0 /\ NoRow \in Doc
  BY PreferencesAssumption DEF DocOK, Doc, NoRow
<1>2. SaverOK(t, NoRow, FALSE, 0)
  BY <1>1, PreferencesAssumption DEF SaverOK, Saver
<1>3. \A g : SeenOK(NoRow, NoRow, g)
  BY <1>1 DEF SeenOK
<1>4. t.shown = NoRow
  OBVIOUS
<1>5. client = [c \in Client |-> t] /\ pref = NoRow /\ saves = 0 /\ overtaken = {}
  BY DEF PrefInit
<1> HIDE DEF t
<1>6. SaversOK
  <2>1. ASSUME NEW c \in Client
        PROVE  SaverOK(client[c], pref, c \in overtaken, saves) /\ SeenOK(client[c].shown, pref, given)
    <3>1. client[c] = t /\ ~(c \in overtaken)
      BY <1>5
    <3>2. SaverOK(t, NoRow, c \in overtaken, 0)
      BY <1>2, <3>1 DEF SaverOK
    <3>3. QED
      BY <1>3, <1>4, <1>5, <3>1, <3>2
  <2>2. QED
    BY <1>5, <2>1 DEF SaversOK
<1>7. given = [r \in 1..MaxSaves |-> 0] /\ disturbed = FALSE /\ overwrote = {}
  BY DEF PrefInit
<1>a. given \in [1..MaxSaves -> 0..0] /\ 0 \in 0..MaxSaves
  BY <1>7, PreferencesAssumption
<1>b. RowOK
  <2>1. ~(pref.revision > 0) /\ DocOK(pref, saves) /\ saves \in 0..MaxSaves
    BY <1>1, <1>5, <1>a
  <2>2. given \in [1..MaxSaves -> 0..saves]
    BY <1>5, <1>a
  <2>3. QED
    BY <1>5, <1>7, <2>1, <2>2 DEF RowOK
<1>c. OverwroteOK /\ RevisionsOK
  BY <1>7 DEF OverwroteOK, RevisionsOK
<1>8. QED
  BY <1>6, <1>b, <1>c DEF PrefInv

(* For any number of clients and saves, a save with a base replaces what   *)
(* its client had not shown only if the row changed between its two        *)
(* statements or its revision is that of two documents, and revisions      *)
(* repeat only after such a change or a delete (preferences/mod.rs:46-76). *)
THEOREM SavesStaySeen == PrefSpec => []SavesSeeWhatTheyReplace
<1>1. PrefInv => SavesSeeWhatTheyReplace
  <2> SUFFICES ASSUME PrefInv PROVE SavesSeeWhatTheyReplace
    OBVIOUS
  <2>0. SaversOK /\ RowOK /\ OverwroteOK /\ RevisionsOK
    BY DEF PrefInv
  <2>1. \A c \in Client : client[c].pc \in {"idle", "called", "read"}
    <3>1. ASSUME NEW c \in Client PROVE client[c].pc \in {"idle", "called", "read"}
      <4>1. SaverOK(client[c], pref, c \in overtaken, saves)
        BY <2>0 DEF SaversOK
      <4>2. QED
        BY <4>1 DEF SaverOK, Saver
    <3>2. QED
      BY <3>1
  <2>2. given \in [1..MaxSaves -> 0..MaxSaves]
    <3>1. saves \in 0..MaxSaves /\ given \in [1..MaxSaves -> 0..saves]
      BY <2>0 DEF RowOK
    <3>2. \A x \in 0..saves : x \in 0..MaxSaves
      BY <3>1, PreferencesAssumption
    <3>3. QED
      BY <3>1, <3>2
  <2>3. PrefTypeOK
    BY <2>0, <2>1, <2>2 DEF PrefTypeOK, RowOK, DocOK, Doc
  <2>4. QED
    BY <2>0, <2>3 DEF OverwroteOK, RevisionsOK, SavesSeeWhatTheyReplace
<1>2. QED
  BY <1>1, PrefStart, PrefStep, PTL DEF PrefSpec

(***************************************************************************)
(* Views.  What a view has read so far was so in some world it has lived   *)
(* through, and the worlds only get more while it lasts.                   *)
(***************************************************************************)
ViewPc == {"idle", "friend", "blocked", "profile", "stats", "presence", "count", "load",
           "banlist", "ip", "groups", "done"}
ViewRec == [kind : ViewKind, pc : ViewPc, who : Viewer, friend : BOOLEAN, set : Settings,
            shown : BOOLEAN, status : {None, "online", "offline", "hidden"}, ban : BOOLEAN, reason : BOOLEAN]
ViewOK(v, D) ==
    /\ v \in ViewRec
    /\ v.pc \in {"friend", "blocked"} => v.who = "other"
    /\ v.pc \in {"friend", "blocked", "profile", "load"} => v.status = None /\ ~v.shown
    /\ v.friend => v.who = "other" /\ \E w \in D : w.friend
    /\ v.kind = "public" /\ v.shown =>
          can_view(v.set, v.who, v.friend) /\ \E w \in D : v.set = SettingsOf(w.profile)
    /\ v.kind = "public" /\ v.status \in {"online", "offline"} => v.set.online
    /\ v.status = "online" => \E w \in D : w.online
    /\ v.ban \/ v.reason => \E w \in D : w.banned
WorldOK ==
    /\ world \in World /\ (world.room => world.online)
    /\ changes \in 0..MaxChanges /\ during \in SUBSET World
    /\ view.pc # "idle" => world \in during
ViewInv == WorldOK /\ ViewOK(view, during)

LEMMA SettingsTyped == ASSUME NEW w \in World PROVE SettingsOf(w.profile) \in Settings
BY DEF World, SettingsOf, Settings, Visibility

LEMMA OpenedView ==
    ASSUME NEW kind \in ViewKind, NEW who \in Viewer, NEW pc \in ViewPc, NEW D,
           pc = "friend" => who = "other", pc # "blocked"
    PROVE  /\ ViewOK([NoView EXCEPT !.kind = kind, !.who = who, !.pc = pc], D)
           /\ [NoView EXCEPT !.kind = kind, !.who = who, !.pc = pc].pc = pc
<1> DEFINE v == [NoView EXCEPT !.kind = kind, !.who = who, !.pc = pc]
<1>1. SettingsOf(None) \in Settings
  BY DEF SettingsOf, Settings, Visibility
<1>2. NoView \in ViewRec /\ NoView.status = None
      /\ ~NoView.friend /\ ~NoView.shown /\ ~NoView.ban /\ ~NoView.reason
  BY <1>1 DEF NoView, ViewRec, ViewKind, ViewPc, Viewer
<1>3. /\ v \in ViewRec /\ v.pc = pc /\ v.who = who /\ v.status = NoView.status /\ v.friend = NoView.friend
      /\ v.shown = NoView.shown /\ v.ban = NoView.ban /\ v.reason = NoView.reason
  BY <1>2 DEF ViewRec
<1> HIDE DEF v
<1>4. ViewOK(v, D)
  BY <1>2, <1>3, ViewsAssumption DEF ViewOK
<1>5. QED
  BY <1>3, <1>4 DEF v

LEMMA OpenStep ==
    ASSUME ViewInv, NEW kind \in ViewKind, NEW who \in Viewer, NEW pc \in ViewPc,
           pc = "friend" => who = "other", pc # "blocked", Open(kind, who, pc)
    PROVE  ViewInv'
<1>1. /\ view' = [NoView EXCEPT !.kind = kind, !.who = who, !.pc = pc]
      /\ during' = {world} /\ UNCHANGED <<world, changes>>
  BY DEF Open
<1>2. ViewOK(view', during')
  BY <1>1, OpenedView
<1>3. WorldOK'
  BY <1>1 DEF ViewInv, WorldOK
<1>4. QED
  BY <1>2, <1>3 DEF ViewInv

LEMMA PrivacyUpdateStep ==
    ASSUME ViewInv, NEW set \in Settings, me_privacy_update(set)
    PROVE  ViewInv'
<1>1. /\ view' = [NoView EXCEPT !.kind = "privacy", !.who = "self", !.pc = "load"]
      /\ world' = [world EXCEPT !.profile = set] /\ during' = {world'} /\ changes' = changes + 1
      /\ changes < MaxChanges /\ changes \in 0..MaxChanges /\ world \in World /\ (world.room => world.online)
  BY DEF me_privacy_update, ViewInv, WorldOK
<1>2. ViewOK(view', during')
  BY <1>1, OpenedView DEF ViewKind, Viewer, ViewPc
<1>3. world' \in World /\ world'.room = world.room /\ world'.online = world.online
  BY <1>1 DEF World
<1>4. changes' \in 0..MaxChanges
  BY <1>1, ViewsAssumption
<1>5. WorldOK'
  BY <1>1, <1>3, <1>4 DEF WorldOK
<1>6. QED
  BY <1>2, <1>5 DEF ViewInv

(* A read: the world stays and the view goes on. *)
LEMMA ReadsStep ==
    ASSUME ViewInv, Reads, view.pc # "idle", ViewOK(view', during)
    PROVE  ViewInv'
BY DEF ViewInv, WorldOK, Reads

LEMMA FriendRead == ASSUME ViewInv, PublicFriend PROVE ViewInv'
<1>1. /\ view' = [view EXCEPT !.friend = world.friend, !.pc = "blocked"] /\ Reads
      /\ view.kind = "public" /\ view.pc = "friend"
      /\ ViewOK(view, during) /\ world \in during /\ world \in World
  BY DEF PublicFriend, Reading, ViewInv, WorldOK
<1>2. view \in ViewRec /\ world.friend \in BOOLEAN /\ "blocked" \in ViewPc
  BY <1>1 DEF ViewOK, World, ViewPc
<1>3. /\ view' \in ViewRec /\ view'.pc = "blocked" /\ view'.friend = world.friend
      /\ view'.kind = view.kind /\ view'.who = view.who /\ view'.set = view.set /\ view'.shown = view.shown
      /\ view'.status = view.status /\ view'.ban = view.ban /\ view'.reason = view.reason
  BY <1>1, <1>2 DEF ViewRec
<1>4. ViewOK(view', during)
  BY <1>1, <1>3 DEF ViewOK
<1>5. QED
  BY <1>1, <1>4, ReadsStep

(* Steps that only move on. *)
LEMMA MoveStep ==
    ASSUME ViewInv, NEW pc \in ViewPc, view' = [view EXCEPT !.pc = pc], Reads, view.pc # "idle",
           pc \in {"friend", "load"} => FALSE,
           pc \in {"blocked", "profile"} => view.pc = "blocked"
    PROVE  ViewInv'
<1>1. ViewOK(view, during) /\ view \in ViewRec
  BY DEF ViewInv, ViewOK
<1>2. /\ view' \in ViewRec /\ view'.pc = pc /\ view'.friend = view.friend
      /\ view'.kind = view.kind /\ view'.who = view.who /\ view'.set = view.set /\ view'.shown = view.shown
      /\ view'.status = view.status /\ view'.ban = view.ban /\ view'.reason = view.reason
  BY <1>1 DEF ViewRec
<1>3. ViewOK(view', during)
  BY <1>1, <1>2 DEF ViewOK
<1>4. QED
  BY <1>3, ReadsStep

(* The settings are read. *)
LEMMA SettingsRead ==
    ASSUME ViewInv, PublicProfile \/ MyProfile \/ load_my_privacy
    PROVE  ViewInv'
<1> DEFINE set == SettingsOf(world.profile)
<1>1. /\ ViewOK(view, during) /\ view \in ViewRec /\ world \in World /\ Reads
      /\ view.pc \in {"profile", "load"} /\ world \in during
  BY DEF PublicProfile, MyProfile, load_my_privacy, Reading, ViewInv, ViewOK, WorldOK
<1>2. set \in Settings
  BY <1>1, SettingsTyped
<1>3. CASE PublicProfile
  <2> DEFINE ok == can_view(set, view.who, view.friend)
             pc == IF ok THEN "stats" ELSE "done"
  <2>1. view' = [view EXCEPT !.set = set, !.shown = ok, !.pc = pc] /\ view.kind = "public"
    BY <1>3 DEF PublicProfile, Reading
  <2>2. ok \in BOOLEAN /\ pc \in ViewPc /\ pc \in {"stats", "done"}
    BY DEF can_view, ViewPc
  <2>3. \E w \in during : set = SettingsOf(w.profile)
    BY <1>1
  <2>a. ok => can_view(set, view.who, view.friend)
    OBVIOUS
  <2> HIDE DEF set, ok, pc
  <2>4. /\ view' \in ViewRec /\ view'.pc = pc /\ view'.friend = view.friend
        /\ view'.kind = view.kind /\ view'.who = view.who /\ view'.set = set /\ view'.shown = ok
        /\ view'.status = view.status /\ view'.ban = view.ban /\ view'.reason = view.reason
    BY <1>1, <1>2, <2>1, <2>2 DEF ViewRec
  <2>5. view.status = None
    BY <1>1 DEF ViewOK
  <2>6. ViewOK(view', during)
    BY <1>1, <2>2, <2>3, <2>a, <2>4, <2>5, ViewsAssumption DEF ViewOK
  <2>7. QED
    BY <1>1, <2>6, ReadsStep
<1>4. CASE MyProfile
  <2>1. view' = [view EXCEPT !.set = set, !.shown = TRUE, !.pc = "stats"] /\ view.kind = "me_profile"
    BY <1>4 DEF MyProfile, Reading
  <2> HIDE DEF set
  <2>2. /\ view' \in ViewRec /\ view'.pc = "stats" /\ view'.friend = view.friend
        /\ view'.kind = view.kind /\ view'.who = view.who
        /\ view'.status = view.status /\ view'.ban = view.ban /\ view'.reason = view.reason
    BY <1>1, <1>2, <2>1 DEF ViewRec, ViewPc
  <2>3. ViewOK(view', during)
    BY <1>1, <2>1, <2>2 DEF ViewOK
  <2>4. QED
    BY <1>1, <2>3, ReadsStep
<1>5. CASE load_my_privacy
  <2>1. view' = [view EXCEPT !.set = set, !.pc = "done"] /\ view.kind = "privacy"
    BY <1>5 DEF load_my_privacy, Reading
  <2> HIDE DEF set
  <2>2. /\ view' \in ViewRec /\ view'.pc = "done" /\ view'.friend = view.friend
        /\ view'.kind = view.kind /\ view'.who = view.who
        /\ view'.status = view.status /\ view'.ban = view.ban /\ view'.reason = view.reason
    BY <1>1, <1>2, <2>1 DEF ViewRec, ViewPc
  <2>3. ViewOK(view', during)
    BY <1>1, <2>1, <2>2 DEF ViewOK
  <2>4. QED
    BY <1>1, <2>3, ReadsStep
<1>6. QED
  BY <1>3, <1>4, <1>5

(* What PMP says of the player. *)
LEMMA PresenceRead ==
    ASSUME ViewInv, PublicPresence \/ MyPresence
    PROVE  ViewInv'
<1>1. /\ ViewOK(view, during) /\ view \in ViewRec /\ world \in World /\ Reads
      /\ view.pc = "presence" /\ world \in during /\ (world.room => world.online)
  BY DEF PublicPresence, MyPresence, Reading, ViewInv, ViewOK, WorldOK
<1>2. PICK s : /\ view' = [view EXCEPT !.status = s, !.pc = "count"]
               /\ s \in {None, "online", "offline", "hidden"} /\ (s = "online" => world.online)
               /\ view.kind = "public" /\ s \in {"online", "offline"} => view.set.online
  <2>1. CASE PublicPresence
    <3>1. PICK s \in IF view.set.online THEN {None, IF world.online THEN "online" ELSE "offline"}
                     ELSE {"hidden"} : view' = [view EXCEPT !.status = s, !.pc = "count"]
      BY <2>1 DEF PublicPresence
    <3>2. /\ s \in {None, "online", "offline", "hidden"} /\ (s = "online" => world.online)
          /\ s \in {"online", "offline"} => view.set.online
      BY ViewsAssumption
    <3>3. QED
      BY <3>1, <3>2
  <2>2. CASE MyPresence
    <3>1. view.kind = "me_profile"
      BY <2>2 DEF MyPresence, Reading
    <3>2. PICK s \in {None, IF world.room THEN "online" ELSE "offline"} :
             view' = [view EXCEPT !.status = s, !.pc = "count"]
      BY <2>2 DEF MyPresence
    <3>3. s \in {None, "online", "offline", "hidden"} /\ (s = "online" => world.online)
      BY <1>1, ViewsAssumption
    <3>4. QED
      BY <3>1, <3>2, <3>3
  <2>3. QED
    BY <2>1, <2>2
<1>3. /\ view' \in ViewRec /\ view'.pc = "count" /\ view'.friend = view.friend
      /\ view'.kind = view.kind /\ view'.who = view.who /\ view'.set = view.set /\ view'.shown = view.shown
      /\ view'.status = s /\ view'.ban = view.ban /\ view'.reason = view.reason
  BY <1>1, <1>2 DEF ViewRec, ViewPc
<1>4. s = "online" => \E w \in during : w.online
  BY <1>1, <1>2
<1>5. ViewOK(view', during)
  BY <1>1, <1>2, <1>3, <1>4 DEF ViewOK
<1>6. QED
  BY <1>1, <1>5, ReadsStep

LEMMA AdminRead ==
    ASSUME ViewInv, NEW ok \in BOOLEAN, AdminInfo(ok)
    PROVE  ViewInv'
<1> DEFINE p == player_info(ok)
           s == IF view.kind = "security" THEN None ELSE IF p.online THEN "online" ELSE "offline"
           pc == After(view.kind)
<1>1. /\ ViewOK(view, during) /\ view \in ViewRec /\ world \in World /\ Reads
      /\ view.pc = "presence" /\ world \in during
      /\ view.kind \in {"detail", "multiplayer", "security"}
      /\ view' = [view EXCEPT !.status = s, !.ban = p.banned, !.pc = pc]
  BY DEF AdminInfo, ViewInv, ViewOK, WorldOK
<1>2. p.banned \in BOOLEAN /\ (p.online => world.online) /\ (p.banned => world.banned)
  <2>1. CASE ok
    BY <1>1, <2>1 DEF player_info, World
  <2>2. CASE ~ok
    BY <1>1, <2>2 DEF player_info, World
  <2>3. QED
    BY <2>1, <2>2
<1>3. s \in {None, "online", "offline"} /\ (s = "online" => world.online) /\ pc \in {"groups", "done", "banlist"}
  BY <1>1, <1>2, ViewsAssumption DEF After
<1> HIDE DEF p, s, pc
<1>4. /\ view' \in ViewRec /\ view'.pc = pc /\ view'.friend = view.friend
      /\ view'.kind = view.kind /\ view'.who = view.who
      /\ view'.status = s /\ view'.ban = p.banned /\ view'.reason = view.reason
  BY <1>1, <1>2, <1>3 DEF ViewRec, ViewPc
<1>5. ViewOK(view', during)
  BY <1>1, <1>2, <1>3, <1>4 DEF ViewOK
<1>6. QED
  BY <1>1, <1>5, ReadsStep

LEMMA BanlistRead ==
    ASSUME ViewInv, NEW ok \in BOOLEAN, banlist(ok)
    PROVE  ViewInv'
<1> DEFINE b == ok /\ world.banned
<1>1. /\ ViewOK(view, during) /\ view \in ViewRec /\ world \in World /\ Reads
      /\ view.pc = "banlist" /\ world \in during /\ view' = [view EXCEPT !.reason = b, !.pc = "ip"]
  BY DEF banlist, ViewInv, ViewOK, WorldOK
<1>2. b \in BOOLEAN /\ (b => world.banned)
  BY <1>1 DEF World
<1> HIDE DEF b
<1>3. /\ view' \in ViewRec /\ view'.pc = "ip" /\ view'.friend = view.friend
      /\ view'.kind = view.kind /\ view'.who = view.who /\ view'.set = view.set /\ view'.shown = view.shown
      /\ view'.status = view.status /\ view'.ban = view.ban /\ view'.reason = b
  BY <1>1, <1>2 DEF ViewRec, ViewPc
<1>4. ViewOK(view', during)
  BY <1>1, <1>2, <1>3 DEF ViewOK
<1>5. QED
  BY <1>1, <1>4, ReadsStep

(* The world changes under a view. *)
LEMMA WorldStep ==
    ASSUME ViewInv, NEW w \in World, w.room => w.online, Changes(w)
    PROVE  ViewInv'
<1>1. /\ ViewOK(view, during) /\ world' = w /\ changes' = changes + 1 /\ during' = during \cup {w}
      /\ view' = view /\ changes < MaxChanges /\ changes \in 0..MaxChanges /\ during \in SUBSET World
  BY DEF Changes, ViewInv, WorldOK
<1>2. ViewOK(view, during')
  BY <1>1 DEF ViewOK
<1>3. changes' \in 0..MaxChanges
  BY <1>1, ViewsAssumption
<1>4. WorldOK'
  BY <1>1, <1>3 DEF WorldOK
<1>5. QED
  BY <1>1, <1>2, <1>4 DEF ViewInv

LEMMA OthersStep ==
    ASSUME ViewInv, OwnerEdits \/ Befriend \/ Block \/ PlayerMoves \/ Bans
    PROVE  ViewInv'
<1>0. world \in World /\ (world.room => world.online)
  BY DEF ViewInv, WorldOK
<1>1. CASE OwnerEdits
  <2>1. PICK set \in Settings : Changes([world EXCEPT !.profile = set])
    BY <1>1 DEF OwnerEdits
  <2> DEFINE w == [world EXCEPT !.profile = set]
  <2>2. w \in World /\ (w.room => w.online)
    BY <1>0 DEF World
  <2> HIDE DEF w
  <2>3. QED
    BY <2>1, <2>2, WorldStep DEF w
<1>2. CASE Befriend
  <2>1. PICK b \in BOOLEAN : Changes([world EXCEPT !.friend = b])
    BY <1>2 DEF Befriend
  <2> DEFINE w == [world EXCEPT !.friend = b]
  <2>2. w \in World /\ (w.room => w.online)
    BY <1>0 DEF World
  <2> HIDE DEF w
  <2>3. QED
    BY <2>1, <2>2, WorldStep DEF w
<1>3. CASE Block
  <2> DEFINE w == [world EXCEPT !.friend = FALSE, !.blocked = TRUE]
  <2>1. Changes(w)
    BY <1>3 DEF Block
  <2>2. w \in World /\ (w.room => w.online)
    BY <1>0 DEF World
  <2> HIDE DEF w
  <2>3. QED
    BY <2>1, <2>2, WorldStep
<1>4. CASE PlayerMoves
  <2>1. PICK b \in BOOLEAN, r \in BOOLEAN : (r => b) /\ Changes([world EXCEPT !.online = b, !.room = r])
    BY <1>4 DEF PlayerMoves
  <2> DEFINE w == [world EXCEPT !.online = b, !.room = r]
  <2>2. w \in World /\ w.room = r /\ w.online = b
    BY <1>0 DEF World
  <2> HIDE DEF w
  <2>3. QED
    BY <2>1, <2>2, WorldStep DEF w
<1>5. CASE Bans
  <2>1. PICK b \in BOOLEAN : Changes([world EXCEPT !.banned = b])
    BY <1>5 DEF Bans
  <2> DEFINE w == [world EXCEPT !.banned = b]
  <2>2. w \in World /\ (w.room => w.online)
    BY <1>0 DEF World
  <2> HIDE DEF w
  <2>3. QED
    BY <2>1, <2>2, WorldStep DEF w
<1>6. QED
  BY <1>1, <1>2, <1>3, <1>4, <1>5

LEMMA ViewStep == ViewInv /\ [ViewNext]_viewVars => ViewInv'
<1> SUFFICES ASSUME ViewInv, [ViewNext]_viewVars PROVE ViewInv'
  OBVIOUS
<1>1. ASSUME \/ \E who \in Viewer : PublicBegin(who)
             \/ me_profile \/ user_detail \/ user_multiplayer \/ user_security
      PROVE  ViewInv'
  <2>1. ASSUME NEW who \in Viewer, PublicBegin(who) PROVE ViewInv'
    <3> DEFINE pc == IF who = "other" THEN "friend" ELSE "profile"
    <3>1. Open("public", who, pc)
      BY <2>1 DEF PublicBegin
    <3>2. pc \in ViewPc /\ (pc = "friend" => who = "other") /\ pc # "blocked" /\ "public" \in ViewKind
      BY DEF ViewPc, ViewKind
    <3> HIDE DEF pc
    <3>3. QED
      BY <3>1, <3>2, OpenStep
  <2>2. QED
    BY <1>1, <2>1, OpenStep
       DEF me_profile, user_detail, user_multiplayer, user_security, ViewKind, Viewer, ViewPc
<1>2. ASSUME PublicBlocked \/ user_stats \/ friends_count \/ groups_for_user \/ ip_history
      PROVE  ViewInv'
  BY <1>2, MoveStep
     DEF PublicBlocked, Reading, user_stats, friends_count, groups_for_user, ip_history, ViewPc
<1>3. CASE UNCHANGED viewVars
  BY <1>3 DEF viewVars, ViewInv, WorldOK
<1>4. CASE ViewNext
  BY <1>1, <1>2, <1>4, FriendRead, SettingsRead, PresenceRead, AdminRead, BanlistRead,
     PrivacyUpdateStep, OthersStep DEF ViewNext
<1>5. QED
  BY <1>3, <1>4

LEMMA ViewStart == ViewInit => ViewInv
<1> SUFFICES ASSUME ViewInit PROVE ViewInv
  OBVIOUS
<1>1. world \in World /\ ~world.room /\ changes = 0 /\ view = NoView /\ during = {}
  BY DEF ViewInit
<1>2. SettingsOf(None) \in Settings
  BY DEF SettingsOf, Settings, Visibility
<1>3. /\ NoView \in ViewRec /\ NoView.status = None /\ NoView.pc = "idle"
      /\ ~NoView.friend /\ ~NoView.shown /\ ~NoView.ban /\ ~NoView.reason
  BY <1>2 DEF NoView, ViewRec, ViewKind, ViewPc, Viewer
<1>4. ViewOK(NoView, {})
  BY <1>3, ViewsAssumption DEF ViewOK
<1>5. WorldOK
  BY <1>1, <1>3, ViewsAssumption DEF WorldOK
<1>6. QED
  BY <1>1, <1>4, <1>5 DEF ViewInv

(* Whatever the owner, friends and PMP change between the reads of a view, *)
(* a profile is opened only to a viewer it was open to during the request, *)
(* and what is said of the player was so during it (phira/routes.rs:430-480,*)
(* users/routes.rs:292-429).                                               *)
THEOREM ProfilesStayHonest == ViewSpec => []ProfilesAreHonest
<1>1. ViewInv => ProfilesAreHonest
  <2> SUFFICES ASSUME ViewInv PROVE ProfilesAreHonest
    OBVIOUS
  <2>0. WorldOK /\ ViewOK(view, during)
    BY DEF ViewInv
  <2>1. /\ view.kind \in ViewKind /\ view.who \in Viewer /\ view.set \in Settings /\ view.pc \in ViewPc
        /\ view.status \in {None, "online", "offline", "hidden"}
        /\ view.friend \in BOOLEAN /\ view.shown \in BOOLEAN /\ view.ban \in BOOLEAN /\ view.reason \in BOOLEAN
    BY <2>0 DEF ViewOK, ViewRec
  <2>2. ViewTypeOK
    BY <2>0, <2>1 DEF ViewTypeOK, WorldOK, ViewPc
  <2>3. PrivacyIsKept
    <3> SUFFICES ASSUME view.kind = "public", view.who # "self", view.shown
                 PROVE  /\ \/ \E w \in during : SettingsOf(w.profile).visibility = "public"
                           \/ /\ view.who = "other"
                              /\ \E w \in during : SettingsOf(w.profile).visibility = "friends"
                              /\ \E w \in during : w.friend
                        /\ view.status \in {"online", "offline"} => \E w \in during : SettingsOf(w.profile).online
      BY DEF PrivacyIsKept
    <3>1. can_view(view.set, view.who, view.friend)
      BY <2>0 DEF ViewOK
    <3>2. PICK w \in during : view.set = SettingsOf(w.profile)
      BY <2>0 DEF ViewOK
    <3>3. view.friend => view.who = "other" /\ \E x \in during : x.friend
      BY <2>0 DEF ViewOK
    <3>4. view.status \in {"online", "offline"} => view.set.online
      BY <2>0 DEF ViewOK
    <3>5. QED
      BY <3>1, <3>2, <3>3, <3>4 DEF can_view
  <2>4. ClaimsWereTrue
    BY <2>0 DEF ClaimsWereTrue, ViewOK
  <2>5. QED
    BY <2>2, <2>3, <2>4 DEF ProfilesAreHonest
<1>2. QED
  BY <1>1, ViewStart, ViewStep, PTL DEF ViewSpec

(***************************************************************************)
(* Notifications.  An event and its rows are written by one transaction,   *)
(* and the endpoints a push still has to visit are all of the kind of the  *)
(* channels it has used for that user, if the list names the user once.    *)
(***************************************************************************)
Endpoint == [channel : Channel, material : Material, device : Device]
ChannelsOf(eps) == {ep.channel : ep \in eps}
OneSide(C) == "web_push" \in C => C \cap App = {}
Nothing == [u \in Known |-> {}]
\* The channels of a user who is named once: nothing before the loop comes
\* to the user, and one kind together with what is left after.
SendOK(s, tr) ==
    /\ s.pc \in {"none", "publish", "push", "done", "failed"}
    /\ s.pc \in {"none", "publish", "failed"} => tr = Nothing
    /\ s.pc \in {"push", "done"} => \A u \in Known \ Repeated(s.to) : OneSide(tr[u])
    /\ s.pc = "push" =>
          /\ s = [pc |-> "push", to |-> s.to, at |-> s.at, left |-> s.left]
          /\ tr = [u \in Known |-> tr[u]] /\ Recipients(s.to) \subseteq Known
          /\ s.at \in Nat /\ (s.left # {} => s.at \in DOMAIN s.to /\ s.at # 0)
          /\ \A u \in Known \ Repeated(s.to) :
                /\ tr[u] # {} => \E k \in DOMAIN s.to : k \in 1..s.at /\ s.to[k] = u
                /\ (s.left # {} /\ s.to[s.at] = u) => OneSide(ChannelsOf(s.left) \cup tr[u])
InboxOK ==
    /\ member \in SUBSET Known
    /\ published = [e \in Event |-> published[e]]
    /\ \A e \in Event : published[e] = None \/ published[e] \in SUBSET Known
    /\ row \in [Event -> [Known -> RowState \cup {None}]]
    /\ \A e \in Event, u \in Known : (row[e][u] # None) <=> (published[e] # None /\ u \in published[e])
EndpointsOK == endpoint \in [Known -> [Device -> Endpoint \cup {None}]]
SendsOK ==
    /\ send = [e \in Event |-> send[e]] /\ tried = [e \in Event |-> tried[e]]
    /\ \A e \in Event : SendOK(send[e], tried[e])
NotifyInv == InboxOK /\ EndpointsOK /\ SendsOK

(* One send moves on and the inbox stays. *)
LEMMA SendMoves ==
    ASSUME NotifyInv, NEW e \in Event, NEW s, NEW tr, SendOK(s, tr),
           send' = [send EXCEPT ![e] = s], tried' = [tried EXCEPT ![e] = tr]
    PROVE  SendsOK'
<1>1. \A f \in Event : send'[f] = (IF f = e THEN s ELSE send[f]) /\ tried'[f] = (IF f = e THEN tr ELSE tried[f])
  BY DEF NotifyInv, SendsOK
<1>2. \A f \in Event : SendOK(send'[f], tried'[f])
  BY <1>1 DEF NotifyInv, SendsOK
<1>3. send' = [f \in Event |-> send'[f]] /\ tried' = [f \in Event |-> tried'[f]]
  BY DEF NotifyInv, SendsOK
<1>4. QED
  BY <1>2, <1>3 DEF SendsOK

LEMMA ResolveStep ==
    ASSUME NotifyInv, NEW e \in Event, NEW t, SendResolve(e, t)
    PROVE  NotifyInv'
<1>1. PICK to : send' = [send EXCEPT ![e] = [pc |-> "publish", to |-> to]]
  BY DEF SendResolve
<1>2. UNCHANGED <<member, published, row, endpoint, tried>>
  BY DEF SendResolve
<1> DEFINE s == [pc |-> "publish", to |-> to]
<1>3. s.pc = "publish" /\ SendOK(send[e], tried[e]) /\ tried = [f \in Event |-> tried[f]]
  BY DEF NotifyInv, SendsOK
<1> HIDE DEF s
<1>31. send[e].pc = "none"
  BY DEF SendResolve, Waiting
<1>4. SendOK(s, tried[e]) /\ tried' = [tried EXCEPT ![e] = tried[e]]
  BY <1>2, <1>3, <1>31 DEF SendOK
<1>5. send' = [send EXCEPT ![e] = s]
  BY <1>1 DEF s
<1>6. SendsOK'
  BY <1>4, <1>5, SendMoves
<1>7. QED
  BY <1>2, <1>6 DEF NotifyInv, InboxOK, EndpointsOK

LEMMA PublishStep ==
    ASSUME NotifyInv, NEW e \in Event, Publish(e)
    PROVE  NotifyInv'
<1> DEFINE to == send[e].to
           R == Recipients(to)
           pushes == [pc |-> "push", to |-> to, at |-> 0, left |-> {}]
           fails == [pc |-> "failed"]
           rows == [u \in Known |-> IF u \in R THEN Unread ELSE None]
<1>0. InboxOK /\ EndpointsOK /\ SendsOK /\ UNCHANGED <<member, endpoint, tried>> /\ SendOK(send[e], tried[e])
  BY DEF NotifyInv, SendsOK, Publish
<1>1. tried' = [tried EXCEPT ![e] = tried[e]]
  BY <1>0 DEF SendsOK
<1>2. CASE R \subseteq Known
  <2>1. /\ published' = [published EXCEPT ![e] = R] /\ row' = [row EXCEPT ![e] = rows]
        /\ send' = [send EXCEPT ![e] = pushes]
    BY <1>2 DEF Publish
  <2>2. /\ pushes.pc = "push" /\ pushes.left = {} /\ pushes.at = 0 /\ pushes.to = to
        /\ pushes = [pc |-> "push", to |-> pushes.to, at |-> pushes.at, left |-> pushes.left]
    OBVIOUS
  <2> HIDE DEF pushes
  <2>3. tried[e] = Nothing /\ \A u \in Known : Nothing[u] = {} /\ OneSide(Nothing[u])
    BY <1>0 DEF SendOK, Publish, Nothing, OneSide
  <2>4. SendOK(pushes, tried[e])
    BY <1>2, <2>2, <2>3 DEF SendOK, Nothing
  <2>5. SendsOK'
    BY <1>1, <2>1, <2>4, SendMoves
  <2>6. Unread \in RowState /\ Unread # None /\ R # None
    <3>1. Unread \in RowState
      BY DEF Unread, RowState
    <3> HIDE DEF R
    <3>2. QED
      BY <1>2, <3>1, NotificationsAssumption
  <2>7. rows \in [Known -> RowState \cup {None}] /\ \A u \in Known : (rows[u] # None) <=> u \in R
    BY <2>6
  <2> HIDE DEF rows, R
  <2>8. /\ row' \in [Event -> [Known -> RowState \cup {None}]]
        /\ \A f \in Event : row'[f] = IF f = e THEN rows ELSE row[f]
    BY <1>0, <2>1, <2>7 DEF InboxOK
  <2>9. /\ published' = [f \in Event |-> published'[f]]
        /\ \A f \in Event : published'[f] = IF f = e THEN R ELSE published[f]
    BY <1>0, <2>1 DEF InboxOK
  <2>10. \A f \in Event : published'[f] = None \/ published'[f] \in SUBSET Known
    BY <1>0, <1>2, <2>9 DEF InboxOK
  <2>11. ASSUME NEW f \in Event, NEW u \in Known
         PROVE  (row'[f][u] # None) <=> (published'[f] # None /\ u \in published'[f])
    <3>1. CASE f = e
      BY <2>6, <2>7, <2>8, <2>9, <3>1
    <3>2. CASE f # e
      BY <1>0, <2>8, <2>9, <3>2 DEF InboxOK
    <3>3. QED
      BY <3>1, <3>2
  <2>12. InboxOK'
    BY <1>0, <2>8, <2>9, <2>10, <2>11 DEF InboxOK
  <2>13. QED
    BY <1>0, <2>5, <2>12 DEF NotifyInv, EndpointsOK
<1>3. CASE ~(R \subseteq Known)
  <2>1. send' = [send EXCEPT ![e] = fails] /\ UNCHANGED <<published, row>>
    BY <1>3 DEF Publish
  <2>2. fails.pc = "failed"
    OBVIOUS
  <2> HIDE DEF fails
  <2>3. SendOK(fails, tried[e])
    BY <1>0, <2>2 DEF SendOK, Publish
  <2>4. SendsOK'
    BY <1>1, <2>1, <2>3, SendMoves
  <2>5. QED
    BY <1>0, <2>1, <2>4 DEF NotifyInv, InboxOK, EndpointsOK
<1>4. QED
  BY <1>2, <1>3

(* The next recipient: with an app endpoint web_push is left aside.        *)
LEMMA NotifyBeginStep ==
    ASSUME NotifyInv, NEW e \in Event, NotifyBegin(e)
    PROVE  NotifyInv'
<1> DEFINE o == send[e]
           to == o.to
           n == o.at + 1
           Chosen(eps) == {ep \in eps : app_push_present(eps) => ep.channel # "web_push"}
<1>0. /\ UNCHANGED <<member, published, row, endpoint, tried>> /\ SendsOK /\ SendOK(o, tried[e])
      /\ o.pc = "push" /\ tried' = [tried EXCEPT ![e] = tried[e]]
  BY DEF NotifyBegin, NotifyNth, NotifyInv, SendsOK
<1>1. PICK s : send' = [send EXCEPT ![e] = s] /\ SendOK(s, tried[e])
  <2>1. CASE n \notin DOMAIN to
    <3> DEFINE s == [pc |-> "done", to |-> to]
    <3>1. send' = [send EXCEPT ![e] = s] /\ s.pc = "done" /\ s.to = to
      BY <2>1 DEF NotifyBegin, NotifyNth
    <3> HIDE DEF s
    <3>2. SendOK(s, tried[e])
      BY <1>0, <3>1 DEF SendOK
    <3>3. QED
      BY <3>1, <3>2
  <2>2. CASE n \in DOMAIN to
    <3>1. PICK left \in {Chosen(Endpoints(to[n])), {}} :
             send' = [send EXCEPT ![e] = [pc |-> "push", to |-> to, at |-> n, left |-> left]]
      BY <2>2 DEF NotifyBegin, NotifyNth
    <3> DEFINE s == [pc |-> "push", to |-> to, at |-> n, left |-> left]
    <3>2. /\ s.pc = "push" /\ s = [pc |-> "push", to |-> s.to, at |-> s.at, left |-> s.left]
          /\ s.left = left /\ s.to = to /\ s.at = n /\ send' = [send EXCEPT ![e] = s]
      BY <3>1
    <3> HIDE DEF s
    <3>3. OneSide(ChannelsOf(left))
      <4>1. ASSUME NEW eps PROVE OneSide(ChannelsOf(Chosen(eps)))
        <5>1. CASE app_push_present(eps)
          <6>1. "web_push" \notin ChannelsOf(Chosen(eps))
            BY <5>1 DEF ChannelsOf
          <6>2. QED
            BY <6>1 DEF OneSide
        <5>2. CASE ~app_push_present(eps)
          <6>1. ChannelsOf(Chosen(eps)) \cap App = {}
            BY <5>2 DEF app_push_present, ChannelsOf
          <6>2. QED
            BY <6>1 DEF OneSide
        <5>3. QED
          BY <5>1, <5>2
      <4>2. ChannelsOf({}) = {} /\ OneSide({})
        BY DEF ChannelsOf, OneSide
      <4> HIDE DEF Chosen
      <4>3. QED
        BY <3>1, <4>1, <4>2
    <3>4. o.at \in Nat /\ n \in Nat /\ o.at < n
      BY <1>0 DEF SendOK
    <3>5. ASSUME NEW u \in Known \ Repeated(to), to[n] = u PROVE tried[e][u] = {}
      <4>1. \A k \in DOMAIN to : k # n => to[k] # u
        BY <2>2, <3>5 DEF Repeated
      <4>2. ASSUME tried[e][u] # {} PROVE FALSE
        <5>1. PICK k \in DOMAIN to : k \in 1..o.at /\ to[k] = u
          BY <1>0, <4>2 DEF SendOK
        <5>2. k # n
          BY <3>4, <5>1
        <5>3. QED
          BY <4>1, <5>1, <5>2
      <4>3. QED
        BY <4>2
    <3>6. ASSUME NEW u \in Known \ Repeated(to), tried[e][u] # {}
          PROVE  \E k \in DOMAIN to : k \in 1..n /\ to[k] = u
      <4>1. PICK k \in DOMAIN to : k \in 1..o.at /\ to[k] = u
        BY <1>0, <3>6 DEF SendOK
      <4>2. k \in 1..n
        BY <3>4, <4>1
      <4>3. QED
        BY <4>1, <4>2
    <3>7. ASSUME NEW u \in Known \ Repeated(to), to[n] = u
          PROVE  OneSide(ChannelsOf(left) \cup tried[e][u])
      <4>1. ChannelsOf(left) \cup tried[e][u] = ChannelsOf(left)
        BY <3>5, <3>7
      <4>2. QED
        BY <3>3, <4>1
    <3> HIDE DEF n
    <3>8. SendOK(s, tried[e])
      BY <1>0, <2>2, <3>2, <3>4, <3>6, <3>7 DEF SendOK
    <3>9. QED
      BY <3>2, <3>8
  <2>3. QED
    BY <2>1, <2>2
<1>2. SendsOK'
  BY <1>0, <1>1, SendMoves
<1>3. QED
  BY <1>0, <1>2 DEF NotifyInv, InboxOK, EndpointsOK

LEMMA NotifyEndpointStep ==
    ASSUME NotifyInv, NEW e \in Event, NotifyEndpoint(e)
    PROVE  NotifyInv'
<1> DEFINE o == send[e]
           v == o.to[o.at]
<1>0. UNCHANGED <<member, published, row, endpoint>> /\ SendsOK /\ SendOK(o, tried[e]) /\ o.pc = "push"
  BY DEF NotifyEndpoint, NotifyInv, SendsOK
<1>1. PICK ep \in o.left :
        /\ send' = [send EXCEPT ![e].left = @ \ {ep}]
        /\ tried' = [tried EXCEPT ![e][v] = IF Reaches(ep) THEN @ \cup {ep.channel} ELSE @]
  BY DEF NotifyEndpoint
<1> DEFINE s == [pc |-> "push", to |-> o.to, at |-> o.at, left |-> o.left \ {ep}]
           c == IF Reaches(ep) THEN tried[e][v] \cup {ep.channel} ELSE tried[e][v]
           tr == [tried[e] EXCEPT ![v] = c]
           O == [pc |-> "push", to |-> o.to, at |-> o.at, left |-> o.left]
<1>2. o = O
  BY <1>0 DEF SendOK
<1>3. [O EXCEPT !.left = o.left \ {ep}] = s
  OBVIOUS
<1>4. /\ s.pc = "push" /\ s = [pc |-> "push", to |-> s.to, at |-> s.at, left |-> s.left]
      /\ s.left = o.left \ {ep} /\ s.to = o.to /\ s.at = o.at
  OBVIOUS
<1>5. tried' = [tried EXCEPT ![e] = tr]
  BY <1>0, <1>1 DEF SendsOK
<1> HIDE DEF s, O
<1>6. [o EXCEPT !.left = o.left \ {ep}] = s
  BY <1>2, <1>3
<1>7. send' = [send EXCEPT ![e] = s]
  BY <1>0, <1>1, <1>6 DEF SendsOK
<1>8. v \in Known /\ o.at \in DOMAIN o.to /\ o.at \in Nat \ {0}
  BY <1>0, <1>1 DEF SendOK, Recipients
<1>9. tr = [u \in Known |-> tr[u]] /\ tr[v] = c /\ \A u \in Known \ {v} : tr[u] = tried[e][u]
  BY <1>0, <1>8 DEF SendOK
<1>10. ChannelsOf(s.left) \cup c \subseteq ChannelsOf(o.left) \cup tried[e][v]
  BY <1>4 DEF ChannelsOf
<1> HIDE DEF tr, c
<1>11. ASSUME v \notin Repeated(o.to)
       PROVE  OneSide(ChannelsOf(s.left) \cup c) /\ OneSide(c)
  <2>1. OneSide(ChannelsOf(o.left) \cup tried[e][v])
    BY <1>0, <1>1, <1>8, <1>11 DEF SendOK
  <2>2. QED
    BY <1>10, <2>1 DEF OneSide
<1>12. SendOK(s, tr)
  <2>1. \A u \in Known \ Repeated(s.to) : OneSide(tr[u])
    BY <1>0, <1>4, <1>9, <1>11 DEF SendOK
  <2>2. \A u \in Known \ Repeated(s.to) : tr[u] # {} => \E k \in DOMAIN s.to : k \in 1..s.at /\ s.to[k] = u
    <3> TAKE u \in Known \ Repeated(s.to)
    <3> HAVE tr[u] # {}
    <3>1. o.at \in 1..o.at
      BY <1>8
    <3>2. CASE u = v
      BY <1>4, <1>8, <3>1, <3>2
    <3>3. CASE u # v
      <4>1. tried[e][u] # {}
        BY <1>9, <3>3
      <4>2. u \in Known \ Repeated(o.to)
        BY <1>4
      <4>3. \E k \in DOMAIN o.to : k \in 1..o.at /\ o.to[k] = u
        BY <1>0, <1>1, <4>1, <4>2 DEF SendOK
      <4>4. QED
        BY <1>4, <4>3
    <3>4. QED
      BY <3>2, <3>3
  <2>3. \A u \in Known \ Repeated(s.to) : s.to[s.at] = u => OneSide(ChannelsOf(s.left) \cup tr[u])
    BY <1>4, <1>9, <1>11
  <2>4. s.at \in Nat \ {0} /\ s.at \in DOMAIN s.to /\ Recipients(s.to) \subseteq Known
    BY <1>0, <1>4, <1>8 DEF SendOK
  <2>5. QED
    BY <1>4, <1>9, <2>1, <2>2, <2>3, <2>4 DEF SendOK
<1>13. SendsOK'
  BY <1>5, <1>7, <1>12, SendMoves
<1>14. QED
  BY <1>0, <1>13 DEF NotifyInv, InboxOK, EndpointsOK

(* Reading and dismissing change a row that is there. *)
LEMMA RowReadOrDismissed ==
    ASSUME NEW x \in RowState, NEW b \in BOOLEAN
    PROVE  [x EXCEPT !.read = b] \in RowState /\ [x EXCEPT !.dismissed = b] \in RowState
BY DEF RowState

LEMMA InboxStep ==
    ASSUME NotifyInv, NEW e \in Event, NEW u \in Known, read(u, e) \/ dismiss(u, e)
    PROVE  NotifyInv'
<1>0. /\ InboxOK /\ EndpointsOK /\ SendsOK /\ UNCHANGED <<member, published, endpoint, send, tried>>
      /\ row[e][u] # None
  BY DEF NotifyInv, read, dismiss, get_for_user, mark_read, mark_dismissed
<1>1. row \in [Event -> [Known -> RowState \cup {None}]] /\ row[e][u] \in RowState
  BY <1>0 DEF InboxOK
<1>2. PICK x \in RowState : row' = [row EXCEPT ![e] = [row[e] EXCEPT ![u] = x]]
  <2>1. CASE read(u, e)
    <3>1. row' = [row EXCEPT ![e] = [row[e] EXCEPT ![u] = [row[e][u] EXCEPT !.read = TRUE]]]
      BY <1>1, <2>1 DEF read, mark_read
    <3>2. QED
      BY <1>1, <3>1, RowReadOrDismissed
  <2>2. CASE dismiss(u, e)
    <3>1. row' = [row EXCEPT ![e] = [row[e] EXCEPT ![u] = [row[e][u] EXCEPT !.dismissed = TRUE]]]
      BY <1>1, <2>2 DEF dismiss, mark_dismissed
    <3>2. QED
      BY <1>1, <3>1, RowReadOrDismissed
  <2>3. QED
    BY <2>1, <2>2
<1>3. /\ row' \in [Event -> [Known -> RowState \cup {None}]]
      /\ \A f \in Event, v \in Known : row'[f][v] = IF f = e /\ v = u THEN x ELSE row[f][v]
  BY <1>1, <1>2
<1>4. x # None
  BY NotificationsAssumption
<1>5. \A f \in Event, v \in Known : (row'[f][v] # None) <=> (row[f][v] # None)
  BY <1>0, <1>3, <1>4
<1>6. InboxOK'
  BY <1>0, <1>3, <1>5 DEF InboxOK
<1>7. QED
  BY <1>0, <1>6 DEF NotifyInv, EndpointsOK, SendsOK

(* A device registers or is removed. *)
LEMMA EndpointStep ==
    ASSUME NotifyInv, NEW u \in Known, NEW d \in Device,
           \/ me_push_endpoint_delete(u, d)
           \/ \E c \in Channel, m \in Material : me_push_endpoint_register(u, d, c, m)
    PROVE  NotifyInv'
<1>0. /\ InboxOK /\ EndpointsOK /\ SendsOK /\ UNCHANGED <<member, published, row, send, tried>>
      /\ endpoint[u][d] \in Endpoint \cup {None}
  BY DEF NotifyInv, me_push_endpoint_delete, delete_push_endpoint, me_push_endpoint_register,
         register_push_endpoint, EndpointsOK
<1>1. PICK x \in Endpoint \cup {None} : endpoint' = [endpoint EXCEPT ![u] = [endpoint[u] EXCEPT ![d] = x]]
  <2>1. CASE me_push_endpoint_delete(u, d)
    BY <1>0, <2>1 DEF me_push_endpoint_delete, delete_push_endpoint, EndpointsOK
  <2>2. ASSUME NEW c \in Channel, NEW m \in Material, me_push_endpoint_register(u, d, c, m)
        PROVE  \E x \in Endpoint \cup {None} :
                  endpoint' = [endpoint EXCEPT ![u] = [endpoint[u] EXCEPT ![d] = x]]
    <3> DEFINE o == endpoint[u][d]
               x == IF o = None THEN [channel |-> c, material |-> m, device |-> d] ELSE [o EXCEPT !.material = m]
    <3>1. x \in Endpoint
      <4>1. CASE o = None
        BY <4>1 DEF Endpoint
      <4>2. CASE o # None
        BY <1>0, <4>2 DEF Endpoint
      <4>3. QED
        BY <4>1, <4>2
    <3>2. endpoint' = [endpoint EXCEPT ![u] = [endpoint[u] EXCEPT ![d] = x]]
      BY <1>0, <2>2 DEF me_push_endpoint_register, register_push_endpoint, EndpointsOK
    <3> HIDE DEF x
    <3>3. QED
      BY <3>1, <3>2
  <2>3. QED
    BY <2>1, <2>2
<1>2. EndpointsOK'
  BY <1>0, <1>1 DEF EndpointsOK
<1>3. QED
  BY <1>0, <1>2 DEF NotifyInv, InboxOK, SendsOK

LEMMA NotifyStep == NotifyInv /\ [NotifyNext]_notifyVars => NotifyInv'
<1> SUFFICES ASSUME NotifyInv, [NotifyNext]_notifyVars PROVE NotifyInv'
  OBVIOUS
<1>1. ASSUME NEW u \in Known, SetMember(u) PROVE NotifyInv'
  <2>1. member' \in SUBSET Known /\ UNCHANGED <<published, row, endpoint, send, tried>>
    BY <1>1 DEF SetMember, NotifyInv, InboxOK
  <2>2. QED
    BY <2>1 DEF NotifyInv, InboxOK, EndpointsOK, SendsOK
<1>2. CASE UNCHANGED notifyVars
  BY <1>2 DEF notifyVars, NotifyInv, InboxOK, EndpointsOK, SendsOK
<1>3. CASE NotifyNext
  <2>1. ASSUME NEW e \in Event, (\E t \in Target : SendResolve(e, t)) \/ Publish(e) \/ NotifyBegin(e) \/ NotifyEndpoint(e)
        PROVE  NotifyInv'
    BY <2>1, ResolveStep, PublishStep, NotifyBeginStep, NotifyEndpointStep
  <2>2. ASSUME NEW u \in Subscriber, NEW d \in Device,
               \/ me_push_endpoint_delete(u, d)
               \/ \E c \in Channel, m \in Material : me_push_endpoint_register(u, d, c, m)
        PROVE  NotifyInv'
    <3>1. u \in Known
      BY NotificationsAssumption
    <3>2. QED
      BY <2>2, <3>1, EndpointStep
  <2>3. QED
    BY <1>1, <1>3, <2>1, <2>2, InboxStep DEF NotifyNext
<1>4. QED
  BY <1>2, <1>3

LEMMA NotifyStart == NotifyInit => NotifyInv
<1> SUFFICES ASSUME NotifyInit PROVE NotifyInv
  OBVIOUS
<1>1. InboxOK
  BY DEF NotifyInit, InboxOK
<1>2. EndpointsOK
  BY DEF NotifyInit, EndpointsOK
<1>3. Waiting.pc = "none"
  BY DEF Waiting
<1>4. SendOK(Waiting, Nothing)
  BY <1>3 DEF SendOK
<1>5. SendsOK
  BY <1>4 DEF NotifyInit, SendsOK, Nothing
<1>6. QED
  BY <1>1, <1>2, <1>5 DEF NotifyInv

(* Whoever joins or leaves the group and whatever devices come and go, a   *)
(* notification is in the inbox of all of its recipients or of none, and   *)
(* reaches nobody it names once through an app and the browser             *)
(* (notifications/mod.rs:238-269, notifications/push.rs:277-279).          *)
THEOREM NoticesStayWhole == NotifySpec => []NoticesAreWhole
<1>1. NotifyInv => NoticesAreWhole
  <2> SUFFICES ASSUME NotifyInv PROVE NoticesAreWhole
    OBVIOUS
  <2>0. InboxOK /\ EndpointsOK /\ SendsOK
    BY DEF NotifyInv
  <2>1. \A e \in Event :
          /\ send[e].pc \in {"none", "publish", "push", "done", "failed"}
          /\ send[e].pc \in {"push", "done"} => \A u \in Known \ Repeated(send[e].to) : OneSide(tried[e][u])
    BY <2>0 DEF SendsOK, SendOK
  <2>2. NotifyTypeOK
    BY <2>0, <2>1 DEF NotifyTypeOK, InboxOK, EndpointsOK, Endpoint
  <2>3. FanoutIsWhole
    BY <2>0 DEF FanoutIsWhole, InboxOK, list_inbox
  <2>4. OneChannelPerNotice
    BY <2>1 DEF OneChannelPerNotice, OneSide
  <2>5. QED
    BY <2>2, <2>3, <2>4 DEF NoticesAreWhole
<1>2. QED
  BY <1>1, NotifyStart, NotifyStep, PTL DEF NotifySpec

(***************************************************************************)
(* Buttons.  The buttons on show are those of the stored list, which no    *)
(* longer changes, and a press carries a button that was valid.            *)
(***************************************************************************)
ShownOK == shown = {} \/ (stored # None /\ shown = normalize_stored_actions)
PressOK(p, S) ==
    /\ p = [pc |-> p.pc, id |-> p.id, kind |-> p.kind, data |-> p.data, answer |-> p.answer]
    /\ p.pc \in {"idle", "done", "move", "intent"} \cup Kind
    /\ p.pc # "idle" => /\ p.answer \notin {"not_available", "target_invalid"}
                        /\ \E b \in S : b.id = p.id /\ b.kind = p.kind
    /\ p.pc \in Kind => p.kind = p.pc /\ Field(p.kind) \in p.data
ButtonInv == ShownOK /\ PressOK(press, shown)

LEMMA StoredValid ==
    ASSUME NEW b \in normalize_stored_actions
    PROVE  b.kind \in Kind /\ Field(b.kind) \in b.data
BY DEF normalize_stored_actions, validate_action_target

LEMMA KindsApart == "done" \notin Kind /\ "idle" \notin Kind /\ "move" \notin Kind /\ "intent" \notin Kind
BY DEF Kind

(* A press is answered, or goes on to its second half. *)
LEMMA PressMoves ==
    ASSUME NEW p, NEW S, PressOK(p, S), p.pc # "idle", NEW pc \in {"done", "move", "intent"},
           NEW a, a \notin {"not_available", "target_invalid"}
    PROVE  /\ PressOK([p EXCEPT !.pc = pc, !.answer = a], S)
           /\ PressOK([p EXCEPT !.pc = pc], S)
<1> DEFINE q == [pc |-> pc, id |-> p.id, kind |-> p.kind, data |-> p.data, answer |-> a]
           r == [pc |-> pc, id |-> p.id, kind |-> p.kind, data |-> p.data, answer |-> p.answer]
           P == [pc |-> p.pc, id |-> p.id, kind |-> p.kind, data |-> p.data, answer |-> p.answer]
<1>1. p = P
  BY DEF PressOK
<1>2. [P EXCEPT !.pc = pc] = r /\ [r EXCEPT !.answer = a] = q
  OBVIOUS
<1>3. PressOK(q, S)
  BY KindsApart DEF PressOK
<1>4. PressOK(r, S)
  BY KindsApart DEF PressOK
<1> HIDE DEF P, q, r
<1>5. [p EXCEPT !.pc = pc, !.answer = a] = [[p EXCEPT !.pc = pc] EXCEPT !.answer = a]
  OBVIOUS
<1>6. QED
  BY <1>1, <1>2, <1>3, <1>4, <1>5

LEMMA AnswerStep ==
    ASSUME ButtonInv, press.pc # "idle", NEW a, a \notin {"not_available", "target_invalid"}, Answers(a),
           UNCHANGED <<stored, shown>>
    PROVE  ButtonInv'
<1>1. PressOK(press', shown)
  BY PressMoves DEF ButtonInv, Answers
<1>2. QED
  BY <1>1 DEF ButtonInv, ShownOK, normalize_stored_actions

LEMMA FindStep ==
    ASSUME ButtonInv, NEW b \in shown, ActionFind(b.id)
    PROVE  ButtonInv'
<1>1. shown = normalize_stored_actions /\ UNCHANGED <<stored, shown>>
  BY DEF ButtonInv, ShownOK, ActionFind
<1>2. PICK c \in normalize_stored_actions :
        /\ c.id = b.id
        /\ press' = [pc |-> c.kind, id |-> b.id, kind |-> c.kind, data |-> c.data, answer |-> None]
  BY <1>1 DEF ActionFind
<1> DEFINE p == [pc |-> c.kind, id |-> b.id, kind |-> c.kind, data |-> c.data, answer |-> None]
<1>3. c.kind \in Kind /\ Field(c.kind) \in c.data /\ c \in shown
  BY <1>1, <1>2, StoredValid
<1>4. PressOK(p, shown)
  BY <1>2, <1>3, KindsApart, ButtonsAssumption DEF PressOK
<1> HIDE DEF p
<1>5. PressOK(press', shown')
  BY <1>1, <1>2, <1>4 DEF p
<1>6. QED
  BY <1>1, <1>5 DEF ButtonInv, ShownOK, normalize_stored_actions

LEMMA JoinStep ==
    ASSUME ButtonInv, JoinAsk \/ JoinMove \/ JoinIntent
    PROVE  ButtonInv'
<1>0. PressOK(press, shown) /\ UNCHANGED <<stored, shown>>
  BY DEF ButtonInv, JoinAsk, JoinMove, JoinIntent
<1>1. CASE JoinAsk
  <2>1. press.pc = "join_room" /\ "room_id" \in press.data
    BY <1>0, <1>1 DEF JoinAsk, PressOK, Kind, Field
  <2>2. PICK pc \in {"move", "intent"} : press' = [press EXCEPT !.pc = pc]
    BY <1>1, <2>1 DEF JoinAsk
  <2>3. PressOK(press', shown)
    BY <1>0, <2>1, <2>2, PressMoves, ButtonsAssumption
  <2>4. QED
    BY <1>0, <2>3 DEF ButtonInv, ShownOK, normalize_stored_actions
<1>2. CASE JoinMove
  BY <1>0, <1>2, AnswerStep DEF JoinMove
<1>3. CASE JoinIntent
  BY <1>0, <1>3, AnswerStep DEF JoinIntent
<1>4. QED
  BY <1>1, <1>2, <1>3

LEMMA RespondStep ==
    ASSUME ButtonInv, FriendRespond \/ verified_navigation_path
    PROVE  ButtonInv'
<1>0. PressOK(press, shown) /\ UNCHANGED <<stored, shown>>
  BY DEF ButtonInv, FriendRespond, verified_navigation_path
<1>1. CASE FriendRespond
  <2>1. press.pc \in {"friend_accept", "friend_reject"} /\ "friend_request_id" \in press.data
    BY <1>0, <1>1 DEF FriendRespond, PressOK, Kind, Field
  <2>2. Answers("completed") \/ Answers("not_pending")
    BY <1>1, <2>1 DEF FriendRespond
  <2>3. QED
    BY <1>0, <2>1, <2>2, AnswerStep
<1>2. CASE verified_navigation_path
  <2>1. press.pc # "idle" /\ Field(press.kind) \in press.data
    BY <1>0, <1>2 DEF verified_navigation_path, PressOK, Kind
  <2>2. Answers("navigate")
    BY <1>2, <2>1 DEF verified_navigation_path
  <2>3. QED
    BY <1>0, <2>1, <2>2, AnswerStep
<1>3. QED
  BY <1>1, <1>2

LEMMA ButtonStep == ButtonInv /\ [ButtonNext]_buttonVars => ButtonInv'
<1> SUFFICES ASSUME ButtonInv, [ButtonNext]_buttonVars PROVE ButtonInv'
  OBVIOUS
<1>0. ShownOK /\ PressOK(press, shown)
  BY DEF ButtonInv
<1>1. ASSUME stored = None, UNCHANGED <<shown, press>> PROVE ButtonInv'
  <2>1. shown = {}
    BY <1>0, <1>1 DEF ShownOK
  <2>2. QED
    BY <1>0, <1>1, <2>1 DEF ButtonInv, ShownOK
<1>2. ASSUME wire_notification PROVE ButtonInv'
  <2>1. /\ stored # None /\ shown' = normalize_stored_actions /\ UNCHANGED <<stored, press>>
    BY <1>2 DEF wire_notification
  <2>2. ShownOK'
    BY <2>1 DEF ShownOK, normalize_stored_actions
  <2>3. shown \subseteq shown'
    BY <1>0, <2>1 DEF ShownOK
  <2>4. PressOK(press, shown')
    BY <1>0, <2>3 DEF PressOK
  <2>5. QED
    BY <2>1, <2>2, <2>4 DEF ButtonInv
<1>3. ASSUME UNCHANGED <<stored, shown, press>> PROVE ButtonInv'
  BY <1>0, <1>3 DEF ButtonInv, ShownOK, normalize_stored_actions
<1>4. CASE UNCHANGED buttonVars
  BY <1>3, <1>4 DEF buttonVars
<1>5. CASE ButtonNext
  <2>1. ASSUME NEW d, PublishDrafts(d) \/ PublishLegacy(d) PROVE ButtonInv'
    BY <1>1, <2>1 DEF PublishDrafts, PublishLegacy
  <2>2. ASSUME NEW n, input(n) \/ PlayerComesOrGoes \/ OtherAnswers PROVE ButtonInv'
    BY <1>3, <2>2 DEF input, PlayerComesOrGoes, OtherAnswers
  <2>3. QED
    BY <1>2, <1>5, <2>1, <2>2, FindStep, JoinStep, RespondStep DEF ButtonNext
<1>6. QED
  BY <1>4, <1>5

LEMMA ButtonStart == ButtonInit => ButtonInv
BY KindsApart DEF ButtonInit, ButtonInv, ShownOK, PressOK, NoPress

(* Whatever was stored, by this version or an older one, a button the      *)
(* inbox has shown is never dead when it is pressed (notifications/mod.rs: *)
(* 134-163, notifications/routes.rs:280-296).                              *)
THEOREM ButtonsStayAlive == ButtonSpec => []NoDeadButton
<1>1. ButtonInv => NoDeadButton
  BY DEF ButtonInv, PressOK, NoDeadButton
<1>2. QED
  BY <1>1, ButtonStart, ButtonStep, PTL DEF ButtonSpec

(***************************************************************************)
(* Tabs.  A request under way has passed the CSRF check with the cookies   *)
(* and the token it left with, and a principal is what these name; the two *)
(* cookies of the browser are of one session as long as both are there.    *)
(***************************************************************************)
Session(u) == 1..u \cup {None}
Cookies(u) == [access : Session(u), fresh : BOOLEAN, refresh : Session(u)]
Paired(c) == c.access # None => c.refresh = c.access
Sent(u) ==
    [pc : {"auth", "handle", "act", "found"}, kind : {"me", "change", "login", "refresh", "logout"},
     cookies : Cookies(u), bearer : Session(u), other : BOOLEAN, token : Session(u), from : Session(u),
     live : BOOLEAN, sid : Session(u)]
(* What the request left its page with. *)
LeftOK(p, r) ==
    /\ csrf_middleware(p, r) /\ Paired(r.cookies)
    /\ p \in Native => r.cookies = Empty /\ r.kind \in {"login", "change"} /\ r.bearer \in {None, r.from}
    /\ p \notin Native => r.bearer = None
    /\ p \notin Front => ~r.other
    /\ p \in Front => r.token = r.from
    /\ p \in Gate => r.kind = "login"
(* How far it has come. *)
PrincipalOK(r, u, A) ==
    /\ r.kind = "change" /\ extract_bearer_or_cookie(r) \in A => r.live
    /\ r.pc \in {"auth", "act"} <=> r.kind \in {"me", "change"}
    /\ r.pc = "act" => /\ Decodes(r) /\ r.sid = extract_bearer_or_cookie(r)
                       /\ r.kind = "change" => r.live
    /\ r.pc = "found" => /\ r.kind \in {"refresh", "logout"} /\ r.sid \in 1..u
                         /\ r.sid \in {r.cookies.refresh, r.cookies.access}
UnderwayOK(p, r, u, A) == r \in Sent(u) /\ LeftOK(p, r) /\ PrincipalOK(r, u, A)
AnsweredOK(r, u) ==
    /\ r = [pc |-> "answer", kind |-> r.kind, sid |-> r.sid]
    /\ r.sid \in Session(u) /\ (r.kind # "logout" => r.sid \in 1..u)
SentOK(p, r, u, A) == r = Idle \/ AnsweredOK(r, u) \/ UnderwayOK(p, r, u, A)
ActedOK(a) ==
    a # None => /\ a.page \notin Foreign
                /\ a.kind = "change" => a.live
                /\ (a.kind = "change" \/ a.checked) /\ ~a.other => a.sid = a.from
SessionsOK == used \in 0..MaxSessions /\ active \in SUBSET (1..used)
JarOK == jar \in Cookies(used) /\ Paired(jar)
ShowingOK == showing \in [Page -> Session(used)]
AllSentOK == sent = [p \in Page |-> sent[p]] /\ \A p \in Page : SentOK(p, sent[p], used, active)
TabInv == SessionsOK /\ JarOK /\ ShowingOK /\ AllSentOK /\ ActedOK(acted)

(* Sessions are only added, so what names a session goes on naming one.    *)
LEMMA SessionLater ==
    ASSUME NEW u \in Nat, NEW v \in {u, u + 1}
    PROVE  1..u \subseteq 1..v /\ Session(u) \subseteq Session(v) /\ Cookies(u) \subseteq Cookies(v)
<1>1. 1..u \subseteq 1..v /\ Session(u) \subseteq Session(v)
  BY DEF Session
<1>2. QED
  BY <1>1 DEF Cookies

LEMMA PrincipalIsSession ==
    ASSUME NEW u, NEW r \in Sent(u)
    PROVE  extract_bearer_or_cookie(r) \in Session(u)
BY DEF Sent, Cookies, extract_bearer_or_cookie

(* A request stays sound while sessions come, which it cannot name, and go. *)
LEMMA SentLater ==
    ASSUME NEW u \in Nat, NEW v \in {u, u + 1}, NEW A, NEW B, B \subseteq A \cup {u + 1},
           NEW p, NEW r, SentOK(p, r, u, A)
    PROVE  SentOK(p, r, v, B)
<1>0. 1..u \subseteq 1..v /\ Session(u) \subseteq Session(v) /\ Cookies(u) \subseteq Cookies(v)
  BY SessionLater
<1>1. CASE r = Idle
  BY <1>1 DEF SentOK
<1>2. CASE AnsweredOK(r, u)
  <2>1. AnsweredOK(r, v)
    BY <1>0, <1>2 DEF AnsweredOK
  <2>2. QED
    BY <2>1 DEF SentOK
<1>3. CASE UnderwayOK(p, r, u, A)
  <2>1. r \in Sent(u) /\ LeftOK(p, r) /\ PrincipalOK(r, u, A)
    BY <1>3 DEF UnderwayOK
  <2>2. Sent(u) \subseteq Sent(v)
    BY <1>0 DEF Sent
  <2>3. extract_bearer_or_cookie(r) \in Session(u)
    BY <2>1, PrincipalIsSession
  <2>4. extract_bearer_or_cookie(r) # u + 1
    BY <2>3, TabsAssumption DEF Session
  <2>5. PrincipalOK(r, v, B)
    BY <1>0, <2>1, <2>4 DEF PrincipalOK
  <2>6. QED
    BY <2>1, <2>2, <2>5 DEF SentOK, UnderwayOK
<1>4. QED
  BY <1>1, <1>2, <1>3 DEF SentOK

(* One page's request moves on. *)
LEMMA PageMoves ==
    ASSUME TabInv, NEW p \in Page, NEW r, UNCHANGED <<used, active>>,
           SentOK(p, r, used, active), sent' = [sent EXCEPT ![p] = r]
    PROVE  AllSentOK'
<1>1. /\ sent' = [q \in Page |-> sent'[q]]
      /\ \A q \in Page : sent'[q] = IF q = p THEN r ELSE sent[q]
  BY DEF TabInv, AllSentOK
<1>2. \A q \in Page : SentOK(q, sent'[q], used', active')
  BY <1>1 DEF TabInv, AllSentOK
<1>3. QED
  BY <1>1, <1>2 DEF AllSentOK

LEMMA SentStays ==
    ASSUME TabInv, used' \in {used, used + 1}, active' \subseteq active \cup {used + 1}, UNCHANGED sent
    PROVE  AllSentOK'
<1>0. used \in Nat /\ AllSentOK
  BY TabsAssumption DEF TabInv, SessionsOK
<1>1. ASSUME NEW q \in Page PROVE SentOK(q, sent[q], used', active')
  <2>1. SentOK(q, sent[q], used, active)
    BY <1>0 DEF AllSentOK
  <2>2. QED
    BY <1>0, <2>1, SentLater
<1>2. QED
  BY <1>0, <1>1 DEF AllSentOK

(* What the pages and the browser know when only the number of sessions    *)
(* may have grown.                                                         *)
LEMMA KnownLater ==
    ASSUME TabInv, used' \in {used, used + 1}
    PROVE  (UNCHANGED jar => JarOK') /\ (UNCHANGED showing => ShowingOK')
<1>0. used \in Nat /\ JarOK /\ ShowingOK
  BY TabsAssumption DEF TabInv, SessionsOK
<1>1. Session(used) \subseteq Session(used') /\ Cookies(used) \subseteq Cookies(used')
  BY <1>0, SessionLater
<1>2. QED
  BY <1>0, <1>1 DEF JarOK, ShowingOK

LEMMA ActedNothing == ActedOK(None)
BY DEF ActedOK

LEMMA PcsApart ==
    ASSUME NEW p, NEW r, NEW u, NEW A, SentOK(p, r, u, A)
    PROVE  /\ r.pc \in {"auth", "handle", "act", "found"} => UnderwayOK(p, r, u, A)
           /\ r.pc = "answer" => AnsweredOK(r, u)
<1>1. CASE r = Idle
  BY <1>1 DEF Idle
<1>2. CASE AnsweredOK(r, u)
  <2>1. r.pc = "answer"
    BY <1>2 DEF AnsweredOK
  <2>2. QED
    BY <1>2, <2>1
<1>3. CASE UnderwayOK(p, r, u, A)
  <2>1. r.pc \in {"auth", "handle", "act", "found"}
    BY <1>3 DEF UnderwayOK, Sent
  <2>2. QED
    BY <1>3, <2>1
<1>4. QED
  BY <1>1, <1>2, <1>3 DEF SentOK

(* What a page may ask for. *)
LEMMA KindsOfPages ==
    ASSUME NEW p \in Page, NEW kind \in Kinds(p)
    PROVE  /\ kind \in {"me", "change", "login", "refresh", "logout"}
           /\ p \in Native => kind \in {"login", "change"}
           /\ p \in Gate => kind = "login"
<1>1. CASE p \in Front
  BY <1>1, TabsAssumption DEF Kinds, Page
<1>2. CASE p \in Gate
  BY <1>2, TabsAssumption DEF Kinds, Page
<1>3. CASE p \in Foreign
  BY <1>3, TabsAssumption DEF Kinds, Page
<1>4. CASE p \in Native
  BY <1>4, TabsAssumption DEF Kinds, Page
<1>5. QED
  BY <1>1, <1>2, <1>3, <1>4 DEF Page

LEMMA SentRecord ==
    ASSUME NEW u, NEW pc \in {"auth", "handle", "act", "found"},
           NEW kind \in {"me", "change", "login", "refresh", "logout"}, NEW c \in Cookies(u),
           NEW b \in Session(u), NEW o \in BOOLEAN, NEW t \in Session(u), NEW f \in Session(u), NEW live \in BOOLEAN, NEW s \in Session(u)
    PROVE  [pc |-> pc, kind |-> kind, cookies |-> c, bearer |-> b, other |-> o, token |-> t, from |-> f,
            live |-> live, sid |-> s] \in Sent(u)
BY DEF Sent

(* A request as it leaves its page. *)
LEMMA RequestSound ==
    ASSUME TabInv, NEW p \in Page, NEW kind \in Kinds(p), csrf_middleware(p, Request(p, kind))
    PROVE  UnderwayOK(p, Request(p, kind), used, active)
<1> DEFINE r == Request(p, kind)
           o == p \in Proxied
           pc == IF kind \in {"me", "change"} THEN "auth" ELSE "handle"
           c == IF p \in Native THEN Empty ELSE jar
           b == IF p \in Native /\ kind # "login" THEN showing[p] ELSE None
           t == IF p \in Front THEN showing[p] ELSE None
           live == kind = "change" /\ (IF p \in Native THEN showing[p] ELSE jar.access) \in active
<1>0. SessionsOK /\ JarOK /\ showing[p] \in Session(used) /\ None \in Session(used) /\ used \in Nat
  BY TabsAssumption DEF TabInv, ShowingOK, SessionsOK, Session
<1>1. None \notin active
  <2>1. active \subseteq Nat
    BY <1>0 DEF SessionsOK
  <2>2. QED
    BY <2>1, TabsAssumption
<1>2. Empty \in Cookies(used) /\ Empty.access = None
  BY <1>0 DEF Empty, Cookies
<1>3. Paired(Empty) /\ c \in Cookies(used) /\ Paired(c)
  BY <1>0, <1>2 DEF Paired, JarOK
<1>4. /\ r = [pc |-> pc, kind |-> kind, cookies |-> c, bearer |-> b, other |-> o, token |-> t,
              from |-> showing[p],
              live |-> live, sid |-> None]
      /\ o \in BOOLEAN /\ (p \notin Front => ~o)
  BY TabsAssumption DEF Request
<1>5. b \in Session(used) /\ t \in Session(used) /\ live \in BOOLEAN /\ pc \in {"auth", "handle", "act", "found"}
  BY <1>0
<1>6. /\ kind \in {"me", "change", "login", "refresh", "logout"}
      /\ p \in Native => kind \in {"login", "change"}
      /\ p \in Gate => kind = "login"
  BY KindsOfPages
<1>7. r.pc = pc /\ r.kind = kind /\ r.cookies = c /\ r.bearer = b /\ r.other = o /\ r.token = t /\ r.from = showing[p]
  BY <1>4
<1>8. r.live = live
  BY <1>4
<1>9. (r.kind = "change" /\ extract_bearer_or_cookie(r) \in active) => live
  BY <1>1, <1>2, <1>7 DEF extract_bearer_or_cookie
<1>10. pc \in {"auth", "act"} <=> kind \in {"me", "change"}
  OBVIOUS
<1>11. pc # "act" /\ pc # "found"
  OBVIOUS
<1>12. c = Empty \/ p \notin Native
  OBVIOUS
<1>13. b \in {None, showing[p]} /\ (p \notin Native => b = None) /\ (p \in Front => t = showing[p])
  OBVIOUS
<1> HIDE DEF pc, c, b, o, t, live
<1>14. r \in Sent(used)
  BY <1>0, <1>3, <1>4, <1>5, <1>6, SentRecord
<1> HIDE DEF r
<1>15. LeftOK(p, r)
  BY <1>3, <1>4, <1>6, <1>7, <1>12, <1>13 DEF LeftOK, r
<1>16. PrincipalOK(r, used, active)
  BY <1>7, <1>8, <1>9, <1>10, <1>11 DEF PrincipalOK
<1>17. QED
  BY <1>14, <1>15, <1>16 DEF UnderwayOK, r

LEMMA SendStep ==
    ASSUME TabInv, NEW p \in Page, NEW kind \in Kinds(p), Send(p, kind)
    PROVE  TabInv'
<1> DEFINE r == IF csrf_middleware(p, Request(p, kind)) THEN Request(p, kind) ELSE Idle
<1>1. sent' = [sent EXCEPT ![p] = r] /\ acted' = None /\ UNCHANGED <<jar, active, used, showing>>
  BY DEF Send
<1>2. SentOK(p, r, used, active)
  BY RequestSound DEF SentOK
<1> HIDE DEF r
<1>3. AllSentOK'
  BY <1>1, <1>2, PageMoves
<1>4. JarOK' /\ ShowingOK'
  BY <1>1, KnownLater
<1>5. QED
  BY <1>1, <1>3, <1>4, ActedNothing DEF TabInv, SessionsOK

(* A request that has found its principal is the one that was checked.    *)
LEMMA LeftStays ==
    ASSUME NEW p, NEW r, NEW q, LeftOK(p, r), q.kind = r.kind, q.cookies = r.cookies, q.bearer = r.bearer,
           q.other = r.other, q.token = r.token, q.from = r.from
    PROVE  /\ LeftOK(p, q) /\ extract_bearer_or_cookie(q) = extract_bearer_or_cookie(r)
           /\ Decodes(q) <=> Decodes(r)
BY DEF LeftOK, csrf_middleware, is_state_changing, uses_cookie_auth, authorization, decode_access, extract_bearer_or_cookie, Decodes

LEMMA PrincipalStep ==
    ASSUME TabInv, NEW p \in Page, from_request_parts(p)
    PROVE  TabInv'
<1> DEFINE r == sent[p]
           s == extract_bearer_or_cookie(r)
           q == [r EXCEPT !.pc = "act", !.sid = s]
           x == IF Decodes(r) /\ s \in active THEN q ELSE Idle
<1>0. SentOK(p, r, used, active) /\ r.pc = "auth"
  BY DEF TabInv, AllSentOK, from_request_parts
<1>1. sent' = [sent EXCEPT ![p] = x] /\ acted' = None /\ UNCHANGED <<jar, active, used, showing>>
  BY DEF from_request_parts
<1>2. r \in Sent(used) /\ LeftOK(p, r) /\ PrincipalOK(r, used, active)
  BY <1>0, PcsApart DEF UnderwayOK
<1>3. ASSUME Decodes(r), s \in active PROVE UnderwayOK(p, q, used, active)
  <2> HIDE DEF r
  <2>1. s \in Session(used)
    BY <1>2, PrincipalIsSession
  <2> HIDE DEF s
  <2>a. PICK pc \in {"act", "found"} : pc = "act" /\ q = [r EXCEPT !.pc = pc, !.sid = s]
    OBVIOUS
  <2> HIDE DEF q
  <2>2. /\ q \in Sent(used) /\ q.pc = "act" /\ q.sid = s /\ q.kind = r.kind /\ q.cookies = r.cookies
        /\ q.bearer = r.bearer /\ q.other = r.other /\ q.token = r.token /\ q.from = r.from /\ q.live = r.live
    BY <1>2, <2>1, <2>a DEF Sent
  <2>3. LeftOK(p, q) /\ extract_bearer_or_cookie(q) = s /\ Decodes(q)
    BY <1>2, <1>3, <2>2, LeftStays DEF s
  <2>4. r.kind \in {"me", "change"} /\ (r.kind = "change" => r.live)
    BY <1>0, <1>2, <1>3 DEF PrincipalOK, s, r
  <2>5. PrincipalOK(q, used, active)
    BY <2>2, <2>3, <2>4 DEF PrincipalOK
  <2>6. QED
    BY <2>2, <2>3, <2>5 DEF UnderwayOK
<1>4. SentOK(p, x, used, active)
  BY <1>3 DEF SentOK
<1> HIDE DEF x
<1>5. AllSentOK'
  BY <1>1, <1>4, PageMoves
<1>6. JarOK' /\ ShowingOK'
  BY <1>1, KnownLater
<1>7. QED
  BY <1>1, <1>5, <1>6, ActedNothing DEF TabInv, SessionsOK

(* Whoever acts was checked: the access cookie is of the session the page  *)
(* shows, and where it is gone or stale only the origin is known.          *)
LEMMA ActedSound ==
    ASSUME NEW p \in Page, NEW r, NEW u \in Nat, NEW A, UnderwayOK(p, r, u, A),
           \/ r.pc = "act" /\ r.kind = "change"
           \/ r.pc = "found"
    PROVE  /\ p \notin Foreign
           /\ r.kind = "change" => r.live
           /\ (r.kind = "change" \/ decode_access(r)) /\ ~r.other => r.sid = r.from
<1>0. r \in Sent(u) /\ LeftOK(p, r) /\ PrincipalOK(r, u, A)
  BY DEF UnderwayOK
<1>1. Empty.access = None
  BY DEF Empty
<1>2. is_state_changing(r.kind) /\ p \notin Gate
  BY <1>0 DEF is_state_changing, PrincipalOK, LeftOK
<1>3. decode_access(r) /\ ~r.other =>
        p \in Front /\ r.token = r.cookies.access /\ r.cookies.refresh = r.cookies.access
  <2> SUFFICES ASSUME decode_access(r), ~r.other
               PROVE  p \in Front /\ r.token = r.cookies.access /\ r.cookies.refresh = r.cookies.access
    OBVIOUS
  <2>1. p \notin Native /\ r.cookies.access # None
    BY <1>0, <1>1 DEF LeftOK, decode_access
  <2>2. uses_cookie_auth(r)
    BY <1>0, <2>1 DEF LeftOK, uses_cookie_auth, authorization
  <2>3. origin_allowed(p) /\ r.token = csrf_token_for(r.cookies.access)
    BY <1>0, <1>2, <2>2 DEF LeftOK, csrf_middleware
  <2>4. QED
    BY <1>0, <1>2, <2>1, <2>3 DEF LeftOK, Paired, origin_allowed, csrf_token_for, Page
<1>31. CASE r.other
  <2>1. p \in Front /\ p \notin Foreign
    BY <1>0, <1>31, TabsAssumption DEF LeftOK
  <2>2. r.kind = "change" => r.live
    BY <1>0 DEF PrincipalOK
  <2>3. QED
    BY <1>31, <2>1, <2>2
<1>4. CASE r.pc = "act" /\ r.kind = "change" /\ ~r.other
  <2>1. Decodes(r) /\ r.sid = extract_bearer_or_cookie(r) /\ r.live
    BY <1>0, <1>4 DEF PrincipalOK
  <2>2. CASE decode_access(r)
    <3>1. r.bearer = None /\ r.token = r.from
      BY <1>0, <1>3, <1>4, <2>2, TabsAssumption DEF LeftOK
    <3>2. r.sid = r.cookies.access /\ p \notin Foreign
      BY <1>3, <1>4, <2>1, <2>2, <3>1, TabsAssumption DEF extract_bearer_or_cookie
    <3>3. QED
      BY <1>3, <1>4, <2>1, <2>2, <3>1, <3>2
  <2>3. CASE ~decode_access(r)
    <3>1. r.bearer # None
      BY <2>1, <2>3 DEF Decodes
    <3>2. p \in Native /\ r.bearer = r.from
      BY <1>0, <3>1 DEF LeftOK
    <3>3. QED
      BY <2>1, <2>3, <3>1, <3>2, TabsAssumption DEF extract_bearer_or_cookie
  <2>4. QED
    BY <2>2, <2>3
<1>5. CASE r.pc = "found" /\ ~r.other
  <2>1. r.kind \in {"refresh", "logout"} /\ r.sid \in 1..u /\ r.sid \in {r.cookies.refresh, r.cookies.access}
    BY <1>0, <1>5 DEF PrincipalOK
  <2>2. r.sid # None
    BY <2>1, TabsAssumption
  <2>3. p \notin Native /\ r.bearer = None
    BY <1>0, <2>1 DEF LeftOK
  <2>4. uses_cookie_auth(r)
    BY <1>5, <2>1, <2>2, <2>3 DEF uses_cookie_auth, authorization
  <2>5. p \notin Foreign
    BY <1>0, <1>2, <2>4 DEF LeftOK, csrf_middleware, origin_allowed
  <2>6. decode_access(r) => r.sid = r.from
    BY <1>0, <1>3, <1>5, <2>1 DEF LeftOK
  <2>7. QED
    BY <2>1, <2>5, <2>6
<1>6. QED
  BY <1>0, <1>31, <1>4, <1>5 DEF Sent

LEMMA DidSound ==
    ASSUME TabInv, NEW p \in Page, Did(p, sent[p].sid),
           \/ Serves(p, "act", "change")
           \/ sent[p].pc = "found"
    PROVE  ActedOK(acted')
<1> DEFINE r == sent[p]
<1>0. SentOK(p, r, used, active) /\ used \in Nat
  BY TabsAssumption DEF TabInv, AllSentOK, SessionsOK
<1>1. UnderwayOK(p, r, used, active)
  BY <1>0, PcsApart DEF Serves
<1>2. r.live \in BOOLEAN
  BY <1>1 DEF UnderwayOK, Sent
<1>3. (r.pc = "act" /\ r.kind = "change") \/ r.pc = "found"
  BY DEF Serves
<1> HIDE DEF r
<1>4. /\ p \notin Foreign
      /\ r.kind = "change" => r.live
      /\ (r.kind = "change" \/ decode_access(r)) /\ ~r.other => r.sid = r.from
  BY <1>0, <1>1, <1>3, ActedSound
<1>5. acted' = [page |-> p, kind |-> r.kind, sid |-> r.sid, from |-> r.from,
                live |-> r.live, checked |-> decode_access(r), other |-> r.other]
  BY DEF Did, r
<1>6. /\ acted'.page = p /\ acted'.kind = r.kind /\ acted'.sid = r.sid /\ acted'.from = r.from
      /\ acted'.live = r.live /\ acted'.checked = decode_access(r) /\ acted'.other = r.other
  BY <1>5
<1>7. QED
  BY <1>4, <1>6 DEF ActedOK

LEMMA AnswerSound ==
    ASSUME NEW p, NEW u, NEW A, NEW kind, NEW s \in Session(u), kind # "logout" => s \in 1..u
    PROVE  SentOK(p, [pc |-> "answer", kind |-> kind, sid |-> s], u, A)
BY DEF SentOK, AnsweredOK

LEMMA IdleSound ==
    ASSUME NEW p, NEW u, NEW A
    PROVE  SentOK(p, Idle, u, A)
BY DEF SentOK

LEMMA EndsSound ==
    ASSUME TabInv, NEW p \in Page, Ends(p), UNCHANGED <<used, active>>
    PROVE  AllSentOK'
BY IdleSound, PageMoves DEF Ends

LEMMA RepliesSound ==
    ASSUME TabInv, NEW p \in Page, NEW s \in Session(used'), sent[p].kind # "logout" => s \in 1..used',
           Replies(p, s), used' \in {used, used + 1}, active' \subseteq active \cup {used + 1}
    PROVE  AllSentOK'
<1> DEFINE r == [pc |-> "answer", kind |-> sent[p].kind, sid |-> s]
<1>1. SentOK(p, r, used', active')
  BY AnswerSound
<1>2. sent' = [sent EXCEPT ![p] = r]
  BY DEF Replies
<1> HIDE DEF r
<1>3. used \in Nat /\ AllSentOK
  BY TabsAssumption DEF TabInv, SessionsOK
<1>4. /\ sent' = [q \in Page |-> sent'[q]]
      /\ \A q \in Page : sent'[q] = IF q = p THEN r ELSE sent[q]
  BY <1>2, <1>3 DEF AllSentOK
<1>5. ASSUME NEW q \in Page PROVE SentOK(q, sent[q], used', active')
  <2>1. SentOK(q, sent[q], used, active)
    BY <1>3 DEF AllSentOK
  <2>2. QED
    BY <1>3, <2>1, SentLater
<1>6. \A q \in Page : SentOK(q, sent'[q], used', active')
  BY <1>1, <1>4, <1>5
<1>7. QED
  BY <1>4, <1>6 DEF AllSentOK

(* A refresh or a logout finds the session its cookies name.               *)
LEMMA FindsSound ==
    ASSUME TabInv, NEW p \in Page, sent[p].pc = "handle", sent[p].kind \in {"refresh", "logout"},
           NEW s \in 1..used, s \in {sent[p].cookies.refresh, sent[p].cookies.access},
           Finds(p, s), UNCHANGED <<used, active>>
    PROVE  AllSentOK'
<1> DEFINE r == sent[p]
           q == [r EXCEPT !.pc = "found", !.sid = s]
<1>0. SentOK(p, r, used, active) /\ sent = [x \in Page |-> sent[x]]
  BY DEF TabInv, AllSentOK
<1>1. r \in Sent(used) /\ LeftOK(p, r) /\ PrincipalOK(r, used, active) /\ s \in Session(used)
  BY <1>0, PcsApart DEF UnderwayOK, Session
<1>2. sent' = [sent EXCEPT ![p] = q]
  BY <1>0 DEF Finds
<1> HIDE DEF r
<1>3. PICK pc \in {"act", "found"} : pc = "found" /\ q = [r EXCEPT !.pc = pc, !.sid = s]
  OBVIOUS
<1> HIDE DEF q
<1>4. /\ q \in Sent(used) /\ q.pc = "found" /\ q.sid = s /\ q.kind = r.kind /\ q.cookies = r.cookies
      /\ q.bearer = r.bearer /\ q.other = r.other /\ q.token = r.token /\ q.from = r.from /\ q.live = r.live
  BY <1>1, <1>3 DEF Sent
<1>5. LeftOK(p, q) /\ extract_bearer_or_cookie(q) = extract_bearer_or_cookie(r)
  BY <1>1, <1>4, LeftStays
<1>6. PrincipalOK(q, used, active)
  BY <1>1, <1>4, <1>5 DEF PrincipalOK, r
<1>7. SentOK(p, q, used, active)
  BY <1>4, <1>5, <1>6 DEF SentOK, UnderwayOK
<1>8. QED
  BY <1>2, <1>7, PageMoves

LEMMA RouteStep ==
    ASSUME TabInv, NEW p \in Page, Change(p) \/ refresh(p) \/ RefreshRotate(p) \/ logout(p) \/ LogoutRevoke(p)
    PROVE  TabInv'
<1> DEFINE r == sent[p]
<1>0. /\ SentOK(p, r, used, active) /\ SessionsOK /\ used \in Nat /\ None \in Session(used)
      /\ UNCHANGED <<jar, used, showing>>
  BY TabsAssumption DEF TabInv, AllSentOK, SessionsOK, Session, Change, refresh, RefreshRotate, logout, LogoutRevoke
<1>1. JarOK' /\ ShowingOK' /\ used' \in {used, used + 1}
  BY <1>0, KnownLater
<1>2. r.pc = "found" => r.sid \in 1..used /\ r.sid \in Session(used)
  BY <1>0, PcsApart DEF UnderwayOK, PrincipalOK, Session
<1>3. CASE Change(p)
  <2>1. ActedOK(acted')
    BY <1>3, DidSound DEF Change
  <2>2. AllSentOK'
    BY <1>3, EndsSound DEF Change
  <2>3. QED
    BY <1>0, <1>1, <1>3, <2>1, <2>2 DEF TabInv, SessionsOK, Change
<1>4. CASE refresh(p)
  <2>1. r.pc = "handle" /\ r.kind = "refresh" /\ acted' = None /\ active' = active
    BY <1>4 DEF refresh, Serves
  <2>2. AllSentOK'
    <3>1. CASE r.cookies.refresh \in active /\ Finds(p, r.cookies.refresh)
      <4>1. r.cookies.refresh \in 1..used
        BY <1>0, <3>1 DEF SessionsOK
      <4>2. QED
        BY <1>0, <2>1, <3>1, <4>1, FindsSound
    <3>2. CASE Ends(p)
      BY <1>0, <2>1, <3>2, EndsSound
    <3>3. QED
      BY <1>4, <3>1, <3>2 DEF refresh
  <2>3. QED
    BY <1>0, <1>1, <2>1, <2>2, ActedNothing DEF TabInv, SessionsOK
<1>5. CASE RefreshRotate(p)
  <2>1. r.pc = "found" /\ active' = active /\ Did(p, r.sid) /\ Replies(p, r.sid)
    BY <1>5 DEF RefreshRotate, Serves
  <2>2. ActedOK(acted')
    BY <2>1, DidSound
  <2>3. AllSentOK'
    BY <1>0, <1>1, <1>2, <2>1, RepliesSound
  <2>4. QED
    BY <1>0, <1>1, <2>1, <2>2, <2>3 DEF TabInv, SessionsOK
<1>6. CASE logout(p)
  <2>1. r.pc = "handle" /\ r.kind = "logout" /\ acted' = None /\ active' = active
    BY <1>6 DEF logout, Serves
  <2>2. AllSentOK'
    <3>1. CASE r.cookies.refresh \in active /\ Finds(p, r.cookies.refresh)
      <4>1. r.cookies.refresh \in 1..used
        BY <1>0, <3>1 DEF SessionsOK
      <4>2. QED
        BY <1>0, <2>1, <3>1, <4>1, FindsSound
    <3>2. CASE Replies(p, None)
      BY <1>0, <1>1, <2>1, <3>2, RepliesSound
    <3>3. CASE decode_access(r) /\ Finds(p, r.cookies.access)
      <4>1. r.cookies.access \in Session(used) /\ r.cookies.access # None
        BY <1>0, <2>1, <3>3, PcsApart DEF decode_access, UnderwayOK, Sent, Cookies
      <4>2. r.cookies.access \in 1..used
        BY <4>1 DEF Session
      <4>3. QED
        BY <1>0, <2>1, <3>3, <4>2, FindsSound
    <3>4. QED
      BY <1>6, <3>1, <3>2, <3>3 DEF logout
  <2>3. QED
    BY <1>0, <1>1, <2>1, <2>2, ActedNothing DEF TabInv, SessionsOK
<1>7. CASE LogoutRevoke(p)
  <2>1. /\ r.pc = "found" /\ r.kind = "logout" /\ active' \subseteq active
        /\ Did(p, r.sid) /\ Replies(p, None)
    BY <1>7 DEF LogoutRevoke, Serves
  <2>2. ActedOK(acted')
    BY <2>1, DidSound
  <2>3. AllSentOK'
    BY <1>0, <1>1, <2>1, RepliesSound
  <2>4. QED
    BY <1>0, <1>1, <2>1, <2>2, <2>3 DEF TabInv, SessionsOK
<1>8. QED
  BY <1>3, <1>4, <1>5, <1>6, <1>7

LEMMA LoginStep ==
    ASSUME TabInv, NEW p \in Page, issue_session_and_jwt(p)
    PROVE  TabInv'
<1> DEFINE s == used + 1
<1>0. /\ used < MaxSessions /\ used' = s /\ active' = active \cup {s} /\ Replies(p, s)
      /\ acted' = None /\ UNCHANGED <<jar, showing>> /\ SessionsOK /\ used \in Nat
  BY TabsAssumption DEF TabInv, SessionsOK, issue_session_and_jwt
<1>1. SessionsOK'
  BY <1>0, TabsAssumption DEF SessionsOK
<1>2. s \in 1..used' /\ s \in Session(used') /\ used' \in {used, used + 1}
  BY <1>0 DEF Session
<1>3. JarOK' /\ ShowingOK'
  BY <1>0, <1>2, KnownLater
<1>4. AllSentOK'
  BY <1>0, <1>2, RepliesSound
<1>5. QED
  BY <1>0, <1>1, <1>3, <1>4, ActedNothing DEF TabInv

LEMMA CookieFacts ==
    ASSUME NEW u, NEW s \in Session(u), NEW b \in BOOLEAN
    PROVE  LET c == [access |-> s, fresh |-> b, refresh |-> s] IN c \in Cookies(u) /\ Paired(c)
BY DEF Cookies, Paired

(* The answer reaches its page, or GET /me shows its session. *)
LEMMA ResponseStep ==
    ASSUME TabInv, NEW p \in Page, auth_response(p) \/ me(p)
    PROVE  TabInv'
<1> DEFINE r == sent[p]
<1>0. /\ SentOK(p, r, used, active) /\ None \in Session(used) /\ JarOK /\ ShowingOK
      /\ Ends(p) /\ acted' = None /\ UNCHANGED <<active, used>>
  BY DEF TabInv, AllSentOK, Session, auth_response, me
<1>1. AllSentOK'
  BY <1>0, EndsSound
<1>2. CASE auth_response(p)
  <2>1. AnsweredOK(r, used)
    BY <1>0, <1>2, PcsApart DEF auth_response
  <2>2. r.sid \in Session(used)
    BY <2>1 DEF AnsweredOK
  <2>3. clear_cookie \in Cookies(used) /\ Paired(clear_cookie)
    BY <1>0, CookieFacts DEF clear_cookie, Empty
  <2>4. issue_cookies(r.sid) \in Cookies(used) /\ Paired(issue_cookies(r.sid))
    BY <2>2, CookieFacts DEF issue_cookies
  <2>5. jar' \in {jar, clear_cookie, issue_cookies(r.sid)}
    BY <1>2 DEF auth_response
  <2>6. JarOK'
    BY <1>0, <2>3, <2>4, <2>5 DEF JarOK
  <2>7. ShowingOK'
    BY <1>0, <1>2, <2>2 DEF auth_response, ShowingOK
  <2>8. QED
    BY <1>0, <1>1, <2>6, <2>7, ActedNothing DEF TabInv, SessionsOK
<1>3. CASE me(p)
  <2>1. r.pc = "act" /\ UNCHANGED jar /\ showing' = [showing EXCEPT ![p] = r.sid]
    BY <1>3 DEF me, Serves
  <2>2. r.sid \in Session(used)
    BY <1>0, <2>1, PcsApart DEF UnderwayOK, Sent
  <2>3. ShowingOK'
    BY <1>0, <2>1, <2>2 DEF ShowingOK
  <2>4. JarOK'
    BY <1>0, <2>1 DEF JarOK
  <2>5. QED
    BY <1>0, <1>1, <2>3, <2>4, ActedNothing DEF TabInv, SessionsOK
<1>4. QED
  BY <1>2, <1>3

LEMMA ExpiryOfCookies ==
    ASSUME NEW u, NEW c \in Cookies(u), Paired(c), None \in Session(u), NEW b \in BOOLEAN
    PROVE  /\ [c EXCEPT !.fresh = b] \in Cookies(u) /\ Paired([c EXCEPT !.fresh = b])
           /\ [c EXCEPT !.access = None, !.fresh = b] \in Cookies(u)
           /\ Paired([c EXCEPT !.access = None, !.fresh = b])
BY DEF Cookies, Paired

LEMMA TimeStep ==
    ASSUME TabInv, AccessExpires \/ \E s \in active : Revoked(s)
    PROVE  TabInv'
<1>0. /\ SessionsOK /\ JarOK /\ None \in Session(used)
      /\ acted' = None /\ UNCHANGED <<used, showing, sent>> /\ active' \subseteq active
  BY DEF TabInv, Session, AccessExpires, Revoked
<1>1. AllSentOK'
  BY <1>0, SentStays
<1>2. JarOK'
  <2>1. CASE UNCHANGED jar
    BY <1>0, <2>1 DEF JarOK
  <2>2. CASE AccessExpires
    <3>1. PICK b \in BOOLEAN : jar' = [jar EXCEPT !.fresh = b] \/ jar' = [jar EXCEPT !.access = None, !.fresh = b]
      BY <2>2 DEF AccessExpires
    <3>2. QED
      BY <1>0, <3>1, ExpiryOfCookies DEF JarOK
  <2>3. QED
    BY <2>1, <2>2 DEF Revoked
<1>3. ShowingOK'
  BY <1>0 DEF TabInv, ShowingOK
<1>4. QED
  BY <1>0, <1>1, <1>2, <1>3, ActedNothing DEF TabInv, SessionsOK

LEMMA TabStep == TabInv /\ [TabNext]_tabVars => TabInv'
<1> SUFFICES ASSUME TabInv, [TabNext]_tabVars PROVE TabInv'
  OBVIOUS
<1>1. CASE UNCHANGED tabVars
  BY <1>1 DEF tabVars, TabInv, SessionsOK, JarOK, ShowingOK, AllSentOK
<1>2. CASE TabNext
  BY <1>2, TimeStep, SendStep, PrincipalStep, RouteStep, LoginStep, ResponseStep DEF TabNext
<1>3. QED
  BY <1>1, <1>2

LEMMA TabStart == TabInit => TabInv
<1> SUFFICES ASSUME TabInit PROVE TabInv
  OBVIOUS
<1>1. used = 0 /\ active = {} /\ None \in Session(used)
  BY DEF TabInit, Session
<1>2. SessionsOK
  BY <1>1, TabsAssumption DEF SessionsOK
<1>3. JarOK
  BY <1>1, CookieFacts DEF TabInit, JarOK, Empty
<1>4. ShowingOK
  BY <1>1 DEF TabInit, ShowingOK
<1>5. AllSentOK
  BY IdleSound DEF TabInit, AllSentOK
<1>6. QED
  BY <1>2, <1>3, <1>4, <1>5, ActedNothing DEF TabInit, TabInv

(* However the pages of a browser overtake one another with logins,        *)
(* refreshes and logouts, none of them acts under a session it does not    *)
(* show, unless its requests carry an Authorization header that is not     *)
(* Bearer, and no other site acts at all (middleware/csrf.rs:67, 83-130,   *)
(* middleware/auth.rs:19-57, auth/routes.rs:385-494).                      *)
THEOREM PagesActAsShown == TabSpec => []ActsAsShown
<1>1. TabInv => ActsAsShown
  <2> SUFFICES ASSUME TabInv PROVE ActsAsShown
    OBVIOUS
  <2>1. SessionsOK /\ JarOK /\ ShowingOK /\ ActedOK(acted)
    BY DEF TabInv
  <2>2. jar.access \in Session(used) /\ jar.refresh \in Session(used)
    BY <2>1 DEF JarOK, Cookies
  <2>3. TabTypeOK
    BY <2>1, <2>2 DEF TabTypeOK, SessionsOK, ShowingOK, Session
  <2>4. QED
    BY <2>1, <2>3 DEF ActsAsShown, ActedOK
<1>2. QED
  BY <1>1, TabStart, TabStep, PTL DEF TabSpec
=============================================================================
