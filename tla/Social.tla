------------------------------- MODULE Social -------------------------------
(***************************************************************************)
(* Friend requests, friendships, blocks and room invitations: the handlers *)
(* of social/routes.rs over the tables friend_requests, friendships and    *)
(* user_blocks.  A handler reads, then decides, then writes, with an await *)
(* between any two statements; only the write of a request with its inbox  *)
(* event, and the answer with its friendship, are transactions.            *)
(*                                                                         *)
(* Users are numbers because normalize_pair orders them.  A call refused   *)
(* before its first read (root, rate limit, unknown user) changes nothing  *)
(* and is not a step.  Push delivery is module Notifications.              *)
(***************************************************************************)
EXTENDS Naturals, Requests

CONSTANT User    \* user ids, ordered
ASSUME SocialAssumption == User \subseteq Nat

VARIABLES
    request,   \* friend_requests.status, per <<from, to>>
    friends,   \* friendships, as normalized pairs
    blocks,    \* user_blocks, as <<blocker, blocked>>
    noticed,   \* requests with an inbox event, as <<from, to>>
    invited,   \* room invitations in an inbox, as <<from, to>>
    task,      \* what every handler does
    agreed     \* history: <<from, u>> where u accepted the request of from

socialVars == <<request, friends, blocks, noticed, invited, task, agreed>>
tables == <<request, friends, blocks, noticed, invited, agreed>>

Pair == {p \in User \X User : p[1] # p[2]}
Answer == {"accepted", "declined"}

SocialInit ==
    /\ request = [p \in Pair |-> "none"]
    /\ friends = {}
    /\ blocks = {}
    /\ noticed = {}
    /\ invited = {}
    /\ task = [h \in Handler |-> Idle]
    /\ agreed = {}

-----------------------------------------------------------------------------
normalize_pair(a, b) == IF a < b THEN <<a, b>> ELSE <<b, a>>
are_friends(a, b) == normalize_pair(a, b) \in friends
is_blocked(a, b) == <<a, b>> \in blocks \/ <<b, a>> \in blocks
list_friends(u) ==
    {p[2] : p \in {q \in friends : q[1] = u}}
        \cup {p[1] : p \in {q \in friends : q[2] = u}}
list_requests_for_user(u) ==
    {p \in Pair : request[p] # "none" /\ u \in {p[1], p[2]}}

Begin(h, op, by, p, pc) ==
    /\ task[h] = Idle
    /\ task' = [task EXCEPT ![h] = [op |-> op, by |-> by, pair |-> p, pc |-> pc]]
At(h, op, pc) == task[h].pc = pc /\ task[h].op = op
Goto(h, pc) == task' = [task EXCEPT ![h].pc = pc]
Finish(h) == task' = [task EXCEPT ![h] = Idle]

-----------------------------------------------------------------------------
(* POST /friends/requests.                                                 *)

\* The route's check of blocks; a block ends the call there.
SendBegin(h, a, b) ==
    /\ ~is_blocked(a, b)
    /\ Begin(h, "send", a, <<a, b>>, "friends?")
    /\ UNCHANGED tables

SendCheckFriends(h) ==
    /\ At(h, "send", "friends?")
    /\ IF are_friends(task[h].pair[1], task[h].pair[2]) THEN Finish(h) ELSE Goto(h, "insert")
    /\ UNCHANGED tables

\* The request and its event are one transaction.  A row of any status,
\* answered ones included, makes the insert do nothing (AlreadySent).
SendInsertAgain(h) ==
    LET p == task[h].pair IN
    /\ At(h, "send", "insert")
    /\ request' = [request EXCEPT ![p] = "pending"]
    /\ noticed' = noticed \cup {p}
    /\ Finish(h)
    /\ UNCHANGED <<friends, blocks, invited, agreed>>
SendInsert(h) ==
    LET p == task[h].pair IN
    /\ At(h, "send", "insert")
    /\ IF request[p] = "none"
       THEN /\ request' = [request EXCEPT ![p] = "pending"]
            /\ noticed' = noticed \cup {p}
       ELSE UNCHANGED <<request, noticed>>
    /\ Finish(h)
    /\ UNCHANGED <<friends, blocks, invited, agreed>>

-----------------------------------------------------------------------------
(* Accept and reject, from the route or from a button of the inbox event.  *)

\* The request is read, its addressee and its status are checked.
RespondBeginAnyone(h, a, b, by, answer) ==
    /\ by \in {a, b}
    /\ request[<<a, b>>] = "pending"
    /\ Begin(h, answer, by, <<a, b>>, "commit")
    /\ UNCHANGED tables
RespondBegin(h, a, b, by, answer) ==
    /\ by = b
    /\ request[<<a, b>>] = "pending"
    /\ Begin(h, answer, by, <<a, b>>, "commit")
    /\ UNCHANGED tables

respond_accept(h, a, b, by) == RespondBegin(h, a, b, by, "accepted")
respond_reject(h, a, b, by) == RespondBegin(h, a, b, by, "declined")

\* The transaction writes the status whatever it is by now.
RespondCommit(h) ==
    LET p == task[h].pair IN
    /\ \E answer \in Answer : At(h, answer, "commit")
    /\ request' = [request EXCEPT ![p] = task[h].op]
    /\ IF task[h].op = "accepted"
       THEN /\ friends' = friends \cup {normalize_pair(p[1], p[2])}
            /\ agreed' = agreed \cup {<<p[1], task[h].by>>}
       ELSE UNCHANGED <<friends, agreed>>
    /\ Finish(h)
    /\ UNCHANGED <<blocks, noticed, invited>>

-----------------------------------------------------------------------------
(* POST /friends/{id}/remove and POST /users/{id}/block.                   *)

RemoveFriend(a, b) ==
    /\ are_friends(a, b)
    /\ friends' = friends \ {normalize_pair(a, b)}
    /\ UNCHANGED <<request, blocks, noticed, invited, task, agreed>>
friend_remove(a, b) == RemoveFriend(a, b)

BlockInsert(h, a, b) ==
    /\ blocks' = blocks \cup {<<a, b>>}
    /\ Begin(h, "block", a, <<a, b>>, "remove")
    /\ UNCHANGED <<request, friends, noticed, invited, agreed>>

block(h, a, b) == BlockInsert(h, a, b)

\* The friendship is removed by a second statement whose error is ignored.
BlockRemove(h) ==
    /\ At(h, "block", "remove")
    /\ \/ friends' = friends \ {normalize_pair(task[h].pair[1], task[h].pair[2])}
       \/ UNCHANGED friends
    /\ Finish(h)
    /\ UNCHANGED <<request, blocks, noticed, invited, agreed>>

-----------------------------------------------------------------------------
(* POST /friends/{id}/room-invite.                                         *)

InviteBegin(h, a, b) ==
    /\ are_friends(a, b)
    /\ Begin(h, "invite", a, <<a, b>>, "blocked?")
    /\ UNCHANGED tables

InviteCheckBlock(h) ==
    /\ At(h, "invite", "blocked?")
    /\ IF is_blocked(task[h].pair[1], task[h].pair[2]) THEN Finish(h) ELSE Goto(h, "room")
    /\ UNCHANGED tables

\* PMP knows the room and the event is published, or the call fails.
InvitePublish(h) ==
    /\ At(h, "invite", "room")
    /\ \/ invited' = invited \cup {task[h].pair}
       \/ UNCHANGED invited
    /\ Finish(h)
    /\ UNCHANGED <<request, friends, blocks, noticed, agreed>>

-----------------------------------------------------------------------------
SocialNext ==
    \/ \E h \in Handler :
        \/ SendCheckFriends(h) \/ SendInsert(h) \/ RespondCommit(h)
        \/ BlockRemove(h) \/ InviteCheckBlock(h) \/ InvitePublish(h)
        \/ \E p \in Pair :
            \/ SendBegin(h, p[1], p[2])
            \/ block(h, p[1], p[2])
            \/ InviteBegin(h, p[1], p[2])
            \/ \E by \in User :
                  respond_accept(h, p[1], p[2], by) \/ respond_reject(h, p[1], p[2], by)
    \/ \E p \in Pair : friend_remove(p[1], p[2])

SocialSpec == SocialInit /\ [][SocialNext]_socialVars

SocialTypeOK ==
    /\ request \in [Pair -> {"none", "pending"} \cup Answer]
    /\ friends \subseteq {p \in Pair : p[1] < p[2]}
    /\ blocks \cup noticed \cup invited \cup agreed \subseteq Pair
    /\ \A h \in Handler : task[h] = Idle \/ task[h].pair \in Pair

(* Two users are friends only if one of them asked and the other, and not  *)
(* somebody else, accepted; the two see each other in their lists and the  *)
(* request is still in both lists.  social/mod.rs:126-168, where accept    *)
(* and decline may both get past the check of the status.                  *)
FriendsAgreed ==
    \A u, v \in User : v \in list_friends(u) =>
        /\ u \in list_friends(v)
        /\ \E p \in agreed \cap list_requests_for_user(u) \cap list_requests_for_user(v) :
              {u, v} = {p[1], p[2]} /\ request[p] \in Answer

(* Once answered, a request never waits for an answer again and the pair   *)
(* cannot be asked anew, whatever sends, answers, blocks and removals are  *)
(* in flight.  social/mod.rs:83-105: ON CONFLICT DO NOTHING on any status. *)
AnsweredStaysAnswered ==
    [][\A p \in Pair : request[p] \in Answer => request'[p] \in Answer]_socialVars

(* Two users are friends only if one asked and the other accepted, both    *)
(* see it, and a request once answered never waits for an answer again,    *)
(* whatever sends, answers, blocks and removals overlap.                   *)
(* social/mod.rs:83-168.                                                   *)
FriendshipIsMutual == [](SocialTypeOK /\ FriendsAgreed) /\ AnsweredStaysAnswered
=============================================================================
