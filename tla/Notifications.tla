---------------------------- MODULE Notifications ----------------------------
(***************************************************************************)
(* The notification hub: events with their inbox rows, the push endpoints  *)
(* of the users and an administrator's send, which resolves its recipients,*)
(* publishes the event to all of them in one transaction and then pushes   *)
(* to the endpoints of one recipient after the other.                      *)
(*                                                                         *)
(* A payload is its event; texts, keys and links are left out.  Endpoint   *)
(* material is "good", or "bad" when it does not decrypt or decode.        *)
(***************************************************************************)
EXTENDS Naturals, Sequences, FiniteSets, Requests

CONSTANTS
    Known,       \* users with a row in users
    Target,      \* what an administrator may address
    Device,
    Subscriber,  \* the users that register endpoints
    App,         \* the app channels in use, of "fcm" and "wns"
    Event        \* ids of notification_events; bounds the sends

VARIABLES
    member,      \* group_members of the one group
    published,   \* notification_events: the recipients of an event, or None
    row,         \* user_notifications, per event and user
    endpoint,    \* push_endpoints, per user and device
    send,        \* the send in progress for every event
    tried        \* history: the channels an event reached a user through

notifyVars == <<member, published, row, endpoint, send, tried>>

Channel == {"web_push"} \cup App
Material == {"good", "bad"}
RowState == [read : BOOLEAN, dismissed : BOOLEAN]
ASSUME NotificationsAssumption ==
    /\ Subscriber \subseteq Known /\ "web_push" \notin App
    /\ None \notin RowState /\ \A S \in SUBSET Known : S # None
Addressee == (UNION {{t.ids[i] : i \in DOMAIN t.ids} : t \in Target}) \cup Known
Waiting == [pc |-> "none"]

NotifyInit ==
    /\ member = {}
    /\ published = [e \in Event |-> None]
    /\ row = [e \in Event |-> [u \in Known |-> None]]
    /\ endpoint = [u \in Known |-> [d \in Device |-> None]]
    /\ send = [e \in Event |-> Waiting]
    /\ tried = [e \in Event |-> [u \in Known |-> {}]]

-----------------------------------------------------------------------------
(* POST /admin/notifications/send.                                         *)

\* Administrators edit the group meanwhile.
SetMember(u) ==
    /\ member' = (member \ {u}) \cup ({u} \ member)
    /\ UNCHANGED <<published, row, endpoint, send, tried>>

\* The first of "all", the groups and the user ids that is present decides;
\* only ids are taken as given, repeated and unknown ones too.
SeqOf(S) == {s \in [1..Cardinality(S) -> S] : \A i, j \in DOMAIN s : s[i] = s[j] => i = j}
resolve_recipients(t) ==
    CASE t.kind = "all"   -> SeqOf(Known)
      [] t.kind = "group" -> SeqOf(member)
      [] OTHER            -> {t.ids}

\* No recipients is an error.
SendResolve(e, t) ==
    /\ send[e] = Waiting
    /\ \E to \in resolve_recipients(t) :
        /\ to # <<>>
        /\ send' = [send EXCEPT ![e] = [pc |-> "publish", to |-> to]]
    /\ UNCHANGED <<member, published, row, endpoint, tried>>

Unread == [read |-> FALSE, dismissed |-> FALSE]
Recipients(to) == {to[i] : i \in DOMAIN to}
Repeated(to) == {to[i] : i \in {j \in DOMAIN to : \E k \in DOMAIN to : k # j /\ to[k] = to[j]}}

\* The rows inserted so far stay when the row of an unknown user fails.
PublishRowByRow(e) ==
    /\ send[e].pc = "publish"
    /\ LET to == send[e].to IN
        /\ published' = [published EXCEPT ![e] = Recipients(to)]
        /\ row' = [row EXCEPT ![e] = [u \in Known |->
              IF \E i \in DOMAIN to : to[i] = u /\ \A j \in 1..i : to[j] \in Known
              THEN Unread ELSE None]]
        /\ send' = [send EXCEPT ![e] = IF Recipients(to) \subseteq Known
              THEN [pc |-> "push", to |-> to, at |-> 0, left |-> {}] ELSE [pc |-> "failed"]]
    /\ UNCHANGED <<member, endpoint, tried>>
\* publish_to_users: an event, one row for every recipient and none for a
\* repeated one, or nothing when a recipient is unknown (foreign key).
Publish(e) ==
    /\ send[e].pc = "publish"
    /\ LET to == send[e].to IN
        IF Recipients(to) \subseteq Known
        THEN /\ published' = [published EXCEPT ![e] = Recipients(to)]
             /\ row' = [row EXCEPT ![e] = [u \in Known |->
                   IF u \in Recipients(to) THEN Unread ELSE None]]
             /\ send' = [send EXCEPT ![e] = [pc |-> "push", to |-> to, at |-> 0, left |-> {}]]
        ELSE /\ send' = [send EXCEPT ![e] = [pc |-> "failed"]]
             /\ UNCHANGED <<published, row>>
    /\ UNCHANGED <<member, endpoint, tried>>

-----------------------------------------------------------------------------
(* PushService::notify, for one recipient after the other.                 *)

app_push_present(eps) == \E ep \in eps : ep.channel \in App

Endpoints(u) == {endpoint[u][d] : d \in {x \in Device : endpoint[u][x] # None}}
\* The loop goes on to entry `at' + 1 of the list, or ends.
NotifyNth(e, visited(_)) ==
    /\ send[e].pc = "push" /\ send[e].left = {}
    /\ LET to == send[e].to
           n == send[e].at + 1
       IN  IF n \in DOMAIN to
           THEN \E left \in {visited(Endpoints(to[n])), {}} :
                   send' = [send EXCEPT ![e] = [pc |-> "push", to |-> to, at |-> n, left |-> left]]
           ELSE send' = [send EXCEPT ![e] = [pc |-> "done", to |-> to]]
    /\ UNCHANGED <<member, published, row, endpoint, tried>>

NotifyBeginLate(e) == LET every(eps) == eps IN NotifyNth(e, every)
\* The endpoints are read once for every entry of the list, so twice for a
\* user it names twice; with an app endpoint among them web_push is skipped.
\* A failed read is ignored and the entry passed over.
NotifyBegin(e) ==
    LET chosen(eps) == {ep \in eps : app_push_present(eps) => ep.channel # "web_push"}
    IN  NotifyNth(e, chosen)

\* An endpoint that does not decrypt is counted as failed and its adapter
\* never called.  No outcome ends the loop; the counters are left out.
Reaches(ep) == ep.material = "good"
NotifyEndpoint(e) ==
    /\ send[e].pc = "push"
    /\ \E ep \in send[e].left :
        /\ send' = [send EXCEPT ![e].left = @ \ {ep}]
        /\ tried' = [tried EXCEPT ![e][send[e].to[send[e].at]] =
              IF Reaches(ep) THEN @ \cup {ep.channel} ELSE @]
    /\ UNCHANGED <<member, published, row, endpoint>>

-----------------------------------------------------------------------------
(* The users: their endpoints and their inbox.                             *)

\* A device that registers again keeps the channel of its first row.
register_push_endpoint(u, d, c, m) ==
    /\ endpoint' = [endpoint EXCEPT ![u][d] =
          IF @ = None THEN [channel |-> c, material |-> m, device |-> d]
          ELSE [@ EXCEPT !.material = m]]
    /\ UNCHANGED <<member, published, row, send, tried>>

me_push_endpoint_register(u, d, c, m) ==
    c \in {"web_push", "fcm", "wns"} /\ register_push_endpoint(u, d, c, m)

delete_push_endpoint(u, d) ==
    /\ endpoint[u][d] # None
    /\ endpoint' = [endpoint EXCEPT ![u][d] = None]
    /\ UNCHANGED <<member, published, row, send, tried>>

me_push_endpoint_delete(u, d) == delete_push_endpoint(u, d)

\* The routes first look the row up for this user.
get_for_user(u, e) == row[e][u] # None
mark_read(u, e) ==
    /\ row' = [row EXCEPT ![e][u].read = TRUE]
    /\ UNCHANGED <<member, published, endpoint, send, tried>>

read(u, e) == get_for_user(u, e) /\ mark_read(u, e)

mark_dismissed(u, e) ==
    /\ row' = [row EXCEPT ![e][u].dismissed = TRUE]
    /\ UNCHANGED <<member, published, endpoint, send, tried>>

dismiss(u, e) == get_for_user(u, e) /\ mark_dismissed(u, e)

\* What GET /notifications shows.
list_inbox(u) == {e \in Event : row[e][u] # None /\ ~row[e][u].dismissed}

NotifyNext ==
    \/ \E e \in Event :
        \/ \E t \in Target : SendResolve(e, t)
        \/ Publish(e) \/ NotifyBegin(e) \/ NotifyEndpoint(e)
        \/ \E u \in Known : read(u, e) \/ dismiss(u, e)
    \/ \E u \in Known : SetMember(u)
    \/ \E u \in Subscriber :
        \/ \E d \in Device : me_push_endpoint_delete(u, d)
        \/ \E d \in Device, c \in Channel, m \in Material : me_push_endpoint_register(u, d, c, m)

NotifySpec == NotifyInit /\ [][NotifyNext]_notifyVars

NotifyTypeOK ==
    /\ member \subseteq Known
    /\ \A e \in Event :
        /\ published[e] = None \/ published[e] \subseteq Known
        /\ row[e] \in [Known -> RowState \cup {None}]
        /\ send[e].pc \in {"none", "publish", "push", "done", "failed"}
    /\ endpoint \in [Known -> [Device ->
          [channel : Channel, material : Material, device : Device] \cup {None}]]

(* An event has an inbox row for every one of its recipients and for nobody*)
(* else, or it does not exist at all, also when one recipient of many is   *)
(* unknown, repeated, or left the group while the send was under way.      *)
(* notifications/mod.rs:238-269.                                           *)
FanoutIsWhole ==
    \A e \in Event, u \in Known :
        /\ (row[e][u] # None) <=> (published[e] # None /\ u \in published[e])
        /\ e \in list_inbox(u) => u \in published[e]

(* One notification never reaches a user through an app and through the    *)
(* browser, whatever endpoints are registered or deleted during the loop   *)
(* and in whatever order the loop takes them: "so the user is not notified *)
(* twice", notifications/push.rs:277-279.  Only for users the send names   *)
(* once: user_ids are not deduplicated (admin/notifications.rs:135-145,    *)
(* 253-260), and one who is named twice is notified twice, over two        *)
(* channels if the endpoints changed in between.                           *)
OneChannelPerNotice ==
    \A e \in Event : send[e].pc \in {"push", "done"} =>
        \A u \in Known \ Repeated(send[e].to) :
            "web_push" \in tried[e][u] => tried[e][u] \cap App = {}

(* A notification is in the inbox of all of its recipients or of none, and *)
(* no user it names once gets it through an app and through the browser.   *)
(* notifications/mod.rs:238-269, notifications/push.rs:277-279.            *)
NoticesAreWhole == NotifyTypeOK /\ FanoutIsWhole /\ OneChannelPerNotice
=============================================================================
