------------------------------ MODULE Buttons -------------------------------
(***************************************************************************)
(* The buttons of a notification.  A producer validates the drafts and     *)
(* stores them with ids; rows of older versions hold buttons without ids,  *)
(* without targets or of unknown kinds.  The inbox shows the stored        *)
(* buttons that are still usable; pressing one finds it again by its id in *)
(* what is stored then and runs it.  A target is the set of its fields     *)
(* that hold a value; labels and texts are left out.                       *)
(***************************************************************************)
EXTENDS Naturals, Sequences, Requests

CONSTANTS
    Drafts,         \* the lists of drafts producers send
    Legacy,         \* the lists of buttons older versions stored
    MaxText,        \* bound: the length of an input (500 in the code)
    MaxChat,        \* rate_limit.chat_send_per_minute
    MaxMoves        \* bound: moves of the player, and intents

VARIABLES
    stored,         \* payload.actions of the one notification, None before it is published
    room,           \* whether payload.target names a room
    shown,          \* the buttons the inbox has shown
    press,          \* the press in progress and its answer
    online,         \* whether PMP has the player online
    moved, intents, \* the player's forced moves and join intents
    asked,          \* the friend request: "pending", "accepted" or "rejected"
    chat            \* lines sent in this minute

ASSUME ButtonsAssumption == None \notin {"not_available", "target_invalid"}

buttonVars == <<stored, room, shown, press, online, moved, intents, asked, chat>>

Kind == {"join_room", "open_room", "friend_accept", "friend_reject", "open_chart", "open_replay",
         "open_user", "open_profile"}
NoPress == [pc |-> "idle", id |-> None, kind |-> None, data |-> {}, answer |-> None]

ButtonInit ==
    /\ stored = None /\ room \in BOOLEAN /\ shown = {} /\ press = NoPress
    /\ online \in BOOLEAN /\ moved = 0 /\ intents = 0 /\ asked = "pending" /\ chat = 0

-----------------------------------------------------------------------------
(* Storing. *)

(* The field a kind needs. *)
Field(kind) ==
    CASE kind \in {"join_room", "open_room"} -> "room_id"
      [] kind \in {"friend_accept", "friend_reject"} -> "friend_request_id"
      [] kind = "open_chart" -> "chart_id"
      [] kind = "open_replay" -> "round_uuid"
      [] OTHER -> "phira_id"
validate_action_target(kind, data) == kind \in Kind /\ Field(kind) \in data

(* Fresh ids; one bad draft refuses the whole list. *)
normalize_action_drafts(drafts) ==
    IF \E i \in DOMAIN drafts : ~drafts[i].label \/ ~validate_action_target(drafts[i].kind, drafts[i].data)
    THEN None
    ELSE [i \in DOMAIN drafts |-> [id |-> i, kind |-> drafts[i].kind, data |-> drafts[i].data]]
PublishDrafts(drafts) ==
    /\ stored = None
    /\ stored' = normalize_action_drafts(drafts)
    /\ UNCHANGED <<room, shown, press, online, moved, intents, asked, chat>>
(* Rows from before the buttons had ids and were validated. *)
PublishLegacy(items) ==
    /\ stored = None /\ stored' = items
    /\ UNCHANGED <<room, shown, press, online, moved, intents, asked, chat>>

-----------------------------------------------------------------------------
(* Reading back. *)

(* Mutant: what is stored is shown. *)
normalize_stored_actionsAll ==
    {[id |-> IF stored[i].id = None THEN 100 + i ELSE stored[i].id,
      kind |-> stored[i].kind, data |-> stored[i].data] : i \in DOMAIN stored}
(* The usable buttons; one without an id is named after its place.         *)
normalize_stored_actions ==
    {[id |-> IF stored[i].id = None THEN 100 + i ELSE stored[i].id,
      kind |-> stored[i].kind, data |-> stored[i].data] :
         i \in {j \in DOMAIN stored : validate_action_target(stored[j].kind, stored[j].data)}}
wire_notification ==
    /\ stored # None /\ shown' = normalize_stored_actions
    /\ UNCHANGED <<stored, room, press, online, moved, intents, asked, chat>>

-----------------------------------------------------------------------------
(* POST /notifications/{id}/action *)

Answers(a) == press' = [press EXCEPT !.pc = "done", !.answer = a]
(* The button is looked up again, in what is stored now. *)
ActionFind(id) ==
    /\ press.pc \in {"idle", "done"} /\ stored # None
    /\ press' \in
         {[pc |-> b.kind, id |-> id, kind |-> b.kind, data |-> b.data, answer |-> None] :
              b \in {c \in normalize_stored_actions : c.id = id}}
         \cup (IF \E c \in normalize_stored_actions : c.id = id THEN {}
               ELSE {[NoPress EXCEPT !.pc = "done", !.id = id, !.answer = "not_available"]})
    /\ UNCHANGED <<stored, room, shown, online, moved, intents, asked, chat>>

(* join_room asks PMP whether the player is online (no answer: offline) ... *)
JoinAsk ==
    /\ press.pc = "join_room"
    /\ \/ "room_id" \notin press.data /\ Answers("target_invalid")
       \/ "room_id" \in press.data /\ \E on \in {online, FALSE} :
              press' = [press EXCEPT !.pc = IF on THEN "move" ELSE "intent"]
    /\ UNCHANGED <<stored, room, shown, online, moved, intents, asked, chat>>
(* ... and moves the player or leaves an intent, whatever happened since.  *)
JoinMove ==
    /\ press.pc = "move"
    /\ \/ Answers("completed") /\ online /\ moved' = moved + 1
       \/ Answers("pmp_error") /\ UNCHANGED moved
    /\ UNCHANGED <<stored, room, shown, online, intents, asked, chat>>
JoinIntent ==
    /\ press.pc = "intent"
    /\ Answers("pending_join_intent") /\ intents' = intents + 1
    /\ UNCHANGED <<stored, room, shown, online, moved, asked, chat>>
FriendRespond ==
    /\ press.pc \in {"friend_accept", "friend_reject"}
    /\ \/ "friend_request_id" \notin press.data /\ Answers("target_invalid") /\ UNCHANGED asked
       \/ /\ "friend_request_id" \in press.data /\ asked = "pending"
          /\ asked' = (IF press.pc = "friend_accept" THEN "accepted" ELSE "rejected")
          /\ Answers("completed")
       \/ /\ "friend_request_id" \in press.data /\ asked # "pending"
          /\ Answers("not_pending") /\ UNCHANGED asked
    /\ UNCHANGED <<stored, room, shown, online, moved, intents, chat>>
(* Lookups of the room, the chart or the user are made, their result is   *)
(* ignored.                                                                *)
verified_navigation_path ==
    /\ press.pc \in {"open_room", "open_chart", "open_replay", "open_user", "open_profile"}
    /\ Answers(IF Field(press.kind) \in press.data THEN "navigate" ELSE "target_invalid")
    /\ UNCHANGED <<stored, room, shown, online, moved, intents, asked, chat>>

(* POST /notifications/{id}/input: a line of chat to the target's room.    *)
input(length) ==
    /\ press.pc \in {"idle", "done"} /\ stored # None
    /\ \/ (length = 0 \/ length > MaxText \/ ~room \/ chat >= MaxChat) /\ UNCHANGED chat
       \/ length \in 1..MaxText /\ room /\ chat < MaxChat /\ chat' = chat + 1
    /\ UNCHANGED <<stored, room, shown, press, online, moved, intents, asked>>

PlayerComesOrGoes ==
    /\ online' = ~online
    /\ UNCHANGED <<stored, room, shown, press, moved, intents, asked, chat>>
OtherAnswers ==
    /\ asked = "pending" /\ asked' \in {"accepted", "rejected"}
    /\ UNCHANGED <<stored, room, shown, press, online, moved, intents, chat>>

ButtonNext ==
    \/ \E d \in Drafts : PublishDrafts(d)
    \/ \E l \in Legacy : PublishLegacy(l)
    \/ wire_notification \/ JoinAsk \/ FriendRespond \/ verified_navigation_path
    \/ (moved < MaxMoves /\ JoinMove) \/ (intents < MaxMoves /\ JoinIntent)
    \/ \E b \in shown : ActionFind(b.id)
    \/ \E n \in 0..(MaxText + 1) : input(n)
    \/ PlayerComesOrGoes \/ OtherAnswers

ButtonSpec == ButtonInit /\ [][ButtonNext]_buttonVars

-----------------------------------------------------------------------------
(* No button is dead: pressing one the inbox has shown runs the kind that  *)
(* was shown under its id and never ends in "not available" or "target     *)
(* invalid", also for the rows of older versions, whose ids are made up on *)
(* every read.  notifications/mod.rs:134-163, routes.rs:280-296.           *)
NoDeadButton ==
    press.pc # "idle" =>
        /\ press.answer \notin {"not_available", "target_invalid"}
        /\ \E b \in shown : b.id = press.id /\ b.kind = press.kind
=============================================================================
