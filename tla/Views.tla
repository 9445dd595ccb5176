------------------------------- MODULE Views --------------------------------
(***************************************************************************)
(* What is shown of one user: the public profile under its privacy         *)
(* settings, the user's own profile, and the three administrator's views   *)
(* that mix PPB's rows with what PMP says of the player.  Every view       *)
(* gathers its answer from several reads, one await each, while the user   *)
(* edits the settings, friendships end and the player comes and goes.      *)
(* `during' keeps the worlds a request has lived through.  Phira and PMP   *)
(* may fail to answer any read: the views show a gap then.                 *)
(***************************************************************************)
EXTENDS Naturals, Requests

CONSTANT
    MaxChanges      \* bound: changes of the world

VARIABLES
    world,          \* the user's profile row, a friendship with the viewer, a block, PMP's player
    changes,        \* how often the world has changed
    view,           \* the request: its kind, step, what it has read and its answer
    during          \* every world since the request began

ASSUME ViewsAssumption == MaxChanges \in Nat /\ None \notin {"online", "offline", "hidden"}

viewVars == <<world, changes, view, during>>

Visibility == {"public", "friends", "private"}
Settings == [visibility : Visibility, online : BOOLEAN]
World == [profile : Settings \cup {None}, friend : BOOLEAN, blocked : BOOLEAN,
          online : BOOLEAN, room : BOOLEAN, banned : BOOLEAN]
ViewKind == {"public", "me_profile", "privacy", "detail", "multiplayer", "security"}
Viewer == {"self", "other", "guest"}

(* No row means a public profile that shows the presence. *)
SettingsOf(row) == IF row = None THEN [visibility |-> "public", online |-> TRUE] ELSE row

NoView == [kind |-> "public", pc |-> "idle", who |-> "guest", friend |-> FALSE, set |-> SettingsOf(None),
         shown |-> FALSE, status |-> None, ban |-> FALSE, reason |-> FALSE]

ViewTypeOK ==
    /\ world \in World /\ changes \in 0..MaxChanges /\ during \subseteq World
    /\ view.kind \in ViewKind /\ view.who \in Viewer /\ view.set \in Settings
    /\ view.pc \in {"idle", "friend", "blocked", "profile", "stats", "presence", "count", "load",
                    "banlist", "ip", "groups", "done"}
    /\ view.status \in {None, "online", "offline", "hidden"}
    /\ {view.friend, view.shown, view.ban, view.reason} \subseteq BOOLEAN

ViewInit ==
    /\ world \in {w \in World : /\ w.profile \in {None, [visibility |-> "friends", online |-> TRUE]}
                                /\ ~w.blocked /\ ~w.online /\ ~w.room /\ ~w.banned}
    /\ changes = 0 /\ view = NoView /\ during = {}

Reads == UNCHANGED <<world, changes, during>>
Reading(kind, pc) == view.kind = kind /\ view.pc = pc
Open(kind, who, pc) ==
    /\ view.pc \in {"idle", "done"}
    /\ view' = [NoView EXCEPT !.kind = kind, !.who = who, !.pc = pc]
    /\ during' = {world} /\ UNCHANGED <<world, changes>>

-----------------------------------------------------------------------------
(* GET /users/{phira_id} *)

(* Phira's record of the user comes first; without one there is no answer. *)
PublicBegin(who) == Open("public", who, IF who = "other" THEN "friend" ELSE "profile")
PublicFriend ==
    /\ Reading("public", "friend")
    /\ view' = [view EXCEPT !.friend = world.friend, !.pc = "blocked"] /\ Reads
(* A block is reported to the viewer; it hides nothing. *)
PublicBlocked ==
    /\ Reading("public", "blocked")
    /\ view' = [view EXCEPT !.pc = "profile"] /\ Reads
(* Mutant: a profile for friends is shown to every user. *)
can_viewSignedIn(set, who, friend) ==
    who = "self" \/ set.visibility = "public" \/ (set.visibility = "friends" /\ who # "guest")
can_view(set, who, friend) ==
    who = "self" \/ set.visibility = "public" \/ (set.visibility = "friends" /\ friend)
PublicProfile ==
    LET set == SettingsOf(world.profile)
        shown == can_view(set, view.who, view.friend)
    IN  /\ Reading("public", "profile")
        /\ view' = [view EXCEPT !.set = set, !.shown = shown, !.pc = IF shown THEN "stats" ELSE "done"]
        /\ Reads
(* The statistics of the gateway, present or not. *)
user_stats ==
    /\ view.pc = "stats"
    /\ view' = [view EXCEPT !.pc = "presence"] /\ Reads
(* PMP says whether the player is online; hidden if the user says so. *)
PublicPresence ==
    /\ Reading("public", "presence")
    /\ view' \in {[view EXCEPT !.status = s, !.pc = "count"] :
                     s \in IF view.set.online THEN {None, IF world.online THEN "online" ELSE "offline"}
                           ELSE {"hidden"}}
    /\ Reads
friends_count ==
    /\ view.pc = "count"
    /\ view' = [view EXCEPT !.pc = "done"] /\ Reads

-----------------------------------------------------------------------------
(* The user's own profile and settings. *)

me_profile == Open("me_profile", "self", "profile")
MyProfile ==
    /\ Reading("me_profile", "profile")
    /\ view' = [view EXCEPT !.set = SettingsOf(world.profile), !.shown = TRUE, !.pc = "stats"] /\ Reads
(* Here "online" means that the player is in a room. *)
MyPresence ==
    /\ Reading("me_profile", "presence")
    /\ view' \in {[view EXCEPT !.status = s, !.pc = "count"] :
                     s \in {None, IF world.room THEN "online" ELSE "offline"}}
    /\ Reads
(* The row is written by one statement and read back by a second. *)
me_privacy_update(set) ==
    /\ view.pc \in {"idle", "done"} /\ changes < MaxChanges
    /\ world' = [world EXCEPT !.profile = set] /\ changes' = changes + 1
    /\ view' = [NoView EXCEPT !.kind = "privacy", !.who = "self", !.pc = "load"]
    /\ during' = {world'}
load_my_privacy ==
    /\ Reading("privacy", "load")
    /\ view' = [view EXCEPT !.set = SettingsOf(world.profile), !.pc = "done"] /\ Reads

-----------------------------------------------------------------------------
(* The administrator's views.  A player PMP does not answer for is shown   *)
(* offline and not banned.                                                 *)

user_detail == Open("detail", "other", "presence")
user_multiplayer == Open("multiplayer", "other", "presence")
user_security == Open("security", "other", "presence")
After(kind) == CASE kind = "detail" -> "groups" [] kind = "multiplayer" -> "done" [] OTHER -> "banlist"
(* Mutant: a player PMP does not answer for is taken for banned. *)
player_infoBanned(ok) == IF ok THEN world ELSE [world EXCEPT !.online = FALSE, !.banned = TRUE]
player_info(ok) == IF ok THEN world ELSE [world EXCEPT !.online = FALSE, !.banned = FALSE]
AdminInfo(ok) ==
    LET p == player_info(ok)
    IN  /\ view.kind \in {"detail", "multiplayer", "security"} /\ view.pc = "presence"
        /\ view' = [view EXCEPT !.status = IF view.kind = "security" THEN None
                                           ELSE IF p.online THEN "online" ELSE "offline",
                                !.ban = p.banned, !.pc = After(view.kind)]
        /\ Reads
groups_for_user == view.pc = "groups" /\ view' = [view EXCEPT !.pc = "done"] /\ Reads
(* The reason is looked up in a list fetched later than the ban itself. *)
banlist(ok) ==
    /\ view.pc = "banlist"
    /\ view' = [view EXCEPT !.reason = ok /\ world.banned, !.pc = "ip"] /\ Reads
ip_history == view.pc = "ip" /\ view' = [view EXCEPT !.pc = "done"] /\ Reads

-----------------------------------------------------------------------------
(* What others do meanwhile: the owner's settings from another tab, social *)
(* requests, PMP's player.                                                 *)

Changes(w) ==
    /\ view.pc # "idle" /\ changes < MaxChanges /\ w # world
    /\ world' = w /\ changes' = changes + 1
    /\ during' = during \cup {w} /\ UNCHANGED view
OwnerEdits == \E set \in Settings : Changes([world EXCEPT !.profile = set])
Befriend == \E b \in BOOLEAN : Changes([world EXCEPT !.friend = b])
Block == Changes([world EXCEPT !.friend = FALSE, !.blocked = TRUE])
PlayerMoves == \E b, r \in BOOLEAN : (r => b) /\ Changes([world EXCEPT !.online = b, !.room = r])
Bans == \E b \in BOOLEAN : Changes([world EXCEPT !.banned = b])

ViewNext ==
    \/ \E who \in Viewer : PublicBegin(who)
    \/ PublicFriend \/ PublicBlocked \/ PublicProfile \/ user_stats \/ PublicPresence \/ friends_count
    \/ me_profile \/ MyProfile \/ MyPresence \/ load_my_privacy
    \/ \E set \in Settings : me_privacy_update(set)
    \/ user_detail \/ user_multiplayer \/ user_security \/ groups_for_user \/ ip_history
    \/ \E ok \in BOOLEAN : AdminInfo(ok) \/ banlist(ok)
    \/ OwnerEdits \/ Befriend \/ Block \/ PlayerMoves \/ Bans

ViewSpec == ViewInit /\ [][ViewNext]_viewVars

-----------------------------------------------------------------------------
(* A profile is opened to another viewer only if it was public at some     *)
(* moment of the request, or was for friends at some moment and the viewer *)
(* a friend at some moment of it; and the presence is told only if it was  *)
(* not hidden throughout.  The two moments may differ: the friendship is   *)
(* read before the settings.  phira/routes.rs:458-476.                     *)
PrivacyIsKept ==
    (view.kind = "public" /\ view.who # "self" /\ view.shown) =>
        /\ \/ \E w \in during : SettingsOf(w.profile).visibility = "public"
           \/ /\ view.who = "other"
              /\ \E w \in during : SettingsOf(w.profile).visibility = "friends"
              /\ \E w \in during : w.friend
        /\ view.status \in {"online", "offline"} => \E w \in during : SettingsOf(w.profile).online

(* What a view asserts of a player (online, banned, a ban's reason) was so *)
(* at some moment of the request.  A view may miss a ban when PMP does not *)
(* answer; it never makes one up.  users/routes.rs:303-318, 399-418,       *)
(* phira/routes.rs:470-474, app.rs:800-811.                                *)
ClaimsWereTrue ==
    /\ view.status = "online" => \E w \in during : w.online
    /\ (view.ban \/ view.reason) => \E w \in during : w.banned

(* A profile is opened to a viewer it was open to during the request, and  *)
(* what a view asserts of a player was so during the request, although its *)
(* statements and PMP's answers are of different moments.                  *)
(* phira/routes.rs:430-480, users/routes.rs:292-429, app.rs:759-811.       *)
ProfilesAreHonest == ViewTypeOK /\ PrivacyIsKept /\ ClaimsWereTrue
=============================================================================
