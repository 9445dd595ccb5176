---------------------------- MODULE MCCommunity -----------------------------
(***************************************************************************)
(* What users do with each other and with their own data: friends and      *)
(* blocks, notifications and their buttons, profiles, coupons and          *)
(* preferences, the pages they do it from, and what hosts and staff do to  *)
(* the rooms they play in.  The parts share no state, so one run explores  *)
(* each from its own initial states: `part' is which.                      *)
(***************************************************************************)
EXTENDS Social, Notifications, Buttons, Views, Coupons, Preferences, Tabs, Rooms

CONSTANTS r1, r2   \* the rooms

VARIABLE part

\* Everybody, the group, a user named twice, and one who does not exist.
Targets ==
    {[kind |-> "all", ids |-> <<>>], [kind |-> "group", ids |-> <<>>],
     [kind |-> "users", ids |-> <<1, 1>>], [kind |-> "users", ids |-> <<2, 9>>]}

\* Drafts that are complete, name no field, or have no label.
Draft(kind, fields) == [label |-> TRUE, kind |-> kind, data |-> fields]
DraftLists ==
    {<<Draft("join_room", {"room_id"}), Draft("open_room", {"room_id"})>>,
     <<Draft("friend_accept", {"friend_request_id"}), Draft("friend_reject", {"friend_request_id"})>>,
     <<Draft("open_chart", {"chart_id"}), Draft("open_user", {})>>,
     <<[Draft("open_user", {"phira_id"}) EXCEPT !.label = FALSE]>>}
\* Buttons as they were stored before they had ids.
Old(id, kind, fields) == [id |-> id, kind |-> kind, data |-> fields]
OldLists ==
    {<<Old(None, "sing", {}), Old(None, "open_chart", {}), Old(None, "open_chart", {"chart_id"})>>,
     <<Old(1, "join_room", {}), Old(None, "open_replay", {"round_uuid"}),
       Old(2, "open_profile", {"phira_id"})>>}

\* Both rooms, one named twice, and none.
RoomLists == {<<r1, r2>>, <<r2, r2>>, <<>>}

vars == <<part, socialVars, notifyVars, buttonVars, viewVars, couponVars, prefVars, tabVars, roomVars>>

Init ==
    /\ part \in {"social", "notices", "buttons", "views", "coupons", "preferences", "tabs", "rooms"}
    /\ SocialInit /\ NotifyInit /\ ButtonInit
    /\ ViewInit /\ CouponInit /\ PrefInit /\ TabInit /\ RoomsInit
    /\ part # "buttons" => room /\ online
    /\ part # "views" => world.profile = None /\ ~world.friend

SocialStep == part = "social" /\ SocialNext
    /\ UNCHANGED <<part, notifyVars, buttonVars, viewVars, couponVars, prefVars, tabVars, roomVars>>
NoticesStep == part = "notices" /\ NotifyNext
    /\ UNCHANGED <<part, socialVars, buttonVars, viewVars, couponVars, prefVars, tabVars, roomVars>>
ButtonsStep == part = "buttons" /\ ButtonNext
    /\ UNCHANGED <<part, socialVars, notifyVars, viewVars, couponVars, prefVars, tabVars, roomVars>>
ViewsStep == part = "views" /\ ViewNext
    /\ UNCHANGED <<part, socialVars, notifyVars, buttonVars, couponVars, prefVars, tabVars, roomVars>>
CouponsStep == part = "coupons" /\ CouponNext
    /\ UNCHANGED <<part, socialVars, notifyVars, buttonVars, viewVars, prefVars, tabVars, roomVars>>
PreferencesStep == part = "preferences" /\ PrefNext
    /\ UNCHANGED <<part, socialVars, notifyVars, buttonVars, viewVars, couponVars, tabVars, roomVars>>
TabsStep == part = "tabs" /\ TabNext
    /\ UNCHANGED <<part, socialVars, notifyVars, buttonVars, viewVars, couponVars, prefVars, roomVars>>
RoomsStep == part = "rooms" /\ RoomsNext
    /\ UNCHANGED <<part, socialVars, notifyVars, buttonVars, viewVars, couponVars, prefVars, tabVars>>

Next ==
    \/ SocialStep \/ NoticesStep \/ ButtonsStep
    \/ ViewsStep \/ CouponsStep \/ PreferencesStep \/ TabsStep \/ RoomsStep
Spec == Init /\ [][Next]_vars
=============================================================================
