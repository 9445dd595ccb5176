------------------------------- MODULE Replays -------------------------------
(***************************************************************************)
(* Who may watch a replay: replay/routes.rs, replay/visibility.rs and      *)
(* replay/mod.rs.  Its data is fetched by module ReplayPages.              *)
(*                                                                         *)
(* A replay is a pair <<round, player>>.  A player is an integer of 32     *)
(* bits in PMP, and of 64 in the queries and the database of PPB; a user   *)
(* stands for the player with that number.  Nothing in PPB writes the      *)
(* access list that the visibility "custom" consults: it is empty.         *)
(***************************************************************************)
EXTENDS Naturals, Sequences, Requests

CONSTANTS
    Replay,    \* the pairs <<round, player>> that PMP has data of
    Wide,      \* pairs that a query may name, with a number PMP cannot have
    Wrap,      \* how many numbers PMP's players may have: 2^32
    User,      \* the players are among them
    Root,      \* the administrator, who is no user
    MaxLinks   \* bound on the share links created

ASSUME ReplaysAssumption ==
    /\ MaxLinks \in Nat /\ Wrap \in Nat \ {0}
    /\ Replay \subseteq {r[1] : r \in Replay} \X (0..(Wrap - 1))
    /\ \A r \in Wide : r[2] \in Nat /\ r[2] >= Wrap

VARIABLES
    override,  \* replay -> None or [owner, visibility]
    links,     \* the share links: [replay, status]
    friends,   \* the users who are friends of somebody: <<user, friend>>
    view       \* what every handler does

replayVars == <<override, links, friends, view>>

RoundOf(r) == r[1]
PlayerOf(r) == r[2]
VISIBILITIES == {"inherit", "public", "friends", "private", "unlisted", "custom"}
Asked == Replay \cup Wide
By == User \cup {None, Root}  \* None: an anonymous caller

ReplayInit ==
    /\ override = [r \in Asked |-> None]
    /\ links = <<>>
    /\ friends = {}
    /\ view = [h \in Handler |-> Idle]

-----------------------------------------------------------------------------
(* What the owner does.                                                    *)

ensure_owner(u, r) ==
    IF override[r] = None THEN u = PlayerOf(r) ELSE override[r].owner = u

effective_visibility(o) ==
    IF o = None \/ o.visibility = "inherit" THEN "public" ELSE o.visibility

\* The histories of the views in progress: the visibilities that let others
\* in and the friends the replay has had since the request began.
Opens(o) == {effective_visibility(o)} \cap {"public", "friends"}
OpenToAll(over) == {r \in Replay : effective_visibility(over[r]) = "public"}
Noted(h, over, fr) ==
    IF view[h].pc \in {"list", "mine"} THEN [view[h] EXCEPT !.open = @ \cup OpenToAll(over)]
    ELSE IF view[h].pc \in {"visibility", "decide"}
    THEN [view[h] EXCEPT !.seen = @ \cup Opens(over[view[h].replay]),
                         !.known = @ \cup {f \in fr : f[1] = PlayerOf(view[h].replay)}]
    ELSE view[h]
NoteAll(over, fr) == view' = [h \in Handler |-> Noted(h, over, fr)]

\* The upsert changes the visibility and never the owner, so the verdict of
\* ensure_owner cannot be out of date when it runs.
set_visibility(u, r, v) ==
    /\ override' = [override EXCEPT ![r] =
          IF @ = None THEN [owner |-> u, visibility |-> v] ELSE [@ EXCEPT !.visibility = v]]
    /\ NoteAll(override', friends)
    /\ UNCHANGED <<links, friends>>
set_replay_visibility(u, r, v) == v \in VISIBILITIES /\ ensure_owner(u, r) /\ set_visibility(u, r, v)

create_share_link(r) ==
    /\ Len(links) < MaxLinks
    /\ links' = Append(links, [replay |-> r, status |-> "live"])
    /\ UNCHANGED <<override, friends, view>>
create_share(u, r) == ensure_owner(u, r) /\ create_share_link(r)

\* The link is revoked by its id alone; the replay of the path is only
\* used to check that the caller owns that replay.
revoke_share_link(i) ==
    /\ links' = [links EXCEPT ![i].status = "revoked"]
    /\ UNCHANGED <<override, friends, view>>
revoke_share(u, r, i) == ensure_owner(u, r) /\ revoke_share_link(i)

LinkExpires(i) ==
    /\ links[i].status = "live"
    /\ links' = [links EXCEPT ![i].status = "expired"]
    /\ UNCHANGED <<override, friends, view>>

\* Module Social: friends are made and removed meanwhile.
FriendsChange(u, f) ==
    /\ u # f
    /\ friends' = IF <<u, f>> \in friends
                  THEN friends \ {<<u, f>>, <<f, u>>} ELSE friends \cup {<<u, f>>, <<f, u>>}
    /\ NoteAll(override, friends')
    /\ UNCHANGED <<override, links>>

-----------------------------------------------------------------------------
(* resolve_replay_access, for detail, manifest, frames and the web socket. *)

Set(h, s) == view' = [view EXCEPT ![h] = s]

\* The access is decided for the number of the query, and the data fetched
\* for `player as i32'; round_meta finds nothing where PMP has no such pair.
as_i32(player) == player % Wrap
DataOf(r) == {<<RoundOf(r), as_i32(PlayerOf(r))>>} \cap Replay

Watch(r, by, link, seen, known) ==
    [pc |-> "watch", replay |-> r, shows |-> DataOf(r), by |-> by, link |-> link,
     seen |-> seen, known |-> known]

\* A link opens the replay it was made for, if the path names its round.
ViewByLinkAnyRound(h, r, i) ==
    /\ view[h] = Idle /\ links[i].status = "live"
    /\ Set(h, Watch(r, None, i, {}, {}))
    /\ UNCHANGED <<override, links, friends>>
ViewByLink(h, r, i) ==
    /\ view[h] = Idle /\ links[i].status = "live"
    /\ RoundOf(links[i].replay) = RoundOf(r)
    /\ Set(h, Watch(links[i].replay, None, i, {}, {}))
    /\ UNCHANGED <<override, links, friends>>

ViewBegin(h, by, r) ==
    /\ view[h] = Idle
    /\ Set(h, [pc |-> "visibility", replay |-> r, by |-> by,
               seen |-> Opens(override[r]),
               known |-> {f \in friends : f[1] = PlayerOf(r)}])
    /\ UNCHANGED <<override, links, friends>>

\* A token decides alone; without one (i = 0) check_pair_access does.
resolve_replay_access(h, by, r, i) == IF i = 0 THEN ViewBegin(h, by, r) ELSE ViewByLink(h, r, i)
detail(h, by, r, i) == resolve_replay_access(h, by, r, i)
manifest(h, by, r, i) == resolve_replay_access(h, by, r, i)
frames(h, by, r, i) == resolve_replay_access(h, by, r, i)

\* A socket that names no player is for the caller's own replay.
requested_player(by, player_id) == IF player_id = None THEN by ELSE player_id
replay_ws(h, by, uuid, player_id, i) ==
    LET r == <<uuid, requested_player(by, player_id)>> IN
    r \in Asked /\ resolve_replay_access(h, by, r, i)

\* check_pair_access: public is for all, the rest for signed-in callers and
\* without further questions for root.
ViewVisibility(h) ==
    LET s == view[h]
        v == effective_visibility(override[s.replay]) IN
    /\ s.pc = "visibility"
    /\ Set(h, IF v = "public" \/ s.by = Root THEN Watch(s.replay, s.by, 0, s.seen, s.known)
              ELSE IF s.by = None THEN Idle
              ELSE [pc |-> "decide", visibility |-> v, replay |-> s.replay, by |-> s.by,
                    seen |-> s.seen, known |-> s.known])
    /\ UNCHANGED <<override, links, friends>>

get_override(r) == override[r]
\* Users are named by their Phira ids.
requester_phira_id(u) == u
Admits(v, u, r) ==
    LET over == get_override(r) IN
    \/ over # None /\ over.owner = u
    \/ requester_phira_id(u) = PlayerOf(r)
    \/ v = "friends" /\ over # None /\ <<over.owner, u>> \in friends

\* The override and the friends are read after the visibility was.
ViewDecideOpen(h) ==
    LET s == view[h] IN
    /\ s.pc = "decide"
    /\ Set(h, IF Admits(s.visibility, s.by, s.replay) \/ s.visibility = "unlisted"
              THEN Watch(s.replay, s.by, 0, s.seen, s.known) ELSE Idle)
    /\ UNCHANGED <<override, links, friends>>
ViewDecide(h) ==
    LET s == view[h] IN
    /\ s.pc = "decide"
    /\ Set(h, IF Admits(s.visibility, s.by, s.replay) THEN Watch(s.replay, s.by, 0, s.seen, s.known) ELSE Idle)
    /\ UNCHANGED <<override, links, friends>>

\* GET /replays lists what was not hidden before PMP was asked for the rounds
\* of the player; `open' are the replays that were public meanwhile.
hidden(v) == v \notin {"inherit", "public"}
ListBegin(h, p) ==
    /\ view[h] = Idle
    /\ Set(h, [pc |-> "list", player |-> p, open |-> OpenToAll(override),
               non_public |-> {r \in Replay : PlayerOf(r) = p /\ override[r] # None
                                              /\ hidden(override[r].visibility)}])
    /\ UNCHANGED <<override, links, friends>>
list_replays(h) ==
    LET s == view[h] IN
    /\ s.pc = "list"
    /\ Set(h, [pc |-> "listed", open |-> s.open,
               shown |-> {r \in Replay : PlayerOf(r) = s.player} \ s.non_public])
    /\ UNCHANGED <<override, links, friends>>

\* GET /me/replays: the caller's overrides, then the caller's links, then PMP's
\* rounds; a round without an override is shown as public.
list_my_replays(h, u) ==
    /\ view[h] = Idle
    /\ Set(h, [pc |-> "mine", player |-> u, open |-> OpenToAll(override),
               overrides |-> [r \in {q \in Replay : PlayerOf(q) = u /\ override[q] # None
                                                    /\ override[q].owner = u}
                              |-> override[r].visibility]])
    /\ UNCHANGED <<override, links, friends>>
OwnerReplaySummary(h) ==
    LET s == view[h]
        visibility(r) == IF r \in DOMAIN s.overrides THEN s.overrides[r] ELSE "public" IN
    /\ s.pc = "mine"
    /\ Set(h, [pc |-> "listed", open |-> s.open,
               shown |-> {r \in Replay : PlayerOf(r) = s.player /\ ~hidden(visibility(r))}])
    /\ UNCHANGED <<override, links, friends>>

\* The request is over, or the socket is closed: access is not looked at
\* again while it lasts.
ViewEnds(h) ==
    /\ view[h].pc \in {"watch", "listed"}
    /\ Set(h, Idle)
    /\ UNCHANGED <<override, links, friends>>

ReplayNext ==
    \/ \E u \in User, r \in Asked :
        \/ \E v \in VISIBILITIES : set_replay_visibility(u, r, v)
        \/ create_share(u, r)
        \/ \E i \in 1..Len(links) : revoke_share(u, r, i)
    \/ \E i \in 1..Len(links) : LinkExpires(i)
    \/ \E u, f \in User : FriendsChange(u, f)
    \/ \E h \in Handler :
        \/ \E r \in Asked, by \in By, i \in 0..Len(links) :
            \/ detail(h, by, r, i) \/ manifest(h, by, r, i) \/ frames(h, by, r, i)
            \/ \E p \in {PlayerOf(r), None} : replay_ws(h, by, RoundOf(r), p, i)
        \/ ViewVisibility(h) \/ ViewDecide(h) \/ ViewEnds(h)
        \/ (\E p \in User : ListBegin(h, p)) \/ list_replays(h)
        \/ (\E u \in User : list_my_replays(h, u)) \/ OwnerReplaySummary(h)

ReplaySpec == ReplayInit /\ [][ReplayNext]_replayVars

-----------------------------------------------------------------------------
Override == [owner : User, visibility : VISIBILITIES]
Link == [replay : Asked, status : {"live", "revoked", "expired"}]
Asking == [pc : {"visibility"}, replay : Asked, by : By,
           seen : SUBSET {"public", "friends"}, known : SUBSET (User \X User)]
Deciding == [pc : {"decide"}, visibility : VISIBILITIES, replay : Asked, by : By,
             seen : SUBSET {"public", "friends"}, known : SUBSET (User \X User)]
Watching == [pc : {"watch"}, replay : Asked, shows : SUBSET Replay, by : By, link : 0..MaxLinks,
             seen : SUBSET {"public", "friends"}, known : SUBSET (User \X User)]
Listing == [pc : {"list"}, player : User, open : SUBSET Replay, non_public : SUBSET Replay]
Mine == [pc : {"mine"}, player : User, open : SUBSET Replay,
         overrides : UNION {[some -> VISIBILITIES] : some \in SUBSET Replay}]
Listed == [pc : {"listed"}, open : SUBSET Replay, shown : SUBSET Replay]
ViewState == {Idle} \cup Asking \cup Deciding \cup Watching \cup Listing \cup Mine \cup Listed

ReplayTypeOK ==
    /\ override \in [Asked -> Override \cup {None}]
    /\ links \in Seq(Link) /\ Len(links) <= MaxLinks
    /\ friends \subseteq User \X User
    /\ view \in [Handler -> ViewState]

HasReason(s, made) ==
    /\ s.pc = "listed" => s.shown \subseteq s.open
    /\ s.pc = "watch" =>
        /\ s.replay \in Replay => s.shows = {s.replay}
        /\ \/ s.link \in 1..Len(made) /\ made[s.link].replay = s.replay
           \/ s.link = 0 /\ \/ s.by \in {Root, PlayerOf(s.replay)}
                            \/ "public" \in s.seen
                            \/ /\ "friends" \in s.seen
                               /\ <<PlayerOf(s.replay), s.by>> \in s.known

(* A caller is admitted to a pair for a reason that held during the        *)
(* request: a link made for that pair, or the caller is the player or      *)
(* root, or the replay was public, or it was open to friends and the       *)
(* caller was one.  Reading the visibility before the friends admits       *)
(* nobody else, although the two may not have held together.  A pair that  *)
(* PMP knows is also the pair that is shown; of a number that is wider     *)
(* than PMP's only the admission is claimed.  And a list calls public only *)
(* replays that were.  replay/visibility.rs:69-152, routes.rs:130-253.     *)
AdmittedForAReason == ReplayTypeOK /\ \A h \in Handler : HasReason(view[h], links)

(* "Access is pinned to the same `(round_uuid, player_phira_id)` policy",  *)
(* so that what is shown is of the pair that was decided on, whatever      *)
(* number the query names.  replay/routes.rs:408-409, 320-326, 444-448.    *)
PairIsPinned == \A h \in Handler : view[h].pc = "watch" => view[h].shows \subseteq {view[h].replay}
=============================================================================
