-------------------------------- MODULE Rooms --------------------------------
(***************************************************************************)
(* The room routes, rooms/routes.rs over rooms/service.rs, and the actions *)
(* on a user of users/routes.rs.  The rooms themselves are PMP's and       *)
(* change under the routes' feet; a route asks PMP (room.info), decides,   *)
(* and queues a command that PMP executes later.  The queue, one per room  *)
(* or user, is the broker of module CommandBroker reduced to its order: a  *)
(* command waits its turn, runs once, and its answer may come after the    *)
(* 30 s the route waits for it, or never reach the executor at all.        *)
(*                                                                         *)
(* Of the registered actions room.kick, room.ban and room.close stand for  *)
(* the kinds the room routes tell apart: one whose target must be present, *)
(* one whose target need not, both open to a host and to batches, and one  *)
(* that is neither.  player.kick stands for the actions on a user.         *)
(***************************************************************************)
EXTENDS Requests, Naturals, Sequences

CONSTANTS
    Room, Player,
    RoomHandler,  \* room requests served at the same time
    Staff,        \* users outside the rooms who have the actions' permission
    Batches,      \* the lists of rooms that batches name
    MaxCommands   \* bound on the commands ever queued
ASSUME RoomsAssumption == MaxCommands \in Nat /\ Batches \subseteq Seq(Room)

VARIABLES
    rooms,     \* PMP: room -> None or [host, players]
    banned,    \* PMP: <<room, player>>
    did,       \* PMP: the commands it has carried out
    queue,     \* commands queued for a room or a user and not executed yet
    outcome,   \* command -> "queued", "ok", "failed"
    command,   \* command -> what it was asked to do
    lost,      \* commands whose answer the executor stopped waiting for
    serving,   \* what every handler does
    report     \* the last answer of every handler: one entry per target room

roomVars == <<rooms, banned, did, queue, outcome, command, lost, serving, report>>
pmp == <<rooms, banned, did>>
broker == <<queue, outcome, command, lost>>

Key == Room \cup Player
BatchKind == {"room.kick", "room.ban"}
ActionKind == BatchKind \cup {"room.close"}
OpenRoom == {r \in Room : rooms[r] # None}
host_allowed(kind) == kind \in {"room.kick", "room.ban"}

RoomsInit ==
    /\ rooms = [r \in Room |-> None]
    /\ banned = {}
    /\ did = {} /\ lost = {}
    /\ queue = [k \in Key |-> <<>>]
    /\ outcome = <<>>
    /\ command = <<>>
    /\ serving = [h \in RoomHandler |-> Idle]
    /\ report = [h \in RoomHandler |-> <<>>]

-----------------------------------------------------------------------------
(* PMP's own steps.                                                        *)

Leave(r, p) ==
    LET rest == rooms[r].players \ {p} IN
    [host |-> IF rooms[r].host # p THEN rooms[r].host
              ELSE IF rest = {} THEN None ELSE CHOOSE q \in rest : TRUE,
     players |-> rest]

PlayerJoins(r, p) ==
    /\ r \in OpenRoom /\ <<r, p>> \notin banned
    /\ \A s \in OpenRoom : p \notin rooms[s].players
    /\ rooms' = [rooms EXCEPT ![r] =
          [host |-> IF @.players = {} THEN p ELSE @.host, players |-> @.players \cup {p}]]
    /\ UNCHANGED <<banned, did, broker, serving, report>>

PlayerLeaves(r, p) ==
    /\ r \in OpenRoom /\ p \in rooms[r].players
    /\ rooms' = [rooms EXCEPT ![r] = Leave(r, p)]
    /\ UNCHANGED <<banned, did, broker, serving, report>>

\* What command id is about, and whether PMP can do it.
Into(id) ==
    IF command[id].kind = "player.kick"
    THEN {r \in OpenRoom : command[id].target \in rooms[r].players} ELSE {command[id].key} \cap OpenRoom
Works(id) ==
    \E r \in Into(id) : command[id].kind = "room.kick" => command[id].target \in rooms[r].players

Effect(id) ==
    LET c == command[id] IN
    /\ did' = did \cup {id}
    /\ banned' = IF c.kind = "room.ban" THEN banned \cup {<<c.key, c.target>>} ELSE banned
    /\ rooms' = [r \in Room |->
          IF r \notin Into(id) THEN rooms[r]
          ELSE IF c.kind = "room.close" THEN None
          ELSE IF c.target \in rooms[r].players THEN Leave(r, c.target) ELSE rooms[r]]

\* The executor has a result for the first command of a queue.
Settle(k, result) ==
    /\ queue[k] # <<>>
    /\ queue' = [queue EXCEPT ![k] = Tail(@)]
    /\ outcome' = [outcome EXCEPT ![Head(queue[k])] = result]
    /\ UNCHANGED <<command, serving, report>>

\* PMP's answer arrives; a command that PMP refuses has no effect.
Execute(k) ==
    LET id == Head(queue[k]) IN
    /\ Settle(k, IF Works(id) THEN "ok" ELSE "failed")
    /\ IF Works(id) THEN Effect(id) ELSE UNCHANGED pmp
    /\ UNCHANGED lost

\* No answer: the request times out after 10 s, the connection is lost or
\* the executor panics.  The result is an error like any other.
GiveUp(k) ==
    /\ Settle(k, "failed")
    /\ lost' = lost \cup {Head(queue[k])}
    /\ UNCHANGED pmp

\* PMP may have read such a command all the same.
ExecuteLate(id) ==
    /\ id \in lost \ did
    /\ Works(id) /\ Effect(id)
    /\ UNCHANGED <<broker, serving, report>>

\* POST and DELETE /admin/rooms send their command straight to PMP.
create_room(r) ==
    /\ r \notin OpenRoom
    /\ rooms' = [rooms EXCEPT ![r] = [host |-> None, players |-> {}]]
    /\ UNCHANGED <<banned, did, broker, serving, report>>
close(r) ==
    /\ r \in OpenRoom
    /\ rooms' = [rooms EXCEPT ![r] = None]
    /\ UNCHANGED <<banned, did, broker, serving, report>>

-----------------------------------------------------------------------------
Serve(h, pc) == serving' = [serving EXCEPT ![h].pc = pc]

\* insert_queued and submit: one more command for its room.
Submit(h, c) ==
    LET id == Len(outcome) + 1 IN
    /\ Len(outcome) < MaxCommands
    /\ outcome' = Append(outcome, "queued")
    /\ command' = Append(command, c)
    /\ queue' = [queue EXCEPT ![c.key] = Append(@, id)]
    /\ serving' = [serving EXCEPT ![h].pc = "wait", ![h].id = id]
    /\ UNCHANGED lost

-----------------------------------------------------------------------------
(* POST /rooms/{path}/actions and its administrative twin.                 *)

\* The id of the body, when there is one, replaces the id of the path.
scope(path, body) == IF body = None THEN path ELSE body

resolve_queue_key(kind, room, target) == IF kind = "player.kick" THEN target ELSE room

\* The two differ in the room their audit names, which is left out.
ActionBegin(h, by, room, kind, target) ==
    /\ serving[h] = Idle
    /\ serving' = [serving EXCEPT ![h] =
          [pc |-> "host", op |-> "action", by |-> by, id |-> 0,
           key |-> resolve_queue_key(kind, room, target), kind |-> kind, target |-> target]]
    /\ report' = [report EXCEPT ![h] = <<>>]
    /\ UNCHANGED <<pmp, broker>>
execute_room_action(h, by, path, body, kind, target) ==
    ActionBegin(h, by, scope(path, body), kind, target)
admin_room_action(h, by, path, body, kind, target) ==
    ActionBegin(h, by, scope(path, body), kind, target)

\* POST /admin/users/{path}/actions: the same with the user of the body.
user_actions(h, by, path, body) ==
    LET target == scope(path, body) IN
    /\ serving[h] = Idle /\ by \in Staff
    /\ serving' = [serving EXCEPT ![h] =
          [pc |-> "submit", op |-> "action", by |-> by, id |-> 0,
           key |-> resolve_queue_key("player.kick", None, target), kind |-> "player.kick", target |-> target]]
    /\ report' = [report EXCEPT ![h] = <<>>]
    /\ UNCHANGED <<pmp, broker>>

is_host(kind, r, by) == host_allowed(kind) /\ r \in OpenRoom /\ rooms[r].host = by
\* Permission, or host of the room according to room.info; the answer may
\* be old when the command runs.
verify_real_host(h) ==
    LET s == serving[h] IN
    /\ s.pc = "host"
    /\ IF s.by \in Staff \/ is_host(s.kind, s.key, s.by) THEN Serve(h, "submit") ELSE serving' = [serving EXCEPT ![h] = Idle]
    /\ UNCHANGED <<pmp, broker, report>>

ActionSubmit(h) ==
    LET s == serving[h] IN
    /\ s.pc = "submit" /\ s.op = "action"
    /\ Submit(h, [key |-> s.key, kind |-> s.kind, target |-> s.target])
    /\ UNCHANGED <<pmp, report>>

\* The answer of the executor, or 30 s are over first.
ActionAnswer(h) ==
    LET s == serving[h] IN
    /\ s.pc = "wait" /\ s.op = "action"
    /\ \/ outcome[s.id] # "queued" /\ report' = [report EXCEPT ![h] = <<<<s.id, outcome[s.id]>>>>]
       \/ report' = [report EXCEPT ![h] = <<<<s.id, "timeout">>>>]
    /\ serving' = [serving EXCEPT ![h] = Idle]
    /\ UNCHANGED <<pmp, broker>>

-----------------------------------------------------------------------------
(* POST /admin/rooms/actions/batch.                                        *)

BatchBegin(h, by, ids, kind, target, dry) ==
    /\ serving[h] = Idle
    /\ by \in Staff /\ kind \in BatchKind /\ ids # <<>>
    /\ serving' = [serving EXCEPT ![h] =
          [pc |-> "info", op |-> "batch", by |-> by, left |-> ids, kind |-> kind,
           target |-> target, dry |-> dry, results |-> <<>>, id |-> 0]]
    /\ report' = [report EXCEPT ![h] = <<>>]
    /\ UNCHANGED <<pmp, broker>>

Item(h, id, ok) ==
    [serving[h] EXCEPT !.pc = "info", !.left = Tail(@), !.results = Append(@, <<id, ok>>)]

room_contains_player(r, p) == p \in rooms[r].players
\* room.info: no such room, a target to kick who is not there, a dry run.
BatchInfo(h) ==
    LET s == serving[h]
        r == Head(s.left)
        absent == r \notin OpenRoom \/ (s.kind = "room.kick" /\ ~room_contains_player(r, s.target))
    IN
    /\ s.pc = "info" /\ s.op = "batch" /\ s.left # <<>>
    /\ serving' = [serving EXCEPT ![h] =
          IF absent THEN Item(h, 0, "failed")
          ELSE IF s.dry THEN Item(h, 0, "ok") ELSE [s EXCEPT !.pc = "submit"]]
    /\ UNCHANGED <<pmp, broker, report>>

\* A failed insert or a full queue ends the batch with an error: what was
\* done for the rooms before it is not reported.
BatchSubmit(h) ==
    LET s == serving[h] IN
    /\ s.pc = "submit" /\ s.op = "batch"
    /\ \/ Submit(h, [key |-> resolve_queue_key(s.kind, Head(s.left), s.target),
                     kind |-> s.kind, target |-> s.target])
       \/ serving' = [serving EXCEPT ![h] = Idle] /\ UNCHANGED broker
    /\ UNCHANGED <<pmp, report>>

BatchWaitLate(h) ==
    LET s == serving[h] IN
    /\ s.pc = "wait" /\ s.op = "batch"
    /\ serving' = [serving EXCEPT ![h] =
          Item(h, s.id, IF outcome[s.id] = "failed" THEN "failed" ELSE "ok")]
    /\ UNCHANGED <<pmp, broker, report>>
BatchWait(h) ==
    LET s == serving[h] IN
    /\ s.pc = "wait" /\ s.op = "batch"
    /\ \/ outcome[s.id] # "queued" /\ serving' = [serving EXCEPT ![h] = Item(h, s.id, outcome[s.id])]
       \/ serving' = [serving EXCEPT ![h] = Item(h, s.id, "timeout")]
    /\ UNCHANGED <<pmp, broker, report>>

BatchAnswer(h) ==
    LET s == serving[h] IN
    /\ s.pc = "info" /\ s.op = "batch" /\ s.left = <<>>
    /\ report' = [report EXCEPT ![h] = s.results]
    /\ serving' = [serving EXCEPT ![h] = Idle]
    /\ UNCHANGED <<pmp, broker>>

-----------------------------------------------------------------------------
RoomsNext ==
    \/ \E k \in Key : Execute(k) \/ GiveUp(k)
    \/ \E id \in lost : ExecuteLate(id)
    \/ \E r \in Room :
        \/ create_room(r) \/ close(r)
        \/ \E p \in Player : PlayerJoins(r, p) \/ PlayerLeaves(r, p)
    \/ \E h \in RoomHandler :
        \/ verify_real_host(h) \/ ActionSubmit(h) \/ ActionAnswer(h)
        \/ BatchInfo(h) \/ BatchSubmit(h) \/ BatchWait(h) \/ BatchAnswer(h)
        \/ \E by \in Player \cup Staff, target \in Player, kind \in ActionKind :
            \/ \E path \in Room, body \in Room \cup {None} :
                  \/ execute_room_action(h, by, path, body, kind, target)
                  \/ admin_room_action(h, by, path, body, kind, target)
            \/ \E body \in Player \cup {None} : user_actions(h, by, target, body)
            \/ \E ids \in Batches, dry \in BOOLEAN :
                  BatchBegin(h, by, ids, kind, target, dry)

RoomsSpec == RoomsInit /\ [][RoomsNext]_roomVars

RoomsTypeOK ==
    /\ \A r \in OpenRoom : rooms[r].players \subseteq Player
                       /\ (rooms[r].players # {} <=> rooms[r].host \in rooms[r].players)
    /\ Len(outcome) = Len(command) /\ Len(outcome) <= MaxCommands
    /\ \A k \in Key : \A i \in 1..Len(queue[k]) : outcome[queue[k][i]] = "queued"

(* What a route reports is what happened: an item is a success only if PMP *)
(* carried its command out (or the batch was a dry run), and a failure     *)
(* that comes from PMP's answer only if PMP did not and never will.  A     *)
(* timeout leaves it open, and so does a failure without an answer: the    *)
(* batch reports a lost connection or the 10 s of OpenUDS as               *)
(* PmpCommandFailed, "command failed", although PMP may have carried the   *)
(* command out or still may.                                               *)
(* rooms/routes.rs:337-350 and 741-879, pmp/openuds/client.rs:304-329.     *)
SaidIsDone ==
    \A h \in RoomHandler : \A i \in 1..Len(report[h]) :
        LET id == report[h][i][1]
            said == report[h][i][2]
        IN /\ id # 0 /\ said = "ok" => id \in did
           /\ id # 0 /\ said = "failed" /\ id \notin lost => id \notin did

(* What a room action or a batch reports as done, PMP did, and what it     *)
(* reports as refused, PMP did not; a command that still waits in the      *)
(* queue of its room or user has had no effect yet.                        *)
(* rooms/routes.rs:692-880.                                                *)
ReportIsTrue ==
    /\ RoomsTypeOK
    /\ SaidIsDone
    /\ \A k \in Key : \A i \in 1..Len(queue[k]) : queue[k][i] \notin did
=============================================================================
