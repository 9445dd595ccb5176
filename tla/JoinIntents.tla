----------------------------- MODULE JoinIntents -----------------------------
(***************************************************************************)
(* Join intents: a player who is offline asks to be put into a room, and   *)
(* one listener task moves the player there when PMP reports user.online.  *)
(* The store is two concurrent maps (the intents and the by_phira index),  *)
(* each update of one map is atomic and nothing makes two of them one.     *)
(* API handlers, the listener and the cleanup task run on several threads. *)
(*                                                                         *)
(* Rooms are left out: an intent is its own target.  Wall-clock time is    *)
(* the age of an intent, which may grow at any moment.                     *)
(***************************************************************************)
EXTENDS Naturals

CONSTANTS Intent, Player, NoIntent, NoPlayer

ASSUME JoinIntentsAssumption ==
    /\ NoIntent \notin Intent
    /\ NoPlayer \notin Player

VARIABLES
    status,     \* intents: status of every entry, "none" before, "gone" after
    owner,      \* the player of every intent (phira_id, one per user)
    age,        \* live, overdue (expires_at passed), stale (retention passed)
    index,      \* by_phira
    creating,   \* intents inserted by a create that has not indexed them yet
    cancelPc,   \* where the cancel of every intent stands
    listener,   \* where the user.online listener stands
    cur,        \* the intent it works on
    moves,      \* number of room.force_move commands sent for every intent
    sweep,      \* ids the running cleanup has still to visit, with their age at its `now`
    cleaner,    \* where the cleanup task stands
    target      \* the id it is visiting

intentVars == <<status, owner, age, index, creating, cancelPc, listener, cur, moves,
          sweep, cleaner, target>>
listenVars == <<listener, cur, moves>>
cleanVars == <<sweep, cleaner, target>>
apiVars == <<creating, cancelPc>>

Terminal == {"completed", "failed", "expired"}
Status == {"pending", "user_online", "moving"} \cup Terminal
Overdue == {"overdue", "stale"}
Ages == {"live"} \cup Overdue

Present(i) == status[i] \in Status

\* effective_status(i) = pending
EffectivelyPending(i) == status[i] = "pending" /\ age[i] = "live"

IntentsInit ==
    /\ status = [i \in Intent |-> "none"]
    /\ owner = [i \in Intent |-> NoPlayer]
    /\ age = [i \in Intent |-> "live"]
    /\ index = [p \in Player |-> NoIntent]
    /\ creating = {}
    /\ cancelPc = [i \in Intent |-> "none"]
    /\ listener = "idle"
    /\ cur = NoIntent
    /\ moves = [i \in Intent |-> 0]
    /\ sweep = {}
    /\ cleaner = "idle"
    /\ target = NoIntent

\* update_status: an entry that is gone stays gone.
UpdateStatus(i, s) ==
    status' = IF Present(i) THEN [status EXCEPT ![i] = s] ELSE status

Unindexed(i) == [index EXCEPT ![owner[i]] = NoIntent]

-----------------------------------------------------------------------------
(* The API handlers.                                                       *)

\* create: a fresh uuid, so `insert` never returns a previous entry.
Create(i, p) ==
    /\ status[i] = "none"
    /\ status' = [status EXCEPT ![i] = "pending"]
    /\ owner' = [owner EXCEPT ![i] = p]
    /\ creating' = creating \cup {i}
    /\ UNCHANGED <<age, index, cancelPc, listenVars, cleanVars>>

CreateIndex(i) ==
    /\ i \in creating
    /\ index' = [index EXCEPT ![owner[i]] = i]
    /\ creating' = creating \ {i}
    /\ UNCHANGED <<status, owner, age, cancelPc, listenVars, cleanVars>>

\* cancel by the owner: find the entry, drop the index, drop the entry.
CancelFind(i) ==
    /\ Present(i)
    /\ cancelPc[i] = "none"
    /\ cancelPc' = [cancelPc EXCEPT ![i] = "found"]
    /\ UNCHANGED <<status, owner, age, index, creating, listenVars, cleanVars>>

CancelUnindex(i) ==
    /\ cancelPc[i] = "found"
    /\ index' = Unindexed(i)
    /\ cancelPc' = [cancelPc EXCEPT ![i] = "unindexed"]
    /\ UNCHANGED <<status, owner, age, creating, listenVars, cleanVars>>

CancelRemove(i) ==
    /\ cancelPc[i] = "unindexed"
    /\ status' = [status EXCEPT ![i] = "gone"]
    /\ cancelPc' = [cancelPc EXCEPT ![i] = "none"]
    /\ UNCHANGED <<owner, age, index, creating, listenVars, cleanVars>>

-----------------------------------------------------------------------------
(* The listener: match_online, mark_moving, force_move, mark_terminal.     *)

\* A step of the listener, which works on intent i until it is idle again.
Listen(from, to, i) ==
    /\ listener = from
    /\ listener' = to
    /\ cur' = IF to = "idle" THEN NoIntent ELSE i
    /\ UNCHANGED <<owner, age, apiVars, cleanVars>>

\* A user.online event of a player the index knows.
OnlineTakes(p) ==
    /\ index[p] # NoIntent
    /\ Listen("idle", "found", index[p])
    /\ index' = [index EXCEPT ![p] = NoIntent]
    /\ UNCHANGED <<status, moves>>
Online(p) ==
    /\ index[p] # NoIntent
    /\ Listen("idle", "found", index[p])
    /\ UNCHANGED <<status, index, moves>>

\* match_online looks the intent up and checks it; then it marks it.
MatchCheck ==
    /\ Listen("found", IF EffectivelyPending(cur) THEN "matched" ELSE "idle", cur)
    /\ UNCHANGED <<status, index, moves>>

MatchMark ==
    /\ Listen("matched", "online", cur)
    /\ UpdateStatus(cur, "user_online")
    /\ UNCHANGED <<index, moves>>

MarkMoving ==
    /\ Listen("online", "moving", cur)
    /\ UpdateStatus(cur, "moving")
    /\ UNCHANGED <<index, moves>>

ForceMove ==
    /\ Listen("moving", "sent", cur)
    /\ moves' = [moves EXCEPT ![cur] = @ + 1]
    /\ UNCHANGED <<status, index>>

\* The command's answer, its error or its timeout; mark_terminal looks the
\* player up and sets the status, and then drops the player's index entry.
MarkTerminalRetries ==
    /\ Listen("sent", "idle", cur)
    /\ \E s \in {"completed", "pending"} : UpdateStatus(cur, s)
    /\ UNCHANGED <<index, moves>>
MarkTerminal ==
    /\ Listen("sent", IF Present(cur) THEN "unindex" ELSE "idle", cur)
    /\ \E s \in {"completed", "failed"} : UpdateStatus(cur, s)
    /\ UNCHANGED <<index, moves>>

MarkTerminalUnindex ==
    /\ Listen("unindex", "idle", cur)
    /\ index' = Unindexed(cur)
    /\ UNCHANGED <<status, moves>>

-----------------------------------------------------------------------------
(* cleanup_expired, once a minute: the time and a snapshot of the ids,     *)
(* then for each a read, and an update or a removal decided by what was    *)
(* read.                                                                   *)

\* A step of the cleanup task, which visits id i.
Clean(from, to, i) ==
    /\ cleaner = from
    /\ cleaner' = to
    /\ target' = IF to = "idle" THEN NoIntent ELSE i
    /\ UNCHANGED <<owner, age, apiVars, listenVars>>

\* Entries live at this moment are passed over whatever happens meanwhile.
SweepStart ==
    /\ sweep = {}
    /\ Clean("idle", "idle", NoIntent)
    /\ sweep' = {<<i, age[i]>> : i \in {k \in Intent : Present(k) /\ age[k] \in Overdue}}
    /\ sweep' # {}
    /\ UNCHANGED <<status, index>>

SweepVisit(i, a) ==
    /\ <<i, a>> \in sweep
    /\ sweep' = sweep \ {<<i, a>>}
    /\ Clean("idle", IF status[i] \notin Terminal THEN "mark"
                     ELSE IF a = "stale" THEN "remove" ELSE "idle", i)
    /\ UNCHANGED <<status, index>>

SweepMarkNone ==
    /\ Clean("mark", "idle", target)
    /\ UNCHANGED <<status, index, sweep>>
SweepMark ==
    /\ Clean("mark", "idle", target)
    /\ UpdateStatus(target, "expired")
    /\ UNCHANGED <<index, sweep>>

SweepRemove ==
    /\ Clean("remove", IF Present(target) THEN "unindex" ELSE "idle", target)
    /\ status' = [status EXCEPT ![target] = "gone"]
    /\ UNCHANGED <<index, sweep>>

SweepUnindex ==
    /\ Clean("unindex", "idle", target)
    /\ index' = Unindexed(target)
    /\ UNCHANGED <<status, sweep>>

-----------------------------------------------------------------------------
\* Time passes: the ttl, then the retention of an intent.
Age(i) ==
    /\ Present(i)
    /\ age[i] # "stale"
    /\ age' = [age EXCEPT ![i] = IF @ = "live" THEN "overdue" ELSE "stale"]
    /\ UNCHANGED <<status, owner, index, apiVars, listenVars, cleanVars>>

ListenerStep ==
    MatchCheck \/ MatchMark \/ MarkMoving \/ ForceMove \/ MarkTerminal \/ MarkTerminalUnindex

SweepStep ==
    SweepStart \/ (\E i \in Intent, a \in Overdue : SweepVisit(i, a)) \/ SweepMark \/ SweepRemove \/ SweepUnindex

IntentsNext ==
    \/ \E i \in Intent : \E p \in Player : Create(i, p)
    \/ \E i \in Intent :
          CreateIndex(i) \/ CancelFind(i) \/ CancelUnindex(i) \/ CancelRemove(i) \/ Age(i)
    \/ \E p \in Player : Online(p)
    \/ ListenerStep
    \/ SweepStep

IntentsSpec == IntentsInit /\ [][IntentsNext]_intentVars

\* The tasks run, the force_move command ends (its OpenUDS budget is bounded)
\* and time passes.  Players and their users owe nothing.
IntentsFairSpec ==
    /\ IntentsSpec
    /\ WF_intentVars(ListenerStep)
    /\ WF_intentVars(SweepStep)
    /\ \A i \in Intent : WF_intentVars(Age(i))

-----------------------------------------------------------------------------
(* Properties.                                                             *)

IntentsTypeOK ==
    /\ status \in [Intent -> Status \cup {"none", "gone"}]
    /\ owner \in [Intent -> Player \cup {NoPlayer}]
    /\ age \in [Intent -> Ages]
    /\ index \in [Player -> Intent \cup {NoIntent}]
    /\ creating \subseteq Intent
    /\ cancelPc \in [Intent -> {"none", "found", "unindexed"}]
    /\ listener \in {"idle", "found", "matched", "online", "moving", "sent", "unindex"}
    /\ cur \in Intent \cup {NoIntent}
    /\ moves \in [Intent -> Nat]
    /\ sweep \subseteq Intent \X Overdue
    /\ cleaner \in {"idle", "mark", "remove", "unindex"}
    /\ target \in Intent \cup {NoIntent}

\* However events, cancels and cleanups interleave with the listener, an
\* intent moves its player at most once.
AtMostOneMove == \A i \in Intent : moves[i] <= 1

\* A player with a single intent does not lose it from the index while it is
\* pending and nobody cancels it: the next user.online finds it, whatever the
\* cleanup and events of other players do meanwhile.
LoneIntentIsIndexed ==
    \A i \in Intent \ creating :
        /\ EffectivelyPending(i)
        /\ cancelPc[i] = "none"
        /\ \A j \in Intent \ {i} : owner[j] # owner[i]
        => index[owner[i]] = i

\* However events, cancels and the cleanup interleave, an intent is neither
\* carried out twice nor lost while it is the only one of its player.
\* join_intent/mod.rs:84-205, app.rs:268-305.
IntentsAreSound == IntentsTypeOK /\ AtMostOneMove /\ LoneIntentIsIndexed

\* The store does not grow for ever: every intent is eventually removed, also
\* one nobody cancels or polls.
StoreDrains == \A i \in Intent : Present(i) ~> status[i] = "gone"
=============================================================================
