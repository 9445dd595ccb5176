------------------------------ MODULE MCFeeds -------------------------------
(***************************************************************************)
(* What clients follow and page through while it changes: the event        *)
(* stream, PMP's log, a live room, replays and their data, and the         *)
(* listings.  The parts share no state, so one run explores each of them   *)
(* from its own initial states: `part' says which.                         *)
(***************************************************************************)
EXTENDS EventStream, LiveRoom, Replays, Logs, ReplayPages, Listings, TLC

CONSTANTS r1, r2

VARIABLE part

feedVars == <<part, eventVars, liveVars, pageVars, replayVars, logVars, listVars>>

\* Two rounds of one player, and a number that is 1 once it is cut to size.
TwoReplays == {<<r1, 1>>, <<r2, 1>>}
WideOne == {<<r1, 5>>}

FeedsInit ==
    /\ part \in {"events", "live", "pages", "replays", "logs", "listings"}
    /\ EventInit /\ LiveInit /\ PagesInit /\ ReplayInit /\ LogInit /\ ListInit
    /\ part # "pages" => newest
    /\ part # "logs" => numbered
    /\ part # "listings" => kind = "users" /\ made = 0

EventsStep == part = "events" /\ EventNext
    /\ UNCHANGED <<part, liveVars, pageVars, replayVars, logVars, listVars>>
LiveStep == part = "live" /\ LiveNext
    /\ UNCHANGED <<part, eventVars, pageVars, replayVars, logVars, listVars>>
PagesStep == part = "pages" /\ PagesNext
    /\ UNCHANGED <<part, eventVars, liveVars, replayVars, logVars, listVars>>
ReplaysStep == part = "replays" /\ ReplayNext
    /\ UNCHANGED <<part, eventVars, liveVars, pageVars, logVars, listVars>>
LogsStep == part = "logs" /\ LogNext
    /\ UNCHANGED <<part, eventVars, liveVars, pageVars, replayVars, listVars>>
ListingsStep == part = "listings" /\ ListNext
    /\ UNCHANGED <<part, eventVars, liveVars, pageVars, replayVars, logVars>>

FeedsNext ==
    \/ EventsStep \/ LiveStep \/ PagesStep
    \/ ReplaysStep \/ LogsStep \/ ListingsStep
FeedsSpec == FeedsInit /\ [][FeedsNext]_feedVars
Symmetric == Permutations(Public) \cup Permutations(Own) \cup Permutations(Viewer)
=============================================================================
