-------------------------------- MODULE Logs --------------------------------
(***************************************************************************)
(* PMP's log in the panel: logs/routes.rs and logs/mod.rs.  A viewer       *)
(* follows the live stream and looks an occurrence up in the history by    *)
(* its log id.                                                             *)
(*                                                                         *)
(* PMP numbers the lines of one process and keeps the last Ring of them;   *)
(* an older PMP sends no numbers, and the log id is then a digest of the   *)
(* text, which the model takes to be free of collisions.                   *)
(***************************************************************************)
EXTENDS Naturals, Sequences, Requests

CONSTANTS
    Text,      \* what a line says
    Viewer,
    Ring,      \* lines PMP keeps
    LineCapacity, \* frames a receiver of the broadcast channel holds
    MaxWindow, \* lines one query of the history may ask for
    MaxLines,  \* bound on the lines PMP writes
    MaxLosses  \* bound on the lost connections and restarts of PMP

ASSUME LogsAssumption ==
    /\ Ring \in Nat \ {0} /\ LineCapacity \in Nat \ {0} /\ MaxWindow \in Nat \ {0}
    /\ MaxLines \in Nat /\ MaxLosses \in Nat
    /\ None \notin Nat

VARIABLES
    numbered,  \* PMP sends sequence numbers
    lines,     \* what PMP has written, in order, over all its processes
    base,      \* how many of them its earlier processes wrote
    up,        \* the connection is authenticated
    asked,     \* a subscribe_stream frame is on its way to PMP
    fed,       \* PMP sends its log on this connection
    losses,    \* lost connections and restarts so far
    viewer     \* viewer -> the state of its stream

logVars == <<numbered, lines, base, up, asked, fed, losses, viewer>>

Closed == [pc |-> "closed"]

LogInit ==
    /\ numbered \in BOOLEAN
    /\ lines = <<>> /\ base = 0 /\ losses = 0
    /\ up = TRUE /\ asked = FALSE /\ fed = FALSE
    /\ viewer = [v \in Viewer |-> Closed]

-----------------------------------------------------------------------------
(* PMP and the connection.                                                 *)

\* A frame waits in every open receiver; a full one loses its oldest frame.
\* `due' is the first line the stream has to show, 0 before PMP feeds it.
Into(s, n) ==
    IF s.pc # "open" THEN s
    ELSE [s EXCEPT !.rx = IF Len(@) = LineCapacity THEN Append(Tail(@), n) ELSE Append(@, n),
                   !.lagged = @ \/ Len(s.rx) = LineCapacity,
                   !.due = IF @ = 0 THEN n ELSE @]
PmpWrites(t) ==
    LET n == Len(lines) + 1 IN
    /\ n <= MaxLines
    /\ lines' = Append(lines, [line |-> t, seq |-> IF numbered THEN n - base ELSE None])
    /\ viewer' = [v \in Viewer |->
          IF fed THEN Into(viewer[v], n)
          ELSE IF viewer[v].pc = "open" /\ viewer[v].due # 0 THEN [viewer[v] EXCEPT !.silent = TRUE]
          ELSE viewer[v]]
    /\ UNCHANGED <<numbered, base, up, asked, fed, losses>>

PmpSubscribes ==
    /\ asked
    /\ asked' = FALSE /\ fed' = TRUE
    /\ UNCHANGED <<numbered, lines, base, up, losses, viewer>>

\* The subscription belongs to the connection and nothing repeats it: the
\* stream of a viewer stays open and waits.
Dropped ==
    /\ losses < MaxLosses
    /\ up' = FALSE /\ asked' = FALSE /\ fed' = FALSE
    /\ losses' = losses + 1
    /\ viewer' = [v \in Viewer |-> IF up /\ viewer[v].pc = "open"
                                   THEN [viewer[v] EXCEPT !.lost = TRUE] ELSE viewer[v]]
    /\ UNCHANGED <<numbered, lines>>
ConnectionLost == up /\ Dropped /\ base' = base
\* A new PMP has an empty history and counts from 1 again.
PmpRestarts == Dropped /\ base' = Len(lines)
Reconnected ==
    /\ ~up
    /\ up' = TRUE
    /\ UNCHANGED <<numbered, lines, base, asked, fed, losses, viewer>>

-----------------------------------------------------------------------------
(* GET /admin/logs/stream.                                                 *)

StreamBegin(v) ==
    /\ viewer[v] = Closed /\ up
    /\ viewer' = [viewer EXCEPT ![v] = [pc |-> "subscribe"]]
    /\ UNCHANGED <<numbered, lines, base, up, asked, fed, losses>>

\* An error of subscribe_stream is ignored.
subscribe_stream(v) ==
    /\ viewer[v].pc = "subscribe"
    /\ asked' = (asked \/ (up /\ ~fed))
    /\ viewer' = [viewer EXCEPT ![v] = [pc |-> "receiver"]]
    /\ UNCHANGED <<numbered, lines, base, up, fed, losses>>

stream(v) ==
    /\ viewer[v].pc = "receiver"
    /\ viewer' = [viewer EXCEPT ![v] =
          [pc |-> "open", rx |-> <<>>, got |-> <<>>, due |-> IF fed THEN Len(lines) + 1 ELSE 0,
           lagged |-> FALSE, lost |-> FALSE, silent |-> FALSE]]
    /\ UNCHANGED <<numbered, lines, base, up, asked, fed, losses>>

\* log_id_for, for the occurrence with this number and text.
log_id_for(t, seq) == IF seq = None THEN <<"legacy", t>> ELSE <<"pmp", seq>>
parse_log_line_with_seq(o) == [log_id |-> log_id_for(o.line, o.seq), message |-> o.line]

parse_log_occurrences(n) == parse_log_line_with_seq(lines[n])

\* Mutant: every frame is awaited on a receiver of its own.
FollowResubscribes(v) ==
    LET s == viewer[v]
        e == parse_log_occurrences(Head(s.rx))
        shown == [n |-> Head(s.rx), log_id |-> e.log_id, message |-> e.message] IN
    /\ s.pc = "open" /\ s.rx # <<>>
    /\ viewer' = [viewer EXCEPT ![v] = [s EXCEPT !.rx = <<>>, !.got = Append(s.got, shown)]]
    /\ UNCHANGED <<numbered, lines, base, up, asked, fed, losses>>
Follow(v) ==
    LET s == viewer[v]
        n == Head(s.rx)
        e == parse_log_occurrences(n)
        shown == [n |-> n, log_id |-> e.log_id, message |-> e.message] IN
    /\ s.pc = "open" /\ s.rx # <<>>
    /\ viewer' = [viewer EXCEPT ![v] = [s EXCEPT !.rx = Tail(s.rx), !.got = Append(s.got, shown)]]
    /\ UNCHANGED <<numbered, lines, base, up, asked, fed, losses>>

LeaveLog(v) ==
    /\ viewer[v].pc = "open"
    /\ viewer' = [viewer EXCEPT ![v] = Closed]
    /\ UNCHANGED <<numbered, lines, base, up, asked, fed, losses>>

LogNext ==
    \/ \E t \in Text : PmpWrites(t)
    \/ PmpSubscribes \/ ConnectionLost \/ PmpRestarts \/ Reconnected
    \/ \E v \in Viewer :
        StreamBegin(v) \/ subscribe_stream(v) \/ stream(v) \/ Follow(v) \/ LeaveLog(v)

LogSpec == LogInit /\ [][LogNext]_logVars

-----------------------------------------------------------------------------
(* GET /admin/logs.                                                        *)

KeptLines == {n \in (base + 1)..Len(lines) : n + Ring > Len(lines)}
\* What PMP answers to logs.history: the newest of the lines it keeps.  No
\* limit in the query is the largest.
Clamped(limit) == IF limit < 1 THEN 1 ELSE IF limit > MaxWindow THEN MaxWindow ELSE limit
Window(limit) == {n \in KeptLines : n + Clamped(limit) > Len(lines)}
\* An older PMP answers with bare lines.
history_entries_ofBare(n) == [line |-> lines[n].line, seq |-> None]
history_entries_of(n) == lines[n]
Entry(n) == parse_log_line_with_seq(history_entries_of(n))
\* The lines of the window that have the log id and the text asked for; the
\* levels narrow the list in the same way.
apply_log_filters(window, id, search) ==
    {n \in window : Entry(n).log_id = id /\ search \in {None, Entry(n).message}}
\* A page of what is left: skip, then take.
history(limit, id, search, page, page_num) ==
    LET found == apply_log_filters(Window(limit), id, search) IN
    {n \in found : Cardinality({m \in found : m <= n}) \in
                       ((page - 1) * page_num + 1)..(page * page_num)}

-----------------------------------------------------------------------------
LogId == ({"legacy"} \X Text) \cup ({"pmp"} \X (1..MaxLines))
Written == [line : Text, seq : (1..MaxLines) \cup {None}]
Shown == [n : 1..MaxLines, log_id : LogId, message : Text]
Opened == [pc : {"open"}, rx : Seq(1..MaxLines), got : Seq(Shown), due : 0..(MaxLines + 1),
           lagged : BOOLEAN, lost : BOOLEAN, silent : BOOLEAN]
Beginning == [pc : {"closed", "subscribe", "receiver"}]

LogTypeOK ==
    /\ numbered \in BOOLEAN /\ up \in BOOLEAN /\ asked \in BOOLEAN /\ fed \in BOOLEAN
    /\ lines \in Seq(Written) /\ Len(lines) <= MaxLines /\ base \in 0..Len(lines)
    /\ losses \in 0..MaxLosses
    /\ (fed \/ asked) => up
    /\ viewer \in [Viewer -> Opened \cup Beginning]
    /\ \A v \in Viewer : viewer[v].pc = "open" => Len(viewer[v].rx) <= LineCapacity

(* A viewer's stream shows every line, in order and once, from the first   *)
(* that PMP fed it to the last that is not still waiting, unless it lagged *)
(* or the connection was lost meanwhile: only then may it miss lines, and  *)
(* it is never told.  logs/routes.rs:215-256, openuds/client.rs:358-376.   *)
StreamIsWhole ==
    /\ LogTypeOK
    /\ \A v \in Viewer : viewer[v].pc = "open" =>
          LET s == viewer[v]
              seen == [i \in 1..Len(s.got) |-> s.got[i].n] IN
          /\ \A i \in 1..(Len(s.got) - 1) : seen[i] < seen[i + 1]
          /\ s.silent => s.lost
          /\ ~s.lagged /\ ~s.lost /\ s.due # 0 =>
                seen \o s.rx = [i \in 1..(Len(lines) + 1 - s.due) |-> s.due + i - 1]

(* The log id of a line that the stream showed finds it in the history, if *)
(* PMP keeps it and the window asked for reaches back to it: "`log_id`     *)
(* focus is a filter over the bounded PMP history window".  With numbers   *)
(* "a focused query (`log_id` + `pageNum:1`) lands on the matching entry", *)
(* whatever else was searched for, and nothing that says something else is *)
(* found, while the PMP that wrote the line runs: its numbers are          *)
(* "authoritative within one process lifetime".  A digest finds the text   *)
(* in any process.  logs/routes.rs:80-139, logs/mod.rs:48-84, 194-204.     *)
FocusFindsTheLine ==
    \A v \in Viewer : viewer[v].pc = "open" =>
        \A i \in 1..Len(viewer[v].got) :
            LET e == viewer[v].got[i]
                found(limit, search) ==
                    history(limit, e.log_id, search, 1, IF numbered THEN 1 ELSE MaxLines) IN
            \A limit \in 0..MaxLines, search \in {None, e.message} :
                /\ e.n \in Window(limit) => e.n \in found(limit, search)
                /\ (numbered => e.n > base) =>
                   \A n \in found(limit, search) : Entry(n).message = e.message

(* What a viewer of PMP's log can rely on: the stream is whole, and what   *)
(* it showed is found again in the history.  logs/routes.rs:80-256.        *)
LogsAreWhole == StreamIsWhole /\ FocusFindsTheLine
=============================================================================
