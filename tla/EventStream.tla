----------------------------- MODULE EventStream -----------------------------
(***************************************************************************)
(* The event bus, its publishers and one SSE client.  The frames that PMP  *)
(* sends pass through a bounded channel to the forwarder, which publishes  *)
(* those of the public types one after the other; the heartbeat task and   *)
(* the runs of jobs publish events of their own beside it.  Publishing     *)
(* pushes an event to a bounded history and then sends it on a bounded     *)
(* broadcast channel, under no common lock.  A client subscribes to the    *)
(* channel, asks the history for what follows its Last-Event-ID            *)
(* (everything kept, when that id is no longer there), streams that and    *)
(* then the channel; it may leave at any moment and come back with the id  *)
(* of the last event it received.  What an event says, the counts of the   *)
(* heartbeats among it, is left out.                                       *)
(*                                                                         *)
(* The two logs hold every event ever pushed and sent; the rings are their *)
(* last MaxHistory and EventCapacity elements.  Clients share nothing      *)
(* else, so one is enough.                                                 *)
(***************************************************************************)
EXTENDS Naturals, Sequences, FiniteSets

CONSTANTS
    Public,      \* PMP's frames of the types that have an envelope
    Internal,    \* its frames of other types
    Own,         \* events of PPB: heartbeats and the progress of jobs
    PmpCapacity, \* length of the channel of PMP's frames
    MaxHistory,  \* length of the history ring
    EventCapacity, \* length of the broadcast channel
    Threads,     \* publications that can be under way at once
    NoEvent

ASSUME EventStreamAssumption ==
    /\ NoEvent \notin Public \cup Own
    /\ Public \cap Internal = {}
    /\ Public \cap Own = {}
    /\ PmpCapacity \in Nat \ {0}
    /\ MaxHistory \in Nat \ {0}
    /\ EventCapacity \in Nat \ {0}
    /\ Threads \in Nat \ {0}

VARIABLES
    incoming,    \* what the forwarder has not received yet
    came,        \* history: the frames PMP ever sent
    pushed,      \* events in the order of their push to the history
    sent,        \* events in the order of their send on the channel
    publishing,  \* events pushed and not yet sent
    overlapped,  \* history: events published while another one was
    client,      \* where the client's connection stands
    cursor,      \* how much of the channel its receiver has consumed
    start,       \* the length of sent when it subscribed without an id
    replay,      \* what is left of its replay
    last,        \* the last event id it received
    got,         \* what it ever received
    lost         \* what a ring had overwritten before it could be read

eventVars == <<incoming, came, pushed, sent, publishing, overlapped, client, cursor, start, replay, last, got, lost>>
inVars == <<incoming, came>>
busVars == <<incoming, came, pushed, sent, publishing, overlapped>>
seenVars == <<start, last, got, lost>>

Event == Public \cup Own

Elements(s) == {s[n] : n \in DOMAIN s}

\* The last n elements of a log: what a ring of n slots still holds.
Kept(s, n) == IF Len(s) <= n THEN s ELSE SubSeq(s, Len(s) - n + 1, Len(s))

History == Kept(pushed, MaxHistory)

\* The events of a sequence strictly after e.
After(s, e) == LET at == CHOOSE n \in DOMAIN s : s[n] = e IN SubSeq(s, at + 1, Len(s))

EventInit ==
    /\ incoming = <<>>
    /\ came = {}
    /\ pushed = <<>>
    /\ sent = <<>>
    /\ publishing = {}
    /\ overlapped = {}
    /\ client = "off"
    /\ cursor = 0
    /\ start = 0
    /\ replay = <<>>
    /\ last = NoEvent
    /\ got = {}
    /\ lost = {}

-----------------------------------------------------------------------------
(* EventBus::publish.                                                      *)

PublishPush(e) ==
    /\ e \notin Elements(pushed)
    /\ Cardinality(publishing) < Threads
    /\ pushed' = Append(pushed, e)
    /\ publishing' = publishing \cup {e}
    /\ overlapped' = IF publishing = {} THEN overlapped ELSE overlapped \cup publishing \cup {e}
    /\ UNCHANGED <<sent, client, cursor, replay, seenVars>>

\* The forwarder goes on to the next frame, and a publisher to its next
\* event, only when publish has returned.
PublishSend(e) ==
    /\ e \in publishing
    /\ sent' = Append(sent, e)
    /\ publishing' = publishing \ {e}
    /\ UNCHANGED <<inVars, pushed, overlapped, client, cursor, replay, seenVars>>

-----------------------------------------------------------------------------
(* The publishers.                                                         *)

\* PMP sends a frame.  A forwarder that falls behind loses the oldest ones:
\* its receiver reports Lagged and it continues.
PmpFrame(f) ==
    /\ f \notin came
    /\ came' = came \cup {f}
    /\ incoming' = Kept(Append(incoming, f), PmpCapacity)
    /\ UNCHANGED <<pushed, sent, publishing, overlapped, client, cursor, replay, seenVars>>

\* Frames of other types have no envelope.
map_pmp_event(f) == IF f \in Public THEN f ELSE NoEvent

Forward ==
    /\ incoming # <<>>
    /\ publishing \cap Public = {}
    /\ incoming' = Tail(incoming)
    /\ UNCHANGED came
    /\ LET e == map_pmp_event(Head(incoming)) IN
       IF e # NoEvent
       THEN PublishPush(e)
       ELSE UNCHANGED <<pushed, sent, publishing, overlapped, client, cursor, replay, seenVars>>

\* The heartbeat task, or a run of a job, has something to say.
Beat(e) ==
    /\ e \in Own
    /\ PublishPush(e)
    /\ UNCHANGED inVars

-----------------------------------------------------------------------------
(* events_sse and its twin for administrators, which asks for a permission *)
(* first and is the same from there on.                                    *)

Subscribe ==
    /\ client = "off"
    /\ client' = "subscribed"
    /\ cursor' = Len(sent)
    /\ start' = IF last = NoEvent THEN Len(sent) ELSE start
    /\ UNCHANGED <<busVars, replay, last, got, lost>>

events_sse == Subscribe
admin_events_sse(permitted) == permitted /\ Subscribe

\* replay_from, or nothing for a client without a Last-Event-ID.
ReplayFromSkipsOne ==
    /\ client = "subscribed"
    /\ IF last # NoEvent /\ last \notin Elements(History)
       THEN client' = "missed" /\ UNCHANGED replay
       ELSE /\ client' = "streaming"
            /\ replay' = IF last = NoEvent \/ After(History, last) = <<>>
                         THEN <<>> ELSE Tail(After(History, last))
    /\ UNCHANGED <<busVars, cursor, seenVars>>
ReplayFrom ==
    /\ client = "subscribed"
    /\ IF last # NoEvent /\ last \notin Elements(History)
       THEN client' = "missed" /\ UNCHANGED replay
       ELSE /\ client' = "streaming"
            /\ replay' = IF last = NoEvent THEN <<>> ELSE After(History, last)
    /\ UNCHANGED <<busVars, cursor, seenVars>>

\* The fallback: the whole history, under a lock of its own.  What the
\* history has dropped by now is lost to this client.
Snapshot ==
    /\ client = "missed"
    /\ client' = "streaming"
    /\ replay' = History
    /\ lost' = lost \cup (Elements(pushed) \ Elements(History))
    /\ UNCHANGED <<busVars, cursor, last, got, start>>

Deliver(e) ==
    /\ last' = e
    /\ got' = got \cup {e}

StreamReplay ==
    /\ client = "streaming"
    /\ replay # <<>>
    /\ Deliver(Head(replay))
    /\ replay' = Tail(replay)
    /\ UNCHANGED <<busVars, client, cursor, lost, start>>

\* The receiver has fallen behind: Lagged moves it to the oldest element the
\* channel keeps, and the stream drops the error.
Lag ==
    /\ client = "streaming"
    /\ replay = <<>>
    /\ Len(sent) - cursor > EventCapacity
    /\ cursor' = Len(sent) - EventCapacity
    /\ lost' = lost \cup {sent[n] : n \in (cursor + 1)..(Len(sent) - EventCapacity)}
    /\ UNCHANGED <<busVars, client, replay, last, got, start>>

StreamLiveTwice ==
    /\ client = "streaming"
    /\ replay = <<>>
    /\ cursor < Len(sent)
    /\ Len(sent) - cursor <= EventCapacity
    /\ Deliver(sent[cursor + 1])
    /\ cursor' = cursor + 2
    /\ UNCHANGED <<busVars, client, replay, lost, start>>
StreamLive ==
    /\ client = "streaming"
    /\ replay = <<>>
    /\ cursor < Len(sent)
    /\ Len(sent) - cursor <= EventCapacity
    /\ Deliver(sent[cursor + 1])
    /\ cursor' = cursor + 1
    /\ UNCHANGED <<busVars, client, replay, lost, start>>

\* The client or the network ends the connection; the browser keeps the id.
Leave ==
    /\ client # "off"
    /\ client' = "off"
    /\ replay' = <<>>
    /\ UNCHANGED <<busVars, cursor, seenVars>>

ClientStep ==
    \/ events_sse
    \/ \E permitted \in BOOLEAN : admin_events_sse(permitted)
    \/ ReplayFrom \/ Snapshot \/ StreamReplay \/ Lag \/ StreamLive

EventNext ==
    \/ \E f \in Public \cup Internal : PmpFrame(f)
    \/ Forward
    \/ \E e \in Own : Beat(e)
    \/ \E e \in Event : PublishSend(e)
    \/ ClientStep
    \/ Leave

EventSpec == EventInit /\ [][EventNext]_eventVars

-----------------------------------------------------------------------------
(* Properties.                                                             *)

EventTypeOK ==
    /\ incoming \in Seq(Public \cup Internal)
    /\ came \subseteq Public \cup Internal
    /\ pushed \in Seq(Event)
    /\ sent \in Seq(Event)
    /\ publishing \subseteq Event
    /\ overlapped \subseteq Event
    /\ client \in {"off", "subscribed", "missed", "streaming"}
    /\ cursor \in 0..Len(sent)
    /\ start \in 0..Len(sent)
    /\ replay \in Seq(Event)
    /\ last \in Event \cup {NoEvent}
    /\ got \subseteq Event
    /\ lost \subseteq Event

\* What a streaming client is still going to be sent.
ToCome == Elements(replay) \cup {sent[n] : n \in (cursor + 1)..Len(sent)} \cup publishing

\* Last-Event-ID replay leaves no hole: every event sent since the client
\* first subscribed has reached it, is on its way to it or had been
\* overwritten in a ring, across any number of reconnections.  An event whose
\* publication overlapped another one is excepted: the history and the channel
\* may have the two in different orders.
NoGap ==
    /\ EventTypeOK
    /\ client = "streaming" =>
          \A n \in (start + 1)..Len(sent) : sent[n] \in got \cup lost \cup ToCome \cup overlapped
=============================================================================
