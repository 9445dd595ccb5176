------------------------------- MODULE OpenUds -------------------------------
(***************************************************************************)
(* The OpenUDS client: one background task that connects to PMP,           *)
(* authenticates, installs the write half and reads frames until the       *)
(* connection ends, then disconnects, backs off and starts over; and any   *)
(* number of callers of command_with_timeout that share the writer and the *)
(* table of pending commands with it.                                      *)
(*                                                                         *)
(* Commands are named by their id, which next_id makes unique.  Backoff    *)
(* delays and timeouts are untimed: they may elapse at any moment.  The    *)
(* shutdown flag is left out, no code of the server raises it.             *)
(***************************************************************************)
EXTENDS Naturals

CONSTANTS
    Call,       \* command ids
    Unbounded,  \* commands sent with timeout Some(0)
    MaxConn,    \* bound on the number of connections of a behaviour
    LinkFaults, \* which of "drop", "write" can happen
    NoCall

ASSUME OpenUdsAssumption ==
    /\ Unbounded \subseteq Call
    /\ MaxConn \in Nat \ {0}
    /\ LinkFaults \subseteq {"drop", "write"}
    /\ NoCall \notin Call

VARIABLES
    conn,       \* where the connection task stands
    pass,       \* which of the two set_disconnected calls is under way
    gen,        \* number of the current or last connection, 0 at first
    connected,  \* ConnectionState.connected
    writer,     \* connection whose write half is installed, 0 for None
    guard,      \* the command holding the writer mutex across its write
    pending,    \* ids with a sender in the pending map
    stage,      \* where every caller stands
    rx,         \* the oneshot of every command: open, closed or answered
    torn,       \* connections a cancelled write left with half a frame
    on,         \* the connection a command was written to
    result,     \* what a caller was given back
    inbox,      \* PMP: commands received on the current connection, unanswered
    executed    \* PMP: commands it has executed

udsVars == <<conn, pass, gen, connected, writer, guard, pending, stage, rx, torn, on, result, inbox, executed>>
linkVars == <<conn, pass, gen, connected>>
callVars == <<stage, torn, on, result>>
peerVars == <<inbox, executed>>

Down == {"down_state", "down_writer", "down_pending"}
ConnStates == {"idle", "connecting", "authenticating", "authenticated", "reading", "backoff"} \cup Down
Calling == {"registered", "writing", "waiting"}

UdsInit ==
    /\ conn = "idle"
    /\ pass = 2
    /\ gen = 0
    /\ connected = FALSE
    /\ writer = 0
    /\ guard = NoCall
    /\ pending = {}
    /\ stage = [c \in Call |-> "none"]
    /\ rx = [c \in Call |-> "open"]
    /\ torn = {}
    /\ on = [c \in Call |-> 0]
    /\ result = [c \in Call |-> "none"]
    /\ inbox = {}
    /\ executed = {}

-----------------------------------------------------------------------------
(* The connection task.                                                    *)

Link(from, to) ==
    /\ conn = from
    /\ conn' = to
    /\ UNCHANGED <<writer, guard, pending, rx, callVars>>

Connect ==
    /\ Link("idle", "connecting")
    /\ UNCHANGED <<pass, gen, connected, peerVars>>

\* A new socket: PMP knows nothing of what the previous one carried.
ConnectOk ==
    /\ gen < MaxConn
    /\ Link("connecting", "authenticating")
    /\ gen' = gen + 1
    /\ inbox' = {}
    /\ UNCHANGED <<pass, connected, executed>>

\* connect, the authenticate frame, or the first frame fails, or PMP answers
\* auth_error: connect_once returns Err and `run` disconnects.
ConnectFails ==
    /\ conn \in {"connecting", "authenticating"}
    /\ conn' = "down_state"
    /\ pass' = 2
    /\ UNCHANGED <<gen, connected, writer, guard, pending, rx, callVars, peerVars>>

\* set_authenticated: callers see connected before the writer is installed.
Authenticated ==
    /\ Link("authenticating", "authenticated")
    /\ connected' = TRUE
    /\ UNCHANGED <<pass, gen, peerVars>>

InstallWriterNext ==
    /\ conn = "authenticated"
    /\ guard = NoCall
    /\ writer' = gen + 1
    /\ conn' = "reading"
    /\ UNCHANGED <<pass, gen, connected, guard, pending, rx, callVars, peerVars>>
InstallWriter ==
    /\ conn = "authenticated"
    /\ guard = NoCall
    /\ writer' = gen
    /\ conn' = "reading"
    /\ UNCHANGED <<pass, gen, connected, guard, pending, rx, callVars, peerVars>>

\* EOF or a broken frame ends reader_loop.
ConnectionLost ==
    /\ Link("reading", "down_state")
    /\ pass' = 1
    /\ inbox' = {}
    /\ UNCHANGED <<gen, connected, executed>>

\* set_disconnected in its three steps: the state, the writer (under its
\* mutex), the pending senders.  reader_loop calls it, then `run` again.
DownState ==
    /\ Link("down_state", "down_writer")
    /\ connected' = FALSE
    /\ UNCHANGED <<pass, gen, peerVars>>

DownWriterKept ==
    /\ conn = "down_writer"
    /\ conn' = "down_pending"
    /\ UNCHANGED <<pass, gen, connected, writer, guard, pending, rx, callVars, peerVars>>
DownWriter ==
    /\ conn = "down_writer"
    /\ guard = NoCall
    /\ writer' = 0
    /\ conn' = "down_pending"
    /\ UNCHANGED <<pass, gen, connected, guard, pending, rx, callVars, peerVars>>

DownPendingKept ==
    /\ conn = "down_pending"
    /\ conn' = IF pass = 1 THEN "down_state" ELSE "backoff"
    /\ pass' = 2
    /\ UNCHANGED <<gen, connected, writer, guard, pending, rx, callVars, peerVars>>
DownPending ==
    /\ conn = "down_pending"
    /\ pending' = {}
    /\ rx' = [c \in Call |-> IF c \in pending THEN "closed" ELSE rx[c]]
    /\ conn' = IF pass = 1 THEN "down_state" ELSE "backoff"
    /\ pass' = 2
    /\ UNCHANGED <<gen, connected, writer, guard, callVars, peerVars>>

\* next_backoff has elapsed.
BackoffBreaks ==
    /\ Link("backoff", "stopped")
    /\ UNCHANGED <<pass, gen, connected, peerVars>>
Backoff ==
    /\ Link("backoff", "idle")
    /\ UNCHANGED <<pass, gen, connected, peerVars>>

-----------------------------------------------------------------------------
(* A caller of command_with_timeout.                                       *)

\* A fresh id, its sender goes into the pending map.
Register(c) ==
    /\ stage[c] = "none"
    /\ stage' = [stage EXCEPT ![c] = "registered"]
    /\ pending' = pending \cup {c}
    /\ UNCHANGED <<linkVars, writer, guard, rx, torn, on, result, peerVars>>

Return(c, res) ==
    /\ stage' = [stage EXCEPT ![c] = "done"]
    /\ result' = [result EXCEPT ![c] = res]

\* The writer mutex is acquired; without a writer the call ends there.
LockWriter(c) ==
    /\ stage[c] = "registered"
    /\ guard = NoCall
    /\ IF writer = 0
       THEN /\ pending' = pending \ {c}
            /\ Return(c, "unavailable")
            /\ UNCHANGED guard
       ELSE /\ guard' = c
            /\ stage' = [stage EXCEPT ![c] = "writing"]
            /\ UNCHANGED <<pending, result>>
    /\ UNCHANGED <<linkVars, writer, rx, torn, on, peerVars>>

\* The frame is written.  On a connection that is gone the write may still
\* succeed (into the socket buffer); PMP gets only what a live one carries,
\* and nothing it can decode after half a frame.
WriteFrame(c) ==
    /\ stage[c] = "writing"
    /\ guard' = NoCall
    /\ stage' = [stage EXCEPT ![c] = "waiting"]
    /\ on' = [on EXCEPT ![c] = writer]
    /\ inbox' = IF conn = "reading" /\ writer \notin torn THEN inbox \cup {c} ELSE inbox
    /\ UNCHANGED <<linkVars, writer, pending, rx, torn, result, executed>>

WriteFails(c) ==
    /\ "write" \in LinkFaults \/ conn # "reading"
    /\ stage[c] = "writing"
    /\ guard' = NoCall
    /\ pending' = pending \ {c}
    /\ Return(c, "io")
    /\ UNCHANGED <<linkVars, writer, rx, torn, on, peerVars>>

\* The oneshot resolves: a response, or its sender was dropped.
Receive(c) ==
    /\ stage[c] = "waiting"
    /\ rx[c] # "open"
    /\ Return(c, IF rx[c] = "answered" THEN "answer" ELSE "unavailable")
    /\ UNCHANGED <<linkVars, writer, guard, pending, rx, torn, on, peerVars>>

\* The timeout elapses first.
TimeoutKeepsPending(c) ==
    /\ stage[c] = "waiting"
    /\ rx[c] = "open"
    /\ c \notin Unbounded
    /\ Return(c, "timeout")
    /\ UNCHANGED <<linkVars, writer, guard, pending, rx, torn, on, peerVars>>
CallTimeout(c) ==
    /\ stage[c] = "waiting"
    /\ rx[c] = "open"
    /\ c \notin Unbounded
    /\ pending' = pending \ {c}
    /\ Return(c, "timeout")
    /\ UNCHANGED <<linkVars, writer, guard, rx, torn, on, peerVars>>

\* The caller's future is dropped at an await: nothing removes its entry, and
\* a write_all under way may have sent part of its frame.
DropCall(c) ==
    /\ "drop" \in LinkFaults
    /\ stage[c] \in Calling
    /\ Return(c, "dropped")
    /\ guard' = IF guard = c THEN NoCall ELSE guard
    /\ torn' \in {torn, IF guard = c THEN torn \cup {writer} ELSE torn}
    /\ UNCHANGED <<linkVars, writer, pending, rx, on, peerVars>>

-----------------------------------------------------------------------------
(* PMP and the frames it sends.                                            *)

Execute(c) ==
    /\ c \in inbox \ executed
    /\ executed' = executed \cup {c}
    /\ UNCHANGED <<linkVars, writer, guard, pending, rx, callVars, inbox>>

\* A response frame reaches handle_frame: its sender is taken out of the map
\* and used; a response nobody waits for is dropped.
Response(c) ==
    /\ conn = "reading"
    /\ c \in inbox \cap executed
    /\ inbox' = inbox \ {c}
    /\ pending' = pending \ {c}
    /\ rx' = IF c \in pending THEN [rx EXCEPT ![c] = "answered"] ELSE rx
    /\ UNCHANGED <<linkVars, writer, guard, callVars, executed>>

LinkStep ==
    \/ Connect \/ ConnectOk \/ ConnectFails \/ Authenticated \/ InstallWriter
    \/ DownState \/ DownWriter \/ DownPending \/ Backoff

CallStep(c) ==
    \/ LockWriter(c) \/ WriteFrame(c) \/ WriteFails(c) \/ Receive(c) \/ CallTimeout(c)

UdsNext ==
    \/ LinkStep
    \/ ConnectionLost
    \/ \E c \in Call :
          \/ Register(c) \/ CallStep(c) \/ DropCall(c)
          \/ Execute(c) \/ Response(c)

UdsSpec == UdsInit /\ [][UdsNext]_udsVars

\* The runtime polls ready tasks and its timers fire; PMP owes nothing: it may
\* never answer and may close the connection or not.
UdsFairSpec ==
    /\ UdsSpec
    /\ WF_udsVars(LinkStep)
    /\ \A c \in Call : WF_udsVars(CallStep(c))

-----------------------------------------------------------------------------
(* Properties.                                                             *)

UdsTypeOK ==
    /\ conn \in ConnStates
    /\ pass \in {1, 2}
    /\ gen \in 0..MaxConn
    /\ connected \in BOOLEAN
    /\ writer \in 0..MaxConn
    /\ guard \in Call \cup {NoCall}
    /\ pending \subseteq Call
    /\ stage \in [Call -> {"none", "done"} \cup Calling]
    /\ rx \in [Call -> {"open", "closed", "answered"}]
    /\ torn \subseteq 1..MaxConn
    /\ on \in [Call -> 0..MaxConn]
    /\ result \in [Call -> {"none", "unavailable", "io", "answer", "timeout", "dropped"}]
    /\ inbox \subseteq Call
    /\ executed \subseteq Call

\* The connections of which the read half is still there, or which are being
\* taken down for the first time.
Carrying == conn = "reading" \/ (conn \in Down /\ pass = 1)

\* A caller that still waits is waiting for something that can come: its
\* sender is registered and its frame went to the connection that is up or
\* being taken down now, never to an earlier one.  A command sent without a
\* timeout would otherwise hang for ever.
WaitersAreReachable ==
    \A c \in Call : stage[c] = "waiting" /\ rx[c] = "open" =>
        c \in pending /\ Carrying /\ on[c] = gen

\* A writer is installed only for the connection the task is reading.
WriterIsCurrent == writer # 0 => writer = gen /\ Carrying

\* The pending map holds no entry of a call that has returned (a dropped caller
\* leaves its own): an answer, an error and a timeout all remove it.
PendingHasCaller ==
    \A c \in pending : stage[c] \in Calling \/ result[c] = "dropped"

\* The client's books agree with its connection: who waits can still be
\* answered or released, a frame goes to no earlier connection, and the pending
\* map has only calls that are under way.  pmp/openuds/client.rs:205-330.
ClientIsSound == UdsTypeOK /\ WaitersAreReachable /\ WriterIsCurrent /\ PendingHasCaller

\* "pending commands fail when the connection breaks": a caller waiting while
\* the client is disconnected returns, also one without a timeout.
LossReleasesWaiters ==
    \A c \in Call : (stage[c] = "waiting" /\ conn \in Down) ~> stage[c] = "done"

\* The client never stops trying: after a loss it reaches the connect again.
KeepsReconnecting == conn \in Down ~> conn = "connecting"
=============================================================================
