------------------------------- MODULE LiveRoom -------------------------------
(***************************************************************************)
(* One socket that follows a room: live_ws_task of live/routes.rs.         *)
(*                                                                         *)
(* PMP numbers the frames of a stream.  A frame can be lost before it      *)
(* reaches PPB, while the connection to PMP is down, or between the        *)
(* broadcast channel and the socket, when the socket is too slow (Lagged). *)
(* The socket announces both with "resync"; frames wait in a buffer until  *)
(* the next tick, announcements do not.                                    *)
(***************************************************************************)
EXTENDS Naturals, Sequences

CONSTANTS
    Stream,        \* "touches", "judges"
    Player,
    MaxSeq,        \* bound on the numbers of a stream
    FrameCapacity, \* of the broadcast channel
    MaxRound       \* bound on the rounds

ASSUME LiveRoomAssumption ==
    /\ MaxSeq \in Nat
    /\ FrameCapacity \in Nat \ {0}
    /\ MaxRound \in Nat \ {0}

VARIABLES
    emitted,    \* the last number of every stream
    round,      \* the round being played
    channel,    \* frames broadcast and not received
    lagged,     \* the channel has dropped frames since the last receive
    last_seq,   \* last number received of every stream, 0 for none
    last_round, \* 0 for none
    players,    \* the filter: a set of players
    buffer,     \* frames waiting for the tick
    silent      \* lost frames the client has not been told about

liveVars == <<emitted, round, channel, lagged, last_seq, last_round, players, buffer, silent>>
pmp == <<emitted, round>>

LiveInit ==
    /\ emitted = [s \in Stream |-> 0]
    /\ round = 1
    /\ channel = <<>> /\ lagged = FALSE
    /\ last_seq = [s \in Stream |-> 0] /\ last_round = 0
    /\ players = Player
    /\ buffer = <<>>
    /\ silent = {}

Frames == [stream : Stream, seq : 1..MaxSeq, player : Player, round : 1..MaxRound]
Frame(s, p) == [stream |-> s, seq |-> emitted[s] + 1, player |-> p, round |-> round]
Id(f) == <<f.stream, f.seq>>

-----------------------------------------------------------------------------
\* The oldest frame gives way when the channel is full.
FrameArrives(s, p) ==
    LET f == Frame(s, p)
        full == Len(channel) = FrameCapacity
    IN
    /\ emitted[s] < MaxSeq
    /\ emitted' = [emitted EXCEPT ![s] = @ + 1]
    /\ channel' = Append(IF full THEN Tail(channel) ELSE channel, f)
    /\ lagged' = (lagged \/ full)
    /\ silent' = IF full THEN silent \cup {Id(Head(channel))} ELSE silent
    /\ UNCHANGED <<round, last_seq, last_round, players, buffer>>

FrameLost(s) ==
    /\ emitted[s] < MaxSeq
    /\ emitted' = [emitted EXCEPT ![s] = @ + 1]
    /\ silent' = silent \cup {<<s, emitted[s] + 1>>}
    /\ UNCHANGED <<round, channel, lagged, last_seq, last_round, players, buffer>>

RoundStarts ==
    /\ round < MaxRound
    /\ round' = round + 1
    /\ UNCHANGED <<emitted, channel, lagged, last_seq, last_round, players, buffer, silent>>

-----------------------------------------------------------------------------
(* The branches of the select.                                             *)

\* A jump in the numbers of a stream, if there is a number to compare with.
GapLate(f) == last_seq[f.stream] # 0 /\ f.seq > last_seq[f.stream] + 2
Gap(f) == last_seq[f.stream] # 0 /\ f.seq > last_seq[f.stream] + 1

\* A gap is told at once, with the number expected; the first frame of a
\* stream is where the client begins to count.
Receive ==
    LET f == Head(channel)
        earlier == {g \in silent : g[1] = f.stream /\ g[2] < f.seq}
    IN
    /\ ~lagged /\ channel # <<>>
    /\ channel' = Tail(channel)
    /\ last_seq' = [last_seq EXCEPT ![f.stream] = f.seq]
    /\ silent' = IF Gap(f) \/ last_seq[f.stream] = 0 THEN silent \ earlier ELSE silent
    /\ last_round' = f.round
    /\ buffer' = IF f.player \in players THEN Append(buffer, f) ELSE buffer
    /\ UNCHANGED <<pmp, lagged, players>>

\* recv returns Lagged once and then the oldest frame that is left.
ReceiveLagged ==
    /\ lagged /\ lagged' = FALSE
    /\ silent' = {}
    /\ UNCHANGED <<pmp, channel, last_seq, last_round, players, buffer>>

Tick ==
    /\ buffer # <<>> /\ buffer' = <<>>
    /\ UNCHANGED <<pmp, channel, lagged, last_seq, last_round, players, silent>>

set_players(set) ==
    /\ set # players /\ players' = set
    /\ UNCHANGED <<pmp, channel, lagged, last_seq, last_round, buffer, silent>>

\* The client starts over: it counts from the next frame.
ClientResync ==
    /\ last_seq' = [s \in Stream |-> 0]
    /\ last_seq # last_seq'
    /\ silent' = {}
    /\ UNCHANGED <<pmp, channel, lagged, last_round, players, buffer>>

LiveNext ==
    \/ \E s \in Stream, p \in Player : FrameArrives(s, p) \/ FrameLost(s)
    \/ RoundStarts \/ Receive \/ ReceiveLagged \/ Tick \/ ClientResync
    \/ \E set \in SUBSET Player : set_players(set)

LiveSpec == LiveInit /\ [][LiveNext]_liveVars

-----------------------------------------------------------------------------
LiveTypeOK ==
    /\ emitted \in [Stream -> 0..MaxSeq] /\ last_seq \in [Stream -> 0..MaxSeq]
    /\ round \in 1..MaxRound /\ last_round \in 0..round
    /\ channel \in Seq(Frames) /\ Len(channel) <= FrameCapacity
    /\ lagged \in BOOLEAN /\ players \subseteq Player
    /\ buffer \in Seq(Frames)
    /\ silent \subseteq Stream \X (1..MaxSeq)
    /\ \A i \in 1..Len(buffer) : buffer[i].seq <= last_seq[buffer[i].stream] \/ last_seq[buffer[i].stream] = 0

(* The client never goes on past a loss it was not told about: whichever   *)
(* way frames were lost, a "resync" comes with or before the next frame of *)
(* the stream.  live/routes.rs:52-108.                                     *)
LossIsAnnounced ==
    /\ LiveTypeOK
    /\ \A f \in silent : last_seq[f[1]] # 0 => f[2] > last_seq[f[1]]
=============================================================================
