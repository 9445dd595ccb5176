------------------------------ MODULE PmpProofs ------------------------------
(***************************************************************************)
(* Proofs about the two parts that live on the connection to PMP: its      *)
(* client, for any number of callers, connections and any choice of        *)
(* faults, and the join intents, for any number of players and intents.    *)
(***************************************************************************)
EXTENDS OpenUds, JoinIntents, TLAPS

-----------------------------------------------------------------------------
(* The client of PMP: its inductive invariant, in named parts.             *)

\* The writer mutex is held exactly by the caller that is writing, and only
\* over an installed writer.
GuardHeldByWriter ==
    /\ \A c \in Call : stage[c] = "writing" <=> guard = c
    /\ guard # NoCall => writer # 0

\* The writer is the current connection's, from its installation to the
\* second step of the first set_disconnected after it.
WriterLifetime ==
    writer # 0 =>
        /\ writer = gen
        /\ conn = "reading" \/ (conn \in {"down_state", "down_writer"} /\ pass = 1)

\* A sender in the map means that nothing was sent or dropped yet, and a call
\* with no outcome yet has its sender there.
SenderMatchesReceiver ==
    \A c \in Call :
        /\ c \in pending => rx[c] = "open" /\ stage[c] # "none"
        /\ stage[c] = "none" => rx[c] = "open"
        /\ stage[c] \in Calling /\ rx[c] = "open" => c \in pending

\* What a waiting caller relies on.
WaitsOnCurrent ==
    \A c \in Call : stage[c] = "waiting" /\ rx[c] = "open" => Carrying /\ on[c] = gen

ClientInv ==
    /\ UdsTypeOK
    /\ GuardHeldByWriter
    /\ WriterLifetime
    /\ SenderMatchesReceiver
    /\ WaitsOnCurrent
    /\ PendingHasCaller

-----------------------------------------------------------------------------
\* The client starts disconnected, with nothing pending.
LEMMA ClientInit == UdsInit => ClientInv
<1> SUFFICES ASSUME UdsInit PROVE ClientInv
  OBVIOUS
<1>1. UdsTypeOK
  <2>1. 0 \in 0..MaxConn
    BY OpenUdsAssumption
  <2>2. QED
    BY <2>1 DEF UdsInit, UdsTypeOK, ConnStates, Calling
<1>2. GuardHeldByWriter
  BY OpenUdsAssumption DEF UdsInit, GuardHeldByWriter
<1>3. WriterLifetime /\ SenderMatchesReceiver /\ WaitsOnCurrent /\ PendingHasCaller
  BY DEF UdsInit, WriterLifetime, SenderMatchesReceiver, WaitsOnCurrent, PendingHasCaller, Calling
<1>4. QED
  BY <1>1, <1>2, <1>3 DEF ClientInv

\* Every step of the connection task preserves the invariant.
LEMMA LinkPreserves == ClientInv /\ (LinkStep \/ ConnectionLost) => ClientInv'
<1> SUFFICES ASSUME ClientInv, LinkStep \/ ConnectionLost PROVE ClientInv'
  OBVIOUS
<1> USE OpenUdsAssumption DEF ClientInv, UdsTypeOK, GuardHeldByWriter, WriterLifetime,
        SenderMatchesReceiver, WaitsOnCurrent, PendingHasCaller, Carrying,
        ConnStates, Down, Calling, linkVars, callVars, peerVars
<1>1. CASE Connect
  BY <1>1 DEF Connect, Link
<1>2. CASE ConnectOk
  BY <1>2 DEF ConnectOk, Link
<1>3. CASE ConnectFails
  BY <1>3 DEF ConnectFails
<1>4. CASE Authenticated
  BY <1>4 DEF Authenticated, Link
<1>5. CASE InstallWriter
  BY <1>5 DEF InstallWriter
<1>6. CASE DownState
  BY <1>6 DEF DownState, Link
<1>7. CASE DownWriter
  BY <1>7 DEF DownWriter
<1>8. CASE DownPending
  BY <1>8 DEF DownPending
<1>9. CASE Backoff
  BY <1>9 DEF Backoff, Link
<1>10. CASE ConnectionLost
  BY <1>10 DEF ConnectionLost, Link
<1>11. QED
  BY <1>1, <1>2, <1>3, <1>4, <1>5, <1>6, <1>7, <1>8, <1>9, <1>10 DEF LinkStep

\* So does every step of a caller, and every step of PMP.
LEMMA CallPreserves ==
    ASSUME NEW c \in Call, ClientInv,
           Register(c) \/ CallStep(c) \/ DropCall(c) \/ Execute(c) \/ Response(c)
    PROVE  ClientInv'
<1> USE OpenUdsAssumption DEF ClientInv, UdsTypeOK, GuardHeldByWriter, WriterLifetime,
        SenderMatchesReceiver, WaitsOnCurrent, PendingHasCaller, Carrying,
        ConnStates, Down, Calling, linkVars, callVars, peerVars
<1>1. CASE Register(c)
  BY <1>1 DEF Register
<1>2. CASE LockWriter(c)
  BY <1>2 DEF LockWriter, Return
<1>3. CASE WriteFrame(c)
  BY <1>3 DEF WriteFrame
<1>4. CASE WriteFails(c)
  BY <1>4 DEF WriteFails, Return
<1>5. CASE Receive(c)
  BY <1>5 DEF Receive, Return
<1>6. CASE CallTimeout(c)
  BY <1>6 DEF CallTimeout, Return
<1>7. CASE DropCall(c)
  BY <1>7 DEF DropCall, Return
<1>8. CASE Execute(c)
  BY <1>8 DEF Execute
<1>9. CASE Response(c)
  BY <1>9 DEF Response
<1>10. QED
  BY <1>1, <1>2, <1>3, <1>4, <1>5, <1>6, <1>7, <1>8, <1>9 DEF CallStep

\* The invariant of the client holds throughout.
LEMMA ClientInvariant == UdsSpec => []ClientInv
<1>1. UdsInit => ClientInv
  BY ClientInit
<1>2. ClientInv /\ [UdsNext]_udsVars => ClientInv'
  <2> SUFFICES ASSUME ClientInv, [UdsNext]_udsVars PROVE ClientInv'
    OBVIOUS
  <2>1. CASE LinkStep \/ ConnectionLost
    BY <2>1, LinkPreserves
  <2>2. CASE \E c \in Call :
               Register(c) \/ CallStep(c) \/ DropCall(c) \/ Execute(c) \/ Response(c)
    BY <2>2, CallPreserves
  <2>3. CASE UNCHANGED udsVars
    BY <2>3 DEF udsVars, ClientInv, UdsTypeOK, GuardHeldByWriter, WriterLifetime,
       SenderMatchesReceiver, WaitsOnCurrent, PendingHasCaller, Carrying
  <2>4. QED
    BY <2>1, <2>2, <2>3 DEF UdsNext
<1>3. QED
  BY <1>1, <1>2, PTL DEF UdsSpec

\* A caller that still waits on its oneshot has its sender registered and its
\* frame on the connection that is up or being taken down (command_with_timeout
\* against set_disconnected), however many connections and callers there are.
LEMMA WaitersReachable == UdsSpec => []WaitersAreReachable
<1>1. ClientInv => WaitersAreReachable
  BY DEF ClientInv, WaitersAreReachable, SenderMatchesReceiver, WaitsOnCurrent, Calling
<1>2. QED
  BY <1>1, ClientInvariant, PTL

\* The shared writer never belongs to an earlier connection (connect_once
\* against set_disconnected and the holders of the writer mutex).
LEMMA WriterCurrent == UdsSpec => []WriterIsCurrent
<1>1. ClientInv => WriterIsCurrent
  BY DEF ClientInv, WriterIsCurrent, WriterLifetime, Carrying, Down
<1>2. QED
  BY <1>1, ClientInvariant, PTL

\* The pending map keeps no entry of a call that returned: only a caller
\* dropped at an await leaves one behind.
LEMMA PendingOwned == UdsSpec => []PendingHasCaller
<1>1. ClientInv => PendingHasCaller
  BY DEF ClientInv
<1>2. QED
  BY <1>1, ClientInvariant, PTL

\* However connections come and go under any number of callers, a caller that
\* waits can still be answered or released, no frame goes to an earlier
\* connection, and only calls under way and dropped ones are in the pending map.
THEOREM ClientStaysSound == UdsSpec => []ClientIsSound
<1>1. ClientInv => UdsTypeOK
  BY DEF ClientInv
<1>2. QED
  BY <1>1, ClientInvariant, WaitersReachable, WriterCurrent, PendingOwned, PTL DEF ClientIsSound

-----------------------------------------------------------------------------
(* Join intents.                                                           *)

\* What the listener has done with the intent in hand.
ListenerInv ==
    /\ listener # "idle" => cur \in Intent
    /\ listener \in {"matched", "online", "moving"} => moves[cur] = 0
    /\ listener \in {"matched", "online", "moving", "sent", "unindex"} => status[cur] # "none"
    /\ listener \in {"online", "moving", "sent", "unindex"} => status[cur] # "pending"

\* An intent that moved its player is never pending again.
MovedIsNotPending ==
    \A i \in Intent : moves[i] # 0 => status[i] \notin {"none", "pending"} /\ moves[i] = 1

CleanerInv == cleaner # "idle" => target \in Intent /\ status[target] # "none"

CancelInv == \A i \in Intent : cancelPc[i] # "none" => status[i] # "none"

OwnerInv == \A i \in Intent : status[i] # "none" => owner[i] \in Player

MovesInv ==
    /\ IntentsTypeOK
    /\ ListenerInv
    /\ MovedIsNotPending
    /\ CleanerInv
    /\ CancelInv
    /\ OwnerInv
    /\ \A i \in creating : status[i] # "none"
    /\ \A i \in Intent, a \in Overdue : <<i, a>> \in sweep => status[i] # "none"

\* Every step of the API, the listener, the cleanup and the clock preserves
\* the invariant.
LEMMA MovesStep == MovesInv /\ [IntentsNext]_intentVars => MovesInv'
<1> SUFFICES ASSUME MovesInv, [IntentsNext]_intentVars PROVE MovesInv'
  OBVIOUS
<1> USE JoinIntentsAssumption DEF MovesInv, IntentsTypeOK, ListenerInv, MovedIsNotPending, CleanerInv,
        CancelInv, OwnerInv, Status, Terminal, Ages, Overdue, listenVars, cleanVars, apiVars
<1>1. ASSUME NEW i \in Intent, NEW p \in Player, Create(i, p) PROVE MovesInv'
  BY <1>1 DEF Create
<1>2. ASSUME NEW i \in Intent, CreateIndex(i) PROVE MovesInv'
  BY <1>2 DEF CreateIndex
<1>3. ASSUME NEW i \in Intent, CancelFind(i) PROVE MovesInv'
  BY <1>3 DEF CancelFind, Present
<1>4. ASSUME NEW i \in Intent, CancelUnindex(i) PROVE MovesInv'
  BY <1>4 DEF CancelUnindex, Unindexed
<1>5. ASSUME NEW i \in Intent, CancelRemove(i) PROVE MovesInv'
  BY <1>5 DEF CancelRemove
<1>6. ASSUME NEW i \in Intent, Age(i) PROVE MovesInv'
  BY <1>6 DEF Age
<1>7. ASSUME NEW p \in Player, Online(p) PROVE MovesInv'
  BY <1>7 DEF Online, Listen
<1>8. CASE ListenerStep
  <2>1. CASE MatchCheck
    BY <2>1 DEF MatchCheck, Listen, EffectivelyPending
  <2>2. CASE MatchMark
    BY <2>2 DEF MatchMark, Listen, UpdateStatus, Present
  <2>3. CASE MarkMoving
    BY <2>3 DEF MarkMoving, Listen, UpdateStatus, Present
  <2>4. CASE ForceMove
    BY <2>4 DEF ForceMove, Listen
  <2>5. CASE MarkTerminal
    BY <2>5 DEF MarkTerminal, Listen, UpdateStatus, Present
  <2>6. CASE MarkTerminalUnindex
    BY <2>6 DEF MarkTerminalUnindex, Listen, Unindexed
  <2>7. QED
    BY <1>8, <2>1, <2>2, <2>3, <2>4, <2>5, <2>6 DEF ListenerStep
<1>9. CASE SweepStep
  <2>1. CASE SweepStart
    BY <2>1 DEF SweepStart, Clean, Present
  <2>2. ASSUME NEW i \in Intent, NEW a \in Overdue, SweepVisit(i, a) PROVE MovesInv'
    BY <2>2 DEF SweepVisit, Clean
  <2>3. CASE SweepMark
    BY <2>3 DEF SweepMark, Clean, UpdateStatus, Present
  <2>4. CASE SweepRemove
    BY <2>4 DEF SweepRemove, Clean, Present
  <2>5. CASE SweepUnindex
    BY <2>5 DEF SweepUnindex, Clean, Unindexed
  <2>6. QED
    BY <1>9, <2>1, <2>2, <2>3, <2>4, <2>5 DEF SweepStep
<1>10. CASE UNCHANGED intentVars
  BY <1>10 DEF intentVars
<1>11. QED
  BY <1>1, <1>2, <1>3, <1>4, <1>5, <1>6, <1>7, <1>8, <1>9, <1>10 DEF IntentsNext

\* The invariant holds throughout.
LEMMA MovesInvariant == IntentsSpec => []MovesInv
<1>1. IntentsInit => MovesInv
  BY JoinIntentsAssumption DEF IntentsInit, MovesInv, IntentsTypeOK, ListenerInv, MovedIsNotPending, CleanerInv,
     CancelInv, OwnerInv, Status, Terminal, Ages, Overdue
<1>2. QED
  BY <1>1, MovesStep, PTL DEF IntentsSpec

\* An intent moves its player at most once, although match_online's check and
\* its update of the status are separate steps.
LEMMA MovesOnce == IntentsSpec => []AtMostOneMove
<1>1. MovesInv => AtMostOneMove
  <2> SUFFICES ASSUME MovesInv, NEW i \in Intent PROVE moves[i] <= 1
    BY DEF AtMostOneMove
  <2>1. moves[i] = 0 \/ moves[i] = 1
    BY DEF MovesInv, MovedIsNotPending
  <2>2. QED
    BY <2>1
<1>2. QED
  BY <1>1, MovesInvariant, PTL

-----------------------------------------------------------------------------
\* What keeps a lone intent in the index: whoever drops the entry of a player
\* has ended an intent of that player first.
LoneInv ==
    /\ MovesInv
    /\ LoneIntentIsIndexed
    /\ \A i \in Intent : status[i] = "none" => owner[i] = NoPlayer
    /\ cleaner = "unindex" => status[target] = "gone"

\* Every step preserves it.
LEMMA LoneStep == LoneInv /\ [IntentsNext]_intentVars => LoneInv'
<1> SUFFICES ASSUME LoneInv, [IntentsNext]_intentVars PROVE LoneInv'
  OBVIOUS
<1>0. MovesInv /\ MovesInv'
  BY MovesStep DEF LoneInv
<1> USE <1>0, JoinIntentsAssumption DEF LoneInv, MovesInv, IntentsTypeOK, ListenerInv, CleanerInv, OwnerInv,
        LoneIntentIsIndexed, EffectivelyPending, listenVars, cleanVars, apiVars
<1>1. ASSUME NEW i \in Intent, NEW p \in Player, Create(i, p) PROVE LoneInv'
  BY <1>1 DEF Create
<1>2. ASSUME NEW i \in Intent, CreateIndex(i) PROVE LoneInv'
  BY <1>2 DEF CreateIndex
<1>3. ASSUME NEW i \in Intent, CancelFind(i) PROVE LoneInv'
  BY <1>3 DEF CancelFind
<1>4. ASSUME NEW i \in Intent, CancelUnindex(i) PROVE LoneInv'
  BY <1>4 DEF CancelUnindex, Unindexed
<1>5. ASSUME NEW i \in Intent, CancelRemove(i) PROVE LoneInv'
  BY <1>5 DEF CancelRemove
<1>6. ASSUME NEW i \in Intent, Age(i) PROVE LoneInv'
  BY <1>6 DEF Age
<1>7. ASSUME NEW p \in Player, Online(p) PROVE LoneInv'
  BY <1>7 DEF Online, Listen
<1>8. CASE ListenerStep
  <2>1. CASE MatchCheck \/ ForceMove
    BY <2>1 DEF MatchCheck, ForceMove, Listen
  <2>2. CASE MatchMark \/ MarkMoving \/ MarkTerminal
    BY <2>2 DEF MatchMark, MarkMoving, MarkTerminal, Listen, UpdateStatus, Present, Status, Terminal
  <2>3. CASE MarkTerminalUnindex
    BY <2>3 DEF MarkTerminalUnindex, Listen, Unindexed
  <2>4. QED
    BY <1>8, <2>1, <2>2, <2>3 DEF ListenerStep
<1>9. CASE SweepStep
  <2>1. CASE SweepStart
    BY <2>1 DEF SweepStart, Clean
  <2>2. ASSUME NEW i \in Intent, NEW a \in Overdue, SweepVisit(i, a) PROVE LoneInv'
    BY <2>2 DEF SweepVisit, Clean
  <2>3. CASE SweepMark
    BY <2>3 DEF SweepMark, Clean, UpdateStatus, Present
  <2>4. CASE SweepRemove
    BY <2>4 DEF SweepRemove, Clean
  <2>5. CASE SweepUnindex
    BY <2>5 DEF SweepUnindex, Clean, Unindexed
  <2>6. QED
    BY <1>9, <2>1, <2>2, <2>3, <2>4, <2>5 DEF SweepStep
<1>10. CASE UNCHANGED intentVars
  BY <1>10 DEF intentVars
<1>11. QED
  BY <1>1, <1>2, <1>3, <1>4, <1>5, <1>6, <1>7, <1>8, <1>9, <1>10 DEF IntentsNext

\* A pending intent whose player has no other, and that nobody cancels, stays
\* in by_phira: events and intents of other players, the listener and the
\* cleanup never hide it from user.online.
LEMMA LoneIndexed == IntentsSpec => []LoneIntentIsIndexed
<1>1. IntentsInit => LoneInv
  BY JoinIntentsAssumption DEF IntentsInit, LoneInv, LoneIntentIsIndexed, EffectivelyPending, MovesInv,
     IntentsTypeOK, ListenerInv, MovedIsNotPending, CleanerInv, CancelInv, OwnerInv, Status, Terminal,
     Ages, Overdue
<1>2. LoneInv => LoneIntentIsIndexed
  BY DEF LoneInv
<1>3. QED
  BY <1>1, <1>2, LoneStep, PTL DEF IntentsSpec

\* For any players and intents, whatever the listener, the cleanup and cancels do
\* between each other's steps on the two maps: an intent is carried out at most
\* once, and the only intent of a player is found by the next user.online.
THEOREM IntentsStaySound == IntentsSpec => []IntentsAreSound
<1>1. MovesInv => IntentsTypeOK
  BY DEF MovesInv
<1>2. QED
  BY <1>1, MovesInvariant, MovesOnce, LoneIndexed, PTL DEF IntentsAreSound
=============================================================================
