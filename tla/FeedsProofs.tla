----------------------------- MODULE FeedsProofs -----------------------------
(***************************************************************************)
(* What module MCFeeds checks on small instances, proved for any number of *)
(* events, frames, lines, rows, clients and requests and for rings,        *)
(* channels and pages of any size: the event stream, live rooms, PMP's     *)
(* log, who may watch a replay, a replay's data, and the listings.         *)
(***************************************************************************)
EXTENDS EventStream, LiveRoom, Replays, Logs, ReplayPages, Listings,
        Integers, FiniteSetTheorems, TLAPS

-----------------------------------------------------------------------------
(* The event stream.                                                       *)

\* What the bus owes a client: what was sent since it first subscribed and
\* what is about to be sent.
Owed == publishing \cup {sent[n] : n \in (start + 1)..Len(sent)}

\* Every event is pushed once and sent at most once, and what is pushed and
\* not sent is being published.
LogsAgree ==
    /\ \A i, j \in 1..Len(pushed) : pushed[i] = pushed[j] => i = j
    /\ \A m, n \in 1..Len(sent) : sent[m] = sent[n] => m = n
    /\ \A n \in 1..Len(sent) : sent[n] \notin publishing /\ \E i \in 1..Len(pushed) : pushed[i] = sent[n]
    /\ \A e \in publishing : \E i \in 1..Len(pushed) : pushed[i] = e
    /\ \A i \in 1..Len(pushed) :
          pushed[i] \in publishing \/ \E n \in 1..Len(sent) : sent[n] = pushed[i]

\* What was pushed behind an event that is being published overlaps it, and
\* the two logs disagree about the order of overlapping events only.
OverlapsNoted ==
    /\ \A i, j \in 1..Len(pushed) :
          i < j /\ pushed[i] \in publishing => pushed[i] \in overlapped /\ pushed[j] \in overlapped
    /\ \A i, j \in 1..Len(pushed), m, n \in 1..Len(sent) :
          i < j /\ m < n /\ sent[n] = pushed[i] /\ sent[m] = pushed[j] => pushed[i] \in overlapped

\* The promise of a Last-Event-ID: nothing that was pushed up to it is owed.
LastIsABound ==
    last # NoEvent =>
        \E p \in 1..Len(pushed) :
            /\ pushed[p] = last
            /\ \A j \in 1..p : pushed[j] \in Owed => pushed[j] \in got \cup lost \cup overlapped

\* A replay is a stretch of the history, and what was pushed before it is
\* lost or not after the last event received.
ReplayIsAStretch ==
    /\ client # "streaming" => replay = <<>>
    /\ last = NoEvent => replay = <<>>
    /\ client = "missed" => last # NoEvent
    /\ replay # <<>> =>
          \E k \in 1..Len(pushed) :
              /\ k + Len(replay) - 1 <= Len(pushed)
              /\ \A i \in 1..Len(replay) : replay[i] = pushed[k + i - 1]
              /\ \A j \in 1..(k - 1) :
                    pushed[j] \in lost \/ \E i \in j..(k - 1) : pushed[i] = last

FirstSubscription == client = "subscribed" /\ last = NoEvent => cursor <= start

EventInv ==
    /\ NoGap
    /\ LogsAgree
    /\ OverlapsNoted
    /\ LastIsABound
    /\ ReplayIsAStretch
    /\ FirstSubscription

\* A sequence made longer by one element.
LEMMA Appended ==
    ASSUME NEW S, NEW s \in Seq(S), NEW e \in S
    PROVE  /\ Append(s, e) \in Seq(S) /\ Len(Append(s, e)) = Len(s) + 1 /\ Len(s) \in Nat
           /\ \A i \in 1..Len(s) : Append(s, e)[i] = s[i] /\ s[i] \in S
           /\ Append(s, e)[Len(s) + 1] = e
           /\ \A i \in 1..Len(Append(s, e)) : i \in 1..Len(s) \/ i = Len(s) + 1
           /\ 1..Len(s) \subseteq 1..Len(Append(s, e))
  OBVIOUS

LEMMA EventInitially == EventInit => EventInv
  BY EventStreamAssumption
  DEF EventInit, EventInv, NoGap, EventTypeOK, LogsAgree, OverlapsNoted, LastIsABound,
      ReplayIsAStretch, FirstSubscription, Event

\* A publisher pushes an event to the history.
LEMMA PushPreserves ==
    ASSUME EventInv, NEW e \in Event, PublishPush(e),
           incoming' \in Seq(Public \cup Internal), came' \subseteq Public \cup Internal
    PROVE  EventInv'
  <1>0. EventTypeOK /\ NoGap /\ LogsAgree /\ OverlapsNoted /\ LastIsABound /\ ReplayIsAStretch
        /\ FirstSubscription
    BY DEF EventInv, NoGap
  <1>1. /\ pushed' \in Seq(Event) /\ Len(pushed') = Len(pushed) + 1 /\ Len(pushed) \in Nat
        /\ \A i \in 1..Len(pushed) : pushed'[i] = pushed[i] /\ pushed[i] \in Event
        /\ pushed'[Len(pushed) + 1] = e
        /\ \A i \in 1..Len(pushed') : i \in 1..Len(pushed) \/ i = Len(pushed) + 1
        /\ 1..Len(pushed) \subseteq 1..Len(pushed')
    BY <1>0, Appended DEF PublishPush, EventTypeOK
  <1>2. \A i \in 1..Len(pushed) : pushed[i] # e
    BY <1>0 DEF PublishPush, Elements, EventTypeOK
  <1>3. /\ publishing' = publishing \cup {e} /\ overlapped \subseteq overlapped'
        /\ (publishing # {} => publishing \cup {e} \subseteq overlapped')
        /\ overlapped' \subseteq overlapped \cup publishing \cup {e}
        /\ UNCHANGED <<sent, client, cursor, replay, start, last, got, lost>>
    BY DEF PublishPush, seenVars
  <1>4. EventTypeOK'
    BY <1>0, <1>1, <1>3 DEF EventTypeOK
  <1>5. NoGap'
    BY <1>0, <1>3, <1>4 DEF NoGap, ToCome
  <1>6. LogsAgree'
    <2>1. \A i, j \in 1..Len(pushed') : pushed'[i] = pushed'[j] => i = j
      BY SMTT(20), <1>0, <1>1, <1>2 DEF LogsAgree
    <2>2. \A n \in 1..Len(sent) : sent[n] \notin publishing' /\ \E i \in 1..Len(pushed') : pushed'[i] = sent[n]
      BY SMTT(20), <1>0, <1>1, <1>2, <1>3 DEF LogsAgree
    <2>3. \A x \in publishing' : \E i \in 1..Len(pushed') : pushed'[i] = x
      BY <1>0, <1>1, <1>3 DEF LogsAgree
    <2>4. \A i \in 1..Len(pushed') :
             pushed'[i] \in publishing' \/ \E n \in 1..Len(sent) : sent[n] = pushed'[i]
      BY <1>0, <1>1, <1>3 DEF LogsAgree
    <2>5. \A m, n \in 1..Len(sent) : sent[m] = sent[n] => m = n
      BY <1>0 DEF LogsAgree
    <2> QED BY <2>1, <2>2, <2>3, <2>4, <2>5, <1>3 DEF LogsAgree
  <1>7. OverlapsNoted'
    <2>1. \A i, j \in 1..Len(pushed') : i < j /\ pushed'[i] \in publishing' =>
             pushed'[i] \in overlapped' /\ pushed'[j] \in overlapped'
      BY <1>0, <1>1, <1>2, <1>3 DEF OverlapsNoted
    <2>2. \A i, j \in 1..Len(pushed'), m, n \in 1..Len(sent) :
             i < j /\ m < n /\ sent[n] = pushed'[i] /\ sent[m] = pushed'[j] => pushed'[i] \in overlapped'
      <3> SUFFICES ASSUME NEW i \in 1..Len(pushed'), NEW j \in 1..Len(pushed'),
                          NEW m \in 1..Len(sent), NEW n \in 1..Len(sent),
                          i < j, m < n, sent[n] = pushed'[i], sent[m] = pushed'[j]
                   PROVE  pushed'[i] \in overlapped'
        OBVIOUS
      <3>1. sent[n] # e /\ sent[m] # e
        BY SMTT(20), <1>0, <1>2 DEF LogsAgree
      <3>2. i \in 1..Len(pushed) /\ j \in 1..Len(pushed)
        BY <3>1, <1>1
      <3> QED BY <3>2, <1>0, <1>1, <1>3 DEF OverlapsNoted
    <2> QED BY <2>1, <2>2, <1>3 DEF OverlapsNoted
  <1>8. LastIsABound'
    <2> SUFFICES ASSUME last # NoEvent
                 PROVE  \E p \in 1..Len(pushed') :
                            /\ pushed'[p] = last
                            /\ \A j \in 1..p : pushed'[j] \in Owed' => pushed'[j] \in got \cup lost \cup overlapped'
      BY <1>3 DEF LastIsABound
    <2>1. PICK p \in 1..Len(pushed) :
            /\ pushed[p] = last
            /\ \A j \in 1..p : pushed[j] \in Owed => pushed[j] \in got \cup lost \cup overlapped
      BY <1>0 DEF LastIsABound
    <2>2. \A j \in 1..p : pushed'[j] = pushed[j] /\ (pushed[j] \in Owed' => pushed[j] \in Owed)
      BY <1>1, <1>2, <1>3 DEF Owed
    <2>3. p \in 1..Len(pushed') /\ pushed'[p] = last
      BY <2>1, <1>1
    <2> QED BY <2>1, <2>2, <2>3, <1>3
  <1>9. ReplayIsAStretch'
    <2> SUFFICES ASSUME replay # <<>>
                 PROVE  \E k \in 1..Len(pushed') :
                            /\ k + Len(replay) - 1 <= Len(pushed')
                            /\ \A i \in 1..Len(replay) : replay[i] = pushed'[k + i - 1]
                            /\ \A j \in 1..(k - 1) :
                                  pushed'[j] \in lost \/ \E i \in j..(k - 1) : pushed'[i] = last
      BY <1>0, <1>3 DEF ReplayIsAStretch
    <2>1. PICK k \in 1..Len(pushed) :
            /\ k + Len(replay) - 1 <= Len(pushed)
            /\ \A i \in 1..Len(replay) : replay[i] = pushed[k + i - 1]
            /\ \A j \in 1..(k - 1) : pushed[j] \in lost \/ \E i \in j..(k - 1) : pushed[i] = last
      BY <1>0 DEF ReplayIsAStretch
    <2>2. Len(replay) \in Nat
      BY <1>0 DEF EventTypeOK
    <2>3. \A i \in 1..Len(replay) : k + i - 1 \in 1..Len(pushed)
      BY <2>1, <2>2, <1>1
    <2>4. \A j \in 1..(k - 1) : j \in 1..Len(pushed) /\ \A i \in j..(k - 1) : i \in 1..Len(pushed)
      BY <2>1, <1>1
    <2>5. k \in 1..Len(pushed') /\ k + Len(replay) - 1 <= Len(pushed')
      BY <2>1, <2>2, <1>1
    <2>6. \A i \in 1..Len(replay) : replay[i] = pushed'[k + i - 1]
      BY <2>1, <2>3, <1>1
    <2>7. \A j \in 1..(k - 1) : pushed'[j] \in lost \/ \E i \in j..(k - 1) : pushed'[i] = last
      BY <2>1, <2>4, <1>1
    <2> QED BY <2>5, <2>6, <2>7
  <1>10. FirstSubscription'
    BY <1>0, <1>3 DEF FirstSubscription
  <1> QED BY <1>5, <1>6, <1>7, <1>8, <1>9, <1>10 DEF EventInv

\* PMP sends a frame, or the forwarder drops one that has no envelope.
LEMMA FramePreserves ==
    ASSUME EventInv, incoming' \in Seq(Public \cup Internal), came' \subseteq Public \cup Internal,
           UNCHANGED <<pushed, sent, publishing, overlapped, client, cursor, replay, seenVars>>
    PROVE  EventInv'
  <1>1. UNCHANGED <<Owed, ToCome>>
    BY DEF Owed, ToCome, Elements, seenVars
  <1>2. NoGap'
    BY <1>1 DEF EventInv, NoGap, EventTypeOK, seenVars
  <1>3. LogsAgree' /\ OverlapsNoted' /\ LastIsABound' /\ FirstSubscription'
    BY <1>1 DEF EventInv, LogsAgree, OverlapsNoted, LastIsABound, FirstSubscription, seenVars
  <1>4. ReplayIsAStretch'
    BY DEF EventInv, ReplayIsAStretch, seenVars
  <1> QED BY <1>2, <1>3, <1>4 DEF EventInv

\* A publisher sends what it has pushed.
LEMMA SendPreserves ==
    ASSUME EventInv, NEW e \in Event, PublishSend(e)
    PROVE  EventInv'
  <1>0. EventTypeOK /\ NoGap /\ LogsAgree /\ OverlapsNoted /\ LastIsABound /\ ReplayIsAStretch
        /\ FirstSubscription
    BY DEF EventInv, NoGap
  <1>1. /\ sent' \in Seq(Event) /\ Len(sent') = Len(sent) + 1 /\ Len(sent) \in Nat
        /\ \A n \in 1..Len(sent) : sent'[n] = sent[n] /\ sent[n] \in Event
        /\ sent'[Len(sent) + 1] = e
        /\ \A n \in 1..Len(sent') : n \in 1..Len(sent) \/ n = Len(sent) + 1
        /\ 1..Len(sent) \subseteq 1..Len(sent')
    BY <1>0, Appended DEF PublishSend, EventTypeOK
  <1>2. /\ e \in publishing /\ publishing' = publishing \ {e}
        /\ UNCHANGED <<incoming, came, pushed, overlapped, client, cursor, replay, start, last, got, lost>>
    BY DEF PublishSend, inVars, seenVars
  <1>3. \A n \in 1..Len(sent) : sent[n] # e
    BY <1>0, <1>2 DEF LogsAgree
  <1>4. EventTypeOK'
    BY <1>0, <1>1, <1>2 DEF EventTypeOK
  <1>5. NoGap'
    <2> SUFFICES ASSUME client = "streaming", NEW n \in (start + 1)..Len(sent')
                 PROVE  sent'[n] \in got \cup lost \cup ToCome' \cup overlapped
      BY <1>2, <1>4 DEF NoGap
    <2>0. start \in Nat /\ cursor \in 0..Len(sent) /\ n \in 1..Len(sent')
      BY <1>0, <1>1 DEF EventTypeOK
    <2>1. e \in ToCome'
      BY <1>1, <1>2, <2>0 DEF ToCome
    <2>2. CASE n = Len(sent) + 1
      BY <2>1, <2>2, <1>1
    <2>3. CASE n \in (start + 1)..Len(sent)
      <3>1. sent[n] \in got \cup lost \cup ToCome \cup overlapped /\ sent'[n] = sent[n]
        BY <2>0, <2>3, <1>0, <1>1 DEF NoGap
      <3>2. \A k \in (cursor + 1)..Len(sent) : k \in (cursor + 1)..Len(sent') /\ sent'[k] = sent[k]
        BY <2>0, <1>1
      <3>3. ToCome \subseteq ToCome'
        BY <2>1, <3>2, <1>2 DEF ToCome
      <3> QED BY <3>1, <3>3
    <2> QED BY <2>0, <2>2, <2>3, <1>1
  <1>6. LogsAgree'
    <2>0. \A m, n \in 1..Len(sent) : sent[m] = sent[n] => m = n
      BY <1>0 DEF LogsAgree
    <2>1. \A m, n \in 1..Len(sent') : sent'[m] = sent'[n] => m = n
      BY <2>0, <1>1, <1>3
    <2>2. \A n \in 1..Len(sent') : sent'[n] \notin publishing' /\ \E i \in 1..Len(pushed) : pushed[i] = sent'[n]
      BY SMTT(20), <1>0, <1>1, <1>2 DEF LogsAgree
    <2>3. \A i \in 1..Len(pushed) :
             pushed[i] \in publishing' \/ \E n \in 1..Len(sent') : sent'[n] = pushed[i]
      <3> SUFFICES ASSUME NEW i \in 1..Len(pushed), pushed[i] \notin publishing'
                   PROVE  \E n \in 1..Len(sent') : sent'[n] = pushed[i]
        OBVIOUS
      <3>1. CASE pushed[i] = e
        <4>1. Len(sent) + 1 \in 1..Len(sent')
          BY <1>1
        <4> QED BY <3>1, <4>1, <1>1
      <3>2. CASE pushed[i] # e
        BY <3>2, <1>0, <1>1, <1>2 DEF LogsAgree
      <3> QED BY <3>1, <3>2
    <2>4. \A i, j \in 1..Len(pushed) : pushed[i] = pushed[j] => i = j
      BY <1>0 DEF LogsAgree
    <2>5. \A x \in publishing' : \E i \in 1..Len(pushed) : pushed[i] = x
      BY <1>0, <1>2 DEF LogsAgree
    <2> QED BY <2>1, <2>2, <2>3, <2>4, <2>5, <1>2 DEF LogsAgree
  <1>7. OverlapsNoted'
    <2>1. \A i, j \in 1..Len(pushed) : i < j /\ pushed[i] \in publishing' =>
             pushed[i] \in overlapped /\ pushed[j] \in overlapped
      BY <1>0, <1>2 DEF OverlapsNoted
    <2>2. \A i, j \in 1..Len(pushed), m, n \in 1..Len(sent') :
             i < j /\ m < n /\ sent'[n] = pushed[i] /\ sent'[m] = pushed[j] => pushed[i] \in overlapped
      <3> SUFFICES ASSUME NEW i \in 1..Len(pushed), NEW j \in 1..Len(pushed),
                          NEW m \in 1..Len(sent'), NEW n \in 1..Len(sent'),
                          i < j, m < n, sent'[n] = pushed[i], sent'[m] = pushed[j]
                   PROVE  pushed[i] \in overlapped
        OBVIOUS
      <3>1. CASE n = Len(sent) + 1
        BY <3>1, <1>0, <1>1, <1>2 DEF OverlapsNoted
      <3>2. CASE n \in 1..Len(sent)
        <4>1. m \in 1..Len(sent) /\ sent[n] = pushed[i] /\ sent[m] = pushed[j]
          BY <3>2, <1>1
        <4> QED BY <3>2, <4>1, <1>0 DEF OverlapsNoted
      <3> QED BY <3>1, <3>2, <1>1
    <2> QED BY <2>1, <2>2, <1>2 DEF OverlapsNoted
  <1>8. LastIsABound'
    <2>1. Owed' \subseteq Owed
      <3>1. \A n \in (start + 1)..Len(sent') : n \in (start + 1)..Len(sent) \/ n = Len(sent) + 1
        BY <1>0, <1>1 DEF EventTypeOK
      <3>2. \A n \in (start + 1)..Len(sent) : sent'[n] = sent[n]
        BY <1>0, <1>1 DEF EventTypeOK
      <3> QED BY <3>1, <3>2, <1>1, <1>2 DEF Owed
    <2> QED BY <2>1, <1>0, <1>2 DEF LastIsABound
  <1>9. ReplayIsAStretch'
    BY <1>0, <1>2 DEF ReplayIsAStretch
  <1>10. FirstSubscription'
    BY <1>0, <1>2 DEF FirstSubscription
  <1> QED BY <1>5, <1>6, <1>7, <1>8, <1>9, <1>10 DEF EventInv

\* What a step of the client leaves alone.
LEMMA BusIsKept ==
    ASSUME EventInv, UNCHANGED busVars
    PROVE  LogsAgree' /\ OverlapsNoted'
  <1>1. pushed' = pushed /\ sent' = sent /\ publishing' = publishing /\ overlapped' = overlapped
    BY DEF busVars
  <1>2. LogsAgree /\ OverlapsNoted
    BY DEF EventInv
  <1>3. LogsAgree'
    <2>1. \A i, j \in 1..Len(pushed') : pushed'[i] = pushed'[j] => i = j
      BY <1>1, <1>2 DEF LogsAgree
    <2>2. \A m, n \in 1..Len(sent') : sent'[m] = sent'[n] => m = n
      BY <1>1, <1>2 DEF LogsAgree
    <2>3. \A n \in 1..Len(sent') : sent'[n] \notin publishing' /\ \E i \in 1..Len(pushed') : pushed'[i] = sent'[n]
      BY <1>1, <1>2 DEF LogsAgree
    <2>4. \A e \in publishing' : \E i \in 1..Len(pushed') : pushed'[i] = e
      BY <1>1, <1>2 DEF LogsAgree
    <2>5. \A i \in 1..Len(pushed') :
             pushed'[i] \in publishing' \/ \E n \in 1..Len(sent') : sent'[n] = pushed'[i]
      BY <1>1, <1>2 DEF LogsAgree
    <2> QED BY <2>1, <2>2, <2>3, <2>4, <2>5 DEF LogsAgree
  <1>4. OverlapsNoted'
    BY <1>1, <1>2 DEF OverlapsNoted
  <1> QED BY <1>3, <1>4

LEMMA SubscribePreserves ==
    ASSUME EventInv, Subscribe
    PROVE  EventInv'
  <1>0. EventTypeOK /\ LastIsABound /\ ReplayIsAStretch
    BY DEF EventInv, NoGap
  <1>1. LogsAgree' /\ OverlapsNoted'
    BY BusIsKept DEF Subscribe
  <1>2. EventTypeOK'
    BY <1>0 DEF EventTypeOK, Subscribe, busVars
  <1>3. NoGap'
    BY <1>2 DEF NoGap, Subscribe
  <1>4. LastIsABound'
    <2> SUFFICES ASSUME last # NoEvent PROVE LastIsABound'
      BY DEF LastIsABound, Subscribe
    <2>1. UNCHANGED <<Owed, pushed, last, got, lost, overlapped>>
      BY DEF Subscribe, busVars, Owed
    <2> QED BY <1>0, <2>1 DEF LastIsABound
  <1>5. ReplayIsAStretch'
    BY <1>0 DEF ReplayIsAStretch, Subscribe, busVars
  <1>6. FirstSubscription'
    BY <1>0 DEF FirstSubscription, Subscribe, EventTypeOK, busVars
  <1> QED BY <1>1, <1>3, <1>4, <1>5, <1>6 DEF EventInv

\* The end of a sequence.
LEMMA Suffix ==
    ASSUME NEW S, NEW s \in Seq(S), NEW a \in 0..Len(s)
    PROVE  /\ SubSeq(s, a + 1, Len(s)) \in Seq(S)
           /\ Len(SubSeq(s, a + 1, Len(s))) = Len(s) - a
           /\ \A i \in 1..(Len(s) - a) : SubSeq(s, a + 1, Len(s))[i] = s[a + i]
  <1>1. Len(s) \in Nat /\ a \in Nat /\ \A i \in 1..Len(s) : s[i] \in S
    OBVIOUS
  <1>2. \A i \in (a + 1)..Len(s) : s[i] \in S
    BY <1>1
  <1>3. SubSeq(s, a + 1, Len(s)) \in Seq(S)
    BY <1>1, <1>2
  <1>4. Len(SubSeq(s, a + 1, Len(s))) = Len(s) - a
    BY <1>1
  <1>5. \A i \in 1..(Len(s) - a) : SubSeq(s, a + 1, Len(s))[i] = s[a + i]
    BY <1>1
  <1> QED BY <1>3, <1>4, <1>5

\* The history is the end of the log of pushes.
LEMMA HistoryIsASuffix ==
    ASSUME EventTypeOK
    PROVE  \E d \in 0..Len(pushed) :
               /\ History \in Seq(Event) /\ Len(History) = Len(pushed) - d
               /\ \A i \in 1..Len(History) : History[i] = pushed[d + i] /\ d + i \in 1..Len(pushed)
  <1>1. pushed \in Seq(Event) /\ Len(pushed) \in Nat /\ MaxHistory \in Nat \ {0}
    BY EventStreamAssumption DEF EventTypeOK
  <1>2. CASE Len(pushed) <= MaxHistory
    <2>1. History = pushed /\ 0 \in 0..Len(pushed)
      BY <1>1, <1>2 DEF History, Kept
    <2> QED BY <1>1, <2>1
  <1>3. CASE ~(Len(pushed) <= MaxHistory)
    <2> DEFINE d == Len(pushed) - MaxHistory
    <2>1. d \in 0..Len(pushed) /\ History = SubSeq(pushed, d + 1, Len(pushed))
      BY <1>1, <1>3 DEF History, Kept
    <2>2. History \in Seq(Event) /\ Len(History) = Len(pushed) - d
      BY <1>1, <2>1
    <2>3. \A i \in 1..Len(History) : History[i] = pushed[d + i] /\ d + i \in 1..Len(pushed)
      BY <1>1, <2>1, <2>2
    <2> QED BY <2>1, <2>2, <2>3
  <1> QED BY <1>2, <1>3

\* What follows an id in the history is what follows it in the log.
LEMMA AfterHistory ==
    ASSUME EventTypeOK, LogsAgree, last \in Elements(History),
           NEW p \in 1..Len(pushed), pushed[p] = last
    PROVE  /\ After(History, last) \in Seq(Event)
           /\ Len(After(History, last)) = Len(pushed) - p
           /\ \A i \in 1..Len(After(History, last)) :
                 After(History, last)[i] = pushed[p + i] /\ p + i \in 1..Len(pushed)
  <1>1. PICK d \in 0..Len(pushed) :
            /\ History \in Seq(Event) /\ Len(History) = Len(pushed) - d
            /\ \A i \in 1..Len(History) : History[i] = pushed[d + i] /\ d + i \in 1..Len(pushed)
    BY HistoryIsASuffix
  <1>2. pushed \in Seq(Event) /\ Len(pushed) \in Nat
    BY DEF EventTypeOK
  <1> DEFINE at == CHOOSE n \in DOMAIN History : History[n] = last
  <1>3. at \in 1..Len(History) /\ History[at] = last
    <2>1. \E n \in DOMAIN History : History[n] = last
      BY DEF Elements
    <2>2. at \in DOMAIN History /\ History[at] = last
      BY <2>1
    <2> QED BY <2>2, <1>1
  <1>4. After(History, last) = SubSeq(History, at + 1, Len(History))
    BY DEF After
  <1> HIDE DEF at
  <1>5. d + at = p
    <2>1. pushed[d + at] = pushed[p] /\ d + at \in 1..Len(pushed)
      BY <1>1, <1>3
    <2> QED BY <2>1 DEF LogsAgree
  <1> DEFINE h == History
  <1>6. h \in Seq(Event) /\ Len(h) = Len(pushed) - d
        /\ \A i \in 1..Len(h) : h[i] = pushed[d + i] /\ d + i \in 1..Len(pushed)
    BY <1>1
  <1>7. at \in 1..Len(h)
    BY <1>3
  <1> HIDE DEF h
  <1>8. /\ SubSeq(h, at + 1, Len(h)) \in Seq(Event)
        /\ Len(SubSeq(h, at + 1, Len(h))) = Len(h) - at
        /\ \A i \in 1..(Len(h) - at) : SubSeq(h, at + 1, Len(h))[i] = h[at + i]
    <2>1. at \in 0..Len(h)
      BY <1>6, <1>7
    <2> QED BY <1>6, <2>1, Suffix
  <1>9. Len(h) - at = Len(pushed) - p
    <2>1. d \in Int /\ Len(pushed) \in Int /\ Len(h) \in Int
      BY <1>1, <1>2, <1>6
    <2>2. at \in Int /\ d + at = p /\ Len(h) = Len(pushed) - d
      BY <1>5, <1>6, <1>7
    <2> QED BY <2>1, <2>2
  <1>10. \A i \in 1..(Len(h) - at) : h[at + i] = pushed[p + i] /\ p + i \in 1..Len(pushed)
    <2> SUFFICES ASSUME NEW i \in 1..(Len(h) - at)
                 PROVE  h[at + i] = pushed[p + i] /\ p + i \in 1..Len(pushed)
      OBVIOUS
    <2>1. at + i \in 1..Len(h) /\ d + (at + i) = p + i
      BY <1>1, <1>2, <1>5, <1>6, <1>7
    <2>2. h[at + i] = pushed[d + (at + i)] /\ d + (at + i) \in 1..Len(pushed)
      BY <2>1, <1>6
    <2> QED BY <2>1, <2>2
  <1> QED BY <1>4, <1>8, <1>9, <1>10 DEF h

LEMMA ReplayFromPreserves ==
    ASSUME EventInv, ReplayFrom
    PROVE  EventInv'
  <1>0. EventTypeOK /\ LogsAgree /\ LastIsABound /\ ReplayIsAStretch /\ FirstSubscription
        /\ client = "subscribed"
    BY DEF EventInv, NoGap, ReplayFrom
  <1>1. LogsAgree' /\ OverlapsNoted'
    BY BusIsKept DEF ReplayFrom
  <1>2. UNCHANGED <<incoming, came, pushed, sent, publishing, overlapped, cursor, start, last, got, lost>>
    BY DEF ReplayFrom, busVars, seenVars
  <1>3. LastIsABound'
    BY <1>0, <1>2 DEF LastIsABound, Owed
  <1>4. CASE last # NoEvent /\ last \notin Elements(History)
    <2>1. client' = "missed" /\ replay' = replay
      BY <1>4 DEF ReplayFrom
    <2>2. EventTypeOK'
      BY <1>0, <1>2, <2>1 DEF EventTypeOK
    <2>3. NoGap' /\ FirstSubscription' /\ ReplayIsAStretch'
      BY <1>0, <1>2, <1>4, <2>1, <2>2 DEF NoGap, FirstSubscription, ReplayIsAStretch
    <2> QED BY <1>1, <1>3, <2>3 DEF EventInv
  <1>5. CASE last = NoEvent
    <2>1. client' = "streaming" /\ replay' = <<>>
      BY <1>5 DEF ReplayFrom
    <2>2. EventTypeOK'
      BY <1>0, <1>2, <2>1 DEF EventTypeOK
    <2>3. NoGap'
      <3> SUFFICES ASSUME NEW n \in (start + 1)..Len(sent)
                   PROVE  sent[n] \in ToCome'
        BY <1>2, <2>2 DEF NoGap
      <3>1. n \in (cursor + 1)..Len(sent)
        BY <1>0, <1>5 DEF EventTypeOK, FirstSubscription
      <3> QED BY <3>1, <1>2 DEF ToCome
    <2>4. FirstSubscription' /\ ReplayIsAStretch'
      BY <1>2, <1>5, <2>1 DEF FirstSubscription, ReplayIsAStretch
    <2> QED BY <1>1, <1>3, <2>3, <2>4 DEF EventInv
  <1>6. CASE last # NoEvent /\ last \in Elements(History)
    <2> DEFINE R == After(History, last)
    <2>1. client' = "streaming" /\ replay' = R
      BY <1>6 DEF ReplayFrom
    <2>2. PICK p \in 1..Len(pushed) :
            /\ pushed[p] = last
            /\ \A j \in 1..p : pushed[j] \in Owed => pushed[j] \in got \cup lost \cup overlapped
      BY <1>0, <1>6 DEF LastIsABound
    <2>3. /\ R \in Seq(Event) /\ Len(R) = Len(pushed) - p
          /\ \A i \in 1..Len(R) : R[i] = pushed[p + i] /\ p + i \in 1..Len(pushed)
      BY <1>0, <1>6, <2>2, AfterHistory
    <2>4. Len(pushed) \in Nat
      BY <1>0 DEF EventTypeOK
    <2> HIDE DEF R
    <2>5. EventTypeOK'
      BY <1>0, <1>2, <2>1, <2>3 DEF EventTypeOK
    <2>6. NoGap'
      <3> SUFFICES ASSUME NEW n \in (start + 1)..Len(sent)
                   PROVE  sent[n] \in got \cup lost \cup ToCome' \cup overlapped
        BY <1>2, <2>5 DEF NoGap
      <3>1. sent[n] \in Owed /\ n \in 1..Len(sent)
        BY <1>0 DEF Owed, EventTypeOK
      <3>2. PICK j \in 1..Len(pushed) : pushed[j] = sent[n]
        BY <1>0, <3>1 DEF LogsAgree
      <3>3. CASE j \in 1..p
        BY <2>2, <3>1, <3>2, <3>3
      <3>4. CASE ~(j \in 1..p)
        <4>1. j - p \in 1..Len(R) /\ p + (j - p) = j
          BY <2>3, <2>4, <3>4
        <4>2. R[j - p] = sent[n]
          BY <4>1, <2>3, <3>2
        <4>3. sent[n] \in Elements(replay')
          BY <4>1, <4>2, <2>1, <2>3 DEF Elements
        <4> QED BY <4>3 DEF ToCome, Elements
      <3> QED BY <3>3, <3>4
    <2>7. ReplayIsAStretch'
      <3> SUFFICES ASSUME R # <<>>
                   PROVE  \E k \in 1..Len(pushed) :
                              /\ k + Len(R) - 1 <= Len(pushed)
                              /\ \A i \in 1..Len(R) : R[i] = pushed[k + i - 1]
                              /\ \A j \in 1..(k - 1) :
                                    pushed[j] \in lost \/ \E i \in j..(k - 1) : pushed[i] = last
        BY <1>2, <1>6, <2>1 DEF ReplayIsAStretch
      <3>1. Len(R) \in Nat \ {0}
        BY <2>3
      <3> DEFINE k == p + 1
      <3>2. k \in 1..Len(pushed) /\ k + Len(R) - 1 <= Len(pushed)
        BY <3>1, <2>3, <2>4
      <3>3. \A i \in 1..Len(R) : R[i] = pushed[k + i - 1]
        BY <2>3
      <3>4. \A j \in 1..(k - 1) : \E i \in j..(k - 1) : pushed[i] = last
        BY <2>2
      <3> HIDE DEF k
      <3> QED BY <3>2, <3>3, <3>4
    <2>8. FirstSubscription'
      BY <1>2, <2>1 DEF FirstSubscription
    <2> QED BY <1>1, <1>3, <2>6, <2>7, <2>8 DEF EventInv
  <1> QED BY <1>4, <1>5, <1>6

LEMMA SnapshotPreserves ==
    ASSUME EventInv, Snapshot
    PROVE  EventInv'
  <1>0. EventTypeOK /\ LogsAgree /\ LastIsABound /\ last # NoEvent
    BY DEF EventInv, NoGap, Snapshot, ReplayIsAStretch
  <1>1. LogsAgree' /\ OverlapsNoted'
    BY BusIsKept DEF Snapshot
  <1>2. /\ UNCHANGED <<incoming, came, pushed, sent, publishing, overlapped, cursor, start, last, got>>
        /\ client' = "streaming" /\ replay' = History
        /\ lost' = lost \cup (Elements(pushed) \ Elements(History))
    BY DEF Snapshot, busVars
  <1>3. PICK d \in 0..Len(pushed) :
            /\ History \in Seq(Event) /\ Len(History) = Len(pushed) - d
            /\ \A i \in 1..Len(History) : History[i] = pushed[d + i] /\ d + i \in 1..Len(pushed)
    BY <1>0, HistoryIsASuffix
  <1>4. pushed \in Seq(Event) /\ Len(pushed) \in Nat
    BY <1>0 DEF EventTypeOK
  <1> DEFINE h == History
  <1>5. /\ h \in Seq(Event) /\ Len(h) = Len(pushed) - d
        /\ \A i \in 1..Len(h) : h[i] = pushed[d + i] /\ d + i \in 1..Len(pushed)
        /\ replay' = h /\ lost' = lost \cup (Elements(pushed) \ Elements(h))
    BY <1>2, <1>3
  <1> HIDE DEF h
  <1>6. EventTypeOK'
    <2>1. Elements(pushed) \subseteq Event
      BY <1>4 DEF Elements
    <2> QED BY <1>0, <1>2, <1>5, <2>1 DEF EventTypeOK
  <1>7. NoGap'
    <2> SUFFICES ASSUME NEW n \in (start + 1)..Len(sent)
                 PROVE  sent[n] \in lost' \cup ToCome'
      BY <1>2, <1>6 DEF NoGap
    <2>1. n \in 1..Len(sent)
      BY <1>0 DEF EventTypeOK
    <2>2. PICK j \in 1..Len(pushed) : pushed[j] = sent[n]
      BY <1>0, <2>1 DEF LogsAgree
    <2>3. sent[n] \in Elements(pushed)
      BY <2>2, <1>4 DEF Elements
    <2>4. Elements(h) \subseteq ToCome'
      BY <1>5 DEF ToCome, Elements
    <2> QED BY <2>3, <2>4, <1>5
  <1>8. LastIsABound'
    BY <1>0, <1>2 DEF LastIsABound, Owed
  <1>9. ReplayIsAStretch'
    <2> SUFFICES ASSUME h # <<>>
                 PROVE  \E k \in 1..Len(pushed) :
                            /\ k + Len(h) - 1 <= Len(pushed)
                            /\ \A i \in 1..Len(h) : h[i] = pushed[k + i - 1]
                            /\ \A j \in 1..(k - 1) :
                                  pushed[j] \in lost' \/ \E i \in j..(k - 1) : pushed[i] = last
      BY <1>0, <1>2, <1>5 DEF ReplayIsAStretch
    <2>1. Len(h) \in Nat \ {0}
      BY <1>5
    <2>2. d + 1 \in 1..Len(pushed) /\ d + 1 + Len(h) - 1 <= Len(pushed)
      BY <2>1, <1>4, <1>5
    <2>3. \A i \in 1..Len(h) : h[i] = pushed[d + 1 + i - 1]
      BY <1>5
    <2>4. \A j \in 1..(d + 1 - 1) : pushed[j] \in lost'
      <3> SUFFICES ASSUME NEW j \in 1..d PROVE pushed[j] \in Elements(pushed) \ Elements(h)
        BY <1>5
      <3>1. j \in 1..Len(pushed)
        BY <1>4
      <3>2. \A i \in 1..Len(h) : h[i] # pushed[j]
        BY <3>1, <1>0, <1>5 DEF LogsAgree
      <3> QED BY SMTT(20), <3>1, <3>2, <1>4, <1>5 DEF Elements
    <2> QED BY <2>2, <2>3, <2>4
  <1>10. FirstSubscription'
    BY <1>2 DEF FirstSubscription
  <1> QED BY <1>1, <1>7, <1>8, <1>9, <1>10 DEF EventInv

\* The client receives the head of its replay.
LEMMA StreamReplayPreserves ==
    ASSUME EventInv, StreamReplay
    PROVE  EventInv'
  <1>0. EventTypeOK /\ NoGap /\ LogsAgree /\ LastIsABound /\ ReplayIsAStretch /\ replay # <<>>
    BY DEF EventInv, NoGap, StreamReplay
  <1>1. LogsAgree' /\ OverlapsNoted'
    BY BusIsKept DEF StreamReplay
  <1> DEFINE e == replay[1]
  <1>2. /\ UNCHANGED <<incoming, came, pushed, sent, publishing, overlapped, client, cursor, start, lost>>
        /\ client = "streaming" /\ replay' = Tail(replay) /\ last' = e /\ got' = got \cup {e}
    BY <1>0 DEF StreamReplay, busVars, Deliver, EventTypeOK
  <1>3. /\ Len(replay) \in Nat \ {0} /\ e \in Event
        /\ Tail(replay) \in Seq(Event) /\ Len(Tail(replay)) = Len(replay) - 1
        /\ \A i \in 1..Len(Tail(replay)) : Tail(replay)[i] = replay[i + 1]
    BY <1>0 DEF EventTypeOK
  <1>4. EventTypeOK'
    BY <1>0, <1>2, <1>3 DEF EventTypeOK
  <1>5. NoGap'
    <2>1. Elements(replay) \subseteq {e} \cup Elements(Tail(replay))
      <3> DEFINE t == Tail(replay)
      <3>1. /\ DOMAIN t = 1..Len(t) /\ Len(t) = Len(replay) - 1 /\ DOMAIN replay = 1..Len(replay)
            /\ \A i \in 1..Len(t) : t[i] = replay[i + 1]
        BY <1>0, <1>3 DEF EventTypeOK
      <3> HIDE DEF t
      <3>2. \A i \in 1..Len(replay) : i # 1 => i - 1 \in 1..Len(t) /\ t[i - 1] = replay[i]
        BY <3>1, <1>3
      <3>3. \A i \in 1..Len(replay) : replay[i] \in {e} \cup Elements(t)
        BY <3>1, <3>2 DEF Elements
      <3>4. Elements(replay) \subseteq {e} \cup Elements(t)
        BY <3>1, <3>3 DEF Elements
      <3> QED BY <3>4 DEF t
    <2>2. ToCome \subseteq {e} \cup ToCome'
      BY <2>1, <1>2 DEF ToCome, Elements
    <2> QED BY <2>2, <1>0, <1>2, <1>4 DEF NoGap
  <1>6. PICK k \in 1..Len(pushed) :
            /\ k + Len(replay) - 1 <= Len(pushed)
            /\ \A i \in 1..Len(replay) : replay[i] = pushed[k + i - 1]
            /\ \A j \in 1..(k - 1) : pushed[j] \in lost \/ \E i \in j..(k - 1) : pushed[i] = last
    BY <1>0 DEF ReplayIsAStretch
  <1>7. pushed[k] = e /\ k \in Nat \ {0} /\ Len(pushed) \in Nat
    BY <1>0, <1>3, <1>6 DEF EventTypeOK
  <1>8. LastIsABound'
    <2>0. Owed' = Owed /\ pushed' = pushed /\ last' = pushed[k] /\ lost' = lost /\ overlapped' = overlapped
      BY <1>2, <1>7 DEF Owed
    <2> SUFFICES ASSUME NEW j \in 1..k, pushed[j] \in Owed
                 PROVE  pushed[j] \in got' \cup lost \cup overlapped
      BY <2>0, <1>6 DEF LastIsABound
    <2>1. CASE j = k
      BY <2>1, <1>2, <1>7
    <2>2. CASE j # k
      <3>1. j \in 1..(k - 1)
        BY <2>2, <1>7
      <3> SUFFICES ASSUME NEW i \in j..(k - 1), pushed[i] = last
                   PROVE  pushed[j] \in got \cup lost \cup overlapped
        BY <3>1, <1>2, <1>6
      <3>2. PICK p \in 1..Len(pushed) :
              /\ pushed[p] = last
              /\ \A x \in 1..p : pushed[x] \in Owed => pushed[x] \in got \cup lost \cup overlapped
        BY <1>0 DEF LastIsABound, ReplayIsAStretch
      <3>3. i \in 1..Len(pushed)
        BY <3>1, <1>6
      <3>4. i = p
        BY <3>2, <3>3, <1>0 DEF LogsAgree
      <3> QED BY <3>1, <3>2, <3>4
    <2> QED BY <2>1, <2>2
  <1>9. ReplayIsAStretch'
    <2>0. last' # NoEvent
      BY <1>2, <1>3, EventStreamAssumption DEF Event
    <2> DEFINE t == Tail(replay)
    <2> SUFFICES ASSUME t # <<>>
                 PROVE  \E q \in 1..Len(pushed) :
                            /\ q + Len(t) - 1 <= Len(pushed)
                            /\ \A i \in 1..Len(t) : t[i] = pushed[q + i - 1]
                            /\ \A j \in 1..(q - 1) :
                                  pushed[j] \in lost \/ \E i \in j..(q - 1) : pushed[i] = e
      BY <1>2, <2>0 DEF ReplayIsAStretch
    <2> DEFINE q == k + 1
    <2>1. t \in Seq(Event) /\ Len(t) = Len(replay) - 1 /\ \A i \in 1..Len(t) : t[i] = replay[i + 1]
      BY <1>3
    <2> HIDE DEF t
    <2>2. Len(t) \in Nat \ {0}
      BY <2>1
    <2>3. q \in 1..Len(pushed) /\ q + Len(t) - 1 <= Len(pushed)
      BY <2>1, <2>2, <1>3, <1>6, <1>7
    <2>4. \A i \in 1..Len(t) : t[i] = pushed[q + i - 1]
      <3> SUFFICES ASSUME NEW i \in 1..Len(t) PROVE t[i] = pushed[q + i - 1]
        OBVIOUS
      <3>1. i + 1 \in 1..Len(replay) /\ k + (i + 1) - 1 = q + i - 1
        BY <2>1, <1>3, <1>7
      <3> QED BY <3>1, <2>1, <1>6
    <2>5. \A j \in 1..(q - 1) : \E i \in j..(q - 1) : pushed[i] = e
      BY <1>7
    <2> HIDE DEF q
    <2> QED BY <2>3, <2>4, <2>5
  <1>10. FirstSubscription'
    BY <1>2 DEF FirstSubscription
  <1> QED BY <1>1, <1>5, <1>8, <1>9, <1>10 DEF EventInv

LEMMA LagPreserves ==
    ASSUME EventInv, Lag
    PROVE  EventInv'
  <1>0. EventTypeOK /\ NoGap /\ LastIsABound /\ ReplayIsAStretch
    BY DEF EventInv, NoGap
  <1>1. LogsAgree' /\ OverlapsNoted'
    BY BusIsKept DEF Lag
  <1> DEFINE c == Len(sent) - EventCapacity
  <1>2. /\ UNCHANGED <<incoming, came, pushed, sent, publishing, overlapped, client, replay, start, last, got>>
        /\ client = "streaming" /\ replay = <<>> /\ cursor' = c
        /\ lost' = lost \cup {sent[n] : n \in (cursor + 1)..c}
    BY DEF Lag, busVars
  <1>3. sent \in Seq(Event) /\ Len(sent) \in Nat /\ cursor \in 0..Len(sent) /\ c \in cursor..Len(sent)
    BY <1>0, EventStreamAssumption DEF Lag, EventTypeOK
  <1> HIDE DEF c
  <1>4. EventTypeOK'
    <2>1. \A n \in (cursor + 1)..c : sent[n] \in Event
      BY <1>3
    <2> QED BY <2>1, <1>0, <1>2, <1>3 DEF EventTypeOK
  <1>5. NoGap'
    <2>1. \A n \in (cursor + 1)..Len(sent) : n \in (cursor + 1)..c \/ n \in (c + 1)..Len(sent)
      BY <1>3
    <2>2. {sent[n] : n \in (cursor + 1)..Len(sent)} \subseteq lost' \cup {sent[n] : n \in (c + 1)..Len(sent)}
      BY <2>1, <1>2
    <2>3. ToCome \subseteq lost' \cup ToCome'
      BY <2>2, <1>2 DEF ToCome
    <2> QED BY <2>3, <1>0, <1>2, <1>4 DEF NoGap
  <1>6. LastIsABound'
    BY <1>0, <1>2 DEF LastIsABound, Owed
  <1>7. ReplayIsAStretch' /\ FirstSubscription'
    BY <1>0, <1>2 DEF ReplayIsAStretch, FirstSubscription
  <1> QED BY <1>1, <1>5, <1>6, <1>7 DEF EventInv

\* The client receives the next event of the channel.  Its id may be older
\* than the last one; what was pushed before it and is owed was sent before it.
LEMMA StreamLivePreserves ==
    ASSUME EventInv, StreamLive
    PROVE  EventInv'
  <1>0. EventTypeOK /\ NoGap /\ LogsAgree /\ OverlapsNoted /\ LastIsABound /\ ReplayIsAStretch
    BY DEF EventInv, NoGap
  <1>1. LogsAgree' /\ OverlapsNoted'
    BY BusIsKept DEF StreamLive
  <1> DEFINE e == sent[cursor + 1]
  <1>2. /\ UNCHANGED <<incoming, came, pushed, sent, publishing, overlapped, client, replay, start, lost>>
        /\ client = "streaming" /\ replay = <<>> /\ cursor' = cursor + 1
        /\ last' = e /\ got' = got \cup {e} /\ cursor < Len(sent)
    BY DEF StreamLive, busVars, Deliver
  <1>3. /\ sent \in Seq(Event) /\ Len(sent) \in Nat /\ cursor + 1 \in 1..Len(sent) /\ e \in Event
        /\ cursor \in Nat /\ start \in 0..Len(sent)
    BY <1>0, <1>2 DEF EventTypeOK
  <1>4. EventTypeOK'
    BY <1>0, <1>2, <1>3 DEF EventTypeOK
  <1>5. NoGap'
    <2>1. \A n \in (cursor + 1)..Len(sent) : n = cursor + 1 \/ n \in (cursor' + 1)..Len(sent)
      BY <1>2, <1>3
    <2>2. ToCome \subseteq got' \cup ToCome'
      BY <2>1, <1>2 DEF ToCome
    <2> QED BY <2>2, <1>0, <1>2, <1>4 DEF NoGap
  <1>6. LastIsABound'
    <2>1. PICK p \in 1..Len(pushed) : pushed[p] = e
      BY <1>0, <1>3 DEF LogsAgree
    <2>2. Elements(replay) = {}
      BY <1>2 DEF Elements
    <2> SUFFICES ASSUME NEW j \in 1..p, pushed[j] \in Owed, j # p
                 PROVE  pushed[j] \in got \cup lost \cup overlapped
      BY <1>2, <2>1 DEF LastIsABound, Owed
    <2>3. j \in 1..Len(pushed) /\ j < p
      BY <1>0, <2>1 DEF EventTypeOK
    <2>4. CASE pushed[j] \in publishing
      BY <2>1, <2>3, <2>4, <1>0 DEF OverlapsNoted
    <2>5. CASE pushed[j] \notin publishing
      <3>1. PICK n \in (start + 1)..Len(sent) : sent[n] = pushed[j]
        BY <2>5 DEF Owed
      <3>2. n \in 1..Len(sent) /\ n # cursor + 1
        BY <3>1, <2>1, <2>3, <1>0, <1>3 DEF LogsAgree
      <3>3. CASE n < cursor + 1
        <4>1. \A m \in (cursor + 1)..Len(sent) : m \in 1..Len(sent) /\ m # n
          BY <3>3, <1>3
        <4>2. \A m \in (cursor + 1)..Len(sent) : sent[m] # sent[n]
          BY <4>1, <3>2, <1>0 DEF LogsAgree
        <4>3. sent[n] \notin ToCome
          BY <4>2, <2>2, <2>5, <3>1 DEF ToCome
        <4> QED BY <4>3, <3>1, <1>0, <1>2 DEF NoGap
      <3>4. CASE n > cursor + 1
        BY <3>1, <3>2, <3>4, <2>1, <2>3, <1>0, <1>3 DEF OverlapsNoted
      <3> QED BY <3>2, <3>3, <3>4, <1>3
    <2> QED BY <2>4, <2>5
  <1>7. ReplayIsAStretch' /\ FirstSubscription'
    BY <1>0, <1>2 DEF ReplayIsAStretch, FirstSubscription
  <1> QED BY <1>1, <1>5, <1>6, <1>7 DEF EventInv

LEMMA LeavePreserves ==
    ASSUME EventInv, Leave
    PROVE  EventInv'
  <1>0. EventTypeOK /\ LastIsABound
    BY DEF EventInv, NoGap
  <1>1. LogsAgree' /\ OverlapsNoted'
    BY BusIsKept DEF Leave
  <1>2. EventTypeOK'
    BY <1>0 DEF EventTypeOK, Leave, busVars, seenVars
  <1>3. NoGap' /\ ReplayIsAStretch' /\ FirstSubscription'
    BY <1>2 DEF NoGap, ReplayIsAStretch, FirstSubscription, Leave
  <1>4. LastIsABound'
    BY <1>0 DEF LastIsABound, Owed, Leave, busVars, seenVars
  <1> QED BY <1>1, <1>3, <1>4 DEF EventInv

LEMMA EventStep == EventInv /\ [EventNext]_eventVars => EventInv'
  <1> SUFFICES ASSUME EventInv, [EventNext]_eventVars PROVE EventInv'
    OBVIOUS
  <1>0. EventTypeOK
    BY DEF EventInv, NoGap
  <1>1. ASSUME NEW f \in Public \cup Internal, PmpFrame(f) PROVE EventInv'
    <2> DEFINE u == Append(incoming, f)
    <2>1. u \in Seq(Public \cup Internal) /\ Len(u) \in Nat /\ PmpCapacity \in Nat
      BY <1>0, EventStreamAssumption DEF EventTypeOK
    <2>2. incoming' = Kept(u, PmpCapacity) /\ came' = came \cup {f}
      BY <1>1 DEF PmpFrame
    <2> HIDE DEF u
    <2>3. Kept(u, PmpCapacity) \in Seq(Public \cup Internal)
      <3>1. CASE Len(u) <= PmpCapacity
        BY <3>1, <2>1 DEF Kept
      <3>2. CASE ~(Len(u) <= PmpCapacity)
        <4> DEFINE a == Len(u) - PmpCapacity
        <4>1. a \in 0..Len(u) /\ Kept(u, PmpCapacity) = SubSeq(u, a + 1, Len(u))
          BY <3>2, <2>1 DEF Kept
        <4> HIDE DEF a
        <4> QED BY <4>1, <2>1, Suffix
      <3> QED BY <3>1, <3>2
    <2>4. came' \subseteq Public \cup Internal
      BY <1>0, <2>2 DEF EventTypeOK
    <2> QED BY <1>1, <2>2, <2>3, <2>4, FramePreserves DEF PmpFrame
  <1>2. CASE Forward
    <2>1. incoming' \in Seq(Public \cup Internal) /\ came' \subseteq Public \cup Internal
          /\ Head(incoming) \in Public \cup Internal
      BY <1>0, <1>2 DEF Forward, EventTypeOK
    <2>2. CASE Head(incoming) \in Public
      <3>1. PublishPush(Head(incoming)) /\ Head(incoming) \in Event
        BY <1>2, <2>2, EventStreamAssumption DEF Forward, map_pmp_event, Event
      <3> DEFINE e == Head(incoming)
      <3>2. PublishPush(e) /\ e \in Event
        BY <3>1
      <3> HIDE DEF e
      <3> QED BY <3>2, <2>1, PushPreserves
    <2>3. CASE Head(incoming) \notin Public
      BY <1>2, <2>1, <2>3, FramePreserves DEF Forward, map_pmp_event
    <2> QED BY <2>2, <2>3
  <1>3. ASSUME NEW e \in Own, Beat(e) PROVE EventInv'
    <2>1. PublishPush(e) /\ e \in Event /\ UNCHANGED <<incoming, came>>
      BY <1>3 DEF Beat, Event, inVars
    <2>2. incoming' \in Seq(Public \cup Internal) /\ came' \subseteq Public \cup Internal
      BY <1>0, <2>1 DEF EventTypeOK
    <2> QED BY <2>1, <2>2, PushPreserves
  <1>4. ASSUME NEW e \in Event, PublishSend(e) PROVE EventInv'
    BY <1>4, SendPreserves
  <1>5. CASE ClientStep
    BY <1>5, SubscribePreserves, ReplayFromPreserves, SnapshotPreserves, StreamReplayPreserves,
       LagPreserves, StreamLivePreserves DEF ClientStep, events_sse, admin_events_sse
  <1>6. CASE Leave
    BY <1>6, LeavePreserves
  <1>7. CASE UNCHANGED eventVars
    <2>1. incoming' \in Seq(Public \cup Internal) /\ came' \subseteq Public \cup Internal
          /\ UNCHANGED <<pushed, sent, publishing, overlapped, client, cursor, replay, seenVars>>
      BY <1>0, <1>7 DEF EventTypeOK, eventVars, seenVars
    <2> QED BY <2>1, FramePreserves
  <1> QED BY <1>1, <1>2, <1>3, <1>4, <1>5, <1>6, <1>7 DEF EventNext

(* Last-Event-ID replay leaves no hole, for any events, lengths of the     *)
(* rings and number of publishers: every event sent since a client first   *)
(* subscribed has reached it, is on its way or was overwritten before it   *)
(* could be read, across reconnections, unless its publication overlapped  *)
(* another.  pmp/events/mod.rs:83-147, public/routes.rs:150-215.           *)
THEOREM StreamHasNoGap == EventSpec => []NoGap
  <1>1. EventInv => NoGap
    BY DEF EventInv
  <1> QED BY <1>1, EventInitially, EventStep, PTL DEF EventSpec

-----------------------------------------------------------------------------
(* Live rooms.                                                             *)

\* The channel holds the frames of a stream in the order of their numbers,
\* after the last one received and after those that wait for the tick.
ChannelInOrder ==
    /\ \A i \in 1..Len(channel) :
          /\ channel[i].seq > last_seq[channel[i].stream]
          /\ channel[i].seq <= emitted[channel[i].stream]
          /\ channel[i].round <= round
    /\ \A i, j \in 1..Len(channel) :
          i < j /\ channel[i].stream = channel[j].stream => channel[i].seq < channel[j].seq
    /\ \A i \in 1..Len(buffer), j \in 1..Len(channel) :
          buffer[i].stream = channel[j].stream => buffer[i].seq < channel[j].seq
    /\ \A i \in 1..Len(buffer) : buffer[i].seq <= emitted[buffer[i].stream]

\* A lost frame was sent by PMP and does not wait in the channel.
LostIsLost ==
    /\ \A g \in silent : g[2] <= emitted[g[1]]
    /\ \A g \in silent, i \in 1..Len(channel) : Id(channel[i]) # g

SeenWasSent == \A s \in Stream : last_seq[s] <= emitted[s]

LiveInv == LossIsAnnounced /\ ChannelInOrder /\ LostIsLost /\ SeenWasSent

\* A frame leaves the head of the channel.
LEMMA WithoutHead ==
    ASSUME NEW S, NEW s \in Seq(S), s # <<>>
    PROVE  /\ Head(s) = s[1] /\ s[1] \in S /\ Len(s) \in Nat \ {0}
           /\ Tail(s) \in Seq(S) /\ Len(Tail(s)) = Len(s) - 1
           /\ \A i \in 1..Len(Tail(s)) : Tail(s)[i] = s[i + 1] /\ i + 1 \in 1..Len(s)
  OBVIOUS

LEMMA FrameFields ==
    /\ \A f \in Frames : /\ f.stream \in Stream /\ f.player \in Player
                         /\ f.seq \in 1..MaxSeq /\ f.seq \in Nat
                         /\ f.round \in 1..MaxRound /\ f.round \in Nat
    /\ \A q \in Seq(Frames) : \A i \in 1..Len(q) : q[i] \in Frames
  <1>1. \A f \in Frames : /\ f.stream \in Stream /\ f.player \in Player
                         /\ f.seq \in 1..MaxSeq /\ f.seq \in Nat
                         /\ f.round \in 1..MaxRound /\ f.round \in Nat
    BY LiveRoomAssumption DEF Frames
  <1>2. \A q \in Seq(Frames) : \A i \in 1..Len(q) : q[i] \in Frames
    OBVIOUS
  <1> QED BY <1>1, <1>2

LEMMA LiveInitially == LiveInit => LiveInv
  <1> SUFFICES ASSUME LiveInit PROVE LiveInv
    OBVIOUS
  <1>1. /\ emitted = [s \in Stream |-> 0] /\ last_seq = [s \in Stream |-> 0]
        /\ round = 1 /\ last_round = 0 /\ players = Player /\ lagged = FALSE
        /\ Len(channel) = 0 /\ Len(buffer) = 0 /\ channel = <<>> /\ buffer = <<>> /\ silent = {}
    BY DEF LiveInit
  <1>2. LiveTypeOK
    <2>1. channel \in Seq(Frames) /\ buffer \in Seq(Frames)
      BY <1>1
    <2>2. emitted \in [Stream -> 0..MaxSeq] /\ last_seq \in [Stream -> 0..MaxSeq]
      BY <1>1, LiveRoomAssumption
    <2>3. round \in 1..MaxRound /\ last_round \in 0..round /\ Len(channel) <= FrameCapacity
      BY <1>1, LiveRoomAssumption
    <2>4. lagged \in BOOLEAN /\ players \subseteq Player /\ silent \subseteq Stream \X (1..MaxSeq)
      BY <1>1
    <2>5. \A i \in 1..Len(buffer) : FALSE
      BY <1>1
    <2> QED BY <2>1, <2>2, <2>3, <2>4, <2>5 DEF LiveTypeOK
  <1>3. LossIsAnnounced /\ ChannelInOrder /\ LostIsLost /\ SeenWasSent
    BY <1>1, <1>2 DEF LossIsAnnounced, ChannelInOrder, LostIsLost, SeenWasSent
  <1> QED BY <1>3 DEF LiveInv

\* PMP sends one more frame of a stream; it arrives or is lost.
LEMMA FrameArrivesPreserves ==
    ASSUME LiveInv, NEW s \in Stream, NEW p \in Player, FrameArrives(s, p)
    PROVE  LiveInv'
  <1>0. LiveTypeOK /\ LossIsAnnounced /\ ChannelInOrder /\ LostIsLost /\ SeenWasSent
    BY DEF LiveInv, LossIsAnnounced
  <1> DEFINE f == Frame(s, p)
  <1> DEFINE c == IF Len(channel) = FrameCapacity THEN Tail(channel) ELSE channel
  <1>1. /\ f \in Frames /\ f.stream = s /\ f.seq = emitted[s] + 1 /\ f.round = round
        /\ emitted' = [emitted EXCEPT ![s] = @ + 1] /\ emitted' \in [Stream -> 0..MaxSeq]
        /\ \A x \in Stream : emitted[x] \in 0..MaxSeq /\ last_seq[x] \in 0..MaxSeq
        /\ UNCHANGED <<round, last_seq, last_round, players, buffer>>
    <2>1. /\ emitted[s] \in 0..MaxSeq /\ emitted[s] < MaxSeq /\ emitted[s] + 1 \in 1..MaxSeq
          /\ round \in 1..MaxRound
      BY <1>0, LiveRoomAssumption DEF FrameArrives, LiveTypeOK
    <2>2. f \in Frames /\ f.stream = s /\ f.seq = emitted[s] + 1 /\ f.round = round
      BY <2>1 DEF Frame, Frames
    <2>3. /\ emitted' = [emitted EXCEPT ![s] = @ + 1]
          /\ UNCHANGED <<round, last_seq, last_round, players, buffer>>
      BY DEF FrameArrives
    <2>4. emitted' \in [Stream -> 0..MaxSeq]
      BY <2>1, <2>3, <1>0, LiveRoomAssumption DEF LiveTypeOK
    <2>5. \A x \in Stream : emitted[x] \in 0..MaxSeq /\ last_seq[x] \in 0..MaxSeq
      BY <1>0 DEF LiveTypeOK
    <2> QED BY <2>2, <2>3, <2>4, <2>5
  <1>2. /\ channel' = Append(c, f)
        /\ lagged' = (lagged \/ Len(channel) = FrameCapacity)
        /\ silent' = IF Len(channel) = FrameCapacity THEN silent \cup {Id(Head(channel))} ELSE silent
    BY DEF FrameArrives
  <1>3. \E d \in {0, 1} :
           /\ c \in Seq(Frames) /\ Len(c) = Len(channel) - d /\ Len(c) < FrameCapacity
           /\ \A i \in 1..Len(c) : c[i] = channel[i + d] /\ i + d \in 1..Len(channel)
           /\ d = 0 => silent' = silent
           /\ d = 1 => silent' = silent \cup {Id(channel[1])} /\ 1 \in 1..Len(channel)
    <2>1. CASE Len(channel) = FrameCapacity
      <3>1. channel # <<>> /\ channel \in Seq(Frames)
        BY <1>0, <2>1, LiveRoomAssumption DEF LiveTypeOK
      <3>2. c = Tail(channel) /\ Head(channel) = channel[1] /\ Len(channel) \in Nat \ {0}
            /\ c \in Seq(Frames) /\ Len(c) = Len(channel) - 1
            /\ \A i \in 1..Len(c) : c[i] = channel[i + 1] /\ i + 1 \in 1..Len(channel)
        BY <2>1, <3>1, WithoutHead
      <3>3. silent' = silent \cup {Id(channel[1])}
        BY <1>2, <2>1, <3>2
      <3> HIDE DEF c
      <3>4. 1 \in 1..Len(channel) /\ Len(c) < FrameCapacity
        BY <2>1, <3>2
      <3>5. 1 \in {0, 1} /\ 1 # 0
        OBVIOUS
      <3> QED BY <3>2, <3>3, <3>4, <3>5
    <2>2. CASE Len(channel) # FrameCapacity
      <3>1. c = channel /\ silent' = silent /\ channel \in Seq(Frames) /\ Len(channel) \in Nat
            /\ Len(channel) < FrameCapacity
        BY <1>0, <1>2, <2>2, LiveRoomAssumption DEF LiveTypeOK
      <3> HIDE DEF c
      <3> QED BY <3>1
    <2> QED BY <2>1, <2>2
  <1> HIDE DEF c, f
  <1>4. PICK d \in {0, 1} :
           /\ c \in Seq(Frames) /\ Len(c) = Len(channel) - d /\ Len(c) < FrameCapacity
           /\ \A i \in 1..Len(c) : c[i] = channel[i + d] /\ i + d \in 1..Len(channel)
           /\ d = 0 => silent' = silent
           /\ d = 1 => silent' = silent \cup {Id(channel[1])} /\ 1 \in 1..Len(channel)
    BY <1>3
  <1>5. /\ channel' \in Seq(Frames) /\ Len(channel') = Len(c) + 1 /\ Len(c) \in Nat
        /\ \A i \in 1..Len(c) : channel'[i] = c[i] /\ c[i] \in Frames
        /\ channel'[Len(c) + 1] = f
        /\ \A i \in 1..Len(channel') : i \in 1..Len(c) \/ i = Len(c) + 1
    BY <1>1, <1>2, <1>4, Appended
  <1>6. \A i \in 1..Len(channel) : channel[i] \in Frames
    BY <1>0 DEF LiveTypeOK
  <1>7. \A i \in 1..Len(c) : channel'[i] = channel[i + d] /\ i + d \in 1..Len(channel)
    BY <1>4, <1>5
  <1>8. \A x \in Stream : emitted[x] <= emitted'[x] /\ emitted'[x] \in Nat
    BY <1>1, LiveRoomAssumption
  <1>8a. emitted'[s] = emitted[s] + 1
    BY <1>0, <1>1 DEF LiveTypeOK
  <1>9. LiveTypeOK'
    <2>1. d = 1 => Id(channel[1]) \in Stream \X (1..MaxSeq)
      BY <1>4, <1>6 DEF Id, Frames
    <2>2. silent' \subseteq Stream \X (1..MaxSeq)
      BY <2>1, <1>0, <1>4 DEF LiveTypeOK
    <2>3. lagged' \in BOOLEAN
      BY <1>2
    <2>4. Len(channel') <= FrameCapacity
      BY <1>4, <1>5, LiveRoomAssumption
    <2>5. \A i \in 1..Len(buffer) : buffer[i].seq <= last_seq[buffer[i].stream] \/ last_seq[buffer[i].stream] = 0
      BY <1>0 DEF LiveTypeOK
    <2> QED BY <2>2, <2>3, <2>4, <2>5, <1>0, <1>1, <1>5 DEF LiveTypeOK
  <1>10. LossIsAnnounced'
    <2>1. d = 1 => channel[1].seq > last_seq[channel[1].stream]
      BY <1>0, <1>4 DEF ChannelInOrder
    <2>2. \A g \in silent' : last_seq[g[1]] # 0 => g[2] > last_seq[g[1]]
      BY <2>1, <1>0, <1>4 DEF LossIsAnnounced, Id
    <2> QED BY <2>2, <1>1, <1>9 DEF LossIsAnnounced
  <1>11. ChannelInOrder'
    <2>1. \A i \in 1..Len(channel') :
            /\ channel'[i].seq > last_seq[channel'[i].stream]
            /\ channel'[i].seq <= emitted'[channel'[i].stream]
            /\ channel'[i].round <= round
      <3> SUFFICES ASSUME NEW i \in 1..Len(channel')
                   PROVE  /\ channel'[i].seq > last_seq[channel'[i].stream]
                          /\ channel'[i].seq <= emitted'[channel'[i].stream]
                          /\ channel'[i].round <= round
        OBVIOUS
      <3>1. CASE i \in 1..Len(c)
        <4> DEFINE g == channel[i + d]
        <4>1. channel'[i] = g /\ g \in Frames /\ g.stream \in Stream /\ g.seq \in Nat
          BY <3>1, <1>6, <1>7 DEF Frames
        <4>2. g.seq > last_seq[g.stream] /\ g.seq <= emitted[g.stream] /\ g.round <= round
          BY <3>1, <1>0, <1>7 DEF ChannelInOrder
        <4> HIDE DEF g
        <4> QED BY <4>1, <4>2, <1>1, <1>8
      <3>2. CASE i = Len(c) + 1
        <4>1. last_seq[s] <= emitted[s] /\ round \in Nat
          BY <1>0 DEF LiveTypeOK, SeenWasSent
        <4> QED BY <3>2, <4>1, <1>1, <1>5, <1>8a
      <3> QED BY <3>1, <3>2, <1>5
    <2>2. \A i, j \in 1..Len(channel') :
            i < j /\ channel'[i].stream = channel'[j].stream => channel'[i].seq < channel'[j].seq
      <3> SUFFICES ASSUME NEW i \in 1..Len(channel'), NEW j \in 1..Len(channel'), i < j,
                          channel'[i].stream = channel'[j].stream
                   PROVE  channel'[i].seq < channel'[j].seq
        OBVIOUS
      <3>1. i \in 1..Len(c) /\ channel'[i] = channel[i + d] /\ i + d \in 1..Len(channel)
        BY <1>5, <1>7
      <3>2. CASE j \in 1..Len(c)
        <4>1. channel'[j] = channel[j + d] /\ j + d \in 1..Len(channel) /\ i + d < j + d
          BY <3>2, <1>4, <1>7
        <4> QED BY <3>1, <4>1, <1>0 DEF ChannelInOrder
      <3>3. CASE j = Len(c) + 1
        <4> DEFINE g == channel[i + d]
        <4>1. g \in Frames /\ g.stream = s /\ g.seq \in Nat
          BY <3>1, <3>3, <1>1, <1>5, <1>6, FrameFields
        <4>2. g.seq <= emitted[g.stream]
          BY <3>1, <1>0 DEF ChannelInOrder
        <4> HIDE DEF g
        <4>3. channel'[j] = f /\ channel'[i] = channel[i + d]
          BY <3>1, <3>3, <1>5
        <4> QED BY <4>1, <4>2, <4>3, <1>1 DEF g
      <3> QED BY <3>2, <3>3, <1>5
    <2>3. \A i \in 1..Len(buffer), j \in 1..Len(channel') :
            buffer[i].stream = channel'[j].stream => buffer[i].seq < channel'[j].seq
      <3> SUFFICES ASSUME NEW i \in 1..Len(buffer), NEW j \in 1..Len(channel'),
                          buffer[i].stream = channel'[j].stream
                   PROVE  buffer[i].seq < channel'[j].seq
        OBVIOUS
      <3>1. CASE j \in 1..Len(c)
        BY <3>1, <1>0, <1>7 DEF ChannelInOrder
      <3>2. CASE j = Len(c) + 1
        <4>1. buffer[i] \in Frames
          BY <1>0 DEF LiveTypeOK
        <4>2. buffer[i].seq \in Nat /\ buffer[i].seq <= emitted[buffer[i].stream]
          BY <4>1, <1>0 DEF ChannelInOrder, Frames
        <4> QED BY <3>2, <4>2, <1>1, <1>5
      <3> QED BY <3>1, <3>2, <1>5
    <2>4. \A i \in 1..Len(buffer) : buffer[i].seq <= emitted'[buffer[i].stream]
      <3> SUFFICES ASSUME NEW i \in 1..Len(buffer) PROVE buffer[i].seq <= emitted'[buffer[i].stream]
        OBVIOUS
      <3>1. buffer[i] \in Frames /\ buffer[i].seq <= emitted[buffer[i].stream]
        BY <1>0 DEF LiveTypeOK, ChannelInOrder
      <3>2. buffer[i].seq \in Nat /\ buffer[i].stream \in Stream
        BY <3>1 DEF Frames
      <3> QED BY <3>1, <3>2, <1>1, <1>8
    <2> QED BY <2>1, <2>2, <2>3, <2>4, <1>1 DEF ChannelInOrder
  <1>12. LostIsLost'
    <2>0. \A g \in silent : g \in Stream \X (1..MaxSeq) /\ g[1] \in Stream /\ g[2] \in Nat
      BY <1>0 DEF LiveTypeOK
    <2>1. \A g \in silent' : g[1] \in Stream /\ g[2] \in Nat /\ g[2] <= emitted[g[1]]
      <3>1. d = 1 => /\ channel[1].stream \in Stream /\ channel[1].seq \in Nat
                     /\ channel[1].seq <= emitted[channel[1].stream]
        BY <1>0, <1>4, <1>6 DEF ChannelInOrder, Frames
      <3> QED BY <2>0, <3>1, <1>0, <1>4 DEF LostIsLost, Id
    <2>2. \A g \in silent' : g[2] <= emitted'[g[1]]
      BY <2>1, <1>1, <1>8
    <2>3. ASSUME NEW g \in silent', NEW i \in 1..Len(channel') PROVE Id(channel'[i]) # g
      <3>1. CASE i = Len(c) + 1
        <4>1. Id(channel'[i]) = <<s, emitted[s] + 1>>
          BY <3>1, <1>1, <1>5 DEF Id
        <4>2. g[2] <= emitted[g[1]] /\ g[2] \in Nat /\ emitted[s] \in Nat
          BY <2>1, <1>1
        <4> QED BY <4>1, <4>2
      <3>2. CASE i \in 1..Len(c) /\ g \in silent
        BY <3>2, <1>0, <1>7 DEF LostIsLost
      <3>3. CASE i \in 1..Len(c) /\ g \notin silent
        <4>1. d = 1 /\ g = Id(channel[1]) /\ 1 \in 1..Len(channel)
          BY <3>3, <1>4
        <4>2. channel'[i] = channel[i + 1] /\ i + 1 \in 1..Len(channel) /\ 1 < i + 1
          BY <4>1, <3>3, <1>7, <1>5
        <4>3. channel[1].stream = channel[i + 1].stream => channel[1].seq < channel[i + 1].seq
          BY <4>1, <4>2, <1>0 DEF ChannelInOrder
        <4>4. channel[1].seq \in Nat /\ channel[i + 1].seq \in Nat
          BY <4>1, <4>2, <1>6 DEF Frames
        <4> QED BY <4>1, <4>2, <4>3, <4>4 DEF Id
      <3> QED BY <3>1, <3>2, <3>3, <1>5
    <2> QED BY <2>2, <2>3 DEF LostIsLost
  <1>13. SeenWasSent'
    <2> SUFFICES ASSUME NEW x \in Stream PROVE last_seq[x] <= emitted'[x]
      BY <1>1 DEF SeenWasSent
    <2>1. last_seq[x] <= emitted[x]
      BY <1>0 DEF SeenWasSent
    <2> QED BY <2>1, <1>1, <1>8
  <1> QED BY <1>10, <1>11, <1>12, <1>13 DEF LiveInv

LEMMA FrameLostPreserves ==
    ASSUME LiveInv, NEW s \in Stream, FrameLost(s)
    PROVE  LiveInv'
  <1>0. LiveTypeOK /\ LossIsAnnounced /\ ChannelInOrder /\ LostIsLost /\ SeenWasSent
    BY DEF LiveInv, LossIsAnnounced
  <1>1. /\ emitted' \in [Stream -> 0..MaxSeq] /\ emitted'[s] = emitted[s] + 1
        /\ \A x \in Stream : /\ emitted[x] \in Nat /\ last_seq[x] \in Nat /\ emitted'[x] \in Nat
                             /\ emitted[x] <= emitted'[x]
        /\ silent' = silent \cup {<<s, emitted[s] + 1>>} /\ emitted[s] + 1 \in 1..MaxSeq
        /\ UNCHANGED <<round, channel, lagged, last_seq, last_round, players, buffer>>
    BY <1>0, LiveRoomAssumption DEF FrameLost, LiveTypeOK
  <1>2. \A i \in 1..Len(channel) : channel[i].stream \in Stream /\ channel[i].seq \in Nat
    BY <1>0, FrameFields DEF LiveTypeOK
  <1>3. \A i \in 1..Len(buffer) : buffer[i].stream \in Stream /\ buffer[i].seq \in Nat
    BY <1>0, FrameFields DEF LiveTypeOK
  <1>4. LiveTypeOK'
    BY <1>0, <1>1 DEF LiveTypeOK
  <1>5. LossIsAnnounced'
    <2>1. last_seq[s] <= emitted[s]
      BY <1>0 DEF SeenWasSent
    <2>2. \A g \in silent' : last_seq[g[1]] # 0 => g[2] > last_seq[g[1]]
      BY <2>1, <1>0, <1>1 DEF LossIsAnnounced
    <2> QED BY <2>2, <1>1, <1>4 DEF LossIsAnnounced
  <1>6. ChannelInOrder'
    <2>1. \A i \in 1..Len(channel) : channel[i].seq <= emitted'[channel[i].stream]
      BY <1>0, <1>1, <1>2 DEF ChannelInOrder
    <2>2. \A i \in 1..Len(buffer) : buffer[i].seq <= emitted'[buffer[i].stream]
      BY <1>0, <1>1, <1>3 DEF ChannelInOrder
    <2> QED BY <2>1, <2>2, <1>0, <1>1 DEF ChannelInOrder
  <1>7. LostIsLost'
    <2>1. \A g \in silent : g[1] \in Stream /\ g[2] \in Nat
      BY <1>0 DEF LiveTypeOK
    <2>2. \A g \in silent' : g[2] <= emitted'[g[1]]
      BY <2>1, <1>0, <1>1 DEF LostIsLost
    <2>3. \A i \in 1..Len(channel) : Id(channel[i]) # <<s, emitted[s] + 1>>
      BY <1>0, <1>1, <1>2 DEF ChannelInOrder, Id
    <2> QED BY <2>2, <2>3, <1>0, <1>1 DEF LostIsLost
  <1>8. SeenWasSent'
    BY <1>0, <1>1 DEF SeenWasSent
  <1> QED BY <1>5, <1>6, <1>7, <1>8 DEF LiveInv

\* The socket receives a frame and tells of the gap before it.
LEMMA ReceivePreserves ==
    ASSUME LiveInv, Receive
    PROVE  LiveInv'
  <1>0. LiveTypeOK /\ LossIsAnnounced /\ ChannelInOrder /\ LostIsLost /\ SeenWasSent
    BY DEF LiveInv, LossIsAnnounced
  <1> DEFINE f == channel[1]
  <1> DEFINE c == Tail(channel)
  <1>1. /\ Head(channel) = f /\ f \in Frames /\ 1 \in 1..Len(channel)
        /\ c \in Seq(Frames) /\ Len(c) = Len(channel) - 1 /\ Len(channel) \in Nat
        /\ \A i \in 1..Len(c) : c[i] = channel[i + 1] /\ i + 1 \in 1..Len(channel)
    BY <1>0, WithoutHead DEF LiveTypeOK, Receive
  <1>2. /\ channel' = c /\ last_seq' = [last_seq EXCEPT ![f.stream] = f.seq]
        /\ silent' = IF Gap(f) \/ last_seq[f.stream] = 0
                     THEN silent \ {g \in silent : g[1] = f.stream /\ g[2] < f.seq} ELSE silent
        /\ last_round' = f.round
        /\ buffer' = (IF f.player \in players THEN Append(buffer, f) ELSE buffer)
        /\ UNCHANGED <<emitted, round, lagged, players>>
    BY <1>1 DEF Receive, pmp
  <1>3. /\ f.stream \in Stream /\ f.seq \in 1..MaxSeq /\ f.seq \in Nat /\ f.round \in 1..MaxRound
        /\ f.seq > last_seq[f.stream] /\ f.seq <= emitted[f.stream] /\ f.round <= round
    BY <1>0, <1>1 DEF Frames, ChannelInOrder
  <1>4. \A i \in 1..Len(channel) : channel[i] \in Frames /\ channel[i].stream \in Stream /\ channel[i].seq \in Nat
    BY <1>0, FrameFields DEF LiveTypeOK
  <1>5. \A i \in 1..Len(buffer) : buffer[i] \in Frames /\ buffer[i].stream \in Stream /\ buffer[i].seq \in Nat
    BY <1>0, FrameFields DEF LiveTypeOK
  <1> HIDE DEF f, c
  <1>6. /\ last_seq' \in [Stream -> 0..MaxSeq] /\ last_seq'[f.stream] = f.seq
        /\ \A x \in Stream : last_seq[x] \in Nat /\ emitted[x] \in Nat
        /\ \A x \in Stream \ {f.stream} : last_seq'[x] = last_seq[x]
    BY <1>0, <1>2, <1>3 DEF LiveTypeOK
  <1>7. /\ buffer' \in Seq(Frames) /\ Len(buffer') \in Nat
        /\ \A i \in 1..Len(buffer') : buffer'[i] = f \/ \E j \in 1..Len(buffer) : buffer'[i] = buffer[j]
    <2>1. CASE f.player \in players
      <3>1. buffer' = Append(buffer, f) /\ buffer \in Seq(Frames)
        BY <2>1, <1>0, <1>2 DEF LiveTypeOK
      <3> QED BY <3>1, <1>1, Appended
    <2>2. CASE f.player \notin players
      BY <2>2, <1>0, <1>2 DEF LiveTypeOK
    <2> QED BY <2>1, <2>2
  <1>8. \A i \in 1..Len(buffer) : buffer[i].stream = f.stream => buffer[i].seq < f.seq
    BY <1>0, <1>1 DEF ChannelInOrder, f
  <1>9. \A i \in 1..Len(c) :
           /\ c[i] \in Frames /\ c[i].stream \in Stream /\ c[i].seq \in Nat
           /\ c[i].seq > last_seq[c[i].stream] /\ c[i].seq <= emitted[c[i].stream] /\ c[i].round <= round
           /\ f.stream = c[i].stream => f.seq < c[i].seq
    <2> SUFFICES ASSUME NEW i \in 1..Len(c)
                 PROVE  /\ c[i] \in Frames /\ c[i].stream \in Stream /\ c[i].seq \in Nat
                        /\ c[i].seq > last_seq[c[i].stream] /\ c[i].seq <= emitted[c[i].stream] /\ c[i].round <= round
                        /\ f.stream = c[i].stream => f.seq < c[i].seq
      OBVIOUS
    <2>1. c[i] = channel[i + 1] /\ i + 1 \in 1..Len(channel) /\ 1 < i + 1
      BY <1>1
    <2>2. f.stream = channel[i + 1].stream => f.seq < channel[i + 1].seq
      BY <2>1, <1>0, <1>1 DEF ChannelInOrder, f
    <2> QED BY <2>1, <2>2, <1>0, <1>4 DEF ChannelInOrder
  <1>10. LiveTypeOK'
    <2>1. \A i \in 1..Len(buffer') :
            buffer'[i].seq <= last_seq'[buffer'[i].stream] \/ last_seq'[buffer'[i].stream] = 0
      <3> SUFFICES ASSUME NEW i \in 1..Len(buffer')
                   PROVE  buffer'[i].seq <= last_seq'[buffer'[i].stream] \/ last_seq'[buffer'[i].stream] = 0
        OBVIOUS
      <3>1. CASE buffer'[i] = f
        BY <3>1, <1>3, <1>6
      <3>2. ASSUME NEW j \in 1..Len(buffer), buffer'[i] = buffer[j]
            PROVE  buffer'[i].seq <= last_seq'[buffer'[i].stream] \/ last_seq'[buffer'[i].stream] = 0
        <4>1. CASE buffer[j].stream = f.stream
          BY <3>2, <4>1, <1>3, <1>5, <1>6, <1>8
        <4>2. CASE buffer[j].stream # f.stream
          BY <3>2, <4>2, <1>0, <1>5, <1>6 DEF LiveTypeOK
        <4> QED BY <4>1, <4>2
      <3> QED BY <3>1, <3>2, <1>7
    <2>2. silent' \subseteq Stream \X (1..MaxSeq)
      BY <1>0, <1>2 DEF LiveTypeOK
    <2>3. last_round' \in 0..round /\ Len(c) <= FrameCapacity
      BY <1>0, <1>1, <1>2, <1>3, LiveRoomAssumption DEF LiveTypeOK
    <2> QED BY <2>1, <2>2, <2>3, <1>0, <1>1, <1>2, <1>6, <1>7 DEF LiveTypeOK
  <1>11. LossIsAnnounced'
    <2> SUFFICES ASSUME NEW g \in silent' PROVE last_seq'[g[1]] # 0 => g[2] > last_seq'[g[1]]
      BY <1>10 DEF LossIsAnnounced
    <2>1. g \in silent /\ g = <<g[1], g[2]>> /\ g[1] \in Stream /\ g[2] \in Nat
      BY <1>0, <1>2 DEF LiveTypeOK
    <2>2. CASE g[1] # f.stream
      BY <2>1, <2>2, <1>0, <1>6 DEF LossIsAnnounced
    <2>3. CASE g[1] = f.stream
      <3>1. g[2] # f.seq
        <4>1. Id(f) # g
          BY <2>1, <1>0, <1>1 DEF LostIsLost, f
        <4> QED BY <2>1, <2>3, <4>1 DEF Id
      <3>2. CASE Gap(f) \/ last_seq[f.stream] = 0
        BY <2>1, <2>3, <3>1, <3>2, <1>2, <1>3, <1>6
      <3>3. CASE ~Gap(f) /\ last_seq[f.stream] # 0
        <4>1. f.seq <= last_seq[f.stream] + 1 /\ last_seq[f.stream] \in Nat
          BY <3>3, <1>3, <1>6 DEF Gap
        <4>2. g[2] > last_seq[f.stream]
          BY <2>1, <2>3, <3>3, <1>0 DEF LossIsAnnounced
        <4> QED BY <2>1, <2>3, <3>1, <4>1, <4>2, <1>3, <1>6
      <3> QED BY <3>2, <3>3
    <2> QED BY <2>2, <2>3
  <1>12. ChannelInOrder'
    <2>1. \A i \in 1..Len(c) : c[i].seq > last_seq'[c[i].stream]
      BY <1>6, <1>9
    <2>2. \A i, j \in 1..Len(c) : i < j /\ c[i].stream = c[j].stream => c[i].seq < c[j].seq
      <3> SUFFICES ASSUME NEW i \in 1..Len(c), NEW j \in 1..Len(c), i < j, c[i].stream = c[j].stream
                   PROVE  c[i].seq < c[j].seq
        OBVIOUS
      <3>1. c[i] = channel[i + 1] /\ i + 1 \in 1..Len(channel) /\ c[j] = channel[j + 1]
            /\ j + 1 \in 1..Len(channel) /\ i + 1 < j + 1
        BY <1>1
      <3> QED BY <3>1, <1>0 DEF ChannelInOrder
    <2>3. \A i \in 1..Len(buffer), j \in 1..Len(c) : buffer[i].stream = c[j].stream => buffer[i].seq < c[j].seq
      BY <1>0, <1>1 DEF ChannelInOrder
    <2>4. \A i \in 1..Len(buffer'), j \in 1..Len(c) : buffer'[i].stream = c[j].stream => buffer'[i].seq < c[j].seq
      BY <2>3, <1>7, <1>9
    <2>5. \A i \in 1..Len(buffer) : buffer[i].seq <= emitted[buffer[i].stream]
      BY <1>0 DEF ChannelInOrder
    <2>6. \A i \in 1..Len(buffer') : buffer'[i].seq <= emitted[buffer'[i].stream]
      BY <2>5, <1>3, <1>7
    <2> QED BY <2>1, <2>2, <2>4, <2>6, <1>2, <1>9 DEF ChannelInOrder
  <1>13. LostIsLost'
    <2>1. silent' \subseteq silent
      BY <1>2
    <2> QED BY <2>1, <1>0, <1>1, <1>2 DEF LostIsLost
  <1>14. SeenWasSent'
    BY <1>0, <1>2, <1>3, <1>6 DEF SeenWasSent
  <1> QED BY <1>11, <1>12, <1>13, <1>14 DEF LiveInv

LEMMA LiveStep == LiveInv /\ [LiveNext]_liveVars => LiveInv'
  <1> SUFFICES ASSUME LiveInv, [LiveNext]_liveVars PROVE LiveInv'
    OBVIOUS
  <1>0. LiveTypeOK /\ LossIsAnnounced /\ ChannelInOrder /\ LostIsLost /\ SeenWasSent
    BY DEF LiveInv, LossIsAnnounced
  <1>1. \A i \in 1..Len(channel) : channel[i].stream \in Stream /\ channel[i].seq \in Nat /\ channel[i].round \in Nat
    BY <1>0, FrameFields DEF LiveTypeOK
  <1>2. ASSUME NEW s \in Stream, NEW p \in Player, FrameArrives(s, p) \/ FrameLost(s) PROVE LiveInv'
    BY <1>2, FrameArrivesPreserves, FrameLostPreserves
  <1>3. CASE RoundStarts
    <2>1. LiveTypeOK'
      BY <1>0, <1>3, LiveRoomAssumption DEF LiveTypeOK, RoundStarts
    <2>2. LossIsAnnounced' /\ LostIsLost' /\ SeenWasSent'
      BY <1>0, <1>3, <2>1 DEF LossIsAnnounced, LostIsLost, SeenWasSent, RoundStarts
    <2>3. round' \in Nat /\ round \in Nat /\ round <= round'
      BY <1>0, <1>3 DEF LiveTypeOK, RoundStarts
    <2>4. ChannelInOrder'
      BY <1>0, <1>1, <1>3, <2>3 DEF ChannelInOrder, RoundStarts
    <2> QED BY <2>2, <2>4 DEF LiveInv
  <1>4. CASE Receive
    BY <1>4, ReceivePreserves
  <1>5. CASE ReceiveLagged
    <2>1. LiveTypeOK'
      BY <1>0, <1>5 DEF LiveTypeOK, ReceiveLagged, pmp
    <2> QED BY <1>0, <1>5, <2>1
            DEF LiveInv, LossIsAnnounced, LostIsLost, ChannelInOrder, SeenWasSent, ReceiveLagged, pmp
  <1>6. CASE Tick
    <2>1. LiveTypeOK'
      BY <1>0, <1>6 DEF LiveTypeOK, Tick, pmp
    <2> QED BY <1>0, <1>6, <2>1
            DEF LiveInv, LossIsAnnounced, LostIsLost, ChannelInOrder, SeenWasSent, Tick, pmp
  <1>7. CASE ClientResync
    <2>0. /\ \A s \in Stream : last_seq'[s] = 0
          /\ silent' = {} /\ UNCHANGED <<emitted, round, channel, lagged, last_round, players, buffer>>
      BY <1>7 DEF ClientResync, pmp
    <2>1. LiveTypeOK'
      <3>1. last_seq' \in [Stream -> 0..MaxSeq]
        BY <1>7, LiveRoomAssumption DEF ClientResync
      <3>2. \A i \in 1..Len(buffer) : buffer[i].stream \in Stream
        BY <1>0, FrameFields DEF LiveTypeOK
      <3> QED BY <1>0, <2>0, <3>1, <3>2 DEF LiveTypeOK
    <2>2. \A i \in 1..Len(channel) : channel[i].seq > last_seq'[channel[i].stream]
      <3>1. \A i \in 1..Len(channel) : channel[i] \in Frames
        BY <1>0 DEF LiveTypeOK
      <3> QED BY <3>1, <2>0 DEF Frames
    <2>3. ChannelInOrder'
      BY <1>0, <2>0, <2>2 DEF ChannelInOrder
    <2>4. LossIsAnnounced' /\ LostIsLost'
      BY <2>0, <2>1 DEF LossIsAnnounced, LostIsLost
    <2>5. SeenWasSent'
      BY <1>0, <2>0 DEF SeenWasSent, LiveTypeOK
    <2> QED BY <2>3, <2>4, <2>5 DEF LiveInv
  <1>8. ASSUME NEW set \in SUBSET Player, set_players(set) PROVE LiveInv'
    <2>1. LiveTypeOK'
      BY <1>0, <1>8 DEF LiveTypeOK, set_players, pmp
    <2> QED BY <1>0, <1>8, <2>1
            DEF LiveInv, LossIsAnnounced, LostIsLost, ChannelInOrder, SeenWasSent, set_players, pmp
  <1>9. CASE UNCHANGED liveVars
    <2>1. LiveTypeOK'
      BY <1>0, <1>9 DEF LiveTypeOK, liveVars
    <2> QED BY <1>0, <1>9, <2>1
            DEF LiveInv, LossIsAnnounced, LostIsLost, ChannelInOrder, SeenWasSent, liveVars
  <1> QED BY <1>2, <1>3, <1>4, <1>5, <1>6, <1>7, <1>8, <1>9 DEF LiveNext

(* The client of a live room never goes on past a loss it was not told     *)
(* about, for any streams, players and length of the channel: whichever    *)
(* way frames were lost, a "resync" comes with or before the next frame of *)
(* the stream.  live/routes.rs:52-108.                                     *)
THEOREM LossesStayAnnounced == LiveSpec => []LossIsAnnounced
  <1>1. LiveInv => LossIsAnnounced
    BY DEF LiveInv
  <1> QED BY <1>1, LiveInitially, LiveStep, PTL DEF LiveSpec

-----------------------------------------------------------------------------
(* Replays.                                                                *)

\* An override names the player of its replay as the owner.
OwnersPlayed == \A r \in Asked : override[r] # None => override[r].owner = PlayerOf(r)

\* What a request has noted covers what it has still to read.
NotesCover(s, over, fr) ==
    /\ s.pc \in {"visibility", "decide"} =>
          /\ Opens(over[s.replay]) \subseteq s.seen
          /\ {f \in fr : f[1] = PlayerOf(s.replay)} \subseteq s.known
    /\ s.pc = "decide" /\ s.visibility = "friends" => "friends" \in s.seen
    /\ s.pc = "list" => {r \in Replay : PlayerOf(r) = s.player} \ s.non_public \subseteq s.open
    /\ s.pc = "mine" =>
          \A r \in Replay : PlayerOf(r) = s.player /\ r \notin s.open =>
              r \in DOMAIN s.overrides /\ hidden(s.overrides[r])

ReplayInv ==
    /\ AdmittedForAReason
    /\ OwnersPlayed
    /\ \A h \in Handler : NotesCover(view[h], override, friends)

\* The place in the code says which kind of record a view is.
LEMMA ViewKinds ==
    ASSUME NEW s \in ViewState
    PROVE  /\ s.pc = "idle" <=> s = Idle
           /\ s.pc = "visibility" <=> s \in Asking
           /\ s.pc = "decide" <=> s \in Deciding
           /\ s.pc = "watch" <=> s \in Watching
           /\ s.pc = "list" <=> s \in Listing
           /\ s.pc = "mine" <=> s \in Mine
           /\ s.pc = "listed" <=> s \in Listed
  <1>1. /\ s \in Asking => s.pc = "visibility"
        /\ s \in Deciding => s.pc = "decide"
        /\ s \in Watching => s.pc = "watch"
        /\ s \in Listing => s.pc = "list"
        /\ s \in Mine => s.pc = "mine"
        /\ s \in Listed => s.pc = "listed"
        /\ s = Idle => s.pc = "idle"
    BY DEF Asking, Deciding, Watching, Listing, Mine, Listed, Idle
  <1> QED BY <1>1 DEF ViewState

LEMMA ReplaysInitially == ReplayInit => ReplayInv
  <1> SUFFICES ASSUME ReplayInit PROVE ReplayInv
    OBVIOUS
  <1>1. override \in [Asked -> Override \cup {None}] /\ \A r \in Asked : override[r] = None
    BY DEF ReplayInit
  <1>2. links \in Seq(Link) /\ Len(links) <= MaxLinks
    BY ReplaysAssumption DEF ReplayInit
  <1>3. view \in [Handler -> ViewState] /\ \A h \in Handler : view[h] = Idle
    BY DEF ReplayInit, ViewState
  <1>4. \A h \in Handler : view[h].pc = "idle"
    BY <1>3 DEF Idle
  <1>5. ReplayTypeOK
    BY <1>1, <1>2, <1>3 DEF ReplayTypeOK, ReplayInit
  <1>6. \A h \in Handler : HasReason(view[h], links) /\ NotesCover(view[h], override, friends)
    BY <1>4 DEF HasReason, NotesCover
  <1> QED BY <1>1, <1>5, <1>6 DEF ReplayInv, AdmittedForAReason, OwnersPlayed

\* A step of one request.
LEMMA OneViewMoves ==
    ASSUME ReplayInv, NEW h \in Handler, NEW s \in ViewState, Set(h, s),
           UNCHANGED <<override, links, friends>>, HasReason(s, links), NotesCover(s, override, friends)
    PROVE  ReplayInv'
  <1>0. ReplayTypeOK /\ OwnersPlayed /\ \A g \in Handler : HasReason(view[g], links) /\ NotesCover(view[g], override, friends)
    BY DEF ReplayInv, AdmittedForAReason
  <1>1. /\ view' \in [Handler -> ViewState] /\ view'[h] = s
        /\ \A g \in Handler : g # h => view'[g] = view[g]
    BY <1>0 DEF ReplayTypeOK, Set
  <1>2. ReplayTypeOK'
    BY <1>0, <1>1 DEF ReplayTypeOK
  <1>3. \A g \in Handler : HasReason(view'[g], links) /\ NotesCover(view'[g], override, friends)
    BY <1>0, <1>1
  <1>4. \A g \in Handler : HasReason(view[g], links)' /\ NotesCover(view[g], override, friends)'
    BY <1>3 DEF HasReason, NotesCover, Opens
  <1>5. OwnersPlayed'
    BY <1>0 DEF OwnersPlayed
  <1> QED BY <1>2, <1>4, <1>5 DEF ReplayInv, AdmittedForAReason

\* The owner shares a replay, a link is revoked or expires: what a link was
\* made for never changes.
LEMMA LinksPreserve ==
    ASSUME ReplayInv, links' \in Seq(Link), Len(links') <= MaxLinks, Len(links) <= Len(links'),
           \A i \in 1..Len(links) : links'[i].replay = links[i].replay,
           UNCHANGED <<override, friends, view>>
    PROVE  ReplayInv'
  <1>0. ReplayTypeOK /\ OwnersPlayed /\ \A g \in Handler : HasReason(view[g], links) /\ NotesCover(view[g], override, friends)
    BY DEF ReplayInv, AdmittedForAReason
  <1>1. ReplayTypeOK' /\ OwnersPlayed'
    BY <1>0 DEF ReplayTypeOK, OwnersPlayed
  <1>2. 1..Len(links) \subseteq 1..Len(links')
    BY <1>0 DEF ReplayTypeOK
  <1>3. ASSUME NEW g \in Handler PROVE HasReason(view[g], links)' /\ NotesCover(view[g], override, friends)'
    <2>1. HasReason(view[g], links) /\ NotesCover(view[g], override, friends)
      BY <1>0
    <2>2. HasReason(view[g], links)'
      BY <2>1, <1>2 DEF HasReason
    <2>3. NotesCover(view[g], override, friends)'
      BY <2>1 DEF NotesCover
    <2> QED BY <2>2, <2>3
  <1> QED BY <1>1, <1>3 DEF ReplayInv, AdmittedForAReason

\* A write is noted by every request that may read what it changes.
LEMMA NotedIsCovered ==
    ASSUME NEW s \in ViewState, NEW t, NEW over, NEW fr \in SUBSET (User \X User), NEW over2,
           NEW fr2 \in SUBSET (User \X User), NEW shared, NotesCover(s, over2, fr2), HasReason(s, shared),
           t = IF s.pc \in {"list", "mine"} THEN [s EXCEPT !.open = @ \cup OpenToAll(over)]
               ELSE IF s.pc \in {"visibility", "decide"}
               THEN [s EXCEPT !.seen = @ \cup Opens(over[s.replay]),
                              !.known = @ \cup {f \in fr : f[1] = PlayerOf(s.replay)}]
               ELSE s
    PROVE  t \in ViewState /\ NotesCover(t, over, fr) /\ HasReason(t, shared)
  <1>1. CASE s.pc \in {"list", "mine"}
    <2> DEFINE o == s.open \cup OpenToAll(over)
    <2>1. t = [s EXCEPT !.open = o]
      BY <1>1
    <2>2. s \in Listing \/ s \in Mine
      BY <1>1, ViewKinds
    <2>3. o \in SUBSET Replay /\ s.open \subseteq o
      BY <2>2 DEF OpenToAll, Listing, Mine
    <2> HIDE DEF o
    <2>4. CASE s \in Listing
      <3>1. t \in Listing /\ t.player = s.player /\ t.non_public = s.non_public /\ t.open = o /\ t.pc = "list"
        BY <2>1, <2>3, <2>4 DEF Listing
      <3>2. s.pc = "list"
        BY <2>4 DEF Listing
      <3> QED BY <3>1, <3>2, <2>3 DEF ViewState, NotesCover, HasReason
    <2>5. CASE s \in Mine
      <3>1. t \in Mine /\ t.player = s.player /\ t.overrides = s.overrides /\ t.open = o /\ t.pc = "mine"
        BY <2>1, <2>3, <2>5 DEF Mine
      <3>2. s.pc = "mine"
        BY <2>5 DEF Mine
      <3> QED BY <3>1, <3>2, <2>3 DEF ViewState, NotesCover, HasReason
    <2> QED BY <2>2, <2>4, <2>5
  <1>2. CASE s.pc \in {"visibility", "decide"}
    <2> DEFINE a == s.seen \cup Opens(over[s.replay])
    <2> DEFINE b == s.known \cup {f \in fr : f[1] = PlayerOf(s.replay)}
    <2>1. t = [s EXCEPT !.seen = a, !.known = b]
      BY <1>2
    <2>2. s \in Asking \/ s \in Deciding
      BY <1>2, ViewKinds
    <2>3. /\ a \in SUBSET {"public", "friends"} /\ b \in SUBSET (User \X User) /\ s.seen \subseteq a
          /\ Opens(over[s.replay]) \subseteq a /\ {f \in fr : f[1] = PlayerOf(s.replay)} \subseteq b
      BY <2>2 DEF Opens, Asking, Deciding
    <2> HIDE DEF a, b
    <2>4. CASE s \in Asking
      <3>1. t \in Asking /\ t.replay = s.replay /\ t.seen = a /\ t.known = b /\ t.pc = "visibility"
        BY <2>1, <2>3, <2>4 DEF Asking
      <3> QED BY <3>1, <2>3 DEF ViewState, NotesCover, HasReason
    <2>5. CASE s \in Deciding
      <3>1. t \in Deciding /\ t.replay = s.replay /\ t.seen = a /\ t.known = b /\ t.pc = "decide"
            /\ t.visibility = s.visibility
        BY <2>1, <2>3, <2>5 DEF Deciding
      <3>2. s.pc = "decide"
        BY <2>5 DEF Deciding
      <3> QED BY <3>1, <3>2, <2>3 DEF ViewState, NotesCover, HasReason
    <2> QED BY <2>2, <2>4, <2>5
  <1>3. CASE s.pc \notin {"list", "mine", "visibility", "decide"}
    BY <1>3 DEF HasReason, NotesCover
  <1> QED BY <1>1, <1>2, <1>3

LEMMA WritesAreNoted ==
    ASSUME ReplayInv, override' \in [Asked -> Override \cup {None}], OwnersPlayed',
           friends' \subseteq User \X User, UNCHANGED links, NoteAll(override', friends')
    PROVE  ReplayInv'
  <1>0. ReplayTypeOK /\ \A g \in Handler : HasReason(view[g], links) /\ NotesCover(view[g], override, friends)
    BY DEF ReplayInv, AdmittedForAReason
  <1>1. ASSUME NEW g \in Handler
        PROVE  /\ view'[g] \in ViewState /\ NotesCover(view'[g], override', friends')
               /\ HasReason(view'[g], links)
    <2> DEFINE s == view[g]
    <2> DEFINE t == view'[g]
    <2> DEFINE over == override'
    <2> DEFINE fr == friends'
    <2> DEFINE over2 == override
    <2> DEFINE fr2 == friends
    <2>1. s \in ViewState /\ HasReason(s, links) /\ NotesCover(s, over2, fr2)
          /\ fr2 \in SUBSET (User \X User) /\ fr \in SUBSET (User \X User)
      BY <1>0 DEF ReplayTypeOK
    <2>2. t = IF s.pc \in {"list", "mine"} THEN [s EXCEPT !.open = @ \cup OpenToAll(over)]
              ELSE IF s.pc \in {"visibility", "decide"}
              THEN [s EXCEPT !.seen = @ \cup Opens(over[s.replay]),
                             !.known = @ \cup {f \in fr : f[1] = PlayerOf(s.replay)}]
              ELSE s
      BY DEF NoteAll, Noted
    <2>3. t \in ViewState /\ NotesCover(t, over, fr) /\ HasReason(t, links)
      <3> HIDE DEF s, t, over, fr, over2, fr2
      <3> QED BY ZenonT(40), <2>1, <2>2, NotedIsCovered
    <2> QED BY <2>3
  <1>2. view' \in [Handler -> ViewState]
    BY <1>1 DEF NoteAll
  <1>3. ReplayTypeOK'
    BY <1>0, <1>2 DEF ReplayTypeOK
  <1> QED BY <1>1, <1>3 DEF ReplayInv, AdmittedForAReason

LEMMA LinkStatusPreserves ==
    ASSUME ReplayInv, NEW i \in 1..Len(links), NEW x \in {"live", "revoked", "expired"},
           links' = [links EXCEPT ![i].status = x], UNCHANGED <<override, friends, view>>
    PROVE  ReplayInv'
  <1>0. links \in Seq(Link) /\ Len(links) <= MaxLinks
    BY DEF ReplayInv, AdmittedForAReason, ReplayTypeOK
  <1> DEFINE l == [links[i] EXCEPT !.status = x]
  <1>1. links[i] \in Link
    BY <1>0
  <1>2. l \in Link /\ l.replay = links[i].replay /\ links' = [links EXCEPT ![i] = l]
    BY <1>1 DEF Link
  <1> HIDE DEF l
  <1>3. links' \in Seq(Link) /\ Len(links') = Len(links)
        /\ \A j \in 1..Len(links) : links'[j] = IF j = i THEN l ELSE links[j]
    BY <1>0, <1>2
  <1>4. Len(links) <= Len(links') /\ Len(links') <= MaxLinks
    BY <1>0, <1>3
  <1>5. \A j \in 1..Len(links) : links'[j].replay = links[j].replay
    BY <1>2, <1>3
  <1> QED BY <1>3, <1>4, <1>5, LinksPreserve

\* The owner, the clock and the friends.
LEMMA OwnerStepsPreserve ==
    ASSUME ReplayInv, NEW u \in User, NEW r \in Asked,
           \/ \E v \in VISIBILITIES : set_replay_visibility(u, r, v)
           \/ create_share(u, r)
           \/ \E i \in 1..Len(links) : revoke_share(u, r, i)
    PROVE  ReplayInv'
  <1>0. ReplayTypeOK /\ OwnersPlayed
    BY DEF ReplayInv, AdmittedForAReason
  <1>1. ASSUME NEW v \in VISIBILITIES, set_replay_visibility(u, r, v) PROVE ReplayInv'
    <2> DEFINE o == IF override[r] = None THEN [owner |-> u, visibility |-> v]
                    ELSE [override[r] EXCEPT !.visibility = v]
    <2>1. /\ override' = [override EXCEPT ![r] = o] /\ ensure_owner(u, r)
          /\ NoteAll(override', friends) /\ UNCHANGED <<links, friends>>
      BY <1>1 DEF set_replay_visibility, set_visibility
    <2>2. o \in Override /\ o.owner = PlayerOf(r)
      <3>1. CASE override[r] = None
        BY <3>1, <2>1 DEF ensure_owner, Override
      <3>2. CASE override[r] # None
        <4>1. override[r] \in Override /\ override[r].owner = PlayerOf(r)
          BY <3>2, <1>0 DEF ReplayTypeOK, OwnersPlayed
        <4> QED BY <3>2, <4>1 DEF Override
      <3> QED BY <3>1, <3>2
    <2> HIDE DEF o
    <2>3. override' \in [Asked -> Override \cup {None}]
      BY <2>1, <2>2, <1>0 DEF ReplayTypeOK
    <2>4. OwnersPlayed'
      BY <2>1, <2>2, <1>0 DEF OwnersPlayed, ReplayTypeOK
    <2>5. friends' \subseteq User \X User /\ NoteAll(override', friends')
      BY <2>1, <1>0 DEF ReplayTypeOK, NoteAll, Noted
    <2> QED BY <2>1, <2>3, <2>4, <2>5, WritesAreNoted
  <1>2. CASE create_share(u, r)
    <2> DEFINE l == [replay |-> r, status |-> "live"]
    <2>1. l \in Link /\ links' = Append(links, l) /\ UNCHANGED <<override, friends, view>>
          /\ links \in Seq(Link) /\ Len(links) < MaxLinks
      BY <1>0, <1>2 DEF create_share, create_share_link, Link, ReplayTypeOK
    <2> HIDE DEF l
    <2>2. links' \in Seq(Link) /\ Len(links') = Len(links) + 1 /\ Len(links) \in Nat
          /\ \A i \in 1..Len(links) : links'[i] = links[i]
      BY <2>1, Appended
    <2>3. Len(links') <= MaxLinks /\ Len(links) <= Len(links')
      BY <2>1, <2>2, ReplaysAssumption
    <2> QED BY <2>1, <2>2, <2>3, LinksPreserve
  <1>3. ASSUME NEW i \in 1..Len(links), revoke_share(u, r, i) PROVE ReplayInv'
    BY <1>3, LinkStatusPreserves DEF revoke_share, revoke_share_link
  <1> QED BY <1>1, <1>2, <1>3

LEMMA FriendsPreserve ==
    ASSUME ReplayInv, NEW u \in User, NEW f \in User, FriendsChange(u, f)
    PROVE  ReplayInv'
  <1>0. ReplayTypeOK /\ OwnersPlayed
    BY DEF ReplayInv, AdmittedForAReason
  <1>1. friends' \subseteq User \X User /\ NoteAll(override, friends') /\ UNCHANGED <<override, links>>
    BY <1>0 DEF FriendsChange, ReplayTypeOK
  <1>2. override' \in [Asked -> Override \cup {None}] /\ OwnersPlayed'
    BY <1>0, <1>1 DEF ReplayTypeOK, OwnersPlayed
  <1>3. NoteAll(override', friends')
    BY <1>1 DEF NoteAll, Noted, OpenToAll
  <1> QED BY <1>1, <1>2, <1>3, WritesAreNoted

\* What a visibility opens a replay to.
LEMMA WhatIsOpen ==
    ASSUME ReplayInv, NEW r \in Asked
    PROVE  /\ effective_visibility(override[r]) \in VISIBILITIES
           /\ Opens(override[r]) \subseteq {"public", "friends"}
           /\ effective_visibility(override[r]) \in {"public", "friends"} =>
                 effective_visibility(override[r]) \in Opens(override[r])
           /\ r \in Replay \ OpenToAll(override) => override[r] # None /\ hidden(override[r].visibility)
  <1>1. override[r] \in Override \cup {None}
    BY DEF ReplayInv, AdmittedForAReason, ReplayTypeOK
  <1>2. override[r] # None => override[r].visibility \in VISIBILITIES
    BY <1>1 DEF Override
  <1> QED BY <1>2 DEF effective_visibility, Opens, OpenToAll, hidden, VISIBILITIES

\* A pair that PMP knows is shown as it was asked for.
LEMMA KnownIsShown ==
    ASSUME NEW r
    PROVE  DataOf(r) \in SUBSET Replay /\ (r \in Replay => DataOf(r) = {r})
  <1>1. ASSUME r \in Replay PROVE r = <<RoundOf(r), PlayerOf(r)>> /\ as_i32(PlayerOf(r)) = PlayerOf(r)
    <2>1. r \in {q[1] : q \in Replay} \X (0..(Wrap - 1)) /\ Wrap \in Nat \ {0}
      BY <1>1, ReplaysAssumption
    <2>2. r = <<RoundOf(r), PlayerOf(r)>> /\ PlayerOf(r) \in 0..(Wrap - 1)
      BY <2>1 DEF RoundOf, PlayerOf
    <2>3. \A p \in 0..(Wrap - 1) : p % Wrap = p
      BY <2>1
    <2> QED BY <2>2, <2>3 DEF as_i32
  <1> QED BY <1>1 DEF DataOf

\* A request begins: by a link, by the visibility, or as a list.
LEMMA ViewBeginPreserves ==
    ASSUME ReplayInv, NEW h \in Handler, NEW by \in By, NEW r \in Asked, ViewBegin(h, by, r)
    PROVE  ReplayInv'
  <1>0. ReplayTypeOK
    BY DEF ReplayInv, AdmittedForAReason
  <1> DEFINE a == Opens(override[r])
  <1> DEFINE b == {f \in friends : f[1] = PlayerOf(r)}
  <1> DEFINE s == [pc |-> "visibility", replay |-> r, by |-> by, seen |-> a, known |-> b]
  <1>1. a \in SUBSET {"public", "friends"} /\ b \in SUBSET (User \X User)
    BY <1>0, WhatIsOpen DEF ReplayTypeOK
  <1>2. Set(h, s) /\ UNCHANGED <<override, links, friends>>
    BY DEF ViewBegin
  <1>3. s \in ViewState
    <2>1. s \in Asking
      <3> HIDE DEF a, b
      <3> QED BY <1>1 DEF Asking
    <2> QED BY <2>1 DEF ViewState
  <1>4. HasReason(s, links) /\ NotesCover(s, override, friends)
    BY DEF HasReason, NotesCover
  <1> HIDE DEF s
  <1> QED BY <1>2, <1>3, <1>4, OneViewMoves

LEMMA ViewByLinkPreserves ==
    ASSUME ReplayInv, NEW h \in Handler, NEW r \in Asked, NEW i \in 1..Len(links), ViewByLink(h, r, i)
    PROVE  ReplayInv'
  <1>0. ReplayTypeOK
    BY DEF ReplayInv, AdmittedForAReason
  <1> DEFINE q == links[i].replay
  <1> DEFINE s == Watch(q, None, i, {}, {})
  <1>1. Set(h, s) /\ UNCHANGED <<override, links, friends>>
    BY DEF ViewByLink
  <1>2. q \in Asked /\ i \in 0..MaxLinks
    <2>1. links[i] \in Link
      BY <1>0 DEF ReplayTypeOK
    <2> QED BY <2>1, <1>0, ReplaysAssumption DEF ReplayTypeOK, Link
  <1>k. DataOf(q) \in SUBSET Replay /\ (q \in Replay => DataOf(q) = {q})
    BY KnownIsShown
  <1>3. /\ s \in ViewState /\ s.link = i /\ s.replay = links[i].replay /\ s.pc = "watch"
        /\ s.replay \in Replay => s.shows = {s.replay}
    <2>1. s \in Watching
      <3> HIDE DEF q
      <3> QED BY <1>2, <1>k DEF Watching, Watch, By
    <2> QED BY <2>1, <1>k DEF ViewState, Watch
  <1>4. HasReason(s, links) /\ NotesCover(s, override, friends)
    <2> HIDE DEF s, q
    <2> QED BY <1>3 DEF HasReason, NotesCover
  <1> HIDE DEF s
  <1> QED BY <1>1, <1>3, <1>4, OneViewMoves

\* What check_pair_access makes of the visibility it has read.
LEMMA ViewVisibilityPreserves ==
    ASSUME ReplayInv, NEW h \in Handler, ViewVisibility(h)
    PROVE  ReplayInv'
  <1>0. ReplayTypeOK /\ NotesCover(view[h], override, friends)
    BY DEF ReplayInv, AdmittedForAReason
  <1> DEFINE s == view[h]
  <1> DEFINE v == effective_visibility(override[s.replay])
  <1> DEFINE w == Watch(s.replay, s.by, 0, s.seen, s.known)
  <1> DEFINE d == [pc |-> "decide", visibility |-> v, replay |-> s.replay, by |-> s.by,
                   seen |-> s.seen, known |-> s.known]
  <1> DEFINE t == IF v = "public" \/ s.by = Root THEN w ELSE IF s.by = None THEN Idle ELSE d
  <1>1. Set(h, t) /\ UNCHANGED <<override, links, friends>> /\ s.pc = "visibility"
    BY DEF ViewVisibility
  <1>2. s \in Asking
    <2>1. s \in ViewState
      BY <1>0 DEF ReplayTypeOK
    <2> QED BY <2>1, <1>1, ViewKinds
  <1>3. /\ s.replay \in Asked /\ s.by \in By /\ s.seen \in SUBSET {"public", "friends"}
        /\ s.known \in SUBSET (User \X User)
    BY <1>2 DEF Asking
  <1>4. v \in VISIBILITIES /\ (v \in {"public", "friends"} => v \in s.seen)
        /\ Opens(override[s.replay]) \subseteq s.seen
        /\ {f \in friends : f[1] = PlayerOf(s.replay)} \subseteq s.known
    BY <1>0, <1>1, <1>3, WhatIsOpen DEF NotesCover
  <1> DEFINE rr == s.replay
  <1> DEFINE bb == s.by
  <1> DEFINE ss == s.seen
  <1> DEFINE kk == s.known
  <1>k. DataOf(rr) \in SUBSET Replay /\ (rr \in Replay => DataOf(rr) = {rr})
    BY KnownIsShown
  <1>5. /\ w \in Watching /\ w.pc = "watch" /\ w.link = 0 /\ w.replay = rr /\ w.by = bb /\ w.seen = ss
        /\ w.replay \in Replay => w.shows = {w.replay}
        /\ d \in Deciding /\ d.pc = "decide" /\ d.visibility = v /\ d.replay = rr /\ d.seen = ss
        /\ d.known = kk
    <2>1. rr \in Asked /\ bb \in By /\ ss \in SUBSET {"public", "friends"}
          /\ kk \in SUBSET (User \X User) /\ 0 \in 0..MaxLinks /\ v \in VISIBILITIES
      BY <1>3, <1>4, ReplaysAssumption
    <2>2. w = Watch(rr, bb, 0, ss, kk)
          /\ d = [pc |-> "decide", visibility |-> v, replay |-> rr, by |-> bb, seen |-> ss, known |-> kk]
      OBVIOUS
    <2> HIDE DEF rr, bb, ss, kk, w, d, v
    <2> QED BY <2>1, <2>2, <1>k DEF Watching, Deciding, Watch
  <1>6. t \in ViewState
    BY <1>5 DEF ViewState
  <1>7. HasReason(t, links) /\ NotesCover(t, override, friends)
    <2>1. CASE v = "public" \/ s.by = Root
      <3>1. t = w
        BY <2>1
      <3>2. w.by = Root \/ "public" \in w.seen
        BY <2>1, <1>4, <1>5
      <3> HIDE DEF t, w
      <3> QED BY <3>1, <3>2, <1>5 DEF HasReason, NotesCover
    <2>2. CASE ~(v = "public" \/ s.by = Root) /\ s.by = None
      <3>1. t = Idle /\ Idle.pc = "idle"
        BY <2>2 DEF Idle
      <3> HIDE DEF t
      <3> QED BY <3>1 DEF HasReason, NotesCover
    <2>3. CASE ~(v = "public" \/ s.by = Root) /\ s.by # None
      <3>1. t = d
        BY <2>3
      <3>2. /\ Opens(override[d.replay]) \subseteq d.seen
            /\ {f \in friends : f[1] = PlayerOf(d.replay)} \subseteq d.known
            /\ d.visibility = "friends" => "friends" \in d.seen
        BY <1>4, <1>5
      <3> HIDE DEF t, d
      <3> QED BY <3>1, <3>2, <1>5 DEF HasReason, NotesCover
    <2> QED BY <2>1, <2>2, <2>3
  <1> HIDE DEF t
  <1> QED BY <1>1, <1>6, <1>7, OneViewMoves

\* Whom it admits: the player, or a friend while the replay was for friends.
LEMMA ViewDecidePreserves ==
    ASSUME ReplayInv, NEW h \in Handler, ViewDecide(h)
    PROVE  ReplayInv'
  <1>0. ReplayTypeOK /\ OwnersPlayed /\ NotesCover(view[h], override, friends)
    BY DEF ReplayInv, AdmittedForAReason
  <1> DEFINE s == view[h]
  <1> DEFINE w == Watch(s.replay, s.by, 0, s.seen, s.known)
  <1> DEFINE t == IF Admits(s.visibility, s.by, s.replay) THEN w ELSE Idle
  <1>1. Set(h, t) /\ UNCHANGED <<override, links, friends>> /\ s.pc = "decide"
    BY DEF ViewDecide
  <1>2. s \in Deciding
    <2>1. s \in ViewState
      BY <1>0 DEF ReplayTypeOK
    <2> QED BY <2>1, <1>1, ViewKinds
  <1>3. /\ s.replay \in Asked /\ s.by \in By /\ s.seen \in SUBSET {"public", "friends"}
        /\ s.known \in SUBSET (User \X User)
    BY <1>2 DEF Deciding
  <1> DEFINE rr == s.replay
  <1> DEFINE bb == s.by
  <1> DEFINE ss == s.seen
  <1> DEFINE kk == s.known
  <1>k. DataOf(rr) \in SUBSET Replay /\ (rr \in Replay => DataOf(rr) = {rr})
    BY KnownIsShown
  <1>5. /\ w \in Watching /\ w.pc = "watch" /\ w.link = 0 /\ w.replay = rr /\ w.by = bb /\ w.seen = ss
        /\ w.known = kk /\ (w.replay \in Replay => w.shows = {w.replay})
    <2>1. rr \in Asked /\ bb \in By /\ ss \in SUBSET {"public", "friends"}
          /\ kk \in SUBSET (User \X User) /\ 0 \in 0..MaxLinks /\ w = Watch(rr, bb, 0, ss, kk)
      BY <1>3, ReplaysAssumption
    <2> HIDE DEF rr, bb, ss, kk, w
    <2> QED BY <2>1, <1>k DEF Watching, Watch
  <1>6. t \in ViewState
    BY <1>5 DEF ViewState
  <1>7. HasReason(t, links) /\ NotesCover(t, override, friends)
    <2>1. CASE Admits(s.visibility, s.by, s.replay)
      <3>1. t = w
        BY <2>1
      <3>2. \/ s.by = PlayerOf(s.replay)
            \/ s.visibility = "friends" /\ <<PlayerOf(s.replay), s.by>> \in friends
        BY <2>1, <1>0, <1>3 DEF Admits, get_override, requester_phira_id, OwnersPlayed
      <3>3. {f \in friends : f[1] = PlayerOf(s.replay)} \subseteq s.known
            /\ (s.visibility = "friends" => "friends" \in s.seen)
        BY <1>0, <1>1 DEF NotesCover
      <3>4. \/ w.by = PlayerOf(w.replay)
            \/ "friends" \in w.seen /\ <<PlayerOf(w.replay), w.by>> \in w.known
        BY <3>2, <3>3, <1>5
      <3> HIDE DEF t, w
      <3> QED BY <3>1, <3>4, <1>5 DEF HasReason, NotesCover
    <2>2. CASE ~Admits(s.visibility, s.by, s.replay)
      <3>1. t = Idle /\ Idle.pc = "idle"
        BY <2>2 DEF Idle
      <3> HIDE DEF t
      <3> QED BY <3>1 DEF HasReason, NotesCover
    <2> QED BY <2>1, <2>2
  <1> HIDE DEF t
  <1> QED BY <1>1, <1>6, <1>7, OneViewMoves

\* The lists: what is shown as public was public when the list began.
LEMMA ListsPreserve ==
    ASSUME ReplayInv, NEW h \in Handler,
           \/ \E p \in User : ListBegin(h, p)
           \/ list_replays(h)
           \/ \E u \in User : list_my_replays(h, u)
           \/ OwnerReplaySummary(h)
           \/ ViewEnds(h)
    PROVE  ReplayInv'
  <1>0. ReplayTypeOK /\ OwnersPlayed /\ NotesCover(view[h], override, friends)
        /\ OpenToAll(override) \in SUBSET Replay /\ view[h] \in ViewState
    BY DEF ReplayInv, AdmittedForAReason, OpenToAll, ReplayTypeOK
  <1>1. ASSUME NEW p \in User, ListBegin(h, p) PROVE ReplayInv'
    <2> DEFINE o == OpenToAll(override)
    <2> DEFINE n == {r \in Replay : PlayerOf(r) = p /\ override[r] # None /\ hidden(override[r].visibility)}
    <2> DEFINE s == [pc |-> "list", player |-> p, open |-> o, non_public |-> n]
    <2>1. Set(h, s) /\ UNCHANGED <<override, links, friends>>
      BY <1>1 DEF ListBegin
    <2>2. {r \in Replay : PlayerOf(r) = p} \ n \subseteq o
      BY WhatIsOpen DEF Asked
    <2>3. o \in SUBSET Replay /\ n \in SUBSET Replay
      BY <1>0
    <2> HIDE DEF o, n
    <2>4. s \in Listing /\ s.pc = "list" /\ s.player = p /\ s.open = o /\ s.non_public = n
      BY <2>3 DEF Listing
    <2> HIDE DEF s
    <2>5. s \in ViewState /\ HasReason(s, links) /\ NotesCover(s, override, friends)
      BY <2>2, <2>4 DEF ViewState, HasReason, NotesCover
    <2> QED BY <2>1, <2>5, OneViewMoves
  <1>2. CASE list_replays(h)
    <2> DEFINE o == view[h].open
    <2> DEFINE n == {r \in Replay : PlayerOf(r) = view[h].player} \ view[h].non_public
    <2> DEFINE s == [pc |-> "listed", open |-> o, shown |-> n]
    <2>1. Set(h, s) /\ UNCHANGED <<override, links, friends>> /\ view[h].pc = "list"
      BY <1>2 DEF list_replays
    <2>2. view[h] \in Listing
      BY <1>0, <2>1, ViewKinds
    <2>3. o \in SUBSET Replay /\ n \in SUBSET Replay
      BY <2>2 DEF Listing
    <2>4. n \subseteq o
      BY <1>0, <2>1 DEF NotesCover
    <2> HIDE DEF o, n
    <2>5. s \in Listed /\ s.pc = "listed" /\ s.open = o /\ s.shown = n
      BY <2>3 DEF Listed
    <2> HIDE DEF s
    <2>6. s \in ViewState /\ HasReason(s, links) /\ NotesCover(s, override, friends)
      BY <2>4, <2>5 DEF ViewState, HasReason, NotesCover
    <2> QED BY <2>1, <2>6, OneViewMoves
  <1>3. ASSUME NEW u \in User, list_my_replays(h, u) PROVE ReplayInv'
    <2> DEFINE o == OpenToAll(override)
    <2> DEFINE mine == {q \in Replay : PlayerOf(q) = u /\ override[q] # None /\ override[q].owner = u}
    <2> DEFINE m == [r \in mine |-> override[r].visibility]
    <2> DEFINE s == [pc |-> "mine", player |-> u, open |-> o, overrides |-> m]
    <2>1. Set(h, s) /\ UNCHANGED <<override, links, friends>>
      BY <1>3 DEF list_my_replays
    <2>2. \A r \in Replay : PlayerOf(r) = u /\ r \notin o => r \in DOMAIN m /\ hidden(m[r])
      <3> SUFFICES ASSUME NEW r \in Replay, PlayerOf(r) = u, r \notin o
                   PROVE  r \in mine /\ hidden(override[r].visibility)
        OBVIOUS
      <3>1. override[r] # None /\ hidden(override[r].visibility)
        BY WhatIsOpen DEF Asked
      <3>2. override[r].owner = u
        BY <3>1, <1>0 DEF OwnersPlayed, Asked
      <3> QED BY <3>1, <3>2
    <2>3. o \in SUBSET Replay /\ m \in UNION {[some -> VISIBILITIES] : some \in SUBSET Replay}
      <3>1. \A r \in mine : override[r] \in Override /\ override[r].visibility \in VISIBILITIES
        BY <1>0 DEF ReplayTypeOK, Override, Asked
      <3>2. m \in [mine -> VISIBILITIES] /\ mine \in SUBSET Replay
        BY <3>1
      <3> QED BY <3>2, <1>0
    <2> HIDE DEF o, m
    <2>4. s \in Mine /\ s.pc = "mine" /\ s.player = u /\ s.open = o /\ s.overrides = m
      BY <2>3 DEF Mine
    <2> HIDE DEF s
    <2>5. s \in ViewState /\ HasReason(s, links) /\ NotesCover(s, override, friends)
      BY <2>2, <2>4 DEF ViewState, HasReason, NotesCover
    <2> QED BY <2>1, <2>5, OneViewMoves
  <1>4. CASE OwnerReplaySummary(h)
    <2> DEFINE o == view[h].open
    <2> DEFINE m == view[h].overrides
    <2> DEFINE n == {r \in Replay : PlayerOf(r) = view[h].player
                                    /\ ~hidden(IF r \in DOMAIN m THEN m[r] ELSE "public")}
    <2> DEFINE s == [pc |-> "listed", open |-> o, shown |-> n]
    <2>1. Set(h, s) /\ UNCHANGED <<override, links, friends>> /\ view[h].pc = "mine"
      BY <1>4 DEF OwnerReplaySummary
    <2>2. view[h] \in Mine
      BY <1>0, <2>1, ViewKinds
    <2>3. o \in SUBSET Replay /\ n \in SUBSET Replay
      BY <2>2 DEF Mine
    <2>4. n \subseteq o
      BY <1>0, <2>1 DEF NotesCover
    <2> HIDE DEF o, n
    <2>5. s \in Listed /\ s.pc = "listed" /\ s.open = o /\ s.shown = n
      BY <2>3 DEF Listed
    <2> HIDE DEF s
    <2>6. s \in ViewState /\ HasReason(s, links) /\ NotesCover(s, override, friends)
      BY <2>4, <2>5 DEF ViewState, HasReason, NotesCover
    <2> QED BY <2>1, <2>6, OneViewMoves
  <1>5. CASE ViewEnds(h)
    <2>1. Set(h, Idle) /\ UNCHANGED <<override, links, friends>>
      BY <1>5 DEF ViewEnds
    <2>2. Idle \in ViewState /\ Idle.pc = "idle"
      BY DEF ViewState, Idle
    <2>3. HasReason(Idle, links) /\ NotesCover(Idle, override, friends)
      BY <2>2 DEF HasReason, NotesCover
    <2> QED BY <2>1, <2>2, <2>3, OneViewMoves
  <1> QED BY <1>1, <1>2, <1>3, <1>4, <1>5

LEMMA ReplayStep == ReplayInv /\ [ReplayNext]_replayVars => ReplayInv'
  <1> SUFFICES ASSUME ReplayInv, [ReplayNext]_replayVars PROVE ReplayInv'
    OBVIOUS
  <1>0. ReplayTypeOK
    BY DEF ReplayInv, AdmittedForAReason
  <1>1. ASSUME NEW u \in User, NEW r \in Asked,
               \/ \E v \in VISIBILITIES : set_replay_visibility(u, r, v)
               \/ create_share(u, r)
               \/ \E i \in 1..Len(links) : revoke_share(u, r, i)
        PROVE  ReplayInv'
    BY <1>1, OwnerStepsPreserve
  <1>2. ASSUME NEW i \in 1..Len(links), LinkExpires(i) PROVE ReplayInv'
    BY <1>2, LinkStatusPreserves DEF LinkExpires
  <1>3. ASSUME NEW u \in User, NEW f \in User, FriendsChange(u, f) PROVE ReplayInv'
    BY <1>3, FriendsPreserve
  <1>4. ASSUME NEW h \in Handler, NEW r \in Asked, NEW by \in By, NEW i \in 0..Len(links),
               resolve_replay_access(h, by, r, i)
        PROVE  ReplayInv'
    <2>1. CASE i = 0
      BY <1>4, <2>1, ViewBeginPreserves DEF resolve_replay_access
    <2>2. CASE i # 0
      <3>1. i \in 1..Len(links)
        BY <2>2, <1>0 DEF ReplayTypeOK
      <3> QED BY <3>1, <2>2, <1>4, ViewByLinkPreserves DEF resolve_replay_access
    <2> QED BY <2>1, <2>2
  <1>5. ASSUME NEW h \in Handler, NEW r \in Asked, NEW by \in By, NEW i \in 0..Len(links),
               \/ detail(h, by, r, i) \/ manifest(h, by, r, i) \/ frames(h, by, r, i)
               \/ \E p \in {PlayerOf(r), None} : replay_ws(h, by, RoundOf(r), p, i)
        PROVE  ReplayInv'
    <2>1. CASE detail(h, by, r, i) \/ manifest(h, by, r, i) \/ frames(h, by, r, i)
      BY <1>4, <2>1 DEF detail, manifest, frames
    <2>2. ASSUME NEW p \in {PlayerOf(r), None}, replay_ws(h, by, RoundOf(r), p, i) PROVE ReplayInv'
      <3> DEFINE q == <<RoundOf(r), requested_player(by, p)>>
      <3>1. q \in Asked /\ resolve_replay_access(h, by, q, i)
        BY <2>2 DEF replay_ws
      <3> HIDE DEF q
      <3> QED BY <3>1, <1>4
    <2> QED BY <1>5, <2>1, <2>2
  <1>6. ASSUME NEW h \in Handler,
               \/ ViewVisibility(h) \/ ViewDecide(h) \/ ViewEnds(h)
               \/ (\E p \in User : ListBegin(h, p)) \/ list_replays(h)
               \/ (\E u \in User : list_my_replays(h, u)) \/ OwnerReplaySummary(h)
        PROVE  ReplayInv'
    BY <1>6, ViewVisibilityPreserves, ViewDecidePreserves, ListsPreserve
  <1>7. CASE UNCHANGED replayVars
    BY <1>7 DEF replayVars, ReplayInv, AdmittedForAReason, ReplayTypeOK, OwnersPlayed, HasReason, NotesCover
  <1> QED BY <1>1, <1>2, <1>3, <1>5, <1>6, <1>7 DEF ReplayNext

(* A caller is admitted to a pair for a reason that held during the        *)
(* request and is shown that pair if PMP knows it, and a list calls public *)
(* only replays that were, for any replays, numbers, users and requests,   *)
(* whatever owners and friends do between the two reads of a request.      *)
(* replay/visibility.rs:69-152, routes.rs:130-253, 321-326.                *)
THEOREM ViewsStayJustified == ReplaySpec => []AdmittedForAReason
  <1>1. ReplayInv => AdmittedForAReason
    BY DEF ReplayInv
  <1> QED BY <1>1, ReplaysInitially, ReplayStep, PTL DEF ReplaySpec

-----------------------------------------------------------------------------
(* PMP's log.                                                              *)

\* The numbers of the lines a stream has shown and of those that wait for it
\* rise, and they are lines that PMP has written.
Rises(s, len) ==
    /\ \A i \in 1..Len(s.got) : s.got[i].n <= len
    /\ \A j \in 1..Len(s.rx) : s.rx[j] <= len
    /\ \A i, j \in 1..Len(s.got) : i < j => s.got[i].n < s.got[j].n
    /\ \A i, j \in 1..Len(s.rx) : i < j => s.rx[i] < s.rx[j]
    /\ \A i \in 1..Len(s.got), j \in 1..Len(s.rx) : s.got[i].n < s.rx[j]

\* None is missing between the first line fed and the last, while nothing
\* was dropped.
Exact(s, len) ==
    /\ s.due = 0 => s.got = <<>> /\ s.rx = <<>>
    /\ s.due <= len + 1
    /\ ~s.lagged /\ ~s.lost /\ s.due # 0 =>
          /\ Len(s.got) + Len(s.rx) = len + 1 - s.due
          /\ \A i \in 1..Len(s.got) : s.got[i].n = s.due + i - 1
          /\ \A j \in 1..Len(s.rx) : s.rx[j] = s.due + Len(s.got) + j - 1

\* PMP feeds a stream that it has begun to feed until the connection is lost.
Feeds(s, on) ==
    /\ s.silent => s.lost
    /\ s.due # 0 /\ ~s.lost => on

\* An entry shows the line of its number under the log id of that line.
Genuine(s, ls) ==
    \A i \in 1..Len(s.got) :
        /\ s.got[i].message = ls[s.got[i].n].line
        /\ s.got[i].log_id = log_id_for(ls[s.got[i].n].line, ls[s.got[i].n].seq)

StreamOK(s, ls, on) ==
    s.pc = "open" => /\ Rises(s, Len(ls)) /\ Exact(s, Len(ls)) /\ Feeds(s, on)
                     /\ Genuine(s, ls)

\* The lines of the PMP that runs count from the first it wrote.
NumberedInOrder ==
    /\ \A n \in (base + 1)..Len(lines) : numbered => lines[n].seq = n - base
    /\ \A n \in 1..Len(lines) : ~numbered => lines[n].seq = None

LogInv == LogTypeOK /\ NumberedInOrder /\ \A v \in Viewer : StreamOK(viewer[v], lines, fed)

LEMMA OpenedFields ==
    ASSUME NEW s \in Opened
    PROVE  /\ s.pc = "open" /\ s.rx \in Seq(1..MaxLines) /\ s.got \in Seq(Shown) /\ s.due \in 0..(MaxLines + 1)
           /\ s.lagged \in BOOLEAN /\ s.lost \in BOOLEAN /\ s.silent \in BOOLEAN
           /\ Len(s.rx) \in Nat /\ Len(s.got) \in Nat /\ s.due \in Nat
           /\ \A i \in 1..Len(s.rx) : s.rx[i] \in 1..MaxLines /\ s.rx[i] \in Nat
           /\ \A i \in 1..Len(s.got) : s.got[i] \in Shown /\ s.got[i].n \in 1..MaxLines /\ s.got[i].n \in Nat
  <1>1. /\ s.pc = "open" /\ s.rx \in Seq(1..MaxLines) /\ s.got \in Seq(Shown) /\ s.due \in 0..(MaxLines + 1)
        /\ s.lagged \in BOOLEAN /\ s.lost \in BOOLEAN /\ s.silent \in BOOLEAN
    BY DEF Opened
  <1>a. ASSUME NEW S, NEW q \in Seq(S), NEW i \in 1..Len(q) PROVE q[i] \in S
    OBVIOUS
  <1>2. \A i \in 1..Len(s.rx) : s.rx[i] \in 1..MaxLines
    BY <1>1, <1>a
  <1>3. \A i \in 1..Len(s.got) : s.got[i] \in Shown
    BY <1>1
  <1>4. \A e \in Shown : e.n \in 1..MaxLines
    BY DEF Shown
  <1>5. Len(s.rx) \in Nat /\ Len(s.got) \in Nat /\ s.due \in Nat
    BY <1>1, LogsAssumption
  <1> QED BY <1>1, <1>2, <1>3, <1>4, <1>5, LogsAssumption

\* A log that grows keeps what it says.
LEMMA GenuineGrows ==
    ASSUME NEW s \in Opened, NEW ls \in Seq(Written), NEW x \in Written,
           Rises(s, Len(ls)), Genuine(s, ls)
    PROVE  Genuine(s, Append(ls, x))
  <1>1. \A i \in 1..Len(s.got) : s.got[i].n \in 1..Len(ls)
    <2> TAKE i \in 1..Len(s.got)
    <2>1. s.got[i].n \in 1..MaxLines
      BY OpenedFields
    <2>2. s.got[i].n <= Len(ls)
      BY DEF Rises
    <2> DEFINE n == s.got[i].n
    <2> HIDE DEF n
    <2>3. n \in 1..MaxLines /\ n <= Len(ls)
      BY <2>1, <2>2 DEF n
    <2>4. n \in 1..Len(ls)
      BY <2>3, LogsAssumption
    <2> QED BY <2>4 DEF n
  <1> DEFINE u == Append(ls, x)
  <1>2. \A k \in 1..Len(ls) : u[k] = ls[k]
    BY Appended
  <1> HIDE DEF u
  <1>3. Genuine(s, u)
    BY <1>1, <1>2 DEF Genuine
  <1> QED BY <1>3 DEF u

\* A line reaches the receiver of an open stream.
LEMMA IntoKeeps ==
    ASSUME NEW s \in Opened, NEW ls \in Seq(Written), NEW x \in Written,
           Len(ls) < MaxLines, Len(s.rx) <= LineCapacity, StreamOK(s, ls, TRUE)
    PROVE  /\ Into(s, Len(ls) + 1) \in Opened
           /\ Len(Into(s, Len(ls) + 1).rx) <= LineCapacity
           /\ StreamOK(Into(s, Len(ls) + 1), Append(ls, x), TRUE)
  <1> DEFINE n == Len(ls) + 1
  <1> DEFINE q == IF Len(s.rx) = LineCapacity THEN Tail(s.rx) ELSE s.rx
  <1> DEFINE a == Append(q, n)
  <1> DEFINE b == (s.lagged \/ Len(s.rx) = LineCapacity)
  <1> DEFINE c == IF s.due = 0 THEN n ELSE s.due
  <1> DEFINE t == Into(s, n)
  <1>1. /\ s.pc = "open" /\ s.rx \in Seq(1..MaxLines) /\ s.got \in Seq(Shown) /\ s.due \in 0..(MaxLines + 1)
        /\ s.lagged \in BOOLEAN /\ s.lost \in BOOLEAN /\ s.silent \in BOOLEAN
        /\ Len(s.rx) \in Nat /\ Len(s.got) \in Nat /\ s.due \in Nat
        /\ \A i \in 1..Len(s.rx) : s.rx[i] \in 1..MaxLines /\ s.rx[i] \in Nat
        /\ \A i \in 1..Len(s.got) : s.got[i] \in Shown /\ s.got[i].n \in 1..MaxLines /\ s.got[i].n \in Nat
    BY OpenedFields
  <1>2. Rises(s, Len(ls)) /\ Exact(s, Len(ls)) /\ Feeds(s, TRUE) /\ Genuine(s, ls)
    BY <1>1 DEF StreamOK
  <1>3. n \in 1..MaxLines /\ n \in Nat /\ Len(ls) \in Nat /\ n = Len(ls) + 1
    BY LogsAssumption
  <1>4. \E d \in {0, 1} :
           /\ q \in Seq(1..MaxLines) /\ Len(q) = Len(s.rx) - d /\ Len(q) < LineCapacity /\ Len(q) \in Nat
           /\ \A i \in 1..Len(q) : q[i] = s.rx[i + d] /\ i + d \in 1..Len(s.rx)
           /\ Len(s.rx) # LineCapacity => d = 0
    <2>1. CASE Len(s.rx) = LineCapacity
      <3>1. s.rx # <<>>
        BY <2>1, <1>1, LogsAssumption
      <3>2. q = Tail(s.rx) /\ q \in Seq(1..MaxLines) /\ Len(q) = Len(s.rx) - 1
            /\ \A i \in 1..Len(q) : q[i] = s.rx[i + 1] /\ i + 1 \in 1..Len(s.rx)
        BY <2>1, <3>1, <1>1, WithoutHead
      <3> HIDE DEF q
      <3>3. Len(q) < LineCapacity /\ Len(q) \in Nat /\ 1 \in {0, 1}
        BY <2>1, <3>2, <1>1
      <3> QED BY <2>1, <3>2, <3>3
    <2>2. CASE Len(s.rx) # LineCapacity
      <3>1. q = s.rx /\ Len(q) < LineCapacity
        BY <2>2, <1>1, LogsAssumption
      <3> HIDE DEF q
      <3> QED BY <3>1, <1>1
    <2> QED BY <2>1, <2>2
  <1> HIDE DEF q, n
  <1>5. PICK d \in {0, 1} :
           /\ q \in Seq(1..MaxLines) /\ Len(q) = Len(s.rx) - d /\ Len(q) < LineCapacity /\ Len(q) \in Nat
           /\ \A i \in 1..Len(q) : q[i] = s.rx[i + d] /\ i + d \in 1..Len(s.rx)
           /\ Len(s.rx) # LineCapacity => d = 0
    BY <1>4
  <1>6. /\ a \in Seq(1..MaxLines) /\ Len(a) = Len(q) + 1
        /\ \A i \in 1..Len(q) : a[i] = q[i]
        /\ a[Len(q) + 1] = n
        /\ \A i \in 1..Len(a) : i \in 1..Len(q) \/ i = Len(q) + 1
    <2>1. q \in Seq(1..MaxLines) /\ n \in 1..MaxLines
      BY <1>3, <1>5
    <2> QED BY <2>1, Appended
  <1>7. b \in BOOLEAN /\ c \in 0..(MaxLines + 1)
    BY <1>1, <1>3, LogsAssumption
  <1>8. t = [s EXCEPT !.rx = a, !.lagged = b, !.due = c]
    BY <1>1 DEF Into, q
  <1> HIDE DEF a, b, c, t
  <1>9. /\ t \in Opened /\ t.pc = "open" /\ t.rx = a /\ t.got = s.got /\ t.due = c /\ t.lagged = b
        /\ t.lost = s.lost /\ t.silent = s.silent
    BY <1>6, <1>7, <1>8 DEF Opened
  <1>10. \A i \in 1..Len(q) : a[i] = s.rx[i + d] /\ i + d \in 1..Len(s.rx) /\ a[i] \in Nat
    BY <1>1, <1>5, <1>6
  <1>11. Rises(t, n)
    <2>1. \A i \in 1..Len(s.got) : s.got[i].n <= n /\ s.got[i].n < n
      BY <1>1, <1>2, <1>3 DEF Rises
    <2>2. \A j \in 1..Len(q) : a[j] <= n /\ a[j] < n
      <3>1. \A j \in 1..Len(s.rx) : s.rx[j] <= Len(ls) /\ s.rx[j] \in Nat
        BY <1>1, <1>2 DEF Rises
      <3>2. \A k \in Nat : k <= Len(ls) => k <= n /\ k < n
        BY <1>3
      <3> QED BY <3>1, <3>2, <1>10
    <2>3. \A j \in 1..Len(a) : a[j] <= n
      BY <2>2, <1>3, <1>6
    <2>4. \A i, j \in 1..Len(s.got) : i < j => s.got[i].n < s.got[j].n
      BY <1>2 DEF Rises
    <2>5. \A i, j \in 1..Len(a) : i < j => a[i] < a[j]
      <3> SUFFICES ASSUME NEW i \in 1..Len(a), NEW j \in 1..Len(a), i < j PROVE a[i] < a[j]
        OBVIOUS
      <3>1. i \in 1..Len(q)
        BY <1>5, <1>6
      <3>2. CASE j = Len(q) + 1
        BY <2>2, <3>1, <3>2, <1>6
      <3>3. CASE j \in 1..Len(q)
        <4>1. a[i] = s.rx[i + d] /\ i + d \in 1..Len(s.rx) /\ a[j] = s.rx[j + d]
              /\ j + d \in 1..Len(s.rx)
          BY <3>1, <3>3, <1>10
        <4>2. i + d < j + d
          <5>1. d \in Int /\ i \in Int /\ j \in Int
            BY <1>5
          <5> QED BY <5>1
        <4> QED BY <4>1, <4>2, <1>2 DEF Rises
      <3> QED BY <3>2, <3>3, <1>6
    <2>6. \A i \in 1..Len(s.got), j \in 1..Len(a) : s.got[i].n < a[j]
      <3>1. \A i \in 1..Len(s.got), j \in 1..Len(q) : s.got[i].n < a[j]
        BY <1>2, <1>10 DEF Rises
      <3> QED BY <2>1, <3>1, <1>6
    <2> QED BY <2>1, <2>3, <2>4, <2>5, <2>6, <1>9 DEF Rises
  <1>12. Exact(t, n)
    <2>1. c # 0 /\ c <= n + 1 /\ c \in Nat
      BY <1>1, <1>2, <1>3 DEF Exact, c
    <2> SUFFICES ASSUME ~b, ~s.lost
                 PROVE  /\ Len(s.got) + Len(a) = n + 1 - c
                        /\ \A i \in 1..Len(s.got) : s.got[i].n = c + i - 1
                        /\ \A j \in 1..Len(a) : a[j] = c + Len(s.got) + j - 1
      BY <2>1, <1>9 DEF Exact
    <2>2. d = 0 /\ ~s.lagged
      BY <1>5 DEF b
    <2>3. CASE s.due = 0
      <3>1. s.got = <<>> /\ s.rx = <<>> /\ c = n
        BY <2>3, <1>2 DEF Exact, c
      <3>2. Len(s.got) = 0 /\ Len(q) = 0
        BY <3>1, <2>2, <1>5
      <3> QED BY <3>1, <3>2, <1>3, <1>6
    <2>4. CASE s.due # 0
      <3>1. c = s.due
        BY <2>4 DEF c
      <3>2. /\ Len(s.got) + Len(s.rx) = Len(ls) + 1 - s.due
            /\ \A i \in 1..Len(s.got) : s.got[i].n = s.due + i - 1
            /\ \A j \in 1..Len(s.rx) : s.rx[j] = s.due + Len(s.got) + j - 1
        BY <2>2, <2>4, <1>2 DEF Exact
      <3>3. Len(q) = Len(s.rx) /\ Len(a) = Len(s.rx) + 1
        <4>1. Len(q) = Len(s.rx) - d /\ Len(s.rx) \in Nat /\ Len(a) = Len(q) + 1
          BY <1>1, <1>5, <1>6
        <4> QED BY <4>1, <2>2
      <3>4. Len(s.got) + Len(a) = n + 1 - c /\ n = c + Len(s.got) + (Len(q) + 1) - 1
        <4> DEFINE g == Len(s.got)
        <4> DEFINE r == Len(s.rx)
        <4> DEFINE f == s.due
        <4> DEFINE l == Len(ls)
        <4>1. g \in Nat /\ r \in Nat /\ f \in Nat /\ l \in Nat /\ n = l + 1 /\ g + r = l + 1 - f
              /\ c = f /\ Len(q) = r /\ Len(a) = r + 1
          BY <1>1, <1>3, <3>1, <3>2, <3>3
        <4> HIDE DEF g, r, f, l
        <4>2. g + (r + 1) = n + 1 - f /\ n = f + g + (r + 1) - 1
          BY <4>1
        <4> QED BY <4>1, <4>2 DEF g
      <3>5. \A j \in 1..Len(q) : a[j] = c + Len(s.got) + j - 1
        <4>1. \A j \in 1..Len(q) : a[j] = s.rx[j]
          BY <2>2, <1>10
        <4> QED BY <3>1, <3>2, <3>3, <4>1
      <3> QED BY <3>1, <3>2, <3>4, <3>5, <1>6
    <2> QED BY <2>3, <2>4
  <1>13. Feeds(t, TRUE)
    BY <1>2, <1>9 DEF Feeds
  <1>14. Genuine(t, Append(ls, x))
    <2>1. Genuine(s, Append(ls, x))
      BY <1>2, GenuineGrows
    <2> DEFINE u == Append(ls, x)
    <2> HIDE DEF u
    <2>2. Genuine(t, u)
      <3>1. Genuine(s, u)
        BY <2>1 DEF u
      <3> QED BY <3>1, <1>9 DEF Genuine
    <2> QED BY <2>2 DEF u
  <1>15. Len(Append(ls, x)) = n
    BY <1>3
  <1>16. StreamOK(t, Append(ls, x), TRUE)
    BY <1>11, <1>12, <1>13, <1>14, <1>15 DEF StreamOK
  <1>17. Len(t.rx) <= LineCapacity
    BY SMTT(20), <1>5, <1>6, <1>9, LogsAssumption
  <1> QED BY <1>9, <1>16, <1>17 DEF t, n

LEMMA LogInitially == LogInit => LogInv
  <1> SUFFICES ASSUME LogInit PROVE LogInv
    OBVIOUS
  <1>1. Closed \in Beginning /\ Closed.pc = "closed"
    BY DEF Closed, Beginning
  <1>2. viewer = [v \in Viewer |-> Closed]
    BY DEF LogInit
  <1> HIDE DEF Closed
  <1>3. viewer \in [Viewer -> Opened \cup Beginning] /\ \A v \in Viewer : viewer[v].pc = "closed"
    BY <1>1, <1>2
  <1>4. lines \in Seq(Written) /\ Len(lines) = 0 /\ Len(lines) <= MaxLines /\ base \in 0..Len(lines)
    BY LogsAssumption DEF LogInit
  <1>5. LogTypeOK
    <2>1. losses \in 0..MaxLosses
      BY LogsAssumption DEF LogInit
    <2>2. \A v \in Viewer : viewer[v].pc # "open"
      BY <1>3
    <2> QED BY <1>3, <1>4, <2>1, <2>2 DEF LogInit, LogTypeOK
  <1>6. NumberedInOrder
    BY <1>4 DEF LogInit, NumberedInOrder
  <1> QED BY <1>3, <1>5, <1>6 DEF LogInv, StreamOK

LEMMA ViewerKinds ==
    ASSUME LogInv, NEW v \in Viewer
    PROVE  /\ viewer[v] \in Opened \cup Beginning
           /\ viewer[v].pc = "open" <=> viewer[v] \in Opened
           /\ viewer[v].pc = "open" => Len(viewer[v].rx) <= LineCapacity
           /\ StreamOK(viewer[v], lines, fed)
  <1>1. viewer[v] \in Opened \cup Beginning /\ (viewer[v].pc = "open" => Len(viewer[v].rx) <= LineCapacity)
        /\ StreamOK(viewer[v], lines, fed)
    BY DEF LogInv, LogTypeOK
  <1>2. \A s \in Opened : s.pc = "open"
    BY DEF Opened
  <1>3. \A s \in Beginning : s.pc # "open"
    BY DEF Beginning
  <1> QED BY <1>1, <1>2, <1>3

\* A step that moves one viewer.
LEMMA OneStreamMoves ==
    ASSUME LogInv, NEW v \in Viewer, NEW s \in Opened \cup Beginning,
           viewer' = [viewer EXCEPT ![v] = s], UNCHANGED <<numbered, lines, base, up, fed, losses>>,
           asked' \in BOOLEAN, asked' => up,
           s.pc = "open" => Len(s.rx) <= LineCapacity, StreamOK(s, lines, fed)
    PROVE  LogInv'
  <1>1. LogTypeOK /\ \A w \in Viewer : StreamOK(viewer[w], lines, fed)
    BY DEF LogInv
  <1>2. viewer \in [Viewer -> Opened \cup Beginning]
    BY <1>1 DEF LogTypeOK
  <1>3. viewer' \in [Viewer -> Opened \cup Beginning]
        /\ \A w \in Viewer : viewer'[w] = IF w = v THEN s ELSE viewer[w]
    BY <1>2
  <1>4. \A w \in Viewer : StreamOK(viewer'[w], lines, fed)
    BY <1>1, <1>3
  <1>5. \A w \in Viewer : viewer'[w].pc = "open" => Len(viewer'[w].rx) <= LineCapacity
    BY <1>1, <1>3 DEF LogTypeOK
  <1>6. LogTypeOK'
    BY <1>1, <1>3, <1>5 DEF LogTypeOK
  <1>7. NumberedInOrder'
    BY DEF LogInv, NumberedInOrder
  <1> QED BY <1>4, <1>6, <1>7 DEF LogInv

\* A viewer that has no stream yet, or none any more.
LEMMA NotOpenYet ==
    ASSUME NEW p \in {"closed", "subscribe", "receiver"}
    PROVE  /\ [pc |-> p] \in Opened \cup Beginning /\ [pc |-> p].pc # "open"
           /\ StreamOK([pc |-> p], lines, fed)
  BY DEF Beginning, StreamOK

LEMMA OpeningsPreserve ==
    ASSUME LogInv, NEW v \in Viewer,
           StreamBegin(v) \/ subscribe_stream(v) \/ stream(v) \/ LeaveLog(v)
    PROVE  LogInv'
  <1>0. LogTypeOK
    BY DEF LogInv
  <1>1. CASE StreamBegin(v)
    <2>1. viewer' = [viewer EXCEPT ![v] = [pc |-> "subscribe"]]
          /\ UNCHANGED <<numbered, lines, base, up, asked, fed, losses>>
      BY <1>1 DEF StreamBegin
    <2>2. asked' \in BOOLEAN /\ (asked' => up)
      BY <2>1, <1>0 DEF LogTypeOK
    <2> QED BY <2>1, <2>2, NotOpenYet, OneStreamMoves
  <1>2. CASE subscribe_stream(v)
    <2>1. viewer' = [viewer EXCEPT ![v] = [pc |-> "receiver"]]
          /\ UNCHANGED <<numbered, lines, base, up, fed, losses>> /\ asked' = (asked \/ (up /\ ~fed))
      BY <1>2 DEF subscribe_stream
    <2>2. asked' \in BOOLEAN /\ (asked' => up)
      BY <2>1, <1>0 DEF LogTypeOK
    <2> QED BY <2>1, <2>2, NotOpenYet, OneStreamMoves
  <1>3. CASE LeaveLog(v)
    <2>1. viewer' = [viewer EXCEPT ![v] = [pc |-> "closed"]]
          /\ UNCHANGED <<numbered, lines, base, up, asked, fed, losses>>
      BY <1>3 DEF LeaveLog, Closed
    <2>2. asked' \in BOOLEAN /\ (asked' => up)
      BY <2>1, <1>0 DEF LogTypeOK
    <2> QED BY <2>1, <2>2, NotOpenYet, OneStreamMoves
  <1>4. CASE stream(v)
    <2> DEFINE c == IF fed THEN Len(lines) + 1 ELSE 0
    <2> DEFINE s == [pc |-> "open", rx |-> <<>>, got |-> <<>>, due |-> c,
                     lagged |-> FALSE, lost |-> FALSE, silent |-> FALSE]
    <2>1. viewer' = [viewer EXCEPT ![v] = s] /\ UNCHANGED <<numbered, lines, base, up, asked, fed, losses>>
      BY <1>4 DEF stream
    <2>2. asked' \in BOOLEAN /\ (asked' => up)
      BY <2>1, <1>0 DEF LogTypeOK
    <2>3. /\ c \in 0..(MaxLines + 1) /\ c <= Len(lines) + 1 /\ c \in Nat /\ Len(lines) \in Nat
          /\ c # 0 => fed /\ c = Len(lines) + 1
      BY <1>0, LogsAssumption DEF LogTypeOK
    <2> HIDE DEF c
    <2>4. /\ s \in Opened /\ s.pc = "open" /\ s.rx = <<>> /\ s.got = <<>> /\ s.due = c
          /\ ~s.lagged /\ ~s.lost /\ ~s.silent
      BY <2>3 DEF Opened
    <2> HIDE DEF s
    <2>5. Len(s.rx) = 0 /\ Len(s.got) = 0
      BY <2>4
    <2>6. Rises(s, Len(lines)) /\ Genuine(s, lines)
      BY <2>5 DEF Rises, Genuine
    <2>7. Exact(s, Len(lines)) /\ Feeds(s, fed)
      BY <2>3, <2>4, <2>5 DEF Exact, Feeds
    <2>8. StreamOK(s, lines, fed) /\ Len(s.rx) <= LineCapacity
      BY <2>5, <2>6, <2>7, LogsAssumption DEF StreamOK
    <2> QED BY <2>1, <2>2, <2>4, <2>8, OneStreamMoves
  <1> QED BY <1>1, <1>2, <1>3, <1>4

\* A stream shows the line that has waited longest.
LEMMA FollowPreserves ==
    ASSUME LogInv, NEW v \in Viewer, Follow(v)
    PROVE  LogInv'
  <1>0. LogTypeOK
    BY DEF LogInv
  <1> DEFINE s == viewer[v]
  <1> DEFINE n == Head(s.rx)
  <1> DEFINE r == Tail(s.rx)
  <1> DEFINE id == log_id_for(lines[n].line, lines[n].seq)
  <1> DEFINE e == [n |-> n, log_id |-> id, message |-> lines[n].line]
  <1> DEFINE g == Append(s.got, e)
  <1> DEFINE t == [s EXCEPT !.rx = r, !.got = g]
  <1>1. s.pc = "open" /\ s.rx # <<>> /\ UNCHANGED <<numbered, lines, base, up, asked, fed, losses>>
    BY DEF Follow
  <1>2. viewer' = [viewer EXCEPT ![v] = t]
    <2>1. parse_log_occurrences(n).log_id = id /\ parse_log_occurrences(n).message = lines[n].line
      BY DEF parse_log_occurrences, parse_log_line_with_seq
    <2> QED BY <2>1 DEF Follow
  <1>3. s \in Opened /\ Len(s.rx) <= LineCapacity /\ StreamOK(s, lines, fed)
    BY <1>1, ViewerKinds
  <1> HIDE DEF s
  <1>4. /\ s.pc = "open" /\ s.rx \in Seq(1..MaxLines) /\ s.got \in Seq(Shown) /\ s.due \in 0..(MaxLines + 1)
        /\ s.lagged \in BOOLEAN /\ s.lost \in BOOLEAN /\ s.silent \in BOOLEAN
        /\ Len(s.rx) \in Nat /\ Len(s.got) \in Nat /\ s.due \in Nat
        /\ \A i \in 1..Len(s.rx) : s.rx[i] \in 1..MaxLines /\ s.rx[i] \in Nat
        /\ \A i \in 1..Len(s.got) : s.got[i] \in Shown /\ s.got[i].n \in 1..MaxLines /\ s.got[i].n \in Nat
    BY <1>3, OpenedFields
  <1>5. Rises(s, Len(lines)) /\ Exact(s, Len(lines)) /\ Feeds(s, fed) /\ Genuine(s, lines)
    BY <1>3, <1>4 DEF StreamOK
  <1>6. /\ n = s.rx[1] /\ r \in Seq(1..MaxLines) /\ Len(r) = Len(s.rx) - 1 /\ Len(s.rx) \in Nat \ {0}
        /\ \A i \in 1..Len(r) : r[i] = s.rx[i + 1] /\ i + 1 \in 1..Len(s.rx)
    BY <1>1, <1>4, WithoutHead
  <1>7. 1 \in 1..Len(s.rx) /\ n \in 1..MaxLines /\ n \in Nat /\ n <= Len(lines)
    BY <1>4, <1>5, <1>6 DEF Rises
  <1>8. /\ Len(lines) \in Nat /\ n \in 1..Len(lines) /\ lines[n].line \in Text
        /\ lines[n].seq \in (1..MaxLines) \cup {None}
    <2>1. Len(lines) \in Nat /\ lines \in Seq(Written)
      BY <1>0 DEF LogTypeOK
    <2>2. n \in 1..Len(lines) /\ lines[n] \in Written
      BY <2>1, <1>7
    <2> QED BY <2>1, <2>2 DEF Written
  <1> HIDE DEF n, r
  <1>9. id \in LogId
    BY <1>7, <1>8, LogsAssumption DEF LogId, log_id_for
  <1> HIDE DEF id
  <1>10. e \in Shown /\ e.n = n /\ e.log_id = id /\ e.message = lines[n].line
    BY <1>7, <1>8, <1>9 DEF Shown
  <1> HIDE DEF e
  <1>11. /\ g \in Seq(Shown) /\ Len(g) = Len(s.got) + 1
         /\ \A i \in 1..Len(s.got) : g[i] = s.got[i]
         /\ g[Len(s.got) + 1] = e
         /\ \A i \in 1..Len(g) : i \in 1..Len(s.got) \/ i = Len(s.got) + 1
    BY <1>4, <1>10, Appended
  <1> HIDE DEF g
  <1>12. /\ t \in Opened /\ t.pc = "open" /\ t.rx = r /\ t.got = g /\ t.due = s.due
         /\ t.lagged = s.lagged /\ t.lost = s.lost /\ t.silent = s.silent
    BY <1>3, <1>6, <1>11 DEF Opened
  <1> HIDE DEF t
  <1>13. \A i \in 1..Len(s.got) : g[i].n = s.got[i].n /\ g[i].n < n
    BY <1>5, <1>6, <1>7, <1>11 DEF Rises
  <1>14. Rises(t, Len(lines))
    <2>1. \A i \in 1..Len(g) : g[i].n <= Len(lines)
      BY <1>5, <1>7, <1>10, <1>11, <1>13 DEF Rises
    <2>2. \A j \in 1..Len(r) : r[j] <= Len(lines)
      BY <1>5, <1>6 DEF Rises
    <2>3. \A i, j \in 1..Len(g) : i < j => g[i].n < g[j].n
      <3> SUFFICES ASSUME NEW i \in 1..Len(g), NEW j \in 1..Len(g), i < j PROVE g[i].n < g[j].n
        OBVIOUS
      <3>1. i \in 1..Len(s.got)
        BY <1>4, <1>11
      <3>2. CASE j = Len(s.got) + 1
        BY <3>1, <3>2, <1>10, <1>11, <1>13
      <3>3. CASE j \in 1..Len(s.got)
        BY <3>1, <3>3, <1>5, <1>13 DEF Rises
      <3> QED BY <3>2, <3>3, <1>11
    <2>4. \A i, j \in 1..Len(r) : i < j => r[i] < r[j]
      <3> SUFFICES ASSUME NEW i \in 1..Len(r), NEW j \in 1..Len(r), i < j PROVE r[i] < r[j]
        OBVIOUS
      <3>1. r[i] = s.rx[i + 1] /\ i + 1 \in 1..Len(s.rx) /\ r[j] = s.rx[j + 1] /\ j + 1 \in 1..Len(s.rx)
        BY <1>6
      <3>2. i + 1 < j + 1
        OBVIOUS
      <3> QED BY <3>1, <3>2, <1>5 DEF Rises
    <2>5. \A j \in 1..Len(r) : n < r[j]
      <3> SUFFICES ASSUME NEW j \in 1..Len(r) PROVE n < r[j]
        OBVIOUS
      <3>1. r[j] = s.rx[j + 1] /\ j + 1 \in 1..Len(s.rx) /\ 1 < j + 1
        BY <1>6
      <3> QED BY <3>1, <1>5, <1>6, <1>7 DEF Rises
    <2>6. \A i \in 1..Len(g), j \in 1..Len(r) : g[i].n < r[j]
      <3> SUFFICES ASSUME NEW i \in 1..Len(g), NEW j \in 1..Len(r) PROVE g[i].n < r[j]
        OBVIOUS
      <3>1. CASE i = Len(s.got) + 1
        BY <2>5, <3>1, <1>10, <1>11
      <3>2. CASE i \in 1..Len(s.got)
        <4>1. r[j] = s.rx[j + 1] /\ j + 1 \in 1..Len(s.rx)
          BY <1>6
        <4> QED BY <3>2, <4>1, <1>5, <1>13 DEF Rises
      <3> QED BY <3>1, <3>2, <1>11
    <2> QED BY <2>1, <2>2, <2>3, <2>4, <2>6, <1>12 DEF Rises
  <1>15. Exact(t, Len(lines))
    <2>1. s.due # 0 /\ s.due <= Len(lines) + 1
      BY <1>1, <1>5 DEF Exact
    <2> SUFFICES ASSUME ~s.lagged, ~s.lost
                 PROVE  /\ Len(g) + Len(r) = Len(lines) + 1 - s.due
                        /\ \A i \in 1..Len(g) : g[i].n = s.due + i - 1
                        /\ \A j \in 1..Len(r) : r[j] = s.due + Len(g) + j - 1
      BY <2>1, <1>12 DEF Exact
    <2>2. /\ Len(s.got) + Len(s.rx) = Len(lines) + 1 - s.due
          /\ \A i \in 1..Len(s.got) : s.got[i].n = s.due + i - 1
          /\ \A j \in 1..Len(s.rx) : s.rx[j] = s.due + Len(s.got) + j - 1
      BY <2>1, <1>5 DEF Exact
    <2>3. Len(g) + Len(r) = Len(lines) + 1 - s.due
      <3>1. Len(g) + Len(r) = Len(s.got) + Len(s.rx)
        <4> DEFINE k == Len(s.got)
        <4> DEFINE m == Len(s.rx)
        <4>1. k \in Nat /\ m \in Nat /\ Len(g) = k + 1 /\ Len(r) = m - 1
          BY <1>4, <1>6, <1>11
        <4> HIDE DEF k, m
        <4>2. Len(g) + Len(r) = k + m
          BY <4>1
        <4> QED BY <4>2 DEF k, m
      <3> QED BY <2>2, <3>1
    <2>4. n = s.due + (Len(s.got) + 1) - 1
      <3>1. n = s.due + Len(s.got) + 1 - 1
        BY <2>2, <1>6, <1>7
      <3> QED BY <3>1, <1>4
    <2>5. \A i \in 1..Len(g) : g[i].n = s.due + i - 1
      BY <2>2, <2>4, <1>10, <1>11, <1>13
    <2>6. \A j \in 1..Len(r) : r[j] = s.due + Len(g) + j - 1
      <3> SUFFICES ASSUME NEW j \in 1..Len(r) PROVE r[j] = s.due + Len(g) + j - 1
        OBVIOUS
      <3>1. r[j] = s.due + Len(s.got) + (j + 1) - 1
        BY <2>2, <1>6
      <3> DEFINE k == Len(s.got)
      <3> DEFINE f == s.due
      <3>2. k \in Nat /\ f \in Nat /\ Len(g) = k + 1 /\ r[j] = f + k + (j + 1) - 1 /\ j \in Nat
        BY <3>1, <1>4, <1>11
      <3> HIDE DEF k, f
      <3>3. f + k + (j + 1) - 1 = f + (k + 1) + j - 1
        BY <3>2
      <3> QED BY <3>2, <3>3 DEF f
    <2> QED BY <2>3, <2>5, <2>6
  <1>16. Genuine(t, lines)
    <2>1. \A i \in 1..Len(s.got) :
             /\ s.got[i].message = lines[s.got[i].n].line
             /\ s.got[i].log_id = log_id_for(lines[s.got[i].n].line, lines[s.got[i].n].seq)
      BY <1>5 DEF Genuine
    <2>2. e.message = lines[e.n].line /\ e.log_id = log_id_for(lines[e.n].line, lines[e.n].seq)
      BY <1>10 DEF id
    <2> QED BY SMTT(20), <2>1, <2>2, <1>11, <1>12 DEF Genuine
  <1>17. Feeds(t, fed)
    BY <1>5, <1>12 DEF Feeds
  <1>18. StreamOK(t, lines, fed) /\ Len(t.rx) <= LineCapacity
    BY <1>3, <1>4, <1>6, <1>12, <1>14, <1>15, <1>16, <1>17, LogsAssumption DEF StreamOK
  <1>19. asked' \in BOOLEAN /\ (asked' => up)
    BY <1>0, <1>1 DEF LogTypeOK
  <1> QED BY <1>1, <1>2, <1>12, <1>18, <1>19, OneStreamMoves

\* PMP feeds the stream of a viewer no more.
LEMMA UnfedKeeps ==
    ASSUME NEW s \in Opened, NEW ls \in Seq(Written), NEW x \in Written,
           StreamOK(s, ls, FALSE),
           NEW t \in Opened, t.rx = s.rx, t.got = s.got, t.due = s.due, t.lagged = s.lagged,
           t.lost = s.lost, t.silent => s.silent \/ s.due # 0
    PROVE  StreamOK(t, Append(ls, x), FALSE)
  <1> DEFINE u == Append(ls, x)
  <1>1. /\ s.pc = "open" /\ s.silent \in BOOLEAN /\ s.due \in Nat
        /\ Len(s.rx) \in Nat /\ Len(s.got) \in Nat
        /\ \A i \in 1..Len(s.rx) : s.rx[i] \in Nat
        /\ \A i \in 1..Len(s.got) : s.got[i].n \in Nat
    BY OpenedFields
  <1>2. Rises(s, Len(ls)) /\ Exact(s, Len(ls)) /\ Feeds(s, FALSE) /\ Genuine(s, ls)
    BY <1>1 DEF StreamOK
  <1>3. Genuine(s, u)
    BY <1>2, GenuineGrows
  <1>4. Len(u) = Len(ls) + 1 /\ Len(ls) \in Nat
    BY Appended
  <1> HIDE DEF u
  <1>6. t.silent => s.lost
    BY <1>2 DEF Feeds
  <1>7. t.pc = "open"
    BY OpenedFields
  <1>8. Rises(t, Len(u))
    <2>1. \A k \in Nat : k <= Len(ls) => k <= Len(u)
      BY <1>4
    <2>2. \A i \in 1..Len(s.got) : s.got[i].n <= Len(u)
      BY <2>1, <1>1, <1>2 DEF Rises
    <2>3. \A j \in 1..Len(s.rx) : s.rx[j] <= Len(u)
      BY <2>1, <1>1, <1>2 DEF Rises
    <2> QED BY <2>2, <2>3, <1>2, <1>7 DEF Rises
  <1>9. Exact(t, Len(u))
    <2>1. s.due # 0 => s.lost
      BY <1>2 DEF Feeds
    <2>2. s.due <= Len(u) + 1
      BY <1>1, <1>2, <1>4 DEF Exact
    <2>3. s.due = 0 => s.got = <<>> /\ s.rx = <<>>
      BY <1>2 DEF Exact
    <2> QED BY <2>1, <2>2, <2>3, <1>7 DEF Exact
  <1>10. Genuine(t, u)
    BY <1>3, <1>7 DEF Genuine
  <1>11. Feeds(t, FALSE)
    BY <1>2, <1>6, <1>7 DEF Feeds
  <1>12. StreamOK(t, u, FALSE)
    BY <1>8, <1>9, <1>10, <1>11 DEF StreamOK
  <1> QED BY <1>12 DEF u

LEMMA WritesPreserve ==
    ASSUME LogInv, NEW text \in Text, PmpWrites(text)
    PROVE  LogInv'
  <1> DEFINE number == IF numbered THEN Len(lines) + 1 - base ELSE None
  <1> DEFINE x == [line |-> text, seq |-> number]
  <1>0. LogTypeOK
    BY DEF LogInv
  <1>1. /\ lines \in Seq(Written) /\ Len(lines) \in Nat /\ Len(lines) < MaxLines /\ fed \in BOOLEAN
        /\ numbered \in BOOLEAN /\ base \in 0..Len(lines) /\ lines' = Append(lines, x)
        /\ UNCHANGED <<numbered, base, up, asked, fed, losses>>
    BY <1>0, LogsAssumption DEF LogTypeOK, PmpWrites
  <1>a. number \in (1..MaxLines) \cup {None}
    BY <1>1, LogsAssumption
  <1>b. x \in Written /\ x.seq = number
    BY <1>a DEF Written
  <1> HIDE DEF x
  <1>2. /\ lines' \in Seq(Written) /\ Len(lines') = Len(lines) + 1
        /\ \A i \in 1..Len(lines) : lines'[i] = lines[i]
        /\ lines'[Len(lines) + 1] = x
    BY <1>1, <1>b, Appended
  <1>3. ASSUME NEW v \in Viewer
        PROVE  /\ viewer'[v] \in Opened \cup Beginning
               /\ viewer'[v].pc = "open" => Len(viewer'[v].rx) <= LineCapacity
               /\ StreamOK(viewer'[v], lines', fed)
    <2> DEFINE s == viewer[v]
    <2>1. viewer'[v] = IF fed THEN Into(s, Len(lines) + 1)
                       ELSE IF s.pc = "open" /\ s.due # 0 THEN [s EXCEPT !.silent = TRUE] ELSE s
      BY DEF PmpWrites
    <2>2. /\ s \in Opened \cup Beginning /\ (s.pc = "open" <=> s \in Opened)
          /\ s.pc = "open" => Len(s.rx) <= LineCapacity
          /\ StreamOK(s, lines, fed)
      BY ViewerKinds
    <2> HIDE DEF s
    <2>3. CASE s \notin Opened
      <3>1. s.pc # "open" /\ viewer'[v] = s
        BY <2>1, <2>2, <2>3 DEF Into
      <3> QED BY <2>2, <3>1 DEF StreamOK
    <2>4. CASE s \in Opened /\ fed
      <3>1. StreamOK(s, lines, TRUE) /\ Len(s.rx) <= LineCapacity /\ fed = TRUE
        BY <2>2, <2>4, <1>1
      <3>2. /\ Into(s, Len(lines) + 1) \in Opened
            /\ Len(Into(s, Len(lines) + 1).rx) <= LineCapacity
            /\ StreamOK(Into(s, Len(lines) + 1), Append(lines, x), TRUE)
        BY <2>4, <3>1, <1>1, <1>b, IntoKeeps
      <3> QED BY <2>1, <2>4, <3>1, <3>2, <1>1
    <2>5. CASE s \in Opened /\ ~fed
      <3> DEFINE c == (s.silent \/ s.due # 0)
      <3> DEFINE t == [s EXCEPT !.silent = c]
      <3>1. StreamOK(s, lines, FALSE) /\ fed = FALSE /\ s.pc = "open" /\ s.silent \in BOOLEAN
        BY <2>2, <2>5, <1>1, OpenedFields
      <3>2. /\ t \in Opened /\ t.rx = s.rx /\ t.got = s.got /\ t.due = s.due /\ t.lagged = s.lagged
            /\ t.lost = s.lost /\ (t.silent => s.silent \/ s.due # 0)
        <4>1. c \in BOOLEAN /\ (c => s.silent \/ s.due # 0)
          OBVIOUS
        <4> HIDE DEF c
        <4> QED BY <4>1, <2>5 DEF Opened
      <3>3. viewer'[v] = t
        <4>1. CASE s.due # 0
          BY <2>1, <2>5, <3>1, <4>1
        <4>2. CASE s.due = 0
          <5>1. viewer'[v] = s
            BY <2>1, <2>5, <4>2
          <5>2. t = [s EXCEPT !.silent = s.silent]
            BY <3>1, <4>2
          <5>3. \A r \in Opened : [r EXCEPT !.silent = r.silent] = r
            BY DEF Opened
          <5> QED BY <5>1, <5>2, <5>3, <2>5
        <4> QED BY <4>1, <4>2
      <3> HIDE DEF t
      <3>4. StreamOK(t, Append(lines, x), FALSE)
        BY <2>5, <3>1, <3>2, <1>1, <1>b, UnfedKeeps
      <3> QED BY <2>2, <3>1, <3>2, <3>3, <3>4, <1>1
    <2> QED BY <2>3, <2>4, <2>5
  <1>4. viewer' \in [Viewer -> Opened \cup Beginning]
    <2>1. viewer' = [v \in Viewer |-> viewer'[v]]
      BY DEF PmpWrites
    <2> QED BY <2>1, <1>3
  <1>5. LogTypeOK'
    <2>1. Len(lines') <= MaxLines /\ base' \in 0..Len(lines')
      BY <1>1, <1>2, LogsAssumption
    <2> QED BY <2>1, <1>0, <1>1, <1>2, <1>3, <1>4 DEF LogTypeOK
  <1>6. NumberedInOrder'
    <2>1. /\ \A n \in (base + 1)..Len(lines) : numbered => lines[n].seq = n - base
          /\ \A n \in 1..Len(lines) : ~numbered => lines[n].seq = None
      BY DEF LogInv, NumberedInOrder
    <2>2. ASSUME NEW n \in (base + 1)..Len(lines'), numbered PROVE lines'[n].seq = n - base
      <3>1. CASE n = Len(lines) + 1
        BY <2>2, <3>1, <1>1, <1>2, <1>b
      <3>2. CASE n # Len(lines) + 1
        <4>1. n \in (base + 1)..Len(lines) /\ n \in 1..Len(lines)
          BY <3>2, <1>1, <1>2
        <4> QED BY <4>1, <2>1, <2>2, <1>2
      <3> QED BY <3>1, <3>2
    <2>3. ASSUME NEW n \in 1..Len(lines'), ~numbered PROVE lines'[n].seq = None
      <3>1. n \in 1..Len(lines) \/ n = Len(lines) + 1
        BY <1>1, <1>2
      <3> QED BY <3>1, <2>1, <2>3, <1>2, <1>b
    <2> QED BY <2>2, <2>3, <1>1 DEF NumberedInOrder
  <1> QED BY <1>1, <1>3, <1>5, <1>6 DEF LogInv

LEMMA LostPreserves ==
    ASSUME LogInv, ConnectionLost \/ PmpRestarts
    PROVE  LogInv'
  <1>0. LogTypeOK
    BY DEF LogInv
  <1>d. Dropped
    BY DEF ConnectionLost, PmpRestarts
  <1>1. /\ UNCHANGED <<numbered, lines>> /\ ~up' /\ ~asked' /\ ~fed' /\ losses' \in 0..MaxLosses
        /\ up' \in BOOLEAN /\ asked' \in BOOLEAN /\ fed' \in BOOLEAN /\ fed' = FALSE
    <2>1. losses' \in 0..MaxLosses
      <3>1. losses \in 0..MaxLosses /\ losses < MaxLosses /\ losses' = losses + 1
        BY <1>0, <1>d DEF LogTypeOK, Dropped
      <3> QED BY <3>1, LogsAssumption
    <2> QED BY <2>1, <1>d DEF Dropped
  <1>b. base' \in 0..Len(lines) /\ (base' = base \/ base' = Len(lines)) /\ Len(lines) \in Nat
    <2>1. base \in 0..Len(lines) /\ Len(lines) \in Nat
      BY <1>0 DEF LogTypeOK
    <2> QED BY <2>1 DEF ConnectionLost, PmpRestarts
  <1>2. ASSUME NEW v \in Viewer
        PROVE  /\ viewer'[v] \in Opened \cup Beginning
               /\ viewer'[v].pc = "open" => Len(viewer'[v].rx) <= LineCapacity
               /\ StreamOK(viewer'[v], lines, FALSE)
    <2> DEFINE s == viewer[v]
    <2> DEFINE t == [s EXCEPT !.lost = TRUE]
    <2>1. viewer'[v] = IF up /\ s.pc = "open" THEN t ELSE s
      BY <1>d DEF Dropped
    <2>2. /\ s \in Opened \cup Beginning /\ (s.pc = "open" <=> s \in Opened)
          /\ s.pc = "open" => Len(s.rx) <= LineCapacity
          /\ StreamOK(s, lines, fed)
      BY ViewerKinds
    <2> HIDE DEF s
    <2>3. CASE s.pc # "open"
      BY <2>1, <2>2, <2>3 DEF StreamOK
    <2>5. CASE ~up
      <3>1. fed = FALSE /\ viewer'[v] = s
        BY <2>1, <2>5, <1>0 DEF LogTypeOK
      <3> QED BY <3>1, <2>2
    <2>4. CASE up /\ s.pc = "open"
      <3>1. s \in Opened
        BY <2>2, <2>4
      <3>2. /\ t \in Opened /\ t.pc = "open" /\ t.rx = s.rx /\ t.got = s.got /\ t.due = s.due
            /\ t.lost = TRUE
        BY <3>1 DEF Opened
      <3>3. Rises(s, Len(lines)) /\ Exact(s, Len(lines)) /\ Genuine(s, lines)
        BY <2>2, <2>4 DEF StreamOK
      <3> HIDE DEF t
      <3>4. Rises(t, Len(lines)) /\ Genuine(t, lines)
        BY <3>2, <3>3 DEF Rises, Genuine
      <3>5. Exact(t, Len(lines)) /\ Feeds(t, FALSE)
        BY <3>2, <3>3 DEF Exact, Feeds
      <3>6. StreamOK(t, lines, FALSE)
        BY <3>4, <3>5 DEF StreamOK
      <3> QED BY <2>1, <2>2, <2>4, <3>2, <3>6
    <2> QED BY <2>3, <2>4, <2>5
  <1>3. viewer' \in [Viewer -> Opened \cup Beginning]
    <2>1. viewer' = [v \in Viewer |-> viewer'[v]]
      BY <1>d DEF Dropped
    <2> QED BY <2>1, <1>2
  <1>4. LogTypeOK'
    BY <1>0, <1>1, <1>b, <1>2, <1>3 DEF LogTypeOK
  <1>5. \A v \in Viewer : StreamOK(viewer'[v], lines', fed')
    BY <1>1, <1>2
  <1>6. NumberedInOrder'
    <2>1. NumberedInOrder
      BY DEF LogInv
    <2>2. CASE base' = base
      BY <2>1, <2>2, <1>1 DEF NumberedInOrder
    <2>3. CASE base' = Len(lines)
      <3>1. (base' + 1)..Len(lines) = {}
        BY <2>3, <1>b
      <3> QED BY <2>1, <3>1, <1>1 DEF NumberedInOrder
    <2> QED BY <2>2, <2>3, <1>b
  <1> QED BY <1>4, <1>5, <1>6 DEF LogInv

LEMMA LogStep == LogInv /\ [LogNext]_logVars => LogInv'
  <1> SUFFICES ASSUME LogInv, [LogNext]_logVars PROVE LogInv'
    OBVIOUS
  <1>0. LogTypeOK /\ NumberedInOrder /\ \A v \in Viewer : StreamOK(viewer[v], lines, fed)
    BY DEF LogInv
  <1>1. ASSUME NEW x \in Text, PmpWrites(x) PROVE LogInv'
    BY <1>1, WritesPreserve
  <1>2. CASE PmpSubscribes
    <2>1. fed' = TRUE /\ asked' = FALSE /\ UNCHANGED <<numbered, lines, base, up, losses, viewer>> /\ up
      BY <1>0, <1>2 DEF PmpSubscribes, LogTypeOK
    <2>2. LogTypeOK'
      BY <1>0, <2>1 DEF LogTypeOK
    <2>3. \A v \in Viewer : StreamOK(viewer[v], lines, TRUE)
      BY <1>0 DEF StreamOK, Feeds
    <2> QED BY <1>0, <2>1, <2>2, <2>3 DEF LogInv, NumberedInOrder
  <1>3. CASE ConnectionLost \/ PmpRestarts
    BY <1>3, LostPreserves
  <1>4. CASE Reconnected
    <2>1. up' = TRUE /\ UNCHANGED <<numbered, lines, base, asked, fed, losses, viewer>>
      BY <1>4 DEF Reconnected
    <2>2. LogTypeOK'
      BY <1>0, <2>1 DEF LogTypeOK
    <2> QED BY <1>0, <2>1, <2>2 DEF LogInv, NumberedInOrder
  <1>5. ASSUME NEW v \in Viewer,
               StreamBegin(v) \/ subscribe_stream(v) \/ stream(v) \/ LeaveLog(v) \/ Follow(v)
        PROVE  LogInv'
    BY <1>5, OpeningsPreserve, FollowPreserves
  <1>6. CASE UNCHANGED logVars
    BY <1>0, <1>6 DEF logVars, LogInv, LogTypeOK, NumberedInOrder
  <1> QED BY <1>1, <1>2, <1>3, <1>4, <1>5, <1>6 DEF LogNext

LEMMA Joined ==
    ASSUME NEW S, NEW a \in Seq(S), NEW b \in Seq(S)
    PROVE  a \o b = [i \in 1..(Len(a) + Len(b)) |-> IF i <= Len(a) THEN a[i] ELSE b[i - Len(a)]]
  <1> DEFINE c == a \o b
  <1>1. c \in Seq(S) /\ Len(c) = Len(a) + Len(b)
        /\ \A i \in 1..(Len(a) + Len(b)) : c[i] = IF i <= Len(a) THEN a[i] ELSE b[i - Len(a)]
    OBVIOUS
  <1> HIDE DEF c
  <1>2. c = [i \in 1..Len(c) |-> c[i]]
    BY <1>1
  <1>3. c = [i \in 1..(Len(a) + Len(b)) |-> IF i <= Len(a) THEN a[i] ELSE b[i - Len(a)]]
    BY <1>1, <1>2
  <1> QED BY <1>3 DEF c

LEMMA WholeStream == LogInv => StreamIsWhole
  <1> SUFFICES ASSUME LogInv PROVE StreamIsWhole
    OBVIOUS
  <1>0. LogTypeOK
    BY DEF LogInv
  <1> SUFFICES ASSUME NEW v \in Viewer, viewer[v].pc = "open"
               PROVE  LET s == viewer[v]
                          seen == [i \in 1..Len(s.got) |-> s.got[i].n] IN
                      /\ \A i \in 1..(Len(s.got) - 1) : seen[i] < seen[i + 1]
                      /\ s.silent => s.lost
                      /\ ~s.lagged /\ ~s.lost /\ s.due # 0 =>
                            seen \o s.rx = [i \in 1..(Len(lines) + 1 - s.due) |-> s.due + i - 1]
    BY <1>0 DEF StreamIsWhole
  <1> DEFINE s == viewer[v]
  <1> DEFINE g == Len(s.got)
  <1> DEFINE seen == [i \in 1..g |-> s.got[i].n]
  <1>1. s \in Opened /\ StreamOK(s, lines, fed) /\ s.pc = "open"
    BY ViewerKinds
  <1> HIDE DEF s
  <1>2. /\ s.rx \in Seq(1..MaxLines) /\ g \in Nat /\ Len(s.rx) \in Nat /\ s.due \in Nat
        /\ \A i \in 1..g : s.got[i].n \in Nat
        /\ \A i \in 1..Len(s.rx) : s.rx[i] \in Nat
    BY <1>1, OpenedFields
  <1>3. Rises(s, Len(lines)) /\ Exact(s, Len(lines)) /\ Feeds(s, fed)
    BY <1>1 DEF StreamOK
  <1>4. \A i \in 1..(g - 1) : seen[i] < seen[i + 1]
    <2> SUFFICES ASSUME NEW i \in 1..(g - 1) PROVE seen[i] < seen[i + 1]
      OBVIOUS
    <2>1. i \in 1..g /\ i + 1 \in 1..g /\ i < i + 1
      BY <1>2
    <2> QED BY <2>1, <1>3 DEF Rises
  <1>5. ASSUME ~s.lagged, ~s.lost, s.due # 0
        PROVE  seen \o s.rx = [i \in 1..(Len(lines) + 1 - s.due) |-> s.due + i - 1]
    <2> DEFINE m == Len(s.rx)
    <2> DEFINE f == s.due
    <2>1. /\ g + m = Len(lines) + 1 - f
          /\ \A i \in 1..g : s.got[i].n = f + i - 1
          /\ \A j \in 1..m : s.rx[j] = f + g + j - 1
      BY <1>3, <1>5 DEF Exact
    <2>2. seen \in Seq(Nat) /\ Len(seen) = g /\ \A i \in 1..g : seen[i] = f + i - 1
      BY <1>2, <2>1
    <2>3. s.rx \in Seq(Nat)
      BY <1>2
    <2> HIDE DEF seen
    <2>4. seen \o s.rx = [i \in 1..(g + m) |-> IF i <= g THEN seen[i] ELSE s.rx[i - g]]
      <3>1. seen \o s.rx = [i \in 1..(Len(seen) + Len(s.rx)) |->
                             IF i <= Len(seen) THEN seen[i] ELSE s.rx[i - Len(seen)]]
        BY <2>2, <2>3, Joined
      <3> QED BY <3>1, <2>2
    <2> HIDE DEF g, m, f
    <2>5. ASSUME NEW i \in 1..(g + m)
          PROVE  (IF i <= g THEN seen[i] ELSE s.rx[i - g]) = f + i - 1
      <3>1. g \in Nat /\ m \in Nat /\ f \in Nat
        BY <1>2 DEF m, f
      <3>2. CASE i <= g
        <4>1. i \in 1..g
          BY <3>1, <3>2
        <4> QED BY <4>1, <3>2, <2>2
      <3>3. CASE ~(i <= g)
        <4>1. i - g \in 1..m
          BY <3>1, <3>3
        <4>2. s.rx[i - g] = f + g + (i - g) - 1
          BY <4>1, <2>1
        <4>3. f + g + (i - g) - 1 = f + i - 1
          BY <3>1
        <4> QED BY <4>2, <4>3, <3>3
      <3> QED BY <3>2, <3>3
    <2>6. seen \o s.rx = [i \in 1..(g + m) |-> f + i - 1]
      BY <2>4, <2>5
    <2> QED BY <2>1, <2>6 DEF f
  <1>6. s.silent => s.lost
    BY <1>3 DEF Feeds
  <1> QED BY <1>4, <1>5, <1>6 DEF s

LEMMA LinesCount ==
    ASSUME NEW n \in Nat
    PROVE  IsFiniteSet(1..n) /\ Cardinality(1..n) = n
  <1>1. IsFiniteSet(1..n) /\ Cardinality(1..n) = IF 1 > n THEN 0 ELSE n - 1 + 1
    BY FS_Interval
  <1>2. (IF 1 > n THEN 0 ELSE n - 1 + 1) = n
    OBVIOUS
  <1> QED BY <1>1, <1>2

\* What a query for a line finds: on page 1, with a page that holds them all.
LEMMA FirstPage ==
    ASSUME NEW found \in SUBSET (1..Len(lines)), Len(lines) \in Nat, NEW p \in Nat,
           IsFiniteSet(found), Cardinality(found) <= p, NEW n \in found
    PROVE  Cardinality({m \in found : m <= n}) \in ((1 - 1) * p + 1)..(1 * p)
  <1> DEFINE S == {m \in found : m <= n}
  <1>1. S \subseteq found /\ n \in S
    OBVIOUS
  <1> HIDE DEF S
  <1>2. IsFiniteSet(S) /\ Cardinality(S) <= Cardinality(found)
    BY <1>1, FS_Subset
  <1>3. Cardinality(S) \in Nat /\ Cardinality(found) \in Nat /\ Cardinality(S) # 0
    BY <1>1, <1>2, FS_CardinalityType, FS_EmptySet
  <1>4. Cardinality(S) \in 1..p
    BY <1>2, <1>3
  <1>5. ((1 - 1) * p + 1)..(1 * p) = 1..p
    OBVIOUS
  <1> QED BY <1>4, <1>5 DEF S

LEMMA FocusLands == LogInv => FocusFindsTheLine
  <1> SUFFICES ASSUME LogInv, NEW v \in Viewer, viewer[v].pc = "open",
                      NEW i \in 1..Len(viewer[v].got), NEW limit \in 0..MaxLines,
                      NEW search \in {None, viewer[v].got[i].message}
               PROVE  LET e == viewer[v].got[i]
                          found == history(limit, e.log_id, search, 1, IF numbered THEN 1 ELSE MaxLines) IN
                      /\ e.n \in Window(limit) => e.n \in found
                      /\ (numbered => e.n > base) =>
                         \A n \in found : Entry(n).message = e.message
    BY DEF FocusFindsTheLine
  <1> DEFINE e == viewer[v].got[i]
  <1> DEFINE p == IF numbered THEN 1 ELSE MaxLines
  <1> DEFINE W == Window(limit)
  <1> DEFINE found == apply_log_filters(W, e.log_id, search)
  <1>0. /\ LogTypeOK /\ lines \in Seq(Written) /\ Len(lines) \in Nat /\ Len(lines) <= MaxLines
        /\ numbered \in BOOLEAN /\ base \in 0..Len(lines)
    BY DEF LogInv, LogTypeOK
  <1>1. viewer[v] \in Opened /\ Genuine(viewer[v], lines) /\ Rises(viewer[v], Len(lines))
    BY ViewerKinds DEF StreamOK
  <1>2. /\ e.message = lines[e.n].line /\ e.log_id = log_id_for(lines[e.n].line, lines[e.n].seq)
        /\ e.n \in 1..Len(lines)
    BY <1>0, <1>1, OpenedFields DEF Genuine, Rises
  <1>3. search \in {None, e.message}
    OBVIOUS
  <1> HIDE DEF e
  <1>4. ASSUME NEW n
        PROVE  /\ Entry(n).message = lines[n].line
               /\ Entry(n).log_id = log_id_for(lines[n].line, lines[n].seq)
    BY DEF Entry, history_entries_of, parse_log_line_with_seq
  <1>5. W \in SUBSET ((base + 1)..Len(lines)) /\ (base + 1)..Len(lines) \subseteq 1..Len(lines)
    BY <1>0 DEF Window, KeptLines
  <1> HIDE DEF W
  <1>6. found \in SUBSET (1..Len(lines)) /\ found \subseteq W
        /\ \A n \in found : Entry(n).log_id = e.log_id
    BY <1>5 DEF apply_log_filters
  \* Two lines of the running PMP with one number are one line.
  <1>a. ASSUME numbered, e.n > base, NEW n \in found PROVE n = e.n
    <2>1. n \in (base + 1)..Len(lines) /\ e.n \in (base + 1)..Len(lines)
      BY <1>0, <1>2, <1>5, <1>6, <1>a
    <2>2. lines[n].seq = n - base /\ lines[e.n].seq = e.n - base
      BY <2>1, <1>a DEF LogInv, NumberedInOrder
    <2>3. n - base \in Nat /\ e.n - base \in Nat
      BY <2>1, <1>0
    <2>4. log_id_for(lines[n].line, n - base) = log_id_for(lines[e.n].line, e.n - base)
      BY <2>2, <1>2, <1>4, <1>6
    <2>5. n - base # None /\ e.n - base # None
      BY <2>3, LogsAssumption
    <2>6. <<"pmp", n - base>> = <<"pmp", e.n - base>>
      BY <2>4, <2>5 DEF log_id_for
    <2>7. n - base = e.n - base
      BY <2>6
    <2> QED BY <2>1, <2>7, <1>0
  <1>7. ASSUME numbered => e.n > base, NEW n \in found PROVE Entry(n).message = e.message
    <2>1. CASE numbered
      BY <1>7, <1>a, <2>1, <1>2, <1>4
    <2>2. CASE ~numbered
      <3>1. lines[n].seq = None /\ lines[e.n].seq = None
        BY <1>2, <1>6, <2>2 DEF LogInv, NumberedInOrder
      <3>2. log_id_for(lines[n].line, None) = log_id_for(lines[e.n].line, None)
        BY <3>1, <1>2, <1>4, <1>6
      <3>3. <<"legacy", lines[n].line>> = <<"legacy", lines[e.n].line>>
        BY <3>2 DEF log_id_for
      <3> QED BY <3>3, <1>2, <1>4
    <2> QED BY <2>1, <2>2
  <1>8. e.n \in W => e.n \in found
    BY <1>2, <1>3, <1>4 DEF apply_log_filters
  <1>9. ASSUME numbered => e.n > base
        PROVE  IsFiniteSet(found) /\ Cardinality(found) <= p /\ p \in Nat
    <2>1. CASE numbered
      <3>1. found \subseteq {e.n}
        BY <1>9, <1>a, <2>1
      <3>2. IsFiniteSet({e.n}) /\ Cardinality({e.n}) = 1
        BY FS_Singleton
      <3> HIDE DEF found
      <3>3. IsFiniteSet(found) /\ Cardinality(found) <= 1
        BY <3>1, <3>2, FS_Subset
      <3> QED BY <3>3, <2>1
    <2>2. CASE ~numbered
      <3>1. IsFiniteSet(1..Len(lines)) /\ Cardinality(1..Len(lines)) = Len(lines)
        BY <1>0, LinesCount
      <3> HIDE DEF found
      <3>2. IsFiniteSet(found) /\ Cardinality(found) <= Len(lines)
        BY <3>1, <1>6, FS_Subset
      <3>3. Cardinality(found) \in Nat
        BY <3>2, FS_CardinalityType
      <3> QED BY <3>2, <3>3, <2>2, <1>0, LogsAssumption
    <2> QED BY <2>1, <2>2
  <1> DEFINE listed == history(limit, e.log_id, search, 1, p)
  <1>10. listed = {n \in found : Cardinality({m \in found : m <= n}) \in ((1 - 1) * p + 1)..(1 * p)}
    BY DEF history, W
  <1> HIDE DEF found, p, listed
  <1>11. ASSUME numbered => e.n > base PROVE listed = found
    <2>1. IsFiniteSet(found) /\ Cardinality(found) <= p /\ p \in Nat
      BY <1>9, <1>11
    <2>2. \A n \in found : Cardinality({m \in found : m <= n}) \in ((1 - 1) * p + 1)..(1 * p)
      BY <1>0, <1>6, <2>1, FirstPage
    <2> QED BY <2>2, <1>10
  <1>12. e.n \in W => e.n > base
    <2>1. \A m \in (base + 1)..Len(lines) : m > base
      BY <1>0
    <2> QED BY <2>1, <1>5
  <1>13. /\ e.n \in W => e.n \in listed
         /\ (numbered => e.n > base) => \A n \in listed : Entry(n).message = e.message
    BY <1>7, <1>8, <1>11, <1>12
  <1> QED BY <1>13 DEF listed, p, e, W

(* A viewer's stream shows every line from the first that PMP fed it,      *)
(* unless it lagged or the connection was lost, for any number of viewers  *)
(* and lines and any capacity of their receivers.  logs/routes.rs:215-256. *)
LEMMA StreamsStayWhole == LogSpec => []StreamIsWhole
  <1> QED BY LogInitially, LogStep, WholeStream, PTL DEF LogSpec

(* The log id of a line that a stream showed finds that line as long as    *)
(* PMP keeps it and the window reaches it, on the first page of one entry  *)
(* when PMP numbers its lines, and, while that PMP runs, nothing that says *)
(* something else.  logs/routes.rs:80-139.                                 *)
LEMMA FocusAlwaysLands == LogSpec => []FocusFindsTheLine
  <1> QED BY LogInitially, LogStep, FocusLands, PTL DEF LogSpec

(* A viewer's stream of PMP's log is whole and what it showed is found in  *)
(* the window of the history, across lost connections and restarts of PMP, *)
(* for any lines, viewers, rings, windows and capacities.                  *)
(* logs/routes.rs:80-256.                                                  *)
THEOREM LogsStayWhole == LogSpec => []LogsAreWhole
  BY StreamsStayWhole, FocusAlwaysLands, PTL DEF LogsAreWhole

-----------------------------------------------------------------------------
(* A replay's data.                                                        *)

\* What a reader has of a log: the recording's batches up to its cursor, in
\* whole pages as long as it goes on.
Paged(s, lg) ==
    s.pc \in {"page", "done"} =>
        /\ s.since <= Len(lg)
        /\ s.all = {i \in 1..s.since : lg[i] = s.recording}
        /\ s.len = Cardinality(s.all)
        /\ s.had \subseteq {i \in 1..Len(lg) : lg[i] = s.recording}
        /\ s.pc = "done" => s.had \subseteq s.all
        /\ s.pc = "page" /\ s.mode = "all" => s.len % MAX_PAGE = 0

\* A round that a reader has not named yet lies behind its offset: rounds that
\* end meanwhile move it back or leave it where it is.
Named(s, num, first) ==
    s.pc \in {"rounds", "listed"} =>
        /\ s.had <= num /\ s.offset <= num
        /\ s.pc = "rounds" =>
              \A k \in 1..s.had : k \in s.named \/ (IF first THEN num + 1 - k ELSE k) > s.offset
        /\ s.pc = "listed" => 1..s.had \subseteq s.named

PagesInv ==
    /\ PagesTypeOK
    /\ \A c \in Handler : Paged(reader[c], log) /\ Named(reader[c], rounds, newest)

LEMMA PagesInitially == PagesInit => PagesInv
  <1> SUFFICES ASSUME PagesInit PROVE PagesInv
    OBVIOUS
  <1>1. reader \in [Handler -> Paging \cup Naming \cup {Idle}] /\ \A c \in Handler : reader[c] = Idle
    BY DEF PagesInit
  <1>2. Idle.pc = "idle"
    BY DEF Idle
  <1> HIDE DEF Idle
  <1>3. log \in Seq(Recording) /\ Len(log) <= MaxLog /\ rounds \in 0..MaxRounds /\ newest \in BOOLEAN
    BY PagesAssumption DEF PagesInit
  <1> QED BY <1>1, <1>2, <1>3 DEF PagesInv, PagesTypeOK, Paged, Named

LEMMA ReaderKinds ==
    ASSUME PagesInv, NEW c \in Handler
    PROVE  /\ reader[c].pc \in {"page", "done"} <=> reader[c] \in Paging
           /\ reader[c].pc \in {"rounds", "listed"} <=> reader[c] \in Naming
           /\ Paged(reader[c], log) /\ Named(reader[c], rounds, newest)
  <1>1. reader[c] \in Paging \cup Naming \cup {Idle} /\ Paged(reader[c], log)
        /\ Named(reader[c], rounds, newest)
    BY DEF PagesInv, PagesTypeOK
  <1>2. Idle.pc = "idle"
    BY DEF Idle
  <1>3. \A s \in Paging : s.pc \in {"page", "done"}
    BY DEF Paging
  <1>4. \A s \in Naming : s.pc \in {"rounds", "listed"}
    BY DEF Naming
  <1> HIDE DEF Idle
  <1> QED BY <1>1, <1>2, <1>3, <1>4

\* A step that moves one reader.
LEMMA OneReaderMoves ==
    ASSUME PagesInv, NEW c \in Handler, NEW s \in Paging \cup Naming \cup {Idle},
           reader' = [reader EXCEPT ![c] = s], UNCHANGED <<log, rounds, newest>>,
           Paged(s, log), Named(s, rounds, newest)
    PROVE  PagesInv'
  <1>1. PagesTypeOK /\ \A d \in Handler : Paged(reader[d], log) /\ Named(reader[d], rounds, newest)
    BY DEF PagesInv
  <1>2. reader' \in [Handler -> Paging \cup Naming \cup {Idle}]
        /\ \A d \in Handler : reader'[d] = IF d = c THEN s ELSE reader[d]
    BY <1>1 DEF PagesTypeOK
  <1>3. \A d \in Handler : Paged(reader'[d], log) /\ Named(reader'[d], rounds, newest)
    BY <1>1, <1>2
  <1>4. PagesTypeOK'
    BY <1>1, <1>2 DEF PagesTypeOK
  <1> QED BY <1>3, <1>4 DEF PagesInv

LEMMA ArrivalPreserves ==
    ASSUME PagesInv, NEW r \in Recording, BatchArrives(r)
    PROVE  PagesInv'
  <1>1. PagesTypeOK /\ \A d \in Handler : Paged(reader[d], log) /\ Named(reader[d], rounds, newest)
    BY DEF PagesInv
  <1>2. log \in Seq(Recording) /\ Len(log) < MaxLog /\ Len(log) \in Nat /\ log' = Append(log, r)
        /\ UNCHANGED <<rounds, newest, reader>>
    BY <1>1 DEF BatchArrives, PagesTypeOK
  <1>3. log' \in Seq(Recording) /\ Len(log') = Len(log) + 1 /\ \A i \in 1..Len(log) : log'[i] = log[i]
    BY <1>2, Appended
  <1>4. ASSUME NEW d \in Handler PROVE Paged(reader[d], log')
    <2> DEFINE s == reader[d]
    <2> SUFFICES ASSUME s.pc \in {"page", "done"} PROVE Paged(s, log')
      BY DEF Paged
    <2>1. s \in Paging /\ Paged(s, log)
      BY ReaderKinds
    <2> HIDE DEF s
    <2>2. s.since \in Nat
      BY <2>1, PagesAssumption DEF Paging
    <2>3. /\ s.since <= Len(log) /\ s.all = {i \in 1..s.since : log[i] = s.recording}
          /\ s.len = Cardinality(s.all)
          /\ s.had \subseteq {i \in 1..Len(log) : log[i] = s.recording}
          /\ s.pc = "done" => s.had \subseteq s.all
          /\ s.pc = "page" /\ s.mode = "all" => s.len % MAX_PAGE = 0
      BY <2>1 DEF Paged
    <2>4. s.since <= Len(log')
      BY <1>2, <1>3, <2>2, <2>3
    <2>5. s.all = {i \in 1..s.since : log'[i] = s.recording}
      BY <1>2, <1>3, <2>2, <2>3
    <2>6. s.had \subseteq {i \in 1..Len(log') : log'[i] = s.recording}
      BY <1>2, <1>3, <2>3
    <2> QED BY <2>3, <2>4, <2>5, <2>6 DEF Paged
  <1>5. PagesTypeOK'
    <2>1. Len(log') <= MaxLog
      BY <1>2, <1>3, PagesAssumption
    <2> QED BY <1>1, <1>2, <1>3, <2>1 DEF PagesTypeOK
  <1> QED BY <1>1, <1>2, <1>4, <1>5 DEF PagesInv

LEMMA RoundEndsPreserves ==
    ASSUME PagesInv, RoundEnds
    PROVE  PagesInv'
  <1>1. PagesTypeOK /\ \A d \in Handler : Paged(reader[d], log) /\ Named(reader[d], rounds, newest)
    BY DEF PagesInv
  <1>2. rounds \in 0..MaxRounds /\ rounds < MaxRounds /\ rounds' = rounds + 1
        /\ UNCHANGED <<log, newest, reader>> /\ rounds \in Nat
    BY <1>1, PagesAssumption DEF RoundEnds, PagesTypeOK
  <1>3. ASSUME NEW d \in Handler PROVE Named(reader[d], rounds', newest)
    <2> DEFINE s == reader[d]
    <2> SUFFICES ASSUME s.pc \in {"rounds", "listed"} PROVE Named(s, rounds', newest)
      BY DEF Named
    <2>1. s \in Naming /\ Named(s, rounds, newest)
      BY ReaderKinds
    <2> HIDE DEF s
    <2>2. s.had \in Nat /\ s.offset \in Nat
      BY <2>1, PagesAssumption DEF Naming
    <2>3. /\ s.had <= rounds /\ s.offset <= rounds
          /\ s.pc = "listed" => 1..s.had \subseteq s.named
      BY <2>1 DEF Named
    <2>4. ASSUME s.pc = "rounds", NEW k \in 1..s.had, k \notin s.named
          PROVE  (IF newest THEN rounds' + 1 - k ELSE k) > s.offset
      <3>1. (IF newest THEN rounds + 1 - k ELSE k) > s.offset
        BY <2>1, <2>4 DEF Named
      <3>2. CASE newest
        <4>1. rounds + 1 - k > s.offset
          BY <3>1, <3>2
        <4> QED BY <4>1, <3>2, <1>2, <2>2
      <3>3. CASE ~newest
        BY <3>1, <3>3
      <3> QED BY <3>2, <3>3
    <2>5. s.had <= rounds' /\ s.offset <= rounds'
      BY <1>2, <2>2, <2>3
    <2> QED BY <2>3, <2>4, <2>5 DEF Named
  <1>4. PagesTypeOK'
    <2>1. rounds' \in 0..MaxRounds
      BY <1>2, PagesAssumption
    <2> QED BY <1>1, <1>2, <2>1 DEF PagesTypeOK
  <1> QED BY <1>1, <1>2, <1>3, <1>4 DEF PagesInv

LEMMA StartsPreserve ==
    ASSUME PagesInv, NEW c \in Handler,
           \/ \E r \in Recording, mode \in {"all", "socket"} : Start(c, r, mode)
           \/ StartRounds(c) \/ Finish(c)
    PROVE  PagesInv'
  <1>0. /\ log \in Seq(Recording) /\ Len(log) \in Nat /\ Len(log) <= MaxLog
        /\ rounds \in Nat /\ rounds \in 0..MaxRounds /\ newest \in BOOLEAN
    BY PagesAssumption DEF PagesInv, PagesTypeOK
  <1>1. ASSUME NEW r \in Recording, NEW mode \in {"all", "socket"}, Start(c, r, mode)
        PROVE  PagesInv'
    <2> DEFINE h == BatchesAfter(r, 0)
    <2> DEFINE s == [pc |-> "page", recording |-> r, mode |-> mode, all |-> {},
                     len |-> 0, since |-> 0, had |-> h]
    <2>1. reader' = [reader EXCEPT ![c] = s] /\ UNCHANGED <<log, rounds, newest>>
      BY <1>1 DEF Start
    <2>2. h \in SUBSET (1..MaxLog) /\ h \subseteq {i \in 1..Len(log) : log[i] = r}
      BY <1>0, PagesAssumption DEF BatchesAfter
    <2> HIDE DEF h
    <2>3. s \in Paging /\ s.pc = "page" /\ s.recording = r /\ s.all = {} /\ s.len = 0 /\ s.since = 0
          /\ s.had = h
      BY <2>2, PagesAssumption DEF Paging
    <2> HIDE DEF s
    <2>4. Cardinality({}) = 0 /\ 0 % MAX_PAGE = 0
      BY FS_EmptySet, PagesAssumption
    <2>5. Paged(s, log) /\ Named(s, rounds, newest)
      BY <1>0, <2>2, <2>3, <2>4 DEF Paged, Named
    <2> QED BY <2>1, <2>3, <2>5, OneReaderMoves
  <1>2. CASE StartRounds(c)
    <2> DEFINE s == [pc |-> "rounds", named |-> {}, offset |-> 0, had |-> rounds]
    <2>1. reader' = [reader EXCEPT ![c] = s] /\ UNCHANGED <<log, rounds, newest>>
      BY <1>2 DEF StartRounds
    <2>2. s \in Naming /\ s.pc = "rounds" /\ s.named = {} /\ s.offset = 0 /\ s.had = rounds
      BY <1>0, PagesAssumption DEF Naming
    <2> HIDE DEF s
    <2>3. \A k \in 1..rounds : (IF newest THEN rounds + 1 - k ELSE k) > 0
      BY <1>0
    <2>4. Paged(s, log) /\ Named(s, rounds, newest)
      BY <1>0, <2>2, <2>3 DEF Paged, Named
    <2> QED BY <2>1, <2>2, <2>4, OneReaderMoves
  <1>3. CASE Finish(c)
    <2>1. reader' = [reader EXCEPT ![c] = Idle] /\ UNCHANGED <<log, rounds, newest>>
      BY <1>3 DEF Finish
    <2>2. Idle.pc = "idle"
      BY DEF Idle
    <2>3. Paged(Idle, log) /\ Named(Idle, rounds, newest)
      BY <2>2 DEF Paged, Named
    <2> QED BY <2>1, <2>3, OneReaderMoves
  <1> QED BY <1>1, <1>2, <1>3

LEMMA WholePages ==
    ASSUME NEW a \in Nat, NEW m \in Nat \ {0}, a % m = 0
    PROVE  (a + m) % m = 0
  <1>1. \A b \in Int, q \in Int : b = m * q => b % m = 0
    OBVIOUS
  <1>2. PICK q \in Int : a = m * q
    <2>1. a = m * (a \div m) + (a % m) /\ a \div m \in Int
      OBVIOUS
    <2>2. a = m * (a \div m)
      BY <2>1
    <2> QED BY <2>1, <2>2
  <1>3. a + m = m * (q + 1) /\ q + 1 \in Int /\ a + m \in Int
    BY <1>2
  <1> QED BY <1>1, <1>3

\* One page of batches.
LEMMA PagePreserves ==
    ASSUME PagesInv, NEW c \in Handler, reader[c].pc = "page",
           NEW page \in fetch_batches(reader[c].recording, reader[c].since), NEW next \in 0..Len(log),
           IsCursor(next, page, reader[c].since), NEW final \in BOOLEAN,
           reader[c].mode = "all" => final = ((reader[c].len + Cardinality(page)) % MAX_PAGE # 0),
           reader[c].mode = "socket" => ~final,
           TakePage(c, page, next, final)
    PROVE  PagesInv'
  <1> DEFINE s == reader[c]
  <1> DEFINE a == s.all \cup page
  <1> DEFINE n == s.len + Cardinality(page)
  <1> DEFINE p == IF page = {} \/ final THEN "done" ELSE "page"
  <1> DEFINE t == [s EXCEPT !.all = a, !.len = n, !.since = next, !.pc = p]
  <1> DEFINE later == {i \in 1..Len(log) : log[i] = s.recording /\ i > s.since}
  <1>0. log \in Seq(Recording) /\ Len(log) \in Nat /\ Len(log) <= MaxLog
    BY DEF PagesInv, PagesTypeOK
  <1>1. reader' = [reader EXCEPT ![c] = t] /\ UNCHANGED <<log, rounds, newest>>
    BY DEF TakePage
  <1>2. s \in Paging /\ Paged(s, log)
    BY ReaderKinds
  <1>3. /\ page \in SUBSET later /\ \A i \in page, j \in later : j < i => j \in page
        /\ Cardinality(page) <= MAX_PAGE
        /\ Cardinality(page) < MAX_PAGE => page = later
    BY DEF fetch_batches, BatchesAfter
  <1>4. /\ IF page = {} THEN next = s.since ELSE next \in page /\ \A i \in page : i <= next
        /\ s.pc = "page"
        /\ s.mode = "all" => final = (n % MAX_PAGE # 0)
        /\ s.mode = "socket" => ~final
    BY DEF IsCursor
  <1> HIDE DEF s
  <1>5. /\ s.since \in Nat /\ s.len \in Nat /\ s.all \in SUBSET (1..MaxLog) /\ s.mode \in {"all", "socket"}
        /\ s.recording \in Recording /\ s.had \in SUBSET (1..MaxLog)
    BY <1>2, PagesAssumption DEF Paging
  <1>6. /\ s.since <= Len(log) /\ s.all = {i \in 1..s.since : log[i] = s.recording}
        /\ s.len = Cardinality(s.all)
        /\ s.had \subseteq {i \in 1..Len(log) : log[i] = s.recording}
        /\ s.mode = "all" => s.len % MAX_PAGE = 0
    BY <1>2, <1>4 DEF Paged
  <1>7. IsFiniteSet(page) /\ IsFiniteSet(s.all) /\ Cardinality(page) \in Nat
    <2>1. IsFiniteSet(1..Len(log)) /\ IsFiniteSet(1..s.since)
      BY <1>0, <1>5, LinesCount
    <2>2. page \subseteq 1..Len(log) /\ s.all \subseteq 1..s.since
      BY <1>3, <1>6
    <2>3. IsFiniteSet(page) /\ IsFiniteSet(s.all)
      BY <2>1, <2>2, FS_Subset
    <2> QED BY <2>3, FS_CardinalityType
  <1>8. a = {i \in 1..next : log[i] = s.recording}
    <2>1. CASE page = {}
      BY <2>1, <1>4, <1>6
    <2>2. CASE page # {}
      <3>1. next \in page /\ next \in Nat /\ next > s.since /\ next \in later /\ \A i \in page : i <= next
        <4>1. next \in page /\ \A i \in page : i <= next
          BY <2>2, <1>4
        <4>2. next \in later
          BY <4>1, <1>3
        <4> QED BY <4>1, <4>2
      <3>2. ASSUME NEW i \in a PROVE i \in 1..next /\ log[i] = s.recording
        <4>1. CASE i \in s.all
          BY <4>1, <3>1, <1>5, <1>6
        <4>2. CASE i \in page
          BY <4>2, <3>1, <1>3
        <4> QED BY <4>1, <4>2
      <3>3. ASSUME NEW i \in 1..next, log[i] = s.recording PROVE i \in a
        <4>1. CASE i <= s.since
          BY <4>1, <3>3, <1>5, <1>6
        <4>2. CASE i > s.since
          <5>1. i \in later
            BY <4>2, <3>1, <3>3, <1>0
          <5>2. i = next \/ i < next
            BY <3>1
          <5> QED BY <5>1, <5>2, <3>1, <1>3
        <4> QED BY <4>1, <4>2, <1>5
      <3> QED BY <3>2, <3>3
    <2> QED BY <2>1, <2>2
  <1>9. n = Cardinality(a) /\ n \in Nat
    <2>1. s.all \cap page = {}
      BY <1>3, <1>5, <1>6
    <2>2. Cardinality(a) = Cardinality(s.all) + Cardinality(page) - Cardinality(s.all \cap page)
      BY <1>7, FS_Union
    <2>3. Cardinality({}) = 0
      BY FS_EmptySet
    <2> HIDE DEF a
    <2>4. Cardinality(a) = s.len + Cardinality(page) - 0 /\ s.len \in Nat /\ Cardinality(page) \in Nat
      BY <2>1, <2>2, <2>3, <1>5, <1>6, <1>7
    <2> QED BY <2>4
  <1>10. page = later => s.had \subseteq a
    BY <1>5, <1>6
  <1>11. p = "done" => page = later
    <2>1. CASE page = {}
      <3>1. Cardinality(page) = 0
        BY <2>1, FS_EmptySet
      <3> QED BY <3>1, <1>3, PagesAssumption
    <2>2. CASE page # {} /\ final
      <3>1. s.mode = "all" /\ n % MAX_PAGE # 0 /\ s.len % MAX_PAGE = 0
        BY <2>2, <1>4, <1>5, <1>6
      <3>2. Cardinality(page) # MAX_PAGE
        BY <3>1, <1>5, WholePages, PagesAssumption
      <3> QED BY <3>2, <1>3, <1>7, PagesAssumption
    <2> QED BY <2>1, <2>2
  <1>12. p = "page" /\ s.mode = "all" => n % MAX_PAGE = 0
    BY <1>4
  <1>13. p \in {"page", "done"}
    OBVIOUS
  <1>14. a \in SUBSET (1..MaxLog) /\ next \in 0..MaxLog
    <2>1. 1..Len(log) \subseteq 1..MaxLog /\ next \in 0..MaxLog
      BY <1>0, PagesAssumption
    <2>2. page \subseteq 1..Len(log)
      BY <1>3
    <2> QED BY <2>1, <2>2, <1>5
  <1> HIDE DEF a, n, p
  <1>15. /\ t \in Paging /\ t.pc = p /\ t.all = a /\ t.len = n /\ t.since = next
         /\ t.recording = s.recording /\ t.mode = s.mode /\ t.had = s.had
    BY <1>2, <1>9, <1>13, <1>14 DEF Paging
  <1> HIDE DEF t
  <1>16. next <= Len(log)
    BY <1>0
  <1>17. Paged(t, log)
    BY <1>6, <1>8, <1>9, <1>10, <1>11, <1>12, <1>15, <1>16 DEF Paged
  <1>18. Named(t, rounds, newest)
    BY <1>13, <1>15 DEF Named
  <1> QED BY <1>1, <1>15, <1>17, <1>18, OneReaderMoves

\* One page of rounds.
LEMMA RoundsPagePreserves ==
    ASSUME PagesInv, NEW c \in Handler, NEW says \in BOOLEAN, RoundsPage(c, says)
    PROVE  PagesInv'
  <1> DEFINE s == reader[c]
  <1> DEFINE page == RoundsOfPage(s.offset)
  <1> DEFINE k == Cardinality(page)
  <1> DEFINE next == s.offset + k
  <1> DEFINE more == (says /\ next < rounds) \/ k = PAGE
  <1> DEFINE g == s.named \cup {RoundAt(i) : i \in page}
  <1> DEFINE p == IF more THEN "rounds" ELSE "listed"
  <1> DEFINE t == [s EXCEPT !.named = g, !.offset = next, !.pc = p]
  <1>0. rounds \in Nat /\ rounds \in 0..MaxRounds /\ newest \in BOOLEAN
    BY PagesAssumption DEF PagesInv, PagesTypeOK
  <1>1. reader' = [reader EXCEPT ![c] = t] /\ UNCHANGED <<log, rounds, newest>> /\ s.pc = "rounds"
    BY DEF RoundsPage, ListRounds
  <1>2. s \in Naming /\ Named(s, rounds, newest)
    BY <1>1, ReaderKinds
  <1> HIDE DEF s
  <1>3. s.named \in SUBSET (1..MaxRounds) /\ s.offset \in Nat /\ s.had \in Nat
    BY <1>2, PagesAssumption DEF Naming
  <1>4. /\ s.had <= rounds /\ s.offset <= rounds
        /\ \A q \in 1..s.had : q \in s.named \/ (IF newest THEN rounds + 1 - q ELSE q) > s.offset
    BY <1>1, <1>2 DEF Named
  <1> DEFINE m == IF s.offset + PAGE < rounds THEN s.offset + PAGE ELSE rounds
  <1>5. page = (s.offset + 1)..m /\ m \in Nat /\ m >= s.offset /\ m <= rounds
    BY <1>0, <1>3, <1>4, PagesAssumption DEF RoundsOfPage
  <1>6. k = m - s.offset /\ k \in Nat
    <2>1. k = IF s.offset + 1 > m THEN 0 ELSE m - (s.offset + 1) + 1
      <3>1. s.offset + 1 \in Int /\ m \in Int /\ page = (s.offset + 1)..m
        BY <1>3, <1>5
      <3> HIDE DEF m, page
      <3> QED BY <3>1, FS_Interval
    <2> QED BY <2>1, <1>3, <1>5
  <1>7. next = m
    BY <1>3, <1>5, <1>6
  <1>8. ~more => m = rounds
    BY <1>0, <1>3, <1>4, <1>6, PagesAssumption
  <1>9. \A q \in 1..s.had : q \in g \/ (IF newest THEN rounds + 1 - q ELSE q) > m
    <2> SUFFICES ASSUME NEW q \in 1..s.had, q \notin s.named,
                        ~((IF newest THEN rounds + 1 - q ELSE q) > m)
                 PROVE  q \in g
      OBVIOUS
    <2> DEFINE i == IF newest THEN rounds + 1 - q ELSE q
    <2>1. i > s.offset /\ i \in Int
      BY <1>0, <1>3, <1>4
    <2>2. RoundAt(i) = q
      BY <1>0, <1>3 DEF RoundAt
    <2> HIDE DEF i
    <2>3. i \in page
      BY <2>1, <1>3, <1>5 DEF i
    <2> QED BY <2>2, <2>3
  <1>10. ~more => 1..s.had \subseteq g
    <2> SUFFICES ASSUME ~more, NEW q \in 1..s.had PROVE q \in g
      OBVIOUS
    <2>1. m = rounds
      BY <1>8
    <2>2. ~((IF newest THEN rounds + 1 - q ELSE q) > rounds)
      BY <1>0, <1>3, <1>4
    <2> QED BY <2>1, <2>2, <1>9
  <1>11. g \in SUBSET (1..MaxRounds)
    <2>1. \A i \in page : RoundAt(i) \in 1..MaxRounds
      BY <1>0, <1>3, <1>5, PagesAssumption DEF RoundAt
    <2> QED BY <2>1, <1>3
  <1>12. m \in 0..MaxRounds /\ m <= rounds
    BY <1>0, <1>5, PagesAssumption
  <1>13. p \in {"rounds", "listed"} /\ (p = "listed" => ~more)
    OBVIOUS
  <1> HIDE DEF g, m, next, p, more, k, page
  <1>14. /\ t \in Naming /\ t.pc = p /\ t.named = g /\ t.offset = m /\ t.had = s.had
    BY <1>2, <1>7, <1>11, <1>12, <1>13 DEF Naming
  <1> HIDE DEF t
  <1>15. Paged(t, log)
    BY <1>13, <1>14 DEF Paged
  <1>16. Named(t, rounds, newest)
    BY <1>4, <1>9, <1>10, <1>12, <1>13, <1>14 DEF Named
  <1> QED BY <1>1, <1>14, <1>15, <1>16, OneReaderMoves

LEMMA PagesStep == PagesInv /\ [PagesNext]_pageVars => PagesInv'
  <1> SUFFICES ASSUME PagesInv, [PagesNext]_pageVars PROVE PagesInv'
    OBVIOUS
  <1>1. ASSUME NEW r \in Recording, BatchArrives(r) PROVE PagesInv'
    BY <1>1, ArrivalPreserves
  <1>2. CASE RoundEnds
    BY <1>2, RoundEndsPreserves
  <1>3. ASSUME NEW c \in Handler,
               \/ \E r \in Recording, mode \in {"all", "socket"} : Start(c, r, mode)
               \/ StartRounds(c) \/ Finish(c)
        PROVE  PagesInv'
    BY <1>3, StartsPreserve
  <1>4. ASSUME NEW c \in Handler, FetchPage(c) PROVE PagesInv'
    <2>1. PICK page \in fetch_batches(reader[c].recording, reader[c].since), next \in 0..Len(log) :
             /\ IsCursor(next, page, reader[c].since)
             /\ TakePage(c, page, next, (reader[c].len + Cardinality(page)) % MAX_PAGE # 0)
      BY <1>4 DEF FetchPage
    <2> DEFINE final == ((reader[c].len + Cardinality(page)) % MAX_PAGE # 0)
    <2>2. /\ final \in BOOLEAN /\ TakePage(c, page, next, final)
          /\ reader[c].mode = "all" => final = ((reader[c].len + Cardinality(page)) % MAX_PAGE # 0)
      BY <2>1
    <2> HIDE DEF final
    <2>3. reader[c].pc = "page" /\ reader[c].mode = "all"
      BY <1>4 DEF FetchPage
    <2> QED BY <2>1, <2>2, <2>3, PagePreserves
  <1>5. ASSUME NEW c \in Handler, SocketFetch(c) PROVE PagesInv'
    <2>1. PICK page \in fetch_batches(reader[c].recording, reader[c].since), next \in 0..Len(log) :
             IsCursor(next, page, reader[c].since) /\ TakePage(c, page, next, FALSE)
      BY <1>5 DEF SocketFetch
    <2>2. reader[c].pc = "page" /\ reader[c].mode = "socket"
      BY <1>5 DEF SocketFetch
    <2> QED BY <2>1, <2>2, PagePreserves
  <1>6. ASSUME NEW c \in Handler, NEW says \in BOOLEAN, RoundsPage(c, says) PROVE PagesInv'
    BY <1>6, RoundsPagePreserves
  <1>7. CASE UNCHANGED pageVars
    BY <1>7 DEF pageVars, PagesInv, PagesTypeOK, Paged, Named
  <1> QED BY <1>1, <1>2, <1>3, <1>4, <1>5, <1>6, <1>7 DEF PagesNext

(* A reader that is done holds every batch that its recording had when it  *)
(* began, and never one twice or one of another recording, for any number  *)
(* of readers, any size of a page and any writing meanwhile.               *)
(* replay/persist.rs:93-127, replay/routes.rs:644-704.                     *)
LEMMA FetchesAreComplete == PagesSpec => []FetchIsComplete
  <1>1. PagesInv => FetchIsComplete
    BY DEF PagesInv, FetchIsComplete, Paged
  <1> QED BY <1>1, PagesInitially, PagesStep, PTL DEF PagesSpec

(* A list of rounds leaves out no round that had ended when the request    *)
(* began, for any size of a page, whether new rounds come first or last    *)
(* and whether or not PMP says where to go on.  replay/persist.rs:39-66.   *)
LEMMA InventoriesAreComplete == PagesSpec => []RoundsAreComplete
  <1>1. PagesInv => RoundsAreComplete
    BY DEF PagesInv, RoundsAreComplete, Named
  <1> QED BY <1>1, PagesInitially, PagesStep, PTL DEF PagesSpec

(* What is fetched page by page, batches or rounds, is all that PMP had    *)
(* when the fetch began, for any sizes of a page and any writing           *)
(* meanwhile.  replay/persist.rs:39-127.                                   *)
THEOREM PagesStayComplete == PagesSpec => []PagesAreComplete
  BY FetchesAreComplete, InventoriesAreComplete, PTL DEF PagesAreComplete

-----------------------------------------------------------------------------
(* The listings.                                                           *)

Selected(tb, f) == {i \in DOMAIN tb : f = AnyTag \/ tb[i].tag = f}
SortKey(k, tb, i) == IF k = "commands" THEN tb[i].done ELSE i
\* The rows of a listing up to a row: how far the row is from its beginning.
UpTo(k, tb, f, r) == {i \in Selected(tb, f) : SortKey(k, tb, i) >= SortKey(k, tb, r)}
Walked(k) == k \notin Exports \cup {"rooms"}

\* Runs end one after the other.
RowsOK(tb, n, latest) ==
    /\ DOMAIN tb \subseteq 1..n /\ tb \in [DOMAIN tb -> Row]
    /\ \A i \in DOMAIN tb : tb[i].done <= latest
    /\ \A i, j \in DOMAIN tb : tb[i].done = tb[j].done /\ tb[i].done > 0 => i = j

\* Which steps a listing has.
InOrder(w, k) ==
    /\ k = "jobs" => w.filter = AnyTag
    /\ k \in Exports => w.page = 1 /\ w.pc # "turn"
    /\ k \notin Exports => w.pc # "answer"
\* What a steady walk owes is still selected.
StillThere(w, k, tb) ==
    w.steady => /\ w.owed \subseteq Selected(tb, w.filter)
                /\ k = "rooms" => w.page = 1
                /\ k = "commands" => \A r \in w.owed : tb[r].done > 0
\* What it has not shown is not on the pages that it has left behind.
Ahead(w, k, tb) ==
    w.steady /\ Walked(k) /\ (w.pc = "rows" \/ (k # "users" /\ w.pc = "count")) =>
        \A r \in w.owed \ w.seen : Cardinality(UpTo(k, tb, w.filter, r)) > (w.page - 1) * PAGE_NUM
\* Nor is it on the page that it holds, or that page shows it.
Holds(w, k) == w.pc \in {"turn", "answer"} \/ (k = "users" /\ w.pc = "count")
Shows(w, k, tb) ==
    w.steady /\ Holds(w, k) =>
        /\ k \in Exports /\ Cardinality(w.items) < EXPORT_MAX => w.owed \subseteq w.items
        /\ k \notin Exports /\ Cardinality(w.items) # PAGE_NUM => w.owed \subseteq w.seen \cup w.items
        /\ Walked(k) => \A r \in w.owed \ (w.seen \cup w.items) :
                            Cardinality(UpTo(k, tb, w.filter, r)) > w.page * PAGE_NUM
Covered(w, k, tb) ==
    w.items # {} =>
        /\ k \in {"users", "rooms"} /\ w.pc = "turn" =>
              (w.page - 1) * PAGE_NUM + Cardinality(w.items) <= w.total
        /\ k = "users" /\ w.pc = "count" =>
              (w.page - 1) * PAGE_NUM + Cardinality(w.items) <= Cardinality(DOMAIN tb)

WalkOK(w, k, tb) ==
    /\ InOrder(w, k) /\ StillThere(w, k, tb) /\ Ahead(w, k, tb) /\ Shows(w, k, tb) /\ Covered(w, k, tb)
    /\ w.pc = "end" /\ w.steady => w.owed \subseteq w.seen

ListInv ==
    /\ kind \in Kind /\ made \in 0..MaxRows /\ ended \in 0..MaxRows /\ walk \in Walk
    /\ RowsOK(table, made, ended) /\ WalkOK(walk, kind, table)

LEMMA ListFinite ==
    ASSUME NEW n \in Nat, NEW S \in SUBSET (1..n)
    PROVE  IsFiniteSet(S) /\ Cardinality(S) \in 0..n /\ Cardinality(S) \in Nat
  <1>1. IsFiniteSet(1..n) /\ Cardinality(1..n) = n
    BY LinesCount
  <1>2. IsFiniteSet(S) /\ Cardinality(S) <= n
    BY <1>1, FS_Subset
  <1>3. Cardinality(S) \in Nat
    BY <1>2, FS_CardinalityType
  <1> QED BY <1>2, <1>3

LEMMA WalkFields ==
    ASSUME NEW w \in Walk
    PROVE  /\ w.pc \in {"idle", "rows", "count", "answer", "turn", "end"} /\ w.filter \in Tag \cup {AnyTag}
           /\ w.page \in 1..(MaxPage + 1) /\ w.page \in Nat /\ w.items \in SUBSET (1..MaxRows)
           /\ w.total \in 0..MaxRows /\ w.seen \in SUBSET (1..MaxRows) /\ w.owed \in SUBSET (1..MaxRows)
           /\ w.steady \in BOOLEAN
           /\ Cardinality(w.items) \in Nat /\ IsFiniteSet(w.items)
  <1>1. /\ w.pc \in {"idle", "rows", "count", "answer", "turn", "end"} /\ w.filter \in Tag \cup {AnyTag}
        /\ w.page \in 1..(MaxPage + 1) /\ w.items \in SUBSET (1..MaxRows)
        /\ w.total \in 0..MaxRows /\ w.seen \in SUBSET (1..MaxRows) /\ w.owed \in SUBSET (1..MaxRows)
        /\ w.steady \in BOOLEAN
    BY DEF Walk
  <1>2. w.page \in Nat
    BY <1>1, ListingsAssumption
  <1>3. Cardinality(w.items) \in Nat /\ IsFiniteSet(w.items)
    BY <1>1, ListFinite, ListingsAssumption
  <1> QED BY <1>1, <1>2, <1>3

LEMMA ListInitially == ListInit => ListInv
  <1> SUFFICES ASSUME ListInit PROVE ListInv
    OBVIOUS
  <1>1. kind \in Kind /\ made \in 0..MaxRows /\ ended = 0 /\ ended \in 0..MaxRows /\ walk = NoWalk
    BY ListingsAssumption DEF ListInit
  <1>2. /\ NoWalk \in Walk /\ NoWalk.pc = "idle" /\ NoWalk.owed = {} /\ NoWalk.items = {}
        /\ NoWalk.page = 1 /\ NoWalk.filter = AnyTag
    BY ListingsAssumption DEF NoWalk, Walk
  <1> HIDE DEF NoWalk
  <1>3. DOMAIN table = 1..made /\ \A i \in DOMAIN table : table[i] = [tag |-> "old", done |-> 0]
    BY DEF ListInit
  <1>4. [tag |-> "old", done |-> 0] \in Row /\ [tag |-> "old", done |-> 0].done = 0
    BY ListingsAssumption DEF Row, Tag
  <1>5. table \in [DOMAIN table -> Row] /\ \A i \in DOMAIN table : table[i].done = 0
    <2>1. table = [i \in 1..made |-> [tag |-> "old", done |-> 0]]
      BY DEF ListInit
    <2> QED BY <2>1, <1>3, <1>4
  <1>6. RowsOK(table, made, ended)
    BY <1>1, <1>3, <1>5 DEF RowsOK
  <1>7. WalkOK(walk, kind, table)
    <2>1. InOrder(walk, kind)
      BY <1>1, <1>2 DEF InOrder
    <2>2. StillThere(walk, kind, table)
      BY <1>1, <1>2 DEF StillThere
    <2>3. Ahead(walk, kind, table) /\ Shows(walk, kind, table) /\ Covered(walk, kind, table)
      BY <1>1, <1>2 DEF Ahead, Shows, Holds, Covered
    <2> QED BY <2>1, <2>2, <2>3, <1>1, <1>2 DEF WalkOK
  <1> QED BY <1>1, <1>2, <1>6, <1>7 DEF ListInv

\* A page of the rows and what was skipped before it.
Slice(rows, key, from, n, items, skipped) ==
    /\ items \in SUBSET rows /\ skipped \in SUBSET (rows \ items)
    /\ \A i \in skipped, j \in items \cup (rows \ (skipped \cup items)) : key[i] >= key[j]
    /\ \A i \in items, j \in rows \ (skipped \cup items) : key[i] >= key[j]
    /\ Cardinality(skipped) <= from /\ (Cardinality(skipped) < from => skipped = rows)
    /\ Cardinality(items) <= n /\ (Cardinality(items) < n => rows \ (skipped \cup items) = {})

\* A row of a listing that no page before showed is on this page, or the page
\* is full and the row comes later.
LEMMA PageTakes ==
    ASSUME NEW rows, IsFiniteSet(rows), NEW key, NEW from \in Nat, NEW n \in Nat, NEW items, NEW skipped,
           Slice(rows, key, from, n, items, skipped), \A i \in rows : key[i] \in Int,
           NEW r \in rows, \A i \in rows : key[i] = key[r] => i = r,
           Cardinality({i \in rows : key[i] >= key[r]}) > from, r \notin items
    PROVE  Cardinality(items) = n /\ Cardinality({i \in rows : key[i] >= key[r]}) > from + n
  <1> DEFINE A == {i \in rows : key[i] >= key[r]}
  <1> DEFINE rest == rows \ (skipped \cup items)
  <1>0. /\ items \in SUBSET rows /\ skipped \in SUBSET (rows \ items)
        /\ \A i \in skipped, j \in items \cup rest : key[i] >= key[j]
        /\ \A i \in items, j \in rest : key[i] >= key[j]
        /\ Cardinality(skipped) <= from /\ (Cardinality(skipped) < from => skipped = rows)
        /\ Cardinality(items) <= n /\ (Cardinality(items) < n => rest = {})
    BY DEF Slice
  <1>1. IsFiniteSet(A) /\ IsFiniteSet(skipped) /\ IsFiniteSet(items)
    BY <1>0, FS_Subset
  <1>2. Cardinality(A) \in Nat /\ Cardinality(skipped) \in Nat /\ Cardinality(items) \in Nat
    BY <1>1, FS_CardinalityType
  <1>3. r \notin skipped
    <2> SUFFICES ASSUME r \in skipped PROVE FALSE
      OBVIOUS
    <2>1. A \subseteq skipped
      <3> SUFFICES ASSUME NEW q \in rows, key[q] >= key[r], q \notin skipped PROVE FALSE
        OBVIOUS
      <3>1. q \in items \cup rest
        BY <1>0
      <3>2. key[r] >= key[q] /\ key[r] \in Int /\ key[q] \in Int
        BY <3>1, <1>0
      <3>3. key[q] = key[r]
        BY <3>2
      <3> QED BY <3>3
    <2> HIDE DEF A
    <2>2. Cardinality(A) <= Cardinality(skipped)
      BY <2>1, <1>1, FS_Subset
    <2>3. Cardinality(A) > from
      BY DEF A
    <2> QED BY <2>2, <2>3, <1>0, <1>2
  <1>4. r \in rest
    BY <1>3
  <1>5. Cardinality(items) = n /\ Cardinality(skipped) = from
    BY <1>0, <1>2, <1>3, <1>4
  <1> DEFINE B == skipped \cup items
  <1> DEFINE C == B \cup {r}
  <1>6. C \subseteq A
    BY <1>0, <1>4
  <1>7. IsFiniteSet(B) /\ Cardinality(B) = from + n
    <2>1. skipped \cap items = {} /\ Cardinality({}) = 0
      BY <1>0, FS_EmptySet
    <2>2. IsFiniteSet(B) /\ Cardinality(B) = Cardinality(skipped) + Cardinality(items) - Cardinality(skipped \cap items)
      BY <1>1, FS_Union
    <2> HIDE DEF B
    <2>3. Cardinality(B) = from + n - 0
      BY <2>1, <2>2, <1>5
    <2> QED BY <2>2, <2>3
  <1>8. r \notin B
    BY <1>4
  <1> HIDE DEF A, B
  <1>9. Cardinality(C) = from + n + 1
    BY <1>7, <1>8, FS_AddElement
  <1> HIDE DEF C
  <1>10. Cardinality(C) <= Cardinality(A)
    BY <1>1, <1>6, FS_Subset
  <1>11. Cardinality(A) > from + n
    BY <1>9, <1>10, <1>2
  <1> QED BY <1>5, <1>11 DEF A

\* A page ends within its listing.
LEMMA PageFits ==
    ASSUME NEW rows, IsFiniteSet(rows), NEW from \in Nat,
           NEW items \in SUBSET rows, NEW skipped \in SUBSET (rows \ items), items # {},
           Cardinality(skipped) <= from, Cardinality(skipped) < from => skipped = rows
    PROVE  from + Cardinality(items) <= Cardinality(rows)
  <1>1. IsFiniteSet(skipped) /\ IsFiniteSet(items)
    BY FS_Subset
  <1>2. Cardinality(rows) \in Nat /\ Cardinality(skipped) \in Nat /\ Cardinality(items) \in Nat
    BY <1>1, FS_CardinalityType
  <1>3. Cardinality(skipped) = from
    BY <1>2
  <1> DEFINE B == skipped \cup items
  <1>4. skipped \cap items = {} /\ Cardinality({}) = 0 /\ B \subseteq rows
    BY FS_EmptySet
  <1>5. Cardinality(B) = Cardinality(skipped) + Cardinality(items) - Cardinality(skipped \cap items)
    BY <1>1, FS_Union
  <1> HIDE DEF B
  <1>6. Cardinality(B) <= Cardinality(rows)
    BY <1>4, FS_Subset
  <1>7. Cardinality(B) = from + Cardinality(items)
    BY <1>2, <1>3, <1>4, <1>5
  <1> QED BY <1>6, <1>7

LEMMA Facts ==
    ASSUME ListInv
    PROVE  /\ kind \in Kind /\ made \in 0..MaxRows /\ made \in Nat /\ ended \in 0..MaxRows /\ ended \in Nat
           /\ walk \in Walk
           /\ DOMAIN table \subseteq 1..made /\ table \in [DOMAIN table -> Row]
           /\ DOMAIN table \subseteq 1..MaxRows
           /\ \A i \in DOMAIN table : table[i].done \in Nat /\ table[i].done <= ended /\ table[i].tag \in Tag
           /\ \A i, j \in DOMAIN table : table[i].done = table[j].done /\ table[i].done > 0 => i = j
           /\ InOrder(walk, kind) /\ StillThere(walk, kind, table) /\ Ahead(walk, kind, table)
           /\ Shows(walk, kind, table) /\ Covered(walk, kind, table)
           /\ walk.pc = "end" /\ walk.steady => walk.owed \subseteq walk.seen
           /\ \A S \in SUBSET (DOMAIN table) : IsFiniteSet(S) /\ Cardinality(S) \in 0..MaxRows
                                               /\ Cardinality(S) \in Nat
  <1>1. /\ kind \in Kind /\ made \in 0..MaxRows /\ made \in Nat /\ ended \in 0..MaxRows /\ ended \in Nat
        /\ walk \in Walk
        /\ RowsOK(table, made, ended) /\ WalkOK(walk, kind, table)
    BY ListingsAssumption DEF ListInv
  <1>2. DOMAIN table \subseteq 1..made /\ table \in [DOMAIN table -> Row]
        /\ (\A i \in DOMAIN table : table[i].done <= ended)
        /\ (\A i, j \in DOMAIN table : table[i].done = table[j].done /\ table[i].done > 0 => i = j)
    BY <1>1 DEF RowsOK
  <1>3. DOMAIN table \subseteq 1..MaxRows
    BY <1>1, <1>2, ListingsAssumption
  <1>4. \A i \in DOMAIN table : table[i].done \in Nat /\ table[i].tag \in Tag
    <2>1. \A x \in Row : x.done \in Nat /\ x.tag \in Tag
      BY ListingsAssumption DEF Row
    <2> QED BY <2>1, <1>2
  <1>5. \A S \in SUBSET (DOMAIN table) : IsFiniteSet(S) /\ Cardinality(S) \in 0..MaxRows /\ Cardinality(S) \in Nat
    BY <1>3, ListFinite, ListingsAssumption
  <1>6. /\ InOrder(walk, kind) /\ StillThere(walk, kind, table) /\ Ahead(walk, kind, table)
        /\ Shows(walk, kind, table) /\ Covered(walk, kind, table)
        /\ walk.pc = "end" /\ walk.steady => walk.owed \subseteq walk.seen
    BY <1>1 DEF WalkOK
  <1> QED BY <1>1, <1>2, <1>3, <1>4, <1>5, <1>6

\* The client moves, the table does not.
LEMMA OnlyTheWalkMoves ==
    ASSUME ListInv, UNCHANGED <<kind, table, made, ended>>, walk' \in Walk, WalkOK(walk', kind, table)
    PROVE  ListInv'
  BY DEF ListInv

\* The table moves under the walk: rows that it is owed and has not seen get no
\* closer to the beginning.
LEMMA TheTableMoves ==
    ASSUME ListInv, kind' = kind, made' \in 0..MaxRows, ended' \in 0..MaxRows, walk' \in Walk,
           RowsOK(table', made', ended'),
           walk'.pc = walk.pc, walk'.filter = walk.filter, walk'.page = walk.page,
           walk'.items = walk.items, walk'.total = walk.total, walk'.seen = walk.seen,
           walk'.owed \subseteq walk.owed, walk'.steady => walk.steady,
           \A r \in walk'.owed : walk'.steady =>
              /\ r \in Selected(table', walk.filter)
              /\ kind = "commands" => table'[r].done > 0
              /\ Walked(kind) => UpTo(kind, table, walk.filter, r) \subseteq UpTo(kind, table', walk.filter, r),
           kind = "users" => DOMAIN table \subseteq DOMAIN table'
    PROVE  ListInv'
  <1>0. /\ walk \in Walk /\ DOMAIN table \subseteq 1..made
        /\ InOrder(walk, kind) /\ StillThere(walk, kind, table) /\ Ahead(walk, kind, table)
        /\ Shows(walk, kind, table) /\ Covered(walk, kind, table)
        /\ walk.pc = "end" /\ walk.steady => walk.owed \subseteq walk.seen
        /\ \A S \in SUBSET (DOMAIN table) : Cardinality(S) \in Nat
    BY Facts
  <1>1. walk.page \in Nat /\ Cardinality(walk.items) \in Nat
    BY <1>0, WalkFields
  <1>2. /\ DOMAIN table' \subseteq 1..made' /\ made' \in Nat
    BY ListingsAssumption DEF RowsOK
  <1>3. \A S \in SUBSET (DOMAIN table') : IsFiniteSet(S) /\ Cardinality(S) \in Nat
    BY <1>2, ListFinite
  <1>4. ASSUME NEW r \in walk'.owed, walk'.steady, Walked(kind), NEW m \in Int,
               Cardinality(UpTo(kind, table, walk.filter, r)) > m
        PROVE  Cardinality(UpTo(kind, table', walk.filter, r)) > m
    <2> DEFINE A == UpTo(kind, table, walk.filter, r)
    <2> DEFINE B == UpTo(kind, table', walk.filter, r)
    <2>1. A \subseteq B
      BY <1>4
    <2>2. B \subseteq DOMAIN table' /\ A \subseteq DOMAIN table
      BY DEF UpTo, Selected
    <2> HIDE DEF A, B
    <2>3. IsFiniteSet(B) /\ Cardinality(B) \in Nat /\ Cardinality(A) \in Nat
      BY <2>2, <1>0, <1>3
    <2>4. Cardinality(A) <= Cardinality(B)
      BY <2>1, <2>3, FS_Subset
    <2>5. Cardinality(A) > m
      BY <1>4 DEF A
    <2>6. Cardinality(B) > m
      BY <2>3, <2>4, <2>5
    <2> QED BY <2>6 DEF B
  <1>5. InOrder(walk', kind)
    BY <1>0 DEF InOrder
  <1>6. StillThere(walk', kind, table')
    BY <1>0 DEF StillThere
  <1>7. Ahead(walk', kind, table')
    <2> SUFFICES ASSUME walk'.steady, Walked(kind), walk.pc = "rows" \/ (kind # "users" /\ walk.pc = "count"),
                        NEW r \in walk'.owed \ walk.seen
                 PROVE  Cardinality(UpTo(kind, table', walk.filter, r)) > (walk.page - 1) * PAGE_NUM
      BY DEF Ahead
    <2>1. Cardinality(UpTo(kind, table, walk.filter, r)) > (walk.page - 1) * PAGE_NUM
      BY <1>0 DEF Ahead
    <2>2. (walk.page - 1) * PAGE_NUM \in Int
      BY <1>1, ListingsAssumption
    <2> QED BY <2>1, <2>2, <1>4
  <1>8. Shows(walk', kind, table')
    <2> SUFFICES ASSUME walk'.steady, Holds(walk, kind)
                 PROVE  /\ kind \in Exports /\ Cardinality(walk.items) < EXPORT_MAX => walk'.owed \subseteq walk.items
                        /\ kind \notin Exports /\ Cardinality(walk.items) # PAGE_NUM =>
                              walk'.owed \subseteq walk.seen \cup walk.items
                        /\ Walked(kind) => \A r \in walk'.owed \ (walk.seen \cup walk.items) :
                              Cardinality(UpTo(kind, table', walk.filter, r)) > walk.page * PAGE_NUM
      BY DEF Shows, Holds
    <2>1. /\ kind \in Exports /\ Cardinality(walk.items) < EXPORT_MAX => walk.owed \subseteq walk.items
          /\ kind \notin Exports /\ Cardinality(walk.items) # PAGE_NUM =>
                walk.owed \subseteq walk.seen \cup walk.items
          /\ Walked(kind) => \A r \in walk.owed \ (walk.seen \cup walk.items) :
                Cardinality(UpTo(kind, table, walk.filter, r)) > walk.page * PAGE_NUM
      BY <1>0 DEF Shows
    <2>2. ASSUME Walked(kind), NEW r \in walk'.owed \ (walk.seen \cup walk.items)
          PROVE  Cardinality(UpTo(kind, table', walk.filter, r)) > walk.page * PAGE_NUM
      <3>1. Cardinality(UpTo(kind, table, walk.filter, r)) > walk.page * PAGE_NUM
        BY <2>1, <2>2
      <3>2. walk.page * PAGE_NUM \in Int
        BY <1>1, ListingsAssumption
      <3> QED BY <2>2, <3>1, <3>2, <1>4
    <2> QED BY <2>1, <2>2
  <1>9. Covered(walk', kind, table')
    <2> DEFINE n == (walk.page - 1) * PAGE_NUM + Cardinality(walk.items)
    <2>1. n \in Int
      BY <1>1, ListingsAssumption
    <2>2. /\ walk.items # {} /\ kind \in {"users", "rooms"} /\ walk.pc = "turn" => n <= walk.total
          /\ walk.items # {} /\ kind = "users" /\ walk.pc = "count" => n <= Cardinality(DOMAIN table)
      BY <1>0 DEF Covered
    <2> HIDE DEF n
    <2>3. kind = "users" => Cardinality(DOMAIN table) <= Cardinality(DOMAIN table')
          /\ Cardinality(DOMAIN table) \in Nat /\ Cardinality(DOMAIN table') \in Nat
      BY <1>0, <1>3, FS_Subset
    <2>4. walk.items # {} /\ kind = "users" /\ walk.pc = "count" => n <= Cardinality(DOMAIN table')
      BY <2>1, <2>2, <2>3
    <2> QED BY <2>2, <2>4 DEF Covered, n
  <1>10. walk'.pc = "end" /\ walk'.steady => walk'.owed \subseteq walk'.seen
    BY <1>0
  <1>11. WalkOK(walk', kind, table')
    BY <1>5, <1>6, <1>7, <1>8, <1>9, <1>10 DEF WalkOK
  <1>12. kind \in Kind
    BY DEF ListInv
  <1> QED BY <1>11, <1>12 DEF ListInv

\* A listing answers with a page.
LEMMA ReadPreserves ==
    ASSUME ListInv, UNCHANGED <<kind, table, made, ended>>, walk' \in Walk, walk.pc = "rows",
           NEW rows, rows = Selected(table, walk.filter),
           NEW key, \A i \in rows : key[i] \in Int,
           Walked(kind) => \A i \in rows : key[i] = SortKey(kind, table, i),
           NEW n \in Nat \ {0}, n = IF kind \in Exports THEN EXPORT_MAX ELSE PAGE_NUM,
           NEW items \in Page(rows, key, n),
           walk'.items = items, walk'.filter = walk.filter, walk'.page = walk.page,
           walk'.seen = walk.seen, walk'.owed = walk.owed, walk'.steady = walk.steady,
           walk'.pc = IF kind = "users" THEN "count" ELSE IF kind \in Exports THEN "answer" ELSE "turn",
           kind = "rooms" => walk'.total = Cardinality(rows)
    PROVE  ListInv'
  <1>0. /\ kind \in Kind /\ walk \in Walk
        /\ \A i \in DOMAIN table : table[i].done \in Nat
        /\ \A i, j \in DOMAIN table : table[i].done = table[j].done /\ table[i].done > 0 => i = j
        /\ InOrder(walk, kind) /\ StillThere(walk, kind, table) /\ Ahead(walk, kind, table)
        /\ \A S \in SUBSET (DOMAIN table) : IsFiniteSet(S) /\ Cardinality(S) \in Nat
        /\ DOMAIN table \subseteq 1..MaxRows
    BY Facts
  <1>1. /\ walk.page \in Nat /\ walk.page # 0 /\ walk'.pc # "rows" /\ walk'.pc # "end"
        /\ walk.owed \in SUBSET (1..MaxRows)
    BY <1>0, WalkFields
  <1>2. rows \subseteq DOMAIN table /\ IsFiniteSet(rows)
    BY <1>0 DEF Selected
  <1> DEFINE from == (walk.page - 1) * n
  <1>3. from \in Nat
    BY <1>1
  <1>4. PICK skipped \in SUBSET (rows \ items) :
           /\ \A i \in skipped, j \in items \cup (rows \ (skipped \cup items)) : key[i] >= key[j]
           /\ \A i \in items, j \in rows \ (skipped \cup items) : key[i] >= key[j]
           /\ Cardinality(skipped) <= from /\ (Cardinality(skipped) < from => skipped = rows)
           /\ Cardinality(items) <= n
           /\ Cardinality(items) < n => rows \ (skipped \cup items) = {}
    BY DEF Page
  <1>5. items \in SUBSET rows
    BY DEF Page
  <1> DEFINE rest == rows \ (skipped \cup items)
  <1>6. /\ Cardinality(items) \in Nat /\ Cardinality(skipped) \in Nat
        /\ IsFiniteSet(skipped) /\ IsFiniteSet(items)
    BY <1>0, <1>2, <1>4, <1>5
  <1>7. from = 0 => skipped = {}
    <2> SUFFICES ASSUME from = 0 PROVE skipped = {}
      OBVIOUS
    <2>1. Cardinality(skipped) = 0
      BY <1>4, <1>6
    <2> QED BY <2>1, <1>6, FS_EmptySet
  <1> HIDE DEF from
  <1>8. walk.steady => walk.owed \subseteq rows
    BY <1>0 DEF StillThere
  <1>9. InOrder(walk', kind)
    BY <1>0 DEF InOrder
  <1>10. StillThere(walk', kind, table)
    BY <1>0 DEF StillThere
  <1>11. Ahead(walk', kind, table)
    <2>1. ~(walk'.pc = "rows" \/ (kind # "users" /\ walk'.pc = "count"))
      OBVIOUS
    <2> QED BY <2>1 DEF Ahead
  <1>12. Shows(walk', kind, table)
    <2> SUFFICES ASSUME walk.steady
                 PROVE  /\ kind \in Exports /\ Cardinality(items) < EXPORT_MAX => walk.owed \subseteq items
                        /\ kind \notin Exports /\ Cardinality(items) # PAGE_NUM =>
                              walk.owed \subseteq walk.seen \cup items
                        /\ Walked(kind) => \A r \in walk.owed \ (walk.seen \cup items) :
                              Cardinality(UpTo(kind, table, walk.filter, r)) > walk.page * PAGE_NUM
      BY DEF Shows
    <2>1. ASSUME kind \in Exports \cup {"rooms"}, Cardinality(items) < n
          PROVE  walk.owed \subseteq items
      <3>1. walk.page = 1
        BY <1>0, <2>1 DEF InOrder, StillThere
      <3>2. from = 0
        BY <3>1 DEF from
      <3>3. skipped = {} /\ rest = {}
        BY <3>2, <1>4, <1>7, <2>1
      <3> QED BY <3>3, <1>8
    <2>2. ASSUME Walked(kind), NEW r \in walk.owed \ (walk.seen \cup items)
          PROVE  /\ Cardinality(items) = PAGE_NUM
                 /\ Cardinality(UpTo(kind, table, walk.filter, r)) > walk.page * PAGE_NUM
      <3>1. n = PAGE_NUM /\ \A i \in rows : key[i] = SortKey(kind, table, i)
        BY <2>2 DEF Walked
      <3>2. r \in rows /\ r \notin items
        BY <1>8, <2>2
      <3>3. \A i \in rows : key[i] = key[r] => i = r
        <4>1. CASE kind = "commands"
          <5>1. table[r].done > 0
            BY <4>1, <1>0, <2>2 DEF StillThere
          <5>2. \A i \in rows : key[i] = table[i].done
            BY <4>1, <3>1 DEF SortKey
          <5> QED BY <5>1, <5>2, <3>2, <1>0, <1>2
        <4>2. CASE kind # "commands"
          BY <4>2, <3>1, <3>2 DEF SortKey
        <4> QED BY <4>1, <4>2
      <3>4. {i \in rows : key[i] >= key[r]} = UpTo(kind, table, walk.filter, r)
        BY <3>1, <3>2 DEF UpTo
      <3>5. Cardinality(UpTo(kind, table, walk.filter, r)) > from
        BY <1>0, <2>2, <3>1 DEF Ahead, from
      <3>6. Cardinality(items) = n /\ Cardinality({i \in rows : key[i] >= key[r]}) > from + n
        <4>1. Cardinality({i \in rows : key[i] >= key[r]}) > from
          BY <3>4, <3>5
        <4>2. Slice(rows, key, from, n, items, skipped)
          BY <1>4, <1>5 DEF Slice
        <4> QED BY <4>1, <4>2, <3>2, <3>3, <1>2, <1>3, PageTakes
      <3>7. from + n = walk.page * PAGE_NUM
        <4>1. \A p \in Nat, m \in Nat : (p - 1) * m + m = p * m
          OBVIOUS
        <4> QED BY ZenonT(40), <4>1, <3>1, <1>1 DEF from
      <3> QED BY <3>1, <3>4, <3>6, <3>7
    <2>3. kind \in Exports /\ Cardinality(items) < EXPORT_MAX => walk.owed \subseteq items
      BY <2>1
    <2>4. kind \notin Exports /\ Cardinality(items) # PAGE_NUM => walk.owed \subseteq walk.seen \cup items
      <3>1. CASE kind = "rooms"
        <4>1. n = PAGE_NUM
          BY <3>1 DEF Exports
        <4>2. Cardinality(items) # PAGE_NUM => Cardinality(items) < n
          BY <4>1, <1>4, <1>6
        <4> QED BY <4>2, <2>1, <3>1
      <3>2. CASE Walked(kind)
        BY <2>2, <3>2
      <3>3. kind = "rooms" \/ Walked(kind) \/ kind \in Exports
        BY DEF Walked
      <3> QED BY <3>1, <3>2, <3>3
    <2> QED BY <2>2, <2>3, <2>4
  <1>13. Covered(walk', kind, table)
    <2> SUFFICES ASSUME items # {}
                 PROVE  /\ kind = "rooms" => (walk.page - 1) * PAGE_NUM + Cardinality(items) <= walk'.total
                        /\ kind = "users" =>
                              (walk.page - 1) * PAGE_NUM + Cardinality(items) <= Cardinality(DOMAIN table)
      BY DEF Covered
    <2>1. from + Cardinality(items) <= Cardinality(rows)
      BY <1>2, <1>3, <1>4, <1>5, PageFits
    <2>2. Cardinality(rows) <= Cardinality(DOMAIN table) /\ Cardinality(rows) \in Nat
          /\ Cardinality(DOMAIN table) \in Nat
      BY <1>0, <1>2, FS_Subset
    <2>3. kind \in {"users", "rooms"} => from = (walk.page - 1) * PAGE_NUM
      BY DEF from, Exports
    <2>4. from + Cardinality(items) <= Cardinality(DOMAIN table)
      BY <2>1, <2>2, <1>3, <1>6
    <2> QED BY <2>1, <2>3, <2>4
  <1>14. WalkOK(walk', kind, table)
    BY <1>1, <1>9, <1>10, <1>11, <1>12, <1>13 DEF WalkOK
  <1> QED BY <1>14, OnlyTheWalkMoves

\* A count.
LEMMA CountPreserves ==
    ASSUME ListInv, UNCHANGED <<kind, table, made, ended>>, walk' \in Walk, walk.pc = "count",
           walk'.items = walk.items, walk'.filter = walk.filter, walk'.page = walk.page,
           walk'.seen = walk.seen, walk'.owed = walk.owed, walk'.steady = walk.steady,
           walk'.pc = IF kind = "users" THEN "turn" ELSE "rows",
           kind \notin Exports,
           kind = "users" => walk'.total = Cardinality(DOMAIN table)
    PROVE  ListInv'
  <1>0. /\ InOrder(walk, kind) /\ StillThere(walk, kind, table) /\ Ahead(walk, kind, table)
        /\ Shows(walk, kind, table) /\ Covered(walk, kind, table)
    BY Facts
  <1>1. InOrder(walk', kind)
    BY <1>0 DEF InOrder
  <1>2. StillThere(walk', kind, table)
    BY <1>0 DEF StillThere
  <1>3. Ahead(walk', kind, table)
    BY <1>0 DEF Ahead
  <1>4. Shows(walk', kind, table)
    BY <1>0 DEF Shows, Holds
  <1>5. Covered(walk', kind, table)
    BY <1>0 DEF Covered
  <1>6. walk'.pc # "end"
    OBVIOUS
  <1>7. WalkOK(walk', kind, table)
    BY <1>1, <1>2, <1>3, <1>4, <1>5, <1>6 DEF WalkOK
  <1> QED BY <1>7, OnlyTheWalkMoves

LEMMA RowsPreserve ==
    ASSUME ListInv,
           \/ UsersRows \/ AuditList \/ Export \/ ExportCsv \/ JobsRows \/ TasksRows \/ RecentRows \/ ListRooms
    PROVE  ListInv'
  <1> DEFINE rows == Selected(table, walk.filter)
  <1> DEFINE pc == IF kind = "users" THEN "count" ELSE IF kind \in Exports THEN "answer" ELSE "turn"
  <1>0. /\ kind \in Kind /\ walk \in Walk /\ InOrder(walk, kind)
        /\ \A i \in DOMAIN table : table[i].done \in Nat
        /\ \A S \in SUBSET (DOMAIN table) : Cardinality(S) \in 0..MaxRows
        /\ DOMAIN table \subseteq 1..MaxRows
    BY Facts
  <1>1. /\ rows \subseteq DOMAIN table /\ rows \subseteq 1..MaxRows /\ rows = Matching(walk.filter)
        /\ pc \in {"idle", "rows", "count", "answer", "turn", "end"} /\ rows \subseteq Int
    BY <1>0 DEF Selected, Matching
  <1>2. \A k, n : \A items \in Page(rows, k, n) :
           items \in SUBSET rows /\ items \in SUBSET (1..MaxRows) /\ Cardinality(items) \in 0..MaxRows
    BY <1>0, <1>1 DEF Page
  <1>3. /\ Newest = [i \in DOMAIN table |-> i] /\ LatestEnded = [i \in DOMAIN table |-> table[i].done]
        /\ AnyOrder = [i \in DOMAIN table |-> 0]
    BY DEF Newest, LatestEnded, AnyOrder
  <1>4. /\ \A i \in rows : Newest[i] = i /\ Newest[i] \in Int
        /\ \A i \in rows : LatestEnded[i] = table[i].done /\ LatestEnded[i] \in Int
        /\ \A i \in rows : AnyOrder[i] \in Int
    BY <1>0, <1>1, <1>3
  <1> HIDE DEF rows, pc
  <1>5. ASSUME NEW key, NEW n, n = (IF kind \in Exports THEN EXPORT_MAX ELSE PAGE_NUM), NEW items \in Page(rows, key, n),
               NEW t, t \in {walk.total, Cardinality(items), Cardinality(rows)},
               kind = "rooms" => t = Cardinality(rows),
               \/ walk' = [walk EXCEPT !.items = items, !.pc = pc] /\ kind # "rooms"
               \/ walk' = [walk EXCEPT !.items = items, !.total = t, !.pc = pc],
               UNCHANGED <<kind, table, made, ended>>, walk.pc = "rows",
               \A i \in rows : key[i] \in Int,
               Walked(kind) => \A i \in rows : key[i] = SortKey(kind, table, i)
        PROVE  ListInv'
    <2>1. n \in Nat \ {0}
      BY <1>5, ListingsAssumption
    <2>2. t \in 0..MaxRows /\ items \in SUBSET (1..MaxRows)
      BY <1>0, <1>1, <1>2, <1>5, WalkFields
    <2>3. /\ walk' \in Walk /\ walk'.items = items /\ walk'.pc = pc /\ walk'.filter = walk.filter
          /\ walk'.page = walk.page /\ walk'.seen = walk.seen /\ walk'.owed = walk.owed
          /\ walk'.steady = walk.steady /\ (kind = "rooms" => walk'.total = t)
      <3>1. CASE walk' = [walk EXCEPT !.items = items, !.pc = pc] /\ kind # "rooms"
        BY <3>1, <2>2, <1>0, <1>1 DEF Walk
      <3>2. CASE walk' = [walk EXCEPT !.items = items, !.total = t, !.pc = pc]
        BY <3>2, <2>2, <1>0, <1>1 DEF Walk
      <3> QED BY <3>1, <3>2, <1>5
    <2>4. walk'.pc = IF kind = "users" THEN "count" ELSE IF kind \in Exports THEN "answer" ELSE "turn"
      BY <2>3 DEF pc
    <2>5. rows = Selected(table, walk.filter)
      BY DEF rows
    <2>6. kind = "rooms" => walk'.total = Cardinality(rows)
      BY <2>3, <1>5
    <2> QED BY <1>5, <2>1, <2>3, <2>4, <2>5, <2>6, ReadPreserves
  <1>6. CASE UsersRows
    <2>1. PICK items \in Page(rows, Newest, PAGE_NUM) : walk' = [walk EXCEPT !.items = items, !.pc = "count"]
      BY <1>1, <1>6 DEF UsersRows, Got
    <2>2. kind = "users" /\ walk.pc = "rows" /\ UNCHANGED <<kind, table, made, ended>>
      BY <1>6 DEF UsersRows, Asks
    <2>3. pc = "count" /\ kind \notin Exports /\ kind # "rooms"
      BY <2>2 DEF pc, Exports
    <2>4. \A i \in rows : Newest[i] = SortKey(kind, table, i)
      BY <2>2, <1>4 DEF SortKey
    <2> QED BY <2>1, <2>2, <2>3, <2>4, <1>4, <1>5
  <1>7. CASE AuditList
    <2>1. PICK items \in Page(rows, Newest, PAGE_NUM) :
             walk' = [walk EXCEPT !.items = items, !.total = Cardinality(items), !.pc = "turn"]
      BY <1>1, <1>7 DEF AuditList, list_filtered
    <2>2. kind = "audit" /\ walk.pc = "rows" /\ UNCHANGED <<kind, table, made, ended>>
      BY <1>7 DEF AuditList, Asks
    <2>3. pc = "turn" /\ kind \notin Exports /\ kind # "rooms"
      BY <2>2 DEF pc, Exports
    <2>4. \A i \in rows : Newest[i] = SortKey(kind, table, i)
      BY <2>2, <1>4 DEF SortKey
    <2> QED BY <2>1, <2>2, <2>3, <2>4, <1>4, <1>5
  <1>8. CASE Export \/ ExportCsv
    <2>1. PICK items \in Page(rows, Newest, EXPORT_MAX) :
             walk' = [walk EXCEPT !.items = items, !.total = Cardinality(items), !.pc = "answer"]
      BY <1>1, <1>8 DEF Export, ExportCsv, list_filtered
    <2>2. kind \in Exports /\ walk.pc = "rows" /\ UNCHANGED <<kind, table, made, ended>>
      BY <1>8 DEF Export, ExportCsv, Asks, Exports
    <2>3. pc = "answer" /\ kind # "rooms" /\ ~Walked(kind)
      BY <2>2 DEF pc, Exports, Walked
    <2> QED BY <2>1, <2>2, <2>3, <1>4, <1>5
  <1>9. CASE JobsRows
    <2>1. kind = "jobs" /\ walk.pc = "rows" /\ UNCHANGED <<kind, table, made, ended>>
      BY <1>9 DEF JobsRows, Asks
    <2>2. DOMAIN table = rows
      BY <2>1, <1>0 DEF InOrder, rows, Selected
    <2>3. PICK items \in Page(rows, Newest, PAGE_NUM) : walk' = [walk EXCEPT !.items = items, !.pc = "turn"]
      BY <1>9, <2>2 DEF JobsRows, Got
    <2>4. pc = "turn" /\ kind \notin Exports /\ kind # "rooms"
      BY <2>1 DEF pc, Exports
    <2>5. \A i \in rows : Newest[i] = SortKey(kind, table, i)
      BY <2>1, <1>4 DEF SortKey
    <2> QED BY <2>1, <2>3, <2>4, <2>5, <1>4, <1>5
  <1>10. CASE TasksRows
    <2>1. PICK items \in Page(rows, Newest, PAGE_NUM) : walk' = [walk EXCEPT !.items = items, !.pc = "turn"]
      BY <1>1, <1>10 DEF TasksRows, Got
    <2>2. kind = "tasks" /\ walk.pc = "rows" /\ UNCHANGED <<kind, table, made, ended>>
      BY <1>10 DEF TasksRows, Asks
    <2>3. pc = "turn" /\ kind \notin Exports /\ kind # "rooms"
      BY <2>2 DEF pc, Exports
    <2>4. \A i \in rows : Newest[i] = SortKey(kind, table, i)
      BY <2>2, <1>4 DEF SortKey
    <2> QED BY <2>1, <2>2, <2>3, <2>4, <1>4, <1>5
  <1>11. CASE RecentRows
    <2>1. PICK items \in Page(rows, LatestEnded, PAGE_NUM) : walk' = [walk EXCEPT !.items = items, !.pc = "turn"]
      BY <1>1, <1>11 DEF RecentRows, Got
    <2>2. kind = "commands" /\ walk.pc = "rows" /\ UNCHANGED <<kind, table, made, ended>>
      BY <1>11 DEF RecentRows, Asks
    <2>3. pc = "turn" /\ kind \notin Exports /\ kind # "rooms"
      BY <2>2 DEF pc, Exports
    <2>4. \A i \in rows : LatestEnded[i] = SortKey(kind, table, i)
      BY <2>2, <1>4 DEF SortKey
    <2> QED BY <2>1, <2>2, <2>3, <2>4, <1>4, <1>5
  <1>12. CASE ListRooms
    <2>1. PICK items \in Page(rows, AnyOrder, PAGE_NUM) :
             walk' = [walk EXCEPT !.items = items, !.total = Cardinality(rows), !.pc = "turn"]
      BY <1>1, <1>12 DEF ListRooms, paginate_room_items, filter_room_items
    <2>2. kind = "rooms" /\ walk.pc = "rows" /\ UNCHANGED <<kind, table, made, ended>>
      BY <1>12 DEF ListRooms, Asks
    <2>3. pc = "turn" /\ kind \notin Exports /\ ~Walked(kind)
      BY <2>2 DEF pc, Exports, Walked
    <2> QED BY <2>1, <2>2, <2>3, <1>4, <1>5
  <1> QED BY <1>6, <1>7, <1>8, <1>9, <1>10, <1>11, <1>12

LEMMA CountsPreserve ==
    ASSUME ListInv, UsersCount \/ JobsCount \/ TasksCount \/ RecentCount
    PROVE  ListInv'
  <1>0. /\ walk \in Walk /\ \A S \in SUBSET (DOMAIN table) : Cardinality(S) \in 0..MaxRows
    BY Facts
  <1>1. PICK S \in SUBSET (DOMAIN table) :
           /\ walk' = [walk EXCEPT !.total = Cardinality(S), !.pc = IF kind = "users" THEN "turn" ELSE "rows"]
           /\ kind = "users" => S = DOMAIN table
    <2>1. Matching(walk.filter) \in SUBSET (DOMAIN table)
      BY DEF Matching
    <2>2. CASE UsersCount
      BY <2>2 DEF UsersCount, Asks, Counted
    <2>3. CASE JobsCount
      BY <2>3 DEF JobsCount, Asks, Counted
    <2>4. CASE TasksCount \/ RecentCount
      BY <2>1, <2>4 DEF TasksCount, RecentCount, Asks, Counted
    <2> QED BY <2>2, <2>3, <2>4
  <1>2. walk.pc = "count" /\ UNCHANGED <<kind, table, made, ended>> /\ kind \notin Exports
    BY DEF UsersCount, JobsCount, TasksCount, RecentCount, Asks, Exports
  <1> DEFINE p == IF kind = "users" THEN "turn" ELSE "rows"
  <1> DEFINE n == Cardinality(S)
  <1>3. n \in 0..MaxRows /\ p \in {"idle", "rows", "count", "answer", "turn", "end"}
    BY <1>0
  <1>4. walk' = [walk EXCEPT !.total = n, !.pc = p]
    BY <1>1
  <1> HIDE DEF p, n
  <1>5. walk.items \in SUBSET (1..MaxRows)
    BY <1>0, WalkFields
  <1>6. /\ walk' \in Walk /\ walk'.items = walk.items /\ walk'.pc = p /\ walk'.filter = walk.filter
        /\ walk'.page = walk.page /\ walk'.seen = walk.seen /\ walk'.owed = walk.owed
        /\ walk'.steady = walk.steady /\ walk'.total = n
    BY <1>0, <1>3, <1>4 DEF Walk
  <1>7. (kind = "users" => walk'.total = Cardinality(DOMAIN table))
        /\ walk'.pc = IF kind = "users" THEN "turn" ELSE "rows"
    BY <1>1, <1>6 DEF p, n
  <1> QED BY <1>2, <1>6, <1>7, CountPreserves

LEMMA BeginPreserves ==
    ASSUME ListInv, NEW f \in Tag \cup {AnyTag}, WalkBegin(f)
    PROVE  ListInv'
  <1>0. /\ kind \in Kind /\ walk \in Walk /\ DOMAIN table \subseteq 1..MaxRows
        /\ \A i \in DOMAIN table : table[i].done \in Nat
        /\ \A S \in SUBSET (DOMAIN table) : IsFiniteSet(S) /\ Cardinality(S) \in Nat
    BY Facts
  <1> DEFINE owed == {i \in Matching(f) : kind = "commands" => table[i].done > 0}
  <1>1. /\ owed \subseteq Selected(table, f) /\ owed \in SUBSET (1..MaxRows)
        /\ kind = "commands" => \A r \in owed : table[r].done > 0
    BY <1>0 DEF Matching, Selected
  <1>2. /\ walk' = [NoWalk EXCEPT !.pc = First, !.filter = f, !.owed = owed]
        /\ UNCHANGED <<kind, table, made, ended>> /\ (kind = "jobs" => f = AnyTag)
    BY DEF WalkBegin
  <1> HIDE DEF owed
  <1>3. First \in {"rows", "count"} /\ (First = "count" => kind \in {"jobs", "tasks", "commands"})
    BY DEF First
  <1>4. /\ walk'.pc = First /\ walk'.filter = f /\ walk'.owed = owed /\ walk'.page = 1
        /\ walk'.items = {} /\ walk'.seen = {} /\ walk'.steady
    BY <1>2 DEF NoWalk
  <1>5. walk' \in Walk
    <2>1. NoWalk \in Walk
      BY ListingsAssumption DEF NoWalk, Walk
    <2> HIDE DEF NoWalk
    <2> QED BY <2>1, <1>1, <1>2, <1>3 DEF Walk
  <1>6. InOrder(walk', kind)
    BY <1>2, <1>3, <1>4 DEF InOrder
  <1>7. StillThere(walk', kind, table)
    BY <1>1, <1>4 DEF StillThere
  <1>8. Ahead(walk', kind, table)
    <2> SUFFICES ASSUME NEW r \in owed PROVE Cardinality(UpTo(kind, table, f, r)) > (1 - 1) * PAGE_NUM
      BY <1>4 DEF Ahead
    <2> DEFINE S == UpTo(kind, table, f, r)
    <2>1. r \in Selected(table, f) /\ SortKey(kind, table, r) \in Nat
      BY <1>0, <1>1 DEF Selected, SortKey
    <2>2. r \in S /\ S \in SUBSET (DOMAIN table)
      BY <2>1 DEF UpTo, Selected
    <2>3. IsFiniteSet(S) /\ Cardinality(S) \in Nat
      BY <2>2, <1>0
    <2> HIDE DEF S
    <2>4. Cardinality(S) # 0
      BY <2>2, <2>3, FS_EmptySet
    <2>5. (1 - 1) * PAGE_NUM = 0
      BY ListingsAssumption
    <2> QED BY <2>3, <2>4, <2>5 DEF S
  <1>9. Shows(walk', kind, table)
    BY <1>3, <1>4 DEF Shows, Holds
  <1>10. Covered(walk', kind, table)
    BY <1>4 DEF Covered
  <1>11. WalkOK(walk', kind, table)
    BY <1>3, <1>4, <1>6, <1>7, <1>8, <1>9, <1>10 DEF WalkOK
  <1> QED BY <1>2, <1>5, <1>11, OnlyTheWalkMoves

LEMMA TurnPreserves ==
    ASSUME ListInv, TurnPage
    PROVE  ListInv'
  <1>0. /\ kind \in Kind /\ walk \in Walk /\ InOrder(walk, kind) /\ StillThere(walk, kind, table)
        /\ Shows(walk, kind, table)
    BY Facts
  <1>1. /\ walk.pc = "turn" /\ walk.page <= MaxPage /\ walk.page \in Nat /\ kind \notin Exports
        /\ UNCHANGED <<kind, table, made, ended>>
    BY <1>0, WalkFields DEF TurnPage, InOrder
  <1> DEFINE full == Cardinality(walk.items) = PAGE_NUM
  <1> DEFINE steady == walk.steady /\ (kind = "rooms" => ~full)
  <1> DEFINE p == IF full THEN First ELSE "end"
  <1> DEFINE n == IF full THEN walk.page + 1 ELSE walk.page
  <1>2. walk' = [walk EXCEPT !.seen = walk.seen \cup walk.items, !.pc = p, !.page = n, !.steady = steady]
    BY DEF TurnPage
  <1>3. /\ First \in {"rows", "count"} /\ (First = "count" => kind # "users")
        /\ p \in {"rows", "count", "end"} /\ n \in 1..(MaxPage + 1) /\ steady \in BOOLEAN
    <2>1. First \in {"rows", "count"} /\ (First = "count" => kind # "users")
      BY DEF First
    <2>2. n \in 1..(MaxPage + 1)
      BY <1>0, <1>1, WalkFields, ListingsAssumption
    <2>3. steady \in BOOLEAN
      OBVIOUS
    <2> QED BY <2>1, <2>2, <2>3
  <1>4. /\ full => p = First /\ n = walk.page + 1
        /\ ~full => p = "end" /\ n = walk.page
        /\ steady => walk.steady /\ (kind = "rooms" => ~full)
    OBVIOUS
  <1> HIDE DEF p, n, steady
  <1>5. /\ walk'.seen = walk.seen \cup walk.items /\ walk'.pc = p /\ walk'.page = n /\ walk'.steady = steady
        /\ walk'.items = walk.items /\ walk'.filter = walk.filter /\ walk'.owed = walk.owed
        /\ walk' \in Walk
    BY <1>0, <1>2, <1>3 DEF Walk
  <1> HIDE DEF full
  <1>6. InOrder(walk', kind)
    BY <1>0, <1>1, <1>3, <1>5 DEF InOrder
  <1>7. StillThere(walk', kind, table)
    BY <1>0, <1>4, <1>5 DEF StillThere
  <1>8. Ahead(walk', kind, table)
    <2> SUFFICES ASSUME steady, Walked(kind), p # "end", NEW r \in walk.owed \ (walk.seen \cup walk.items)
                 PROVE  Cardinality(UpTo(kind, table, walk.filter, r)) > (n - 1) * PAGE_NUM
      BY <1>5 DEF Ahead
    <2>1. n = walk.page + 1 /\ walk.steady
      BY <1>4
    <2>2. Cardinality(UpTo(kind, table, walk.filter, r)) > walk.page * PAGE_NUM
      BY <2>1, <1>0, <1>1 DEF Shows, Holds
    <2>3. n - 1 = walk.page
      BY <2>1, <1>1
    <2> QED BY <2>2, <2>3
  <1>9. Shows(walk', kind, table)
    BY <1>3, <1>4, <1>5 DEF Shows, Holds
  <1>10. Covered(walk', kind, table)
    BY <1>3, <1>4, <1>5 DEF Covered
  <1>11. walk'.pc = "end" /\ walk'.steady => walk'.owed \subseteq walk'.seen
    <2> SUFFICES ASSUME p = "end", steady PROVE walk.owed \subseteq walk.seen \cup walk.items
      BY <1>5
    <2>1. Cardinality(walk.items) # PAGE_NUM
      BY <1>3, <1>4 DEF full
    <2> QED BY <2>1, <1>0, <1>1, <1>4 DEF Shows, Holds
  <1>12. WalkOK(walk', kind, table)
    BY <1>6, <1>7, <1>8, <1>9, <1>10, <1>11 DEF WalkOK
  <1> QED BY <1>1, <1>5, <1>12, OnlyTheWalkMoves

LEMMA AnswerPreserves ==
    ASSUME ListInv, kind \in Exports, NEW ok \in BOOLEAN, Answered(ok)
    PROVE  ListInv'
  <1>0. /\ walk \in Walk /\ InOrder(walk, kind) /\ StillThere(walk, kind, table) /\ Shows(walk, kind, table)
    BY Facts
  <1> DEFINE seen == IF ok THEN walk.items ELSE {}
  <1> DEFINE steady == ok /\ walk.steady /\ Cardinality(walk.items) < EXPORT_MAX
  <1>1. /\ walk' = [walk EXCEPT !.pc = "end", !.seen = seen, !.steady = steady]
        /\ kind \in Exports /\ walk.pc = "answer" /\ UNCHANGED <<kind, table, made, ended>>
    BY DEF Answered
  <1>2. seen \in SUBSET (1..MaxRows) /\ steady \in BOOLEAN
    BY <1>0, WalkFields
  <1>3. steady => walk.steady /\ seen = walk.items /\ Cardinality(walk.items) < EXPORT_MAX
    OBVIOUS
  <1> HIDE DEF seen, steady
  <1>4. /\ walk'.seen = seen /\ walk'.pc = "end" /\ walk'.page = walk.page /\ walk'.steady = steady
        /\ walk'.items = walk.items /\ walk'.filter = walk.filter /\ walk'.owed = walk.owed
        /\ walk' \in Walk
    BY <1>0, <1>1, <1>2 DEF Walk
  <1>5. InOrder(walk', kind)
    BY <1>0, <1>1, <1>4 DEF InOrder
  <1>6. StillThere(walk', kind, table)
    BY <1>0, <1>3, <1>4 DEF StillThere
  <1>7. Ahead(walk', kind, table) /\ Shows(walk', kind, table) /\ Covered(walk', kind, table)
    BY <1>4 DEF Ahead, Shows, Holds, Covered
  <1>8. steady => walk.owed \subseteq seen
    BY <1>0, <1>1, <1>3 DEF Shows, Holds
  <1>9. WalkOK(walk', kind, table)
    BY <1>4, <1>5, <1>6, <1>7, <1>8 DEF WalkOK
  <1> QED BY <1>1, <1>4, <1>9, OnlyTheWalkMoves

\* A row is written before the others.
LEMMA WritePreserves ==
    ASSUME ListInv, NEW k, NEW tags \in SUBSET Tag, Write(k, tags)
    PROVE  ListInv'
  <1>0. /\ made \in Nat /\ ended \in Nat /\ ended \in 0..MaxRows /\ walk \in Walk
        /\ DOMAIN table \subseteq 1..made /\ table \in [DOMAIN table -> Row]
        /\ \A i \in DOMAIN table : table[i].done \in Nat /\ table[i].done <= ended /\ table[i].tag \in Tag
        /\ \A i, j \in DOMAIN table : table[i].done = table[j].done /\ table[i].done > 0 => i = j
        /\ StillThere(walk, kind, table)
    BY Facts
  <1>1. /\ made < MaxRows /\ made' = made + 1 /\ UNCHANGED <<kind, ended, walk>>
    BY DEF Write
  <1>2. PICK t \in tags : table' = [i \in DOMAIN table \cup {made + 1} |->
                                      IF i = made + 1 THEN [tag |-> t, done |-> 0] ELSE table[i]]
    BY DEF Write
  <1>3. made + 1 \notin DOMAIN table
    BY <1>0
  <1> DEFINE row == [tag |-> t, done |-> 0]
  <1>4. row \in Row /\ row.done = 0
    BY <1>2, ListingsAssumption DEF Row
  <1>5. /\ DOMAIN table' = DOMAIN table \cup {made + 1}
        /\ table'[made + 1] = row /\ \A i \in DOMAIN table : table'[i] = table[i]
    BY <1>2, <1>3
  <1> HIDE DEF row
  <1>6. /\ DOMAIN table' \subseteq 1..made' /\ made' \in 0..MaxRows
    BY <1>0, <1>1, <1>5, ListingsAssumption
  <1>7. table' \in [DOMAIN table' -> Row]
    BY <1>0, <1>2, <1>4, <1>5 DEF row
  <1>8. RowsOK(table', made', ended')
    <2>1. \A i \in DOMAIN table' : table'[i].done <= ended'
      BY <1>0, <1>1, <1>4, <1>5
    <2>2. \A i, j \in DOMAIN table' : table'[i].done = table'[j].done /\ table'[i].done > 0 => i = j
      BY <1>0, <1>4, <1>5
    <2> QED BY <1>6, <1>7, <2>1, <2>2 DEF RowsOK
  <1>9. ASSUME NEW r \in walk.owed, walk.steady
        PROVE  /\ r \in Selected(table', walk.filter)
               /\ kind = "commands" => table'[r].done > 0
               /\ UpTo(kind, table, walk.filter, r) \subseteq UpTo(kind, table', walk.filter, r)
    <2>1. r \in Selected(table, walk.filter) /\ (kind = "commands" => table[r].done > 0)
      BY <1>0, <1>9 DEF StillThere
    <2>2. r \in DOMAIN table /\ table'[r] = table[r]
      BY <2>1, <1>5 DEF Selected
    <2>3. Selected(table, walk.filter) \subseteq Selected(table', walk.filter)
      BY <1>5 DEF Selected
    <2>4. \A i \in Selected(table, walk.filter) : SortKey(kind, table', i) = SortKey(kind, table, i)
      BY <1>5 DEF Selected, SortKey
    <2> QED BY <2>1, <2>2, <2>3, <2>4 DEF UpTo
  <1> QED BY <1>0, <1>1, <1>5, <1>6, <1>8, <1>9, TheTableMoves

\* A row gets another tag.
LEMMA RetagPreserves ==
    ASSUME ListInv, NEW i \in DOMAIN table, NEW t \in Tag, Retag(i, t), Unsettles(i),
           UNCHANGED <<kind, made, ended>>
    PROVE  ListInv'
  <1>0. /\ made \in 0..MaxRows /\ ended \in 0..MaxRows /\ walk \in Walk
        /\ DOMAIN table \subseteq 1..made /\ table \in [DOMAIN table -> Row]
        /\ \A j \in DOMAIN table : table[j].done \in Nat /\ table[j].done <= ended /\ table[j].tag \in Tag
        /\ \A h, j \in DOMAIN table : table[h].done = table[j].done /\ table[h].done > 0 => h = j
        /\ StillThere(walk, kind, table)
    BY Facts
  <1> DEFINE row == [tag |-> t, done |-> table[i].done]
  <1> DEFINE steady == walk.steady /\ ~Leaves(i)
  <1>1. table' = [table EXCEPT ![i] = row] /\ walk' = [walk EXCEPT !.steady = steady]
    BY DEF Retag, Unsettles
  <1>2. row \in Row /\ row.done = table[i].done /\ row.tag = t
    <2>1. table[i].done \in 0..MaxRows
      BY <1>0 DEF Row
    <2> QED BY <2>1 DEF Row
  <1>3. steady \in BOOLEAN /\ (steady => walk.steady /\ walk.filter # table[i].tag)
    BY DEF Leaves
  <1> HIDE DEF row, steady
  <1>4. /\ DOMAIN table' = DOMAIN table /\ table' \in [DOMAIN table' -> Row]
        /\ table'[i] = row /\ \A j \in DOMAIN table : j # i => table'[j] = table[j]
    BY <1>0, <1>1, <1>2
  <1>5. \A j \in DOMAIN table : table'[j].done = table[j].done
    BY <1>2, <1>4
  <1>6. RowsOK(table', made', ended')
    BY <1>0, <1>4, <1>5 DEF RowsOK
  <1>7. /\ walk' \in Walk /\ walk'.pc = walk.pc /\ walk'.filter = walk.filter /\ walk'.page = walk.page
        /\ walk'.items = walk.items /\ walk'.total = walk.total /\ walk'.seen = walk.seen
        /\ walk'.owed = walk.owed /\ walk'.steady = steady
    BY <1>0, <1>1, <1>3 DEF Walk
  <1>8. ASSUME NEW r \in walk.owed, steady
        PROVE  /\ r \in Selected(table', walk.filter)
               /\ kind = "commands" => table'[r].done > 0
               /\ UpTo(kind, table, walk.filter, r) \subseteq UpTo(kind, table', walk.filter, r)
    <2>1. r \in Selected(table, walk.filter) /\ (kind = "commands" => table[r].done > 0)
      BY <1>0, <1>3, <1>8 DEF StillThere
    <2>2. r \in DOMAIN table
      BY <2>1 DEF Selected
    <2>3. Selected(table, walk.filter) \subseteq Selected(table', walk.filter)
      BY <1>3, <1>4, <1>8 DEF Selected
    <2>4. \A j \in DOMAIN table : SortKey(kind, table', j) = SortKey(kind, table, j)
      BY <1>5 DEF SortKey
    <2>5. Selected(table, walk.filter) \subseteq DOMAIN table
      BY DEF Selected
    <2> QED BY <2>1, <2>2, <2>3, <2>4, <2>5, <1>5 DEF UpTo
  <1>9. kind = "users" => DOMAIN table \subseteq DOMAIN table'
    BY <1>4
  <1> QED BY <1>0, <1>3, <1>6, <1>7, <1>8, <1>9, TheTableMoves

\* The oldest rows go.
LEMMA PurgePreserves ==
    ASSUME ListInv, purge_older_than
    PROVE  ListInv'
  <1>0. /\ made \in 0..MaxRows /\ made \in Nat /\ ended \in 0..MaxRows /\ walk \in Walk
        /\ DOMAIN table \subseteq 1..made /\ table \in [DOMAIN table -> Row]
        /\ \A j \in DOMAIN table : table[j].done \in Nat /\ table[j].done <= ended
        /\ \A h, j \in DOMAIN table : table[h].done = table[j].done /\ table[h].done > 0 => h = j
        /\ StillThere(walk, kind, table)
    BY Facts
  <1>1. kind \in {"audit"} \cup Exports /\ UNCHANGED <<kind, made, ended>> /\ kind # "users" /\ kind # "commands"
    BY DEF purge_older_than, Exports
  <1>2. PICK i \in 1..made : /\ table' = [j \in {q \in DOMAIN table : q > i} |-> table[j]]
                             /\ walk' = [walk EXCEPT !.owed = {j \in walk.owed : j > i}]
    BY DEF purge_older_than
  <1> DEFINE owed == {j \in walk.owed : j > i}
  <1>3. owed \in SUBSET (1..MaxRows) /\ owed \subseteq walk.owed
    BY <1>0, WalkFields
  <1>4. /\ DOMAIN table' = {q \in DOMAIN table : q > i} /\ table' \in [DOMAIN table' -> Row]
        /\ \A j \in DOMAIN table' : table'[j] = table[j]
    BY <1>0, <1>2
  <1>5. RowsOK(table', made', ended')
    BY <1>0, <1>1, <1>4 DEF RowsOK
  <1> HIDE DEF owed
  <1>6. /\ walk' \in Walk /\ walk'.pc = walk.pc /\ walk'.filter = walk.filter /\ walk'.page = walk.page
        /\ walk'.items = walk.items /\ walk'.total = walk.total /\ walk'.seen = walk.seen
        /\ walk'.owed = owed /\ walk'.steady = walk.steady
    <2>1. walk' = [walk EXCEPT !.owed = owed]
      BY <1>2 DEF owed
    <2> QED BY <2>1, <1>0, <1>3 DEF Walk
  <1>7. ASSUME NEW r \in owed, walk.steady
        PROVE  /\ r \in Selected(table', walk.filter)
               /\ UpTo(kind, table, walk.filter, r) \subseteq UpTo(kind, table', walk.filter, r)
    <2>1. r \in Selected(table, walk.filter) /\ r > i /\ r \in Nat
      BY <1>0, <1>7 DEF StillThere, owed, Selected
    <2>2. r \in Selected(table', walk.filter)
      BY <2>1, <1>4 DEF Selected
    <2>3. UpTo(kind, table, walk.filter, r) \subseteq UpTo(kind, table', walk.filter, r)
      BY <2>1, <1>0, <1>1, <1>4 DEF UpTo, Selected, SortKey
    <2> QED BY <2>2, <2>3
  <1> QED BY <1>0, <1>1, <1>3, <1>5, <1>6, <1>7, TheTableMoves

\* A run ends and comes before the others.
LEMMA FinishPreserves ==
    ASSUME ListInv, mark_finished
    PROVE  ListInv'
  <1>0. /\ made \in 0..MaxRows /\ ended \in Nat /\ walk \in Walk
        /\ DOMAIN table \subseteq 1..made /\ table \in [DOMAIN table -> Row]
        /\ \A j \in DOMAIN table : table[j].done \in Nat /\ table[j].done <= ended /\ table[j].tag \in Tag
        /\ \A h, j \in DOMAIN table : table[h].done = table[j].done /\ table[h].done > 0 => h = j
        /\ StillThere(walk, kind, table)
    BY Facts
  <1>1. kind = "commands" /\ ended < MaxRows /\ ended' = ended + 1 /\ UNCHANGED <<kind, made, walk>>
    BY DEF mark_finished
  <1>2. PICK i \in DOMAIN table : /\ table[i].done = 0
                                  /\ table' = [table EXCEPT ![i] = [tag |-> table[i].tag, done |-> ended + 1]]
    BY DEF mark_finished
  <1> DEFINE row == [tag |-> table[i].tag, done |-> ended + 1]
  <1>3. row \in Row /\ row.done = ended + 1 /\ row.tag = table[i].tag /\ ended' \in 0..MaxRows
    BY <1>0, <1>1, <1>2, ListingsAssumption DEF Row
  <1>4. table' = [table EXCEPT ![i] = row]
    BY <1>2
  <1> HIDE DEF row
  <1>5. /\ DOMAIN table' = DOMAIN table /\ table' \in [DOMAIN table' -> Row]
        /\ table'[i] = row /\ \A j \in DOMAIN table : j # i => table'[j] = table[j]
    BY <1>0, <1>2, <1>3, <1>4
  <1>6. RowsOK(table', made', ended')
    <2>1. \A j \in DOMAIN table : table'[j].done <= ended'
      BY <1>0, <1>1, <1>3, <1>5
    <2>2. \A h, j \in DOMAIN table : table'[h].done = table'[j].done /\ table'[h].done > 0 => h = j
      BY <1>0, <1>3, <1>5
    <2> QED BY <2>1, <2>2, <1>0, <1>1, <1>5 DEF RowsOK
  <1>7. ASSUME NEW r \in walk.owed, walk.steady
        PROVE  /\ r \in Selected(table', walk.filter) /\ table'[r].done > 0
               /\ UpTo(kind, table, walk.filter, r) \subseteq UpTo(kind, table', walk.filter, r)
    <2>1. r \in Selected(table, walk.filter) /\ table[r].done > 0
      BY <1>0, <1>1, <1>7 DEF StillThere
    <2>2. r \in DOMAIN table /\ r # i /\ table'[r] = table[r]
      BY <2>1, <1>2, <1>5 DEF Selected
    <2>3. Selected(table, walk.filter) = Selected(table', walk.filter)
      BY <1>3, <1>5 DEF Selected
    <2>4. \A j \in DOMAIN table : table'[j].done >= table[j].done /\ table'[j].done \in Nat
      BY <1>0, <1>2, <1>3, <1>5
    <2>5. /\ \A j \in DOMAIN table : SortKey(kind, table, j) = table[j].done /\ SortKey(kind, table', j) = table'[j].done
          /\ Selected(table, walk.filter) \subseteq DOMAIN table
      BY <1>1 DEF SortKey, Selected
    <2>6. UpTo(kind, table, walk.filter, r) \subseteq UpTo(kind, table', walk.filter, r)
      <3> SUFFICES ASSUME NEW j \in Selected(table, walk.filter), SortKey(kind, table, j) >= SortKey(kind, table, r)
                   PROVE  SortKey(kind, table', j) >= SortKey(kind, table', r)
        BY <2>3 DEF UpTo
      <3>1. j \in DOMAIN table /\ table[j].done >= table[r].done
        BY <2>2, <2>5
      <3>2. table'[j].done >= table'[r].done
        BY <3>1, <2>2, <2>4, <1>0
      <3> QED BY <3>1, <3>2, <2>2, <2>5
    <2> QED BY <2>1, <2>2, <2>3, <2>6
  <1> QED BY <1>0, <1>1, <1>3, <1>6, <1>7, TheTableMoves

LEMMA RoomsPreserve ==
    ASSUME ListInv, RoomsChange
    PROVE  ListInv'
  <1>0. /\ made \in 0..MaxRows /\ ended \in 0..MaxRows /\ walk \in Walk
        /\ DOMAIN table \subseteq 1..made /\ table \in [DOMAIN table -> Row]
        /\ \A j \in DOMAIN table : table[j].done \in Nat /\ table[j].done <= ended /\ table[j].tag \in Tag
        /\ \A h, j \in DOMAIN table : table[h].done = table[j].done /\ table[h].done > 0 => h = j
    BY Facts
  <1>1. CASE Write({"rooms"}, Tag)
    BY <1>1, WritePreserves
  <1>2. ASSUME ~Write({"rooms"}, Tag) PROVE ListInv'
    <2>1. kind = "rooms" /\ UNCHANGED <<kind, made, ended>> /\ walk' = [walk EXCEPT !.steady = FALSE]
      BY <1>2 DEF RoomsChange
    <2>2. /\ walk' \in Walk /\ walk'.pc = walk.pc /\ walk'.filter = walk.filter /\ walk'.page = walk.page
          /\ walk'.items = walk.items /\ walk'.total = walk.total /\ walk'.seen = walk.seen
          /\ walk'.owed = walk.owed /\ walk'.steady = FALSE
      BY <1>0, <2>1 DEF Walk
    <2>3. PICK i \in DOMAIN table : \/ table' = [j \in DOMAIN table \ {i} |-> table[j]]
                                    \/ \E t \in Tag : Retag(i, t)
      BY <1>2 DEF RoomsChange
    <2>4. RowsOK(table', made', ended')
      <3>1. CASE table' = [j \in DOMAIN table \ {i} |-> table[j]]
        <4>1. /\ DOMAIN table' = DOMAIN table \ {i} /\ table' \in [DOMAIN table' -> Row]
              /\ \A j \in DOMAIN table' : table'[j] = table[j]
          BY <1>0, <3>1
        <4> QED BY <4>1, <1>0, <2>1 DEF RowsOK
      <3>2. ASSUME NEW t \in Tag, Retag(i, t) PROVE RowsOK(table', made', ended')
        <4> DEFINE row == [tag |-> t, done |-> table[i].done]
        <4>1. table' = [table EXCEPT ![i] = row]
          BY <3>2 DEF Retag
        <4>2. row \in Row /\ row.done = table[i].done
          <5>1. table[i].done \in 0..MaxRows
            BY <1>0, <2>3 DEF Row
          <5> QED BY <5>1 DEF Row
        <4> HIDE DEF row
        <4>3. /\ DOMAIN table' = DOMAIN table /\ table' \in [DOMAIN table' -> Row]
              /\ \A j \in DOMAIN table : table'[j].done = table[j].done
          BY <1>0, <2>3, <4>1, <4>2
        <4> QED BY <4>3, <1>0, <2>1 DEF RowsOK
      <3> QED BY <2>3, <3>1, <3>2
    <2>5. ~walk'.steady /\ kind # "users"
      BY <2>1, <2>2
    <2> QED BY <1>0, <2>1, <2>2, <2>4, <2>5, TheTableMoves
  <1> QED BY <1>1, <1>2

LEMMA ListStep ==
    ASSUME ListInv, [ListNext]_listVars
    PROVE  ListInv'
  <1>1. CASE \/ UsersRows \/ AuditList \/ Export \/ ExportCsv \/ JobsRows \/ TasksRows \/ RecentRows \/ ListRooms
    BY <1>1, RowsPreserve
  <1>2. CASE UsersCount \/ JobsCount \/ TasksCount \/ RecentCount
    BY <1>2, CountsPreserve
  <1>3. CASE TurnPage
    BY <1>3, TurnPreserves
  <1>4. ASSUME NEW f \in Tag \cup {AnyTag}, WalkBegin(f) PROVE ListInv'
    BY <1>4, BeginPreserves
  <1>5. CASE csv_response \/ \E ok \in BOOLEAN : require(ok)
    BY <1>5, AnswerPreserves DEF csv_response, require, Exports
  <1>6. CASE upsert_by_phira_id
    <2>1. CASE Write({"users"}, Tag)
      BY <2>1, WritePreserves
    <2>2. ASSUME NEW i \in DOMAIN table, NEW t \in Tag, Retag(i, t), Unsettles(i), UNCHANGED <<kind, made, ended>>
          PROVE  ListInv'
      BY <2>2, RetagPreserves
    <2> QED BY <2>1, <2>2, <1>6 DEF upsert_by_phira_id
  <1>7. CASE record_principal \/ record_completed_command
    BY <1>7, WritePreserves DEF record_principal, record_completed_command, record
  <1>8. CASE purge_older_than
    BY <1>8, PurgePreserves
  <1>9. CASE JobCreated \/ TaskCreated \/ insert_queued
    <2>1. {"old"} \in SUBSET Tag
      BY DEF Tag
    <2> QED BY <2>1, <1>9, WritePreserves DEF JobCreated, TaskCreated, insert_queued
  <1>10. CASE complete_task
    <2>1. PICK i \in DOMAIN table : Retag(i, "new") /\ Unsettles(i)
      BY <1>10 DEF complete_task
    <2>2. UNCHANGED <<kind, made, ended>> /\ "new" \in Tag
      BY <1>10 DEF complete_task, Tag
    <2> QED BY <2>1, <2>2, RetagPreserves
  <1>11. CASE mark_finished
    BY <1>11, FinishPreserves
  <1>12. CASE RoomsChange
    BY <1>12, RoomsPreserve
  <1>13. CASE UNCHANGED listVars
    BY <1>13 DEF listVars, ListInv
  <1> QED BY <1>1, <1>2, <1>3, <1>4, <1>5, <1>6, <1>7, <1>8, <1>9, <1>10, <1>11, <1>12, <1>13 DEF ListNext, list_commands

\* A client who turns the pages of a listing until one is not full has seen
\* every row that it was owed from the beginning, however many rows are written,
\* finished or purged under the walk and however long the pages are
\* (users/routes.rs, audit/repo.rs, commands/repo.rs).
LEMMA WalksAreComplete == ListSpec => []WalkIsComplete
  <1>1. ListInv => WalkIsComplete
    BY DEF ListInv, RowsOK, WalkOK, WalkIsComplete, ListTypeOK
  <1> QED BY <1>1, ListInitially, ListStep, PTL DEF ListSpec

\* The total that comes with a page of users or of rooms counts every row up to
\* the last one of the page (users/routes.rs, rooms/routes.rs).
LEMMA TotalsCoverTheirPages == ListSpec => []TotalCoversPage
  <1>1. ListInv => TotalCoversPage
    BY DEF ListInv, WalkOK, Covered, TotalCoversPage
  <1> QED BY <1>1, ListInitially, ListStep, PTL DEF ListSpec

(* Turning the pages of a listing shows every row that stayed in it, and   *)
(* no page goes beyond its total, for any rows and any size of a page.     *)
(* users/routes.rs:63-126, audit/repo.rs:59-110, jobs/routes.rs:131-264,   *)
(* commands/repo.rs:88-152, rooms/routes.rs:951-1009.                      *)
THEOREM ListingsStayWhole == ListSpec => []ListingsAreWhole
  BY WalksAreComplete, TotalsCoverTheirPages, PTL DEF ListingsAreWhole
=============================================================================
