----------------------------- MODULE ReplayPages -----------------------------
(***************************************************************************)
(* Fetching a replay's data from PMP: replay/persist.rs, and the web       *)
(* socket of replay/routes.rs.                                             *)
(*                                                                         *)
(* PMP keeps the batches of all recordings in one log; the sequence number *)
(* of a batch is its place in it.  It lists the rounds of a player by      *)
(* offset, in an order of its own: rounds are numbered as they end and a   *)
(* new one comes first or last.  Both grow while a request pages through   *)
(* them.                                                                   *)
(***************************************************************************)
EXTENDS Naturals, Sequences, FiniteSets, Requests

CONSTANTS
    Recording, \* one stream of one player in one round
    MaxLog,    \* bound on PMP's log
    MaxRounds, \* bound on the rounds of the player
    PAGE,      \* rounds of a page
    MAX_PAGE   \* batches of a page

ASSUME PagesAssumption ==
    /\ MaxLog \in Nat /\ MaxRounds \in Nat
    /\ PAGE \in Nat \ {0} /\ MAX_PAGE \in Nat \ {0}

VARIABLES
    log,       \* the recording of every batch, in order
    rounds,    \* how many rounds of the player have ended
    newest,    \* whether PMP lists the newest round first
    reader     \* what every request or socket does

pageVars == <<log, rounds, newest, reader>>

PagesInit ==
    /\ log = <<>> /\ rounds = 0
    /\ newest \in BOOLEAN
    /\ reader = [c \in Handler |-> Idle]

\* The batches of a recording after a sequence number.
BatchesAfter(r, since) == {i \in 1..Len(log) : log[i] = r /\ i > since}

\* A batch of a round that is being played.
BatchArrives(r) ==
    /\ Len(log) < MaxLog
    /\ log' = Append(log, r)
    /\ UNCHANGED <<rounds, newest, reader>>

\* The page PMP answers with: the first batches after the cursor, as many as
\* the limit allows.
fetch_batches(r, since) ==
    {page \in SUBSET BatchesAfter(r, since) :
        /\ \A i \in page, j \in BatchesAfter(r, since) : j < i => j \in page
        /\ Cardinality(page) <= MAX_PAGE
        /\ Cardinality(page) < MAX_PAGE => page = BatchesAfter(r, since)}

\* mode "all": manifest and frames; "socket": a client that follows the
\* cursor the socket keeps for it.
Start(c, r, mode) ==
    /\ reader[c] = Idle
    /\ reader' = [reader EXCEPT ![c] = [pc |-> "page", recording |-> r, mode |-> mode, all |-> {},
                                        len |-> 0, since |-> 0, had |-> BatchesAfter(r, 0)]]
    /\ UNCHANGED <<log, rounds, newest>>

\* An answer with this page; the cursor goes on to `next'.
TakePage(c, page, next, last) ==
    LET s == reader[c] IN
    /\ reader' = [reader EXCEPT ![c] = [s EXCEPT
          !.all = s.all \cup page, !.len = s.len + Cardinality(page), !.since = next,
          !.pc = IF page = {} \/ last THEN "done" ELSE "page"]]
    /\ UNCHANGED <<log, rounds, newest>>
\* The highest sequence number of the page, or the cursor if it has none.
IsCursor(next, page, since) ==
    IF page = {} THEN next = since ELSE next \in page /\ \A i \in page : i <= next

\* One round of fetch_all_batches: an empty or a short page is the last.
FetchPageByCount(c) ==
    LET s == reader[c] IN
    /\ s.pc = "page" /\ s.mode = "all"
    /\ \E page \in fetch_batches(s.recording, s.since) :
          LET len == s.len + Cardinality(page) IN TakePage(c, page, len, len % MAX_PAGE # 0)
FetchPage(c) ==
    LET s == reader[c] IN
    /\ s.pc = "page" /\ s.mode = "all"
    /\ \E page \in fetch_batches(s.recording, s.since), next \in 0..Len(log) :
          /\ IsCursor(next, page, s.since)
          /\ TakePage(c, page, next, (s.len + Cardinality(page)) % MAX_PAGE # 0)

\* One fetch message of the socket: only an empty page is the last.
SocketFetch(c) ==
    LET s == reader[c] IN
    /\ s.pc = "page" /\ s.mode = "socket"
    /\ \E page \in fetch_batches(s.recording, s.since), next \in 0..Len(log) :
          IsCursor(next, page, s.since) /\ TakePage(c, page, next, FALSE)

-----------------------------------------------------------------------------
(* fetch_all_rounds, for the lists of replays.                             *)

RoundEnds ==
    /\ rounds < MaxRounds
    /\ rounds' = rounds + 1
    /\ UNCHANGED <<log, newest, reader>>

StartRounds(c) ==
    /\ reader[c] = Idle
    /\ reader' = [reader EXCEPT ![c] = [pc |-> "rounds", named |-> {}, offset |-> 0, had |-> rounds]]
    /\ UNCHANGED <<log, rounds, newest>>

\* The round at a place of PMP's list.
RoundAt(i) == IF newest THEN rounds + 1 - i ELSE i
\* The places of a page.
RoundsOfPage(offset) == {i \in 1..rounds : offset < i /\ i <= offset + PAGE}

ListRounds(c, page, next, more) ==
    LET s == reader[c] IN
    /\ reader' = [reader EXCEPT ![c] = [s EXCEPT
          !.named = s.named \cup {RoundAt(i) : i \in page}, !.offset = next,
          !.pc = IF more THEN "rounds" ELSE "listed"]]
    /\ UNCHANGED <<log, rounds, newest>>
\* PMP may say where to go on; else a full page says so.
RoundsPageShort(c, says) ==
    LET page == RoundsOfPage(reader[c].offset)
        next == reader[c].offset + Cardinality(page) IN
    /\ reader[c].pc = "rounds"
    /\ ListRounds(c, page, next, says /\ next < rounds)
RoundsPage(c, says) ==
    LET page == RoundsOfPage(reader[c].offset)
        next == reader[c].offset + Cardinality(page) IN
    /\ reader[c].pc = "rounds"
    /\ ListRounds(c, page, next, (says /\ next < rounds) \/ Cardinality(page) = PAGE)

\* The answer is sent; or PMP times out, or the client closes.
Finish(c) ==
    /\ reader[c] # Idle
    /\ reader' = [reader EXCEPT ![c] = Idle]
    /\ UNCHANGED <<log, rounds, newest>>

PagesNext ==
    \/ \E r \in Recording : BatchArrives(r)
    \/ \E c \in Handler :
        \/ \E r \in Recording, mode \in {"all", "socket"} : Start(c, r, mode)
        \/ FetchPage(c) \/ SocketFetch(c) \/ Finish(c)
        \/ StartRounds(c) \/ \E says \in BOOLEAN : RoundsPage(c, says)
    \/ RoundEnds

PagesSpec == PagesInit /\ [][PagesNext]_pageVars

-----------------------------------------------------------------------------
Paging == [pc : {"page", "done"}, recording : Recording, mode : {"all", "socket"},
           all : SUBSET (1..MaxLog), len : Nat, since : 0..MaxLog, had : SUBSET (1..MaxLog)]
Naming == [pc : {"rounds", "listed"}, named : SUBSET (1..MaxRounds), offset : 0..MaxRounds,
           had : 0..MaxRounds]

PagesTypeOK ==
    /\ log \in Seq(Recording) /\ Len(log) <= MaxLog
    /\ rounds \in 0..MaxRounds /\ newest \in BOOLEAN
    /\ reader \in [Handler -> Paging \cup Naming \cup {Idle}]

(* Paging through a log that grows: what the reader holds is the batches   *)
(* of its recording up to the cursor, each once and nothing of others, and *)
(* when it is done none is missing that the recording had when it began.   *)
(* replay/persist.rs:93-127, replay/routes.rs:644-704.                     *)
FetchIsComplete ==
    /\ PagesTypeOK
    /\ \A c \in Handler : LET s == reader[c] IN
          s.pc \in {"page", "done"} =>
              /\ s.all = {i \in 1..s.since : log[i] = s.recording} /\ s.since <= Len(log)
              /\ s.len = Cardinality(s.all)
              /\ s.pc = "done" => s.had \subseteq s.all

(* A list of rounds leaves out no round that had ended when the request    *)
(* began, whichever end of PMP's list new rounds are added to between two  *)
(* pages (it may name one twice).  replay/persist.rs:39-66, "callers that  *)
(* need the complete inventory must not confuse that page size with a      *)
(* global history limit".                                                  *)
RoundsAreComplete ==
    \A c \in Handler : reader[c].pc = "listed" => 1..reader[c].had \subseteq reader[c].named

(* The batches and the rounds fetched page by page are all that PMP had    *)
(* when the fetch began, though PMP goes on writing.                       *)
(* replay/persist.rs:39-127, replay/routes.rs:644-704.                     *)
PagesAreComplete == FetchIsComplete /\ RoundsAreComplete
=============================================================================
