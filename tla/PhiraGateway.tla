---------------------------- MODULE PhiraGateway ----------------------------
(***************************************************************************)
(* The cache in front of the Phira API: phira/gateway.rs and the routes of *)
(* phira/routes.rs that read through it.  A key is what cache_key makes of *)
(* a path and its query, whatever their order.  get_json looks into the    *)
(* cache, is charged for its path, queues for the key's lock, looks again  *)
(* and only then asks Phira; fetch_chart_file asks for the chart through   *)
(* get_json and downloads the file without a lock.  A request to Phira,    *)
(* with its retries (module PhiraRetry), is one step that may fail; an     *)
(* entry expires whenever its time is over.                                *)
(***************************************************************************)
EXTENDS Naturals, Sequences, FiniteSets

CONSTANTS
    Key,      \* cache keys
    Caller,   \* requests served at the same time
    None

VARIABLES
    cache,    \* keys with an entry: "none", "fresh" or "expired"
    files,    \* the same for chart files
    locks,    \* waiters for the lock of a key, the holder first
    caller    \* what every caller does

gatewayVars == <<cache, files, locks, caller>>

Entry == {"none", "fresh", "expired"}
Idle == [pc |-> "idle", key |-> None, file |-> FALSE]

GatewayInit ==
    /\ cache = [k \in Key |-> "none"]
    /\ files = [k \in Key |-> "none"]
    /\ locks = [k \in Key |-> <<>>]
    /\ caller = [c \in Caller |-> Idle]

Moves(c, pc) == caller' = [caller EXCEPT ![c].pc = pc]
\* What follows get_json: the download of the file, or the answer.
Returns(c, ok) ==
    IF ok /\ caller[c].file THEN Moves(c, "download") ELSE caller' = [caller EXCEPT ![c] = Idle]

-----------------------------------------------------------------------------
\* A route calls get_json or fetch_chart_file; a fresh entry is the answer.
CallJson(c, k) ==
    /\ caller[c] = Idle
    /\ cache[k] # "fresh"
    /\ caller' = [caller EXCEPT ![c] = [pc |-> "rate", key |-> k, file |-> FALSE]]
    /\ UNCHANGED <<cache, files, locks>>

fetch_chart_file(c, k) ==
    /\ caller[c] = Idle
    /\ files[k] # "fresh"
    /\ caller' = [caller EXCEPT ![c] = [pc |-> "json", key |-> k, file |-> TRUE]]
    /\ UNCHANGED <<cache, files, locks>>

\* The chart's own entry, on the way to its file.
ChartOfFile(c) ==
    /\ caller[c].pc = "json"
    /\ IF cache[caller[c].key] = "fresh" THEN Returns(c, TRUE) ELSE Moves(c, "rate")
    /\ UNCHANGED <<cache, files, locks>>

\* The limiter refuses, or the caller queues for the lock of its key.
ChargeAndQueue(c) ==
    LET k == caller[c].key IN
    /\ caller[c].pc = "rate"
    /\ \/ locks' = [locks EXCEPT ![k] = Append(@, c)] /\ Moves(c, "queued")
       \/ Returns(c, FALSE) /\ UNCHANGED locks
    /\ UNCHANGED <<cache, files>>

\* With the lock the cache is looked at again.
AcquireOnce(c) ==
    LET k == caller[c].key IN
    /\ caller[c].pc = "queued" /\ Head(locks[k]) = c
    /\ Moves(c, "fetch")
    /\ UNCHANGED <<cache, files, locks>>
Acquire(c) ==
    LET k == caller[c].key IN
    /\ caller[c].pc = "queued" /\ Head(locks[k]) = c
    /\ IF cache[k] = "fresh"
       THEN Returns(c, TRUE) /\ locks' = [locks EXCEPT ![k] = Tail(@)]
       ELSE Moves(c, "fetch") /\ UNCHANGED locks
    /\ UNCHANGED <<cache, files>>

\* Phira answers and the value is stored, or the call fails; either way the
\* guard is dropped and the next waiter goes on.
FetchEndsHolding(c) ==
    LET k == caller[c].key IN
    /\ caller[c].pc = "fetch"
    /\ \/ /\ cache' = [cache EXCEPT ![k] = "fresh"] /\ Returns(c, TRUE)
          /\ locks' = [locks EXCEPT ![k] = Tail(@)]
       \/ UNCHANGED <<cache, locks>> /\ Returns(c, FALSE)
    /\ UNCHANGED files
FetchEnds(c) ==
    LET k == caller[c].key IN
    /\ caller[c].pc = "fetch"
    /\ \/ cache' = [cache EXCEPT ![k] = "fresh"] /\ Returns(c, TRUE)
       \/ UNCHANGED cache /\ Returns(c, FALSE)
    /\ locks' = [locks EXCEPT ![k] = Tail(@)]
    /\ UNCHANGED files

\* The client goes away: the request is dropped where it is, and with it
\* its place in the queue or the lock it holds.
Without(q, c) ==
    IF \A i \in 1..Len(q) : q[i] # c THEN q
    ELSE LET place == CHOOSE i \in 1..Len(q) : q[i] = c
         IN  [i \in 1..(Len(q) - 1) |-> IF i < place THEN q[i] ELSE q[i + 1]]
Dropped(c) ==
    /\ caller[c] # Idle
    /\ caller' = [caller EXCEPT ![c] = Idle]
    /\ locks' = [k \in Key |-> Without(locks[k], c)]
    /\ UNCHANGED <<cache, files>>

\* No lock: callers that missed together download together.
Download(c) ==
    /\ caller[c].pc = "download"
    /\ \/ files' = [files EXCEPT ![caller[c].key] = "fresh"]
       \/ UNCHANGED files
    /\ caller' = [caller EXCEPT ![c] = Idle]
    /\ UNCHANGED <<cache, locks>>

Expires(k) ==
    /\ \/ cache[k] = "fresh" /\ cache' = [cache EXCEPT ![k] = "expired"] /\ UNCHANGED files
       \/ files[k] = "fresh" /\ files' = [files EXCEPT ![k] = "expired"] /\ UNCHANGED cache
    /\ UNCHANGED <<locks, caller>>

-----------------------------------------------------------------------------
Serve(c) == ChartOfFile(c) \/ ChargeAndQueue(c) \/ Acquire(c) \/ FetchEnds(c) \/ Download(c)
GatewayNext ==
    \/ \E c \in Caller :
        \/ Serve(c) \/ Dropped(c)
        \/ \E k \in Key : CallJson(c, k) \/ fetch_chart_file(c, k)
    \/ \E k \in Key : Expires(k)

\* Requests have a timeout, the mutex is served in order.
GatewayFairness == \A c \in Caller : WF_gatewayVars(Serve(c))

GatewaySpec == GatewayInit /\ [][GatewayNext]_gatewayVars

GatewayTypeOK ==
    /\ cache \in [Key -> Entry] /\ files \in [Key -> Entry]
    /\ \A k \in Key : \A i \in 1..Len(locks[k]) : caller[locks[k][i]].key = k

(* Single flight: at most one caller asks Phira for a key, and never while *)
(* the cache has a fresh value for it, whoever waits, gives up or misses   *)
(* at the same time.  phira/gateway.rs:56-92.                              *)
SingleFlight ==
    /\ GatewayTypeOK
    /\ \A c \in Caller : caller[c].pc = "fetch" =>
        /\ cache[caller[c].key] # "fresh"
        /\ \A d \in Caller \ {c} :
              caller[d].pc = "fetch" => caller[d].key # caller[c].key

(* Every call ends, also one behind a holder that fails, is slow or is     *)
(* dropped.  phira/gateway.rs:68-92.                                       *)
CallsEnd == \A c \in Caller : caller[c] # Idle ~> caller[c] = Idle
=============================================================================
