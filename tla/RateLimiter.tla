---------------------------- MODULE RateLimiter ----------------------------
(***************************************************************************)
(* middleware/rate_limit.rs for one key: a queue of the wall-clock seconds *)
(* of the attempts let through.  A call reads the clock before it takes    *)
(* the lock of the shard, so calls may be applied in another order than    *)
(* that of their readings.  The clock is the system time: it may be set    *)
(* forward or back.                                                        *)
(***************************************************************************)
EXTENDS Integers, Sequences, FiniteSets

CONSTANTS
    Client,    \* the requests checked at one time
    Limit,     \* limit_per_minute, per policy 0 for none at all
    Window,    \* 60 seconds
    MaxClock,  \* bound on the wall clock
    MaxPassed  \* bound on the attempts let through

ASSUME RateAssumption ==
    Limit \in Nat /\ Window \in Nat \ {0} /\ MaxClock \in Nat /\ MaxPassed \in Nat

VARIABLES
    wall,      \* the system time
    reading,   \* per client: `now' of its check, or Unread
    bucket,    \* attempts let through, oldest call first
    latest,    \* history: the reading of the call applied last
    steady,    \* history: calls were applied in the order of their readings
    passed,    \* history: seconds of all attempts let through
    refusal    \* history: when the last refusal said to come back, or Never

rateVars == <<wall, reading, bucket, latest, steady, passed, refusal>>

Never == [until |-> -1]
Unread == -1

RateInit ==
    /\ wall = 0
    /\ reading = [c \in Client |-> Unread]
    /\ bucket = <<>>
    /\ latest = 0
    /\ steady = TRUE
    /\ passed = <<>>
    /\ refusal = Never

Larger(x, y) == IF x > y THEN x ELSE y
InWindow(t, now) == now - t < Window
Recent(s, now) == {i \in 1..Len(s) : InWindow(s[i], now)}
\* retain: what is left of the bucket, in its order; place[i] is where the
\* i-th attempt that stays stood.
Keeps(place, now) ==
    /\ {place[i] : i \in DOMAIN place} = Recent(bucket, now)
    /\ \A i, j \in DOMAIN place : i < j => place[i] < place[j]
Kept(place) == [i \in DOMAIN place |-> bucket[place[i]]]
retry_after(kept, now) ==
    IF kept = <<>> THEN Window ELSE Larger(Window - (now - Head(kept)), 1)

Refuse(kept, now) ==
    /\ bucket' = kept
    /\ refusal' = [until |-> now + retry_after(kept, now)]
    /\ UNCHANGED passed
\* An attempt that passes ends the promise made with an earlier refusal.
Pass(kept, now) ==
    /\ bucket' = Append(kept, now)
    /\ passed' = Append(passed, now)
    /\ refusal' = Never

\* let now = now_secs(): a limit of zero is refused before.
ReadClock(c) ==
    /\ Limit > 0
    /\ reading[c] = Unread
    /\ reading' = [reading EXCEPT ![c] = wall]
    /\ UNCHANGED <<wall, bucket, latest, steady, passed, refusal>>

\* A reading that another call has overtaken, or one from before the clock
\* was set back, ends `steady'.
Applied(c) ==
    /\ reading' = [reading EXCEPT ![c] = Unread]
    /\ latest' = reading[c]
    /\ steady' = (steady /\ reading[c] >= latest)
    /\ UNCHANGED wall

\* With the shard locked.  The bucket is pruned whether or not the attempt
\* is let through.
CheckOver(c) ==
    /\ reading[c] # Unread
    /\ \E n \in 0..Len(bucket) : \E place \in [1..n -> 1..Len(bucket)] :
        /\ Keeps(place, reading[c])
        /\ IF n > Limit THEN Refuse(Kept(place), reading[c]) ELSE Pass(Kept(place), reading[c])
    /\ Applied(c)
Check(c) ==
    /\ reading[c] # Unread
    /\ \E n \in 0..Len(bucket) : \E place \in [1..n -> 1..Len(bucket)] :
        /\ Keeps(place, reading[c])
        /\ IF n >= Limit THEN Refuse(Kept(place), reading[c]) ELSE Pass(Kept(place), reading[c])
    /\ Applied(c)

\* The system time goes on, or is set back.
now_secs ==
    /\ \E t \in 0..MaxClock : t # wall /\ wall' = t
    /\ UNCHANGED <<reading, bucket, latest, steady, passed, refusal>>

RateNext ==
    \/ \E c \in Client : ReadClock(c) \/ (Len(passed) < MaxPassed /\ Check(c))
    \/ now_secs
RateSpec == RateInit /\ [][RateNext]_rateVars

RateTypeOK ==
    /\ wall \in 0..MaxClock /\ reading \in [Client -> {Unread} \cup 0..MaxClock]
    /\ Len(bucket) <= Len(passed)

\* The attempts let through in the window that begins with the i-th.
InWindowOf(i) == {j \in 1..Len(passed) : passed[j] >= passed[i] /\ passed[j] < passed[i] + Window}

(* The bucket never holds more than the limit, and when the time given in  *)
(* Retry-After is over an attempt is let through, even after the clock was *)
(* set back or calls overtook each other.  No window of 60 s sees more     *)
(* attempts than the limit as long as the calls take the lock in the order *)
(* in which they read the clock.  Without that the "sliding-window rate    *)
(* limiter (per key per minute)" of rate_limit.rs:1 may let one more       *)
(* through: a call that read 69 may be applied after one that read 70 and  *)
(* pruned an attempt of second 10.  middleware/rate_limit.rs:25-47.        *)
LimitIsKept ==
    /\ RateTypeOK
    /\ Len(bucket) <= Limit
    /\ steady => \A i \in 1..Len(passed) : Cardinality(InWindowOf(i)) <= Limit
    /\ refusal # Never /\ wall >= refusal.until => Cardinality(Recent(bucket, wall)) < Limit
=============================================================================
