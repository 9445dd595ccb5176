--------------------------- MODULE ServicesProofs ---------------------------
(***************************************************************************)
(* What module MCServices checks on small instances, proved for every set  *)
(* of runs, definitions, keys and callers, and for every limit, budget,    *)
(* timeout and window: the runs of runbooks, the cache in front of Phira,  *)
(* a call with its retries, and the rate limit.                            *)
(***************************************************************************)
EXTENDS Runbooks, PhiraGateway, PhiraRetry, RateLimiter, FiniteSetTheorems, TLAPS

-----------------------------------------------------------------------------
(* A call with its retries.                                                *)

\* While the call goes on it is within its budget, but for the redirects it
\* followed, and every request sent was a retry or a redirect.  The request
\* that ends it may take one more timeout.
RetryInv ==
    /\ RetryTypeOK
    /\ kind \in {"gateway", "login", "me"} /\ elapsed \in Int /\ asked \in Nat
    /\ kind = "gateway" => redirects = 0
    /\ status = "asking" => elapsed <= Budget + Timeout * redirects
    /\ status = "asking" => asked = attempt + redirects
    /\ elapsed <= Budget + Timeout * (redirects + 1)
    /\ asked <= attempt + redirects + 1

LEMMA TimesGrow ==
    ASSUME NEW t \in Nat, NEW m \in Nat, NEW r \in 0..m
    PROVE  /\ t * r \in Nat /\ t * (r + 1) = t * r + t
           /\ t * m \in Nat /\ t * (m + 1) = t * m + t /\ t * r <= t * m
  OBVIOUS

LEMMA DelayIsAnInteger ==
    ASSUME NEW n \in Nat
    PROVE  Delay(n) \in Int
  <1>1. Min3(n) \in Nat
    BY DEF Min3
  <1> QED BY <1>1 DEF Delay

\* A request that settles, redirects or is retried keeps the call within
\* its bounds.
LEMMA RequestKeepsBounds ==
    ASSUME RetryInv, NEW d \in Duration,
           Settled(d) \/ Transient(d) \/ (kind # "gateway" /\ Redirected(d))
    PROVE  RetryInv'
  <1>0. /\ RetryInv /\ status = "asking" /\ kind' = kind /\ asked' = asked + 1
        /\ d \in Nat /\ d <= Timeout /\ Timeout \in Nat /\ Budget \in Nat
        /\ attempt \in Nat /\ redirects \in Nat /\ attempt <= RETRY_MAX_ATTEMPTS
        /\ redirects <= MAX_REDIRECTS
        /\ RETRY_MAX_ATTEMPTS \in Nat /\ MAX_REDIRECTS \in Nat
    BY RetryAssumption DEF Settled, Redirected, Transient, Request, RetryInv, RetryTypeOK
  <1>1. /\ Timeout * redirects \in Nat
        /\ Timeout * (redirects + 1) = Timeout * redirects + Timeout
    BY <1>0, TimesGrow
  <1>2. CASE Settled(d)
    BY <1>0, <1>1, <1>2 DEF Settled, RetryInv, RetryTypeOK
  <1>3. CASE kind # "gateway" /\ Redirected(d)
    <2>1. CASE status' = "failed" /\ UNCHANGED redirects
      BY <1>0, <1>1, <1>3, <2>1 DEF Redirected, RetryInv, RetryTypeOK
    <2>2. CASE redirects < MAX_REDIRECTS /\ status' = "asking" /\ redirects' = redirects + 1
      <3>1. /\ Timeout * redirects' = Timeout * redirects + Timeout
            /\ Timeout * (redirects' + 1) = Timeout * redirects + Timeout + Timeout
        <4>1. redirects + 1 \in 0..MAX_REDIRECTS
          BY <1>0, <2>2
        <4> QED BY <1>0, <1>1, <2>2, <4>1, TimesGrow
      <3> QED BY <1>0, <1>1, <1>3, <2>2, <3>1 DEF Redirected, RetryInv, RetryTypeOK
    <2> QED BY <1>3, <2>1, <2>2 DEF Redirected
  <1>4. CASE Transient(d)
    <2>1. Delay(attempt + 1) \in Int
      BY <1>0, DelayIsAnInteger
    <2>2. CASE status' = "asking"
      <3>1. /\ attempt' = attempt + 1 /\ attempt < RETRY_MAX_ATTEMPTS
            /\ elapsed' = elapsed + d + Delay(attempt + 1)
            /\ elapsed + d + Delay(attempt + 1) <= Budget
            /\ redirects' = redirects
        BY <1>4, <2>2 DEF Transient, sleep_backoff
      <3>2. elapsed' \in Int /\ asked' \in Nat /\ RetryTypeOK'
        BY <1>0, <2>1, <2>2, <3>1 DEF RetryInv, RetryTypeOK
      <3>3. /\ elapsed' <= Budget + Timeout * redirects'
            /\ elapsed' <= Budget + Timeout * (redirects' + 1)
        BY <1>0, <1>1, <3>1, <3>2
      <3> QED BY <1>0, <2>2, <3>1, <3>2, <3>3 DEF RetryInv
    <2>3. CASE status' = "failed"
      BY <1>0, <1>1, <1>4, <2>1, <2>3 DEF Transient, RetryInv, RetryTypeOK
    <2> QED BY <1>4, <2>2, <2>3 DEF Transient
  <1> QED BY <1>2, <1>3, <1>4

(* A caller of Phira waits no longer than the budget, one request that     *)
(* nothing cuts short and the redirects it follows, and sends no more      *)
(* requests than the two limits allow, whatever the limits and however     *)
(* long each request takes.  phira/client.rs:104-186,                      *)
(* phira/gateway.rs:93-130.                                                *)
THEOREM WaitsStayBounded == RetrySpec => []WaitIsBounded
  <1>1. RetryInit => RetryInv
    <2> SUFFICES ASSUME RetryInit PROVE RetryInv
      OBVIOUS
    <2>1. Timeout * 0 \in Nat /\ Timeout * (0 + 1) = Timeout * 0 + Timeout
      BY RetryAssumption, TimesGrow
    <2> QED BY <2>1, RetryAssumption DEF RetryInit, RetryInv, RetryTypeOK
  <1>2. RetryInv /\ [RetryNext]_retryVars => RetryInv'
    <2> SUFFICES ASSUME RetryInv, [RetryNext]_retryVars PROVE RetryInv'
      OBVIOUS
    <2>1. CASE UNCHANGED retryVars
      BY <2>1 DEF retryVars, RetryInv, RetryTypeOK
    <2>2. CASE \E d \in Duration : fetch_with_retry(d) \/ login_post(d) \/ me(d)
      <3>1. PICK d \in Duration : fetch_with_retry(d) \/ login_post(d) \/ me(d)
        BY <2>2
      <3>2. CASE fetch_with_retry(d)
        BY <3>2, RequestKeepsBounds DEF fetch_with_retry
      <3>3. CASE login_post(d) \/ me(d)
        BY <3>3, RequestKeepsBounds DEF login_post, me
      <3> QED BY <3>1, <3>2, <3>3
    <2> QED BY <2>1, <2>2 DEF RetryNext
  <1>3. RetryInv => WaitIsBounded
    <2> SUFFICES ASSUME RetryInv PROVE WaitIsBounded
      OBVIOUS
    <2>1. /\ Timeout * (redirects + 1) = Timeout * redirects + Timeout
          /\ Timeout * (MAX_REDIRECTS + 1) = Timeout * MAX_REDIRECTS + Timeout
          /\ Timeout * redirects <= Timeout * MAX_REDIRECTS
          /\ Timeout * redirects \in Nat /\ Timeout * MAX_REDIRECTS \in Nat
          /\ Timeout * (0 + 1) = Timeout * 0 + Timeout /\ Timeout * 1 = Timeout
      BY RetryAssumption, TimesGrow DEF RetryInv, RetryTypeOK
    <2>2. CASE kind = "gateway"
      BY <2>1, <2>2, RetryAssumption DEF RetryInv, RetryTypeOK, WaitIsBounded
    <2>3. CASE kind # "gateway"
      BY <2>1, <2>3, RetryAssumption DEF RetryInv, RetryTypeOK, WaitIsBounded
    <2> QED BY <2>2, <2>3
  <1> QED BY <1>1, <1>2, <1>3, PTL DEF RetrySpec
-----------------------------------------------------------------------------
(* The cache in front of Phira.                                            *)

Holding == {"queued", "fetch"}
CallerState ==
    [pc : {"idle", "rate", "json", "queued", "fetch", "download"},
     key : Key \cup {None}, file : BOOLEAN]

\* The queue q of key k holds callers that want the key, each once.
QueueOK(q, k, cs) ==
    /\ q \in Seq(Caller)
    /\ \A i \in 1..Len(q) : cs[q[i]].key = k /\ cs[q[i]].pc \in Holding
    /\ \A i, j \in 1..Len(q) : q[i] = q[j] => i = j

\* A caller that waits is in the queue of its key; the one that asks Phira
\* is its head and the cache has nothing fresh.
CallerOK(c, s, ls, ca) ==
    /\ s.pc # "idle" => s.key \in Key
    /\ s.pc \in Holding => \E i \in 1..Len(ls[s.key]) : ls[s.key][i] = c
    /\ s.pc = "fetch" => ls[s.key][1] = c /\ ca[s.key] # "fresh"

GatewayInv ==
    /\ cache \in [Key -> Entry] /\ files \in [Key -> Entry]
    /\ caller \in [Caller -> CallerState]
    /\ locks = [k \in Key |-> locks[k]]
    /\ \A k \in Key : QueueOK(locks[k], k, caller)
    /\ \A c \in Caller : CallerOK(c, caller[c], locks, cache)

LEMMA IdleIsACallerState == Idle \in CallerState /\ Idle.pc = "idle"
  BY DEF Idle, CallerState

LEMMA MovedIsACallerState ==
    ASSUME NEW s \in CallerState,
           NEW pc0 \in {"idle", "rate", "json", "queued", "fetch", "download"}
    PROVE  /\ [s EXCEPT !.pc = pc0] \in CallerState
           /\ [s EXCEPT !.pc = pc0].pc = pc0 /\ [s EXCEPT !.pc = pc0].key = s.key
  BY DEF CallerState

\* A caller that neither waits before the step nor after it disturbs nobody.
LEMMA OutsideTheQueue ==
    ASSUME GatewayInv, NEW c \in Caller, NEW s \in CallerState,
           caller[c].pc \notin Holding, s.pc \notin Holding,
           s.pc # "idle" => s.key \in Key,
           caller' = [caller EXCEPT ![c] = s],
           cache' = cache, locks' = locks, files' \in [Key -> Entry]
    PROVE  GatewayInv'
  <1>1. caller' \in [Caller -> CallerState] /\ caller'[c] = s
        /\ \A d \in Caller \ {c} : caller'[d] = caller[d]
    BY DEF GatewayInv
  <1>2. ASSUME NEW k \in Key PROVE QueueOK(locks'[k], k, caller')
    <2>1. QueueOK(locks[k], k, caller)
      BY DEF GatewayInv
    <2>2. \A i \in 1..Len(locks[k]) : locks[k][i] \in Caller \ {c}
      BY <2>1 DEF QueueOK
    <2> QED BY <1>1, <2>1, <2>2 DEF QueueOK
  <1>3. ASSUME NEW d \in Caller PROVE CallerOK(d, caller'[d], locks', cache')
    <2>1. CASE d = c
      BY <1>1, <2>1 DEF CallerOK, Holding
    <2>2. CASE d # c
      BY <1>1, <2>2 DEF GatewayInv, CallerOK
    <2> QED BY <2>1, <2>2
  <1> QED BY <1>1, <1>2, <1>3 DEF GatewayInv

\* A caller joins the queue of its key.
LEMMA JoinsTheQueue ==
    ASSUME GatewayInv, NEW c \in Caller, caller[c].pc = "rate",
           locks' = [locks EXCEPT ![caller[c].key] = Append(@, c)],
           Moves(c, "queued"), UNCHANGED <<cache, files>>
    PROVE  GatewayInv'
  <1> DEFINE k == caller[c].key
  <1>1. k \in Key
    BY DEF GatewayInv, CallerOK
  <1>2. caller' \in [Caller -> CallerState] /\ caller'[c].pc = "queued" /\ caller'[c].key = k
        /\ \A d \in Caller \ {c} : caller'[d] = caller[d]
    BY MovedIsACallerState DEF GatewayInv, Moves
  <1>3. /\ locks' = [j \in Key |-> locks'[j]]
        /\ locks'[k] = Append(locks[k], c)
        /\ \A j \in Key \ {k} : locks'[j] = locks[j]
    BY <1>1 DEF GatewayInv
  <1>4. \A j \in Key : QueueOK(locks[j], j, caller)
        /\ \A i \in 1..Len(locks[j]) : locks[j][i] \in Caller \ {c}
    BY DEF GatewayInv, QueueOK, Holding
  <1>5. ASSUME NEW j \in Key PROVE QueueOK(locks'[j], j, caller')
    <2>1. CASE j = k
      <3> DEFINE q == locks[k]
      <3>1. /\ q \in Seq(Caller) /\ Append(q, c) \in Seq(Caller)
            /\ Len(Append(q, c)) = Len(q) + 1 /\ Len(q) \in Nat
            /\ \A i \in 1..Len(q) : Append(q, c)[i] = q[i] /\ q[i] \in Caller \ {c}
            /\ Append(q, c)[Len(q) + 1] = c
        BY <1>1, <1>4 DEF QueueOK
      <3>2. \A i \in 1..Len(Append(q, c)) :
               (i \in 1..Len(q)) \/ (i = Len(q) + 1)
        BY <3>1
      <3>3. QueueOK(q, k, caller)
        BY <1>1, <1>4
      <3>4. \A i \in 1..Len(Append(q, c)) :
               /\ caller'[Append(q, c)[i]].key = k
               /\ caller'[Append(q, c)[i]].pc \in Holding
        BY SMTT(20), <1>2, <3>1, <3>2, <3>3 DEF QueueOK, Holding
      <3>5. \A i, m \in 1..Len(Append(q, c)) : Append(q, c)[i] = Append(q, c)[m] => i = m
        BY <3>1, <3>2, <3>3 DEF QueueOK
      <3> QED BY <1>3, <2>1, <3>1, <3>4, <3>5 DEF QueueOK
    <2>2. CASE j # k
      BY <1>2, <1>3, <1>4, <2>2 DEF QueueOK
    <2> QED BY <2>1, <2>2
  <1>6. ASSUME NEW d \in Caller PROVE CallerOK(d, caller'[d], locks', cache')
    <2>0. locks[k] \in Seq(Caller) /\ Len(locks[k]) \in Nat
      BY <1>1, <1>4 DEF QueueOK
    <2>1. CASE d = c
      <3>1. Len(locks'[k]) = Len(locks[k]) + 1 /\ locks'[k][Len(locks[k]) + 1] = c
        BY <1>3, <2>0
      <3>2. Len(locks[k]) + 1 \in 1..Len(locks'[k])
        BY <2>0, <3>1
      <3> QED BY <1>1, <1>2, <2>1, <3>1, <3>2 DEF CallerOK, Holding
    <2>2. CASE d # c
      <3>1. caller'[d] = caller[d] /\ CallerOK(d, caller[d], locks, cache)
        BY <1>2, <2>2 DEF GatewayInv
      <3>2. CASE caller[d].key = k
        <4>1. \A i \in 1..Len(locks[k]) : i \in 1..Len(locks'[k]) /\ locks'[k][i] = locks[k][i]
          BY <1>3, <2>0
        <4>2. caller[d].pc \in Holding => 1 \in 1..Len(locks[k])
          BY <2>0, <3>1, <3>2 DEF CallerOK
        <4>3. caller[d].pc = "fetch" => locks'[k][1] = d
          BY <3>1, <3>2, <4>1, <4>2 DEF CallerOK, Holding
        <4> QED BY <3>1, <3>2, <4>1, <4>3 DEF CallerOK
      <3>3. CASE caller[d].key # k
        BY <1>1, <1>3, <3>1, <3>3 DEF CallerOK, Holding
      <3> QED BY <3>2, <3>3
    <2> QED BY <2>1, <2>2
  <1> QED BY <1>2, <1>3, <1>5, <1>6 DEF GatewayInv

\* The caller that waits first finds nothing and asks Phira.
LEMMA TakesTheLock ==
    ASSUME GatewayInv, NEW c \in Caller, caller[c].pc = "queued",
           Head(locks[caller[c].key]) = c, cache[caller[c].key] # "fresh",
           Moves(c, "fetch"), UNCHANGED <<cache, files, locks>>
    PROVE  GatewayInv'
  <1>1. caller' \in [Caller -> CallerState] /\ caller'[c].pc = "fetch"
        /\ caller'[c].key = caller[c].key
        /\ \A d \in Caller \ {c} : caller'[d] = caller[d]
    BY MovedIsACallerState DEF GatewayInv, Moves
  <1>2. ASSUME NEW k \in Key PROVE QueueOK(locks'[k], k, caller')
    <2>1. QueueOK(locks[k], k, caller)
      BY DEF GatewayInv
    <2> QED BY <1>1, <2>1 DEF QueueOK, Holding
  <1>3. ASSUME NEW d \in Caller PROVE CallerOK(d, caller'[d], locks', cache')
    <2>1. CASE d = c
      BY <1>1, <2>1 DEF GatewayInv, CallerOK, Holding
    <2>2. CASE d # c
      BY <1>1, <2>2 DEF GatewayInv, CallerOK
    <2> QED BY <2>1, <2>2
  <1> QED BY <1>1, <1>2, <1>3 DEF GatewayInv

\* The head of a queue goes, having stored a value or not.
LEMMA HeadLeaves ==
    ASSUME GatewayInv, NEW c \in Caller, NEW s \in CallerState,
           caller[c].pc \in Holding, Head(locks[caller[c].key]) = c,
           s.pc \notin Holding, s.pc # "idle" => s.key \in Key,
           caller' = [caller EXCEPT ![c] = s],
           locks' = [locks EXCEPT ![caller[c].key] = Tail(@)],
           cache' = cache \/ cache' = [cache EXCEPT ![caller[c].key] = "fresh"],
           files' = files
    PROVE  GatewayInv'
  <1> DEFINE k == caller[c].key
             q == locks[k]
  <1>1. k \in Key /\ q \in Seq(Caller) /\ QueueOK(q, k, caller)
    BY DEF GatewayInv, CallerOK, QueueOK, Holding
  <1>2. Len(q) \in Nat /\ Len(q) > 0 /\ q[1] = c
    BY <1>1 DEF GatewayInv, CallerOK
  <1>3. /\ Tail(q) \in Seq(Caller) /\ Len(Tail(q)) = Len(q) - 1
        /\ \A i \in 1..Len(Tail(q)) : i + 1 \in 2..Len(q) /\ Tail(q)[i] = q[i + 1]
    BY <1>1, <1>2
  <1>4. caller' \in [Caller -> CallerState] /\ caller'[c] = s
        /\ \A d \in Caller \ {c} : caller'[d] = caller[d]
    BY DEF GatewayInv
  <1>5. /\ locks' = [j \in Key |-> locks'[j]]
        /\ locks'[k] = Tail(q)
        /\ \A j \in Key \ {k} : locks'[j] = locks[j]
    BY <1>1 DEF GatewayInv
  <1>6. /\ cache' \in [Key -> Entry]
        /\ \A j \in Key \ {k} : cache'[j] = cache[j]
    BY <1>1 DEF GatewayInv, Entry
  <1>7. \A i \in 2..Len(q) : q[i] \in Caller \ {c}
    BY <1>1, <1>2 DEF QueueOK
  <1>8. ASSUME NEW j \in Key PROVE QueueOK(locks'[j], j, caller')
    <2>1. CASE j = k
      <3>1. \A i \in 1..Len(Tail(q)) : Tail(q)[i] \in Caller \ {c}
        BY <1>3, <1>7
      <3>2. \A i \in 1..Len(Tail(q)) :
               caller'[Tail(q)[i]].key = k /\ caller'[Tail(q)[i]].pc \in Holding
        BY <1>1, <1>3, <1>4, <3>1 DEF QueueOK
      <3>3. \A i, m \in 1..Len(Tail(q)) : Tail(q)[i] = Tail(q)[m] => i = m
        <4> SUFFICES ASSUME NEW i \in 1..Len(Tail(q)), NEW m \in 1..Len(Tail(q)),
                            Tail(q)[i] = Tail(q)[m]
                     PROVE  i = m
          OBVIOUS
        <4>1. i + 1 \in 1..Len(q) /\ m + 1 \in 1..Len(q) /\ q[i + 1] = q[m + 1]
          BY <1>2, <1>3
        <4>2. i + 1 = m + 1
          BY <1>1, <4>1 DEF QueueOK
        <4> QED BY <4>2
      <3> QED BY <1>3, <1>5, <2>1, <3>2, <3>3 DEF QueueOK
    <2>2. CASE j # k
      <3>1. QueueOK(locks[j], j, caller)
        BY DEF GatewayInv
      <3>2. \A i \in 1..Len(locks[j]) : locks[j][i] \in Caller \ {c}
        BY <2>2, <3>1 DEF QueueOK
      <3> QED BY <1>4, <1>5, <2>2, <3>1, <3>2 DEF QueueOK
    <2> QED BY <2>1, <2>2
  <1>9. ASSUME NEW d \in Caller PROVE CallerOK(d, caller'[d], locks', cache')
    <2>1. CASE d = c
      BY <1>4, <2>1 DEF CallerOK, Holding
    <2>2. CASE d # c
      <3>1. caller'[d] = caller[d] /\ CallerOK(d, caller[d], locks, cache)
        BY <1>4, <2>2 DEF GatewayInv
      <3>2. CASE caller[d].key = k
        <4>1. caller[d].pc # "fetch"
          BY <1>2, <2>2, <3>1, <3>2 DEF CallerOK
        <4>2. ASSUME caller[d].pc \in Holding
              PROVE  \E i \in 1..Len(Tail(q)) : Tail(q)[i] = d
          <5>1. PICK i \in 1..Len(q) : q[i] = d
            BY <3>1, <3>2, <4>2 DEF CallerOK
          <5>2. i # 1 /\ i - 1 \in 1..Len(Tail(q))
            BY <1>2, <1>3, <2>2, <5>1
          <5>3. Tail(q)[i - 1] = q[(i - 1) + 1] /\ (i - 1) + 1 = i
            BY <1>3, <5>2
          <5> QED BY <5>1, <5>2, <5>3
        <4> QED BY <1>5, <3>1, <3>2, <4>1, <4>2 DEF CallerOK
      <3>3. CASE caller[d].key # k
        BY <1>5, <1>6, <3>1, <3>3 DEF CallerOK, Holding
      <3> QED BY <3>2, <3>3
    <2> QED BY <2>1, <2>2
  <1> QED BY <1>4, <1>5, <1>6, <1>8, <1>9 DEF GatewayInv
\* What is left of a queue without c: the others, each once, in their order.
LEMMA WithoutLeavesTheOthers ==
    ASSUME NEW q \in Seq(Caller), NEW c \in Caller,
           \A i, j \in 1..Len(q) : q[i] = q[j] => i = j
    PROVE  /\ Without(q, c) \in Seq(Caller)
           /\ \A i \in 1..Len(Without(q, c)) :
                /\ Without(q, c)[i] # c
                /\ \E m \in 1..Len(q) : Without(q, c)[i] = q[m]
           /\ \A i, j \in 1..Len(Without(q, c)) : Without(q, c)[i] = Without(q, c)[j] => i = j
           /\ \A m \in 1..Len(q) : q[m] # c =>
                \E i \in 1..Len(Without(q, c)) : Without(q, c)[i] = q[m]
           /\ Len(q) > 0 /\ q[1] # c => Without(q, c)[1] = q[1]
  <1>1. CASE \A i \in 1..Len(q) : q[i] # c
    BY <1>1 DEF Without
  <1>2. CASE ~ \A i \in 1..Len(q) : q[i] # c
    <2> DEFINE p == CHOOSE i \in 1..Len(q) : q[i] = c
               F(i) == IF i < p THEN q[i] ELSE q[i + 1]
               r == [i \in 1..(Len(q) - 1) |-> F(i)]
    <2>1. p \in 1..Len(q) /\ q[p] = c
      BY <1>2
    <2>2. Without(q, c) = r
      BY <1>2 DEF Without
    <2>3. Len(q) \in Nat /\ Len(q) - 1 \in Nat
      BY <2>1
    <2> HIDE DEF p
    <2>4. \A i \in 1..(Len(q) - 1) : F(i) \in Caller
      BY <2>1, <2>3
    <2> HIDE DEF F
    <2>5. r \in Seq(Caller) /\ Len(r) = Len(q) - 1
          /\ \A i \in 1..(Len(q) - 1) : r[i] = F(i)
      BY <2>3, <2>4
    <2> HIDE DEF r
    <2> USE DEF F
    <2>6. ASSUME NEW i \in 1..Len(r)
          PROVE  r[i] # c /\ \E m \in 1..Len(q) : r[i] = q[m]
      <3>1. CASE i < p
        BY <2>1, <2>3, <2>5, <3>1
      <3>2. CASE ~(i < p)
        <4>1. i + 1 \in 1..Len(q) /\ i + 1 # p /\ r[i] = q[i + 1]
          BY <2>1, <2>3, <2>5, <3>2
        <4> QED BY <2>1, <4>1
      <3> QED BY <3>1, <3>2
    <2>7. ASSUME NEW i \in 1..Len(r), NEW j \in 1..Len(r), r[i] = r[j]
          PROVE  i = j
      <3> DEFINE P(n) == IF n < p THEN n ELSE n + 1
      <3>1. P(i) \in 1..Len(q) /\ P(j) \in 1..Len(q) /\ r[i] = q[P(i)] /\ r[j] = q[P(j)]
        BY <2>1, <2>3, <2>5
      <3>2. P(i) = P(j)
        BY <2>7, <3>1
      <3> QED BY <2>1, <2>3, <2>5, <3>2
    <2>8. ASSUME NEW m \in 1..Len(q), q[m] # c
          PROVE  \E i \in 1..Len(r) : r[i] = q[m]
      <3>1. CASE m < p
        <4>1. m \in 1..Len(r) /\ r[m] = q[m]
          BY <2>1, <2>3, <2>5, <3>1
        <4> QED BY <4>1
      <3>2. CASE m > p
        <4>1. m - 1 \in 1..Len(r) /\ r[m - 1] = q[(m - 1) + 1] /\ (m - 1) + 1 = m
          BY <2>1, <2>3, <2>5, <3>2
        <4> QED BY <4>1
      <3> QED BY <2>1, <2>8, <3>1, <3>2
    <2>9. Len(q) > 0 /\ q[1] # c => r[1] = q[1]
      <3> SUFFICES ASSUME q[1] # c PROVE r[1] = q[1]
        OBVIOUS
      <3>1. 1 < p /\ 1 \in 1..(Len(q) - 1)
        BY <2>1, <2>3
      <3> QED BY <2>5, <3>1
    <2> QED BY <2>2, <2>5, <2>6, <2>7, <2>8, <2>9
  <1> QED BY <1>1, <1>2

\* A request that is dropped leaves the queue of its key wherever it stood.
LEMMA DroppedLeaves ==
    ASSUME GatewayInv, NEW c \in Caller, Dropped(c)
    PROVE  GatewayInv'
  <1>1. caller' \in [Caller -> CallerState] /\ caller'[c] = Idle
        /\ \A d \in Caller \ {c} : caller'[d] = caller[d]
    BY IdleIsACallerState DEF Dropped, GatewayInv
  <1>2. /\ locks' = [j \in Key |-> locks'[j]] /\ cache' = cache /\ files' = files
        /\ \A j \in Key : locks'[j] = Without(locks[j], c)
    BY DEF Dropped
  <1>3. ASSUME NEW j \in Key
        PROVE  /\ QueueOK(locks[j], j, caller)
               /\ locks'[j] \in Seq(Caller)
               /\ \A i \in 1..Len(locks'[j]) :
                    locks'[j][i] # c /\ \E m \in 1..Len(locks[j]) : locks'[j][i] = locks[j][m]
               /\ \A i, m \in 1..Len(locks'[j]) : locks'[j][i] = locks'[j][m] => i = m
               /\ \A m \in 1..Len(locks[j]) : locks[j][m] # c =>
                    \E i \in 1..Len(locks'[j]) : locks'[j][i] = locks[j][m]
               /\ Len(locks[j]) > 0 /\ locks[j][1] # c => locks'[j][1] = locks[j][1]
    <2>1. QueueOK(locks[j], j, caller)
      BY DEF GatewayInv
    <2>2. locks[j] \in Seq(Caller)
          /\ \A i, m \in 1..Len(locks[j]) : locks[j][i] = locks[j][m] => i = m
      BY <2>1 DEF QueueOK
    <2> DEFINE q == locks[j]
               r == Without(q, c)
    <2>3. locks'[j] = r
      BY <1>2
    <2> HIDE DEF q
    <2>4. /\ r \in Seq(Caller)
          /\ \A i \in 1..Len(r) : r[i] # c /\ \E m \in 1..Len(q) : r[i] = q[m]
          /\ \A i, m \in 1..Len(r) : r[i] = r[m] => i = m
          /\ \A m \in 1..Len(q) : q[m] # c => \E i \in 1..Len(r) : r[i] = q[m]
          /\ Len(q) > 0 /\ q[1] # c => r[1] = q[1]
      <3>1. q \in Seq(Caller) /\ \A i, m \in 1..Len(q) : q[i] = q[m] => i = m
        BY <2>2 DEF q
      <3> QED BY <3>1, WithoutLeavesTheOthers
    <2> HIDE DEF r
    <2> QED BY <2>1, <2>3, <2>4 DEF q
  <1>4. ASSUME NEW j \in Key PROVE QueueOK(locks'[j], j, caller')
    <2>1. ASSUME NEW i \in 1..Len(locks'[j])
          PROVE  caller'[locks'[j][i]].key = j /\ caller'[locks'[j][i]].pc \in Holding
      <3>1. PICK m \in 1..Len(locks[j]) : locks'[j][i] = locks[j][m]
        BY <1>3
      <3>2. locks[j][m] \in Caller \ {c}
        BY <1>3, <3>1 DEF QueueOK
      <3>3. caller[locks[j][m]].key = j /\ caller[locks[j][m]].pc \in Holding
        BY <1>3 DEF QueueOK
      <3> QED BY <1>1, <3>1, <3>2, <3>3
    <2> QED BY <1>3, <2>1 DEF QueueOK
  <1>5. ASSUME NEW d \in Caller PROVE CallerOK(d, caller'[d], locks', cache')
    <2>1. CASE d = c
      BY <1>1, <2>1, IdleIsACallerState DEF CallerOK, Holding
    <2>2. CASE d # c
      <3> DEFINE k == caller[d].key
      <3>1. caller'[d] = caller[d] /\ CallerOK(d, caller[d], locks, cache)
        BY <1>1, <2>2 DEF GatewayInv
      <3>2. ASSUME caller[d].pc \in Holding
            PROVE  /\ k \in Key /\ Len(locks[k]) > 0
                   /\ \E i \in 1..Len(locks'[k]) : locks'[k][i] = d
        <4>1. k \in Key
          BY <3>1, <3>2 DEF CallerOK, Holding
        <4>2. PICK m \in 1..Len(locks[k]) : locks[k][m] = d
          BY <3>1, <3>2 DEF CallerOK
        <4>3. Len(locks[k]) \in Nat
          BY <1>3, <4>1 DEF QueueOK
        <4> QED BY SMTT(20), <1>3, <2>2, <4>1, <4>2, <4>3
      <3>3. ASSUME caller[d].pc = "fetch"
            PROVE  locks'[k][1] = d
        BY <1>3, <2>2, <3>1, <3>2, <3>3 DEF CallerOK, Holding
      <3> QED BY <1>2, <3>1, <3>2, <3>3 DEF CallerOK
    <2> QED BY <2>1, <2>2
  <1> QED BY <1>1, <1>2, <1>4, <1>5 DEF GatewayInv

\* What follows get_json never waits for the lock.
LEMMA ReturnsOutside ==
    ASSUME GatewayInv, NEW c \in Caller, NEW yes \in BOOLEAN, Returns(c, yes),
           caller[c].key \in Key
    PROVE  \E s \in CallerState :
              /\ caller' = [caller EXCEPT ![c] = s]
              /\ s.pc \notin Holding /\ (s.pc # "idle" => s.key \in Key)
  <1>1. CASE caller' = [caller EXCEPT ![c] = Idle]
    BY <1>1, IdleIsACallerState DEF Holding
  <1>2. CASE Moves(c, "download")
    <2> DEFINE s == [caller[c] EXCEPT !.pc = "download"]
    <2>1. s \in CallerState /\ s.pc = "download" /\ s.key = caller[c].key
      BY MovedIsACallerState DEF GatewayInv
    <2>2. caller' = [caller EXCEPT ![c] = s]
      BY <1>2 DEF Moves
    <2> QED BY <2>1, <2>2 DEF Holding
  <1> QED BY <1>1, <1>2 DEF Returns

\* Every step of a caller that is served.
LEMMA ServeKeepsTheQueues ==
    ASSUME GatewayInv, NEW c \in Caller, Serve(c)
    PROVE  GatewayInv'
  <1>0. /\ caller[c] \in CallerState /\ CallerOK(c, caller[c], locks, cache)
        /\ cache \in [Key -> Entry] /\ files \in [Key -> Entry]
    BY DEF GatewayInv
  <1>1. CASE ChartOfFile(c)
    <2>0. caller[c].pc = "json" /\ caller[c].key \in Key /\ caller[c].pc \notin Holding
          /\ UNCHANGED <<cache, files, locks>>
      BY <1>0, <1>1 DEF ChartOfFile, CallerOK, Holding
    <2>1. CASE Returns(c, TRUE)
      <3>1. PICK s \in CallerState : /\ caller' = [caller EXCEPT ![c] = s]
                                     /\ s.pc \notin Holding /\ (s.pc # "idle" => s.key \in Key)
        BY <2>0, <2>1, ReturnsOutside
      <3> QED BY <1>0, <2>0, <3>1, OutsideTheQueue
    <2>2. CASE Moves(c, "rate")
      <3> DEFINE s == [caller[c] EXCEPT !.pc = "rate"]
      <3>1. s \in CallerState /\ s.pc = "rate" /\ s.key = caller[c].key
        BY <1>0, MovedIsACallerState
      <3>2. caller' = [caller EXCEPT ![c] = s]
        BY <2>2 DEF Moves
      <3>3. s.pc \notin Holding
        BY <3>1 DEF Holding
      <3> HIDE DEF s
      <3> QED BY <1>0, <2>0, <3>1, <3>2, <3>3, OutsideTheQueue
    <2> QED BY <1>1, <2>1, <2>2 DEF ChartOfFile
  <1>2. CASE ChargeAndQueue(c)
    <2>0. caller[c].pc = "rate" /\ caller[c].key \in Key /\ caller[c].pc \notin Holding
          /\ UNCHANGED <<cache, files>>
      BY <1>0, <1>2 DEF ChargeAndQueue, CallerOK, Holding
    <2>1. CASE locks' = [locks EXCEPT ![caller[c].key] = Append(@, c)] /\ Moves(c, "queued")
      BY <2>0, <2>1, JoinsTheQueue
    <2>2. CASE Returns(c, FALSE) /\ UNCHANGED locks
      <3>1. PICK s \in CallerState : /\ caller' = [caller EXCEPT ![c] = s]
                                     /\ s.pc \notin Holding /\ (s.pc # "idle" => s.key \in Key)
        BY <2>0, <2>2, ReturnsOutside
      <3> QED BY <1>0, <2>0, <2>2, <3>1, OutsideTheQueue
    <2> QED BY <1>2, <2>1, <2>2 DEF ChargeAndQueue
  <1>3. CASE Acquire(c)
    <2>0. /\ caller[c].pc = "queued" /\ caller[c].key \in Key /\ caller[c].pc \in Holding
          /\ Head(locks[caller[c].key]) = c /\ UNCHANGED <<cache, files>>
      BY <1>0, <1>3 DEF Acquire, CallerOK, Holding
    <2>1. CASE Returns(c, TRUE) /\ locks' = [locks EXCEPT ![caller[c].key] = Tail(@)]
      <3>1. PICK s \in CallerState : /\ caller' = [caller EXCEPT ![c] = s]
                                     /\ s.pc \notin Holding /\ (s.pc # "idle" => s.key \in Key)
        BY <2>0, <2>1, ReturnsOutside
      <3> QED BY <2>0, <2>1, <3>1, HeadLeaves
    <2>2. CASE cache[caller[c].key] # "fresh" /\ Moves(c, "fetch") /\ UNCHANGED locks
      BY <2>0, <2>2, TakesTheLock
    <2> QED BY <1>3, <2>1, <2>2 DEF Acquire
  <1>4. CASE FetchEnds(c)
    <2>0. /\ caller[c].pc = "fetch" /\ caller[c].key \in Key /\ caller[c].pc \in Holding
          /\ UNCHANGED files /\ locks' = [locks EXCEPT ![caller[c].key] = Tail(@)]
      BY <1>0, <1>4 DEF FetchEnds, CallerOK, Holding
    <2>1. Head(locks[caller[c].key]) = c
      BY <1>0, <2>0 DEF CallerOK, GatewayInv, QueueOK
    <2>2. PICK yes \in BOOLEAN :
            /\ Returns(c, yes)
            /\ cache' = cache \/ cache' = [cache EXCEPT ![caller[c].key] = "fresh"]
      BY <1>4 DEF FetchEnds
    <2>3. PICK s \in CallerState : /\ caller' = [caller EXCEPT ![c] = s]
                                   /\ s.pc \notin Holding /\ (s.pc # "idle" => s.key \in Key)
      BY <2>0, <2>2, ReturnsOutside
    <2> QED BY <2>0, <2>1, <2>2, <2>3, HeadLeaves
  <1>5. CASE Download(c)
    <2>0. /\ caller[c].pc = "download" /\ caller[c].key \in Key /\ caller[c].pc \notin Holding
          /\ UNCHANGED <<cache, locks>> /\ caller' = [caller EXCEPT ![c] = Idle]
      BY <1>0, <1>5 DEF Download, CallerOK, Holding
    <2>1. files' \in [Key -> Entry]
      BY <1>0, <1>5, <2>0 DEF Download, Entry
    <2>2. Idle \in CallerState /\ Idle.pc \notin Holding /\ (Idle.pc # "idle" => Idle.key \in Key)
      BY IdleIsACallerState DEF Holding
    <2> HIDE DEF Idle
    <2> QED BY <2>0, <2>1, <2>2, OutsideTheQueue
  <1> QED BY <1>1, <1>2, <1>3, <1>4, <1>5 DEF Serve

(* Single flight for any number of keys and of callers, whoever misses,    *)
(* waits, fails, is dropped or finds its entry expired at the same time.   *)
(* phira/gateway.rs:56-92.                                                 *)
THEOREM FlightsStaySingle == GatewaySpec => []SingleFlight
  <1>1. GatewayInit => GatewayInv
    <2> SUFFICES ASSUME GatewayInit PROVE GatewayInv
      OBVIOUS
    <2>1. /\ cache \in [Key -> Entry] /\ files \in [Key -> Entry]
          /\ caller \in [Caller -> CallerState] /\ \A c \in Caller : caller[c].pc = "idle"
      BY IdleIsACallerState DEF GatewayInit, Entry
    <2>2. /\ locks = [k \in Key |-> locks[k]]
          /\ \A k \in Key : locks[k] \in Seq(Caller) /\ Len(locks[k]) = 0
      BY DEF GatewayInit
    <2>3. \A k \in Key : QueueOK(locks[k], k, caller)
      BY <2>2 DEF QueueOK
    <2>4. \A c \in Caller : CallerOK(c, caller[c], locks, cache)
      BY <2>1 DEF CallerOK, Holding
    <2> QED BY <2>1, <2>2, <2>3, <2>4 DEF GatewayInv
  <1>2. GatewayInv /\ [GatewayNext]_gatewayVars => GatewayInv'
    <2> SUFFICES ASSUME GatewayInv, [GatewayNext]_gatewayVars PROVE GatewayInv'
      OBVIOUS
    <2>1. CASE UNCHANGED gatewayVars
      BY <2>1 DEF gatewayVars, GatewayInv, QueueOK, CallerOK
    <2>2. ASSUME NEW c \in Caller, Serve(c) PROVE GatewayInv'
      BY <2>2, ServeKeepsTheQueues
    <2>3. ASSUME NEW c \in Caller, Dropped(c) PROVE GatewayInv'
      BY <2>3, DroppedLeaves
    <2>4. ASSUME NEW c \in Caller, NEW k \in Key, CallJson(c, k) \/ fetch_chart_file(c, k)
          PROVE  GatewayInv'
      <3>1. PICK s \in CallerState : /\ caller' = [caller EXCEPT ![c] = s]
                                     /\ s.pc \in {"rate", "json"} /\ s.key = k
        <4>1. /\ [pc |-> "rate", key |-> k, file |-> FALSE] \in CallerState
              /\ [pc |-> "json", key |-> k, file |-> TRUE] \in CallerState
          BY DEF CallerState
        <4>2. CASE CallJson(c, k)
          BY <4>1, <4>2 DEF CallJson
        <4>3. CASE fetch_chart_file(c, k)
          BY <4>1, <4>3 DEF fetch_chart_file
        <4> QED BY <2>4, <4>2, <4>3
      <3>2. /\ caller[c].pc \notin Holding /\ s.pc \notin Holding
            /\ files' \in [Key -> Entry] /\ UNCHANGED <<cache, locks>>
        BY <2>4, <3>1, IdleIsACallerState DEF CallJson, fetch_chart_file, Holding, GatewayInv
      <3> QED BY <3>1, <3>2, OutsideTheQueue
    <2>5. ASSUME NEW k \in Key, Expires(k) PROVE GatewayInv'
      <3>1. /\ cache' \in [Key -> Entry] /\ files' \in [Key -> Entry]
            /\ \A j \in Key : cache[j] # "fresh" => cache'[j] # "fresh"
            /\ UNCHANGED <<locks, caller>>
        BY <2>5 DEF Expires, GatewayInv, Entry
      <3>2. \A c \in Caller : CallerOK(c, caller'[c], locks', cache')
        BY <3>1 DEF GatewayInv, CallerOK, Holding
      <3> QED BY <3>1, <3>2 DEF GatewayInv, QueueOK
    <2> QED BY <2>1, <2>2, <2>3, <2>4, <2>5 DEF GatewayNext
  <1>3. GatewayInv => SingleFlight
    <2> SUFFICES ASSUME GatewayInv PROVE SingleFlight
      OBVIOUS
    <2>1. GatewayTypeOK
      BY DEF GatewayTypeOK, GatewayInv, QueueOK
    <2>2. ASSUME NEW c \in Caller, caller[c].pc = "fetch",
                 NEW d \in Caller \ {c}, caller[d].pc = "fetch"
          PROVE  caller[d].key # caller[c].key
      BY <2>2 DEF GatewayInv, CallerOK
    <2>3. \A c \in Caller : caller[c].pc = "fetch" => cache[caller[c].key] # "fresh"
      BY DEF GatewayInv, CallerOK
    <2> QED BY <2>1, <2>2, <2>3 DEF SingleFlight
  <1> QED BY <1>1, <1>2, <1>3, PTL DEF GatewaySpec
-----------------------------------------------------------------------------
(* The rate limit.                                                         *)

\* The attempts of s less than a window before t.
RecentAt(s, t) == {i \in 1..Len(s) : t - s[i] < Window}
WindowOf(s, i) == {j \in 1..Len(s) : s[j] >= s[i] /\ s[j] < s[i] + Window}

\* The bucket b knows every attempt of s that is recent at time t.
Covers(b, s, t) ==
    \E g \in [1..Len(b) -> 1..Len(s)] :
        /\ \A i \in 1..Len(b) : b[i] = s[g[i]]
        /\ RecentAt(s, t) \subseteq {g[i] : i \in 1..Len(b)}

\* While calls are applied in the order of their readings the bucket forgets
\* only what is too old to matter; a refusal promises the moment at which its
\* oldest attempt is.
RateInv ==
    /\ wall \in 0..MaxClock /\ reading \in [Client -> {Unread} \cup 0..MaxClock]
    /\ \A c \in Client : reading[c] # Unread => Limit > 0
    /\ latest \in 0..MaxClock /\ steady \in BOOLEAN
    /\ bucket \in Seq(Int) /\ passed \in Seq(Int)
    /\ Len(bucket) <= Limit /\ Len(bucket) <= Len(passed)
    /\ refusal # Never => Len(bucket) > 0 /\ refusal.until = bucket[1] + Window
    /\ steady => /\ \A i \in 1..Len(passed) : passed[i] <= latest
                 /\ Covers(bucket, passed, latest)
                 /\ \A i \in 1..Len(passed) : Cardinality(WindowOf(passed, i)) <= Limit

LEMMA FirstNumbers ==
    ASSUME NEW n \in Nat
    PROVE  IsFiniteSet(1..n) /\ Cardinality(1..n) = n
  BY FS_Interval

\* At most as many attempts are recent as the bucket holds.
LEMMA CoverBoundsRecent ==
    ASSUME NEW b \in Seq(Int), NEW s \in Seq(Int), NEW t \in Int, Covers(b, s, t),
           NEW T \in SUBSET RecentAt(s, t)
    PROVE  Cardinality(T) <= Len(b)
  <1> DEFINE R == RecentAt(s, t)
  <1>1. PICK g \in [1..Len(b) -> 1..Len(s)] :
            RecentAt(s, t) \subseteq {g[i] : i \in 1..Len(b)}
    BY DEF Covers
  <1> DEFINE D == {i \in 1..Len(b) : g[i] \in R}
             f == [i \in D |-> g[i]]
  <1>2. Len(b) \in Nat /\ IsFiniteSet(1..Len(b)) /\ Cardinality(1..Len(b)) = Len(b)
    <2>1. Len(b) \in Nat
      OBVIOUS
    <2> QED BY <2>1, FirstNumbers
  <1>3. IsFiniteSet(D) /\ Cardinality(D) <= Len(b)
    BY <1>2, FS_Subset
  <1>4. f \in Surjection(D, R)
    BY <1>1 DEF Surjection
  <1>5. IsFiniteSet(R) /\ Cardinality(R) <= Cardinality(D)
    BY <1>3, <1>4, FS_Surjection
  <1>6. IsFiniteSet(T) /\ Cardinality(T) <= Cardinality(R)
    BY <1>5, FS_Subset
  <1>7. Cardinality(T) \in Nat /\ Cardinality(R) \in Nat /\ Cardinality(D) \in Nat
    BY <1>3, <1>5, <1>6, FS_CardinalityType
  <1> QED BY <1>2, <1>3, <1>5, <1>6, <1>7

\* What is left of a bucket after the retain still knows every recent attempt.
LEMMA KeptCovers ==
    ASSUME NEW b \in Seq(Int), NEW s \in Seq(Int), NEW t \in Int, Covers(b, s, t),
           NEW n \in Nat, NEW place \in [1..n -> 1..Len(b)],
           {place[i] : i \in 1..n} = RecentAt(b, t),
           NEW kept \in Seq(Int), Len(kept) = n,
           \A i \in 1..n : kept[i] = b[place[i]]
    PROVE  Covers(kept, s, t)
  <1>1. PICK g \in [1..Len(b) -> 1..Len(s)] :
            /\ \A i \in 1..Len(b) : b[i] = s[g[i]]
            /\ RecentAt(s, t) \subseteq {g[i] : i \in 1..Len(b)}
    BY DEF Covers
  <1> DEFINE h == [i \in 1..n |-> g[place[i]]]
  <1>2. h \in [1..n -> 1..Len(s)] /\ \A i \in 1..n : kept[i] = s[h[i]]
    BY <1>1
  <1>3. ASSUME NEW j \in RecentAt(s, t) PROVE \E i \in 1..n : h[i] = j
    <2>1. PICK m \in 1..Len(b) : g[m] = j
      BY <1>1
    <2>2. m \in RecentAt(b, t)
      BY <1>1, <2>1 DEF RecentAt
    <2>3. PICK i \in 1..n : place[i] = m
      BY <2>2
    <2> QED BY <2>1, <2>3
  <1> HIDE DEF h
  <1>4. RecentAt(s, t) \subseteq {h[i] : i \in 1..n}
    BY <1>3
  <1> QED BY <1>2, <1>4 DEF Covers

\* An attempt let through is put into both.
LEMMA PassCovers ==
    ASSUME NEW b \in Seq(Int), NEW s \in Seq(Int), NEW t \in Int, Covers(b, s, t)
    PROVE  Covers(Append(b, t), Append(s, t), t)
  <1>1. PICK g \in [1..Len(b) -> 1..Len(s)] :
            /\ \A i \in 1..Len(b) : b[i] = s[g[i]]
            /\ RecentAt(s, t) \subseteq {g[i] : i \in 1..Len(b)}
    BY DEF Covers
  <1> DEFINE c == Append(b, t)
             u == Append(s, t)
             h == [i \in 1..Len(c) |-> IF i <= Len(b) THEN g[i] ELSE Len(s) + 1]
  <1>2. /\ Len(b) \in Nat /\ Len(s) \in Nat /\ Len(c) = Len(b) + 1 /\ Len(u) = Len(s) + 1
        /\ \A i \in 1..Len(b) : c[i] = b[i]
        /\ \A i \in 1..Len(s) : u[i] = s[i]
        /\ c[Len(b) + 1] = t /\ u[Len(s) + 1] = t
    OBVIOUS
  <1> HIDE DEF c, u
  <1>3. /\ \A i \in 1..Len(b) : h[i] = g[i] /\ h[i] \in 1..Len(s)
        /\ h[Len(b) + 1] = Len(s) + 1
    <2>1. ASSUME NEW i \in 1..Len(b) PROVE h[i] = g[i] /\ h[i] \in 1..Len(s)
      <3>1. i \in 1..Len(c) /\ i <= Len(b)
        BY <1>2
      <3> QED BY <3>1
    <2>2. h[Len(b) + 1] = Len(s) + 1
      <3>1. Len(b) + 1 \in 1..Len(c) /\ ~(Len(b) + 1 <= Len(b))
        BY <1>2
      <3> QED BY <3>1
    <2> QED BY <2>1, <2>2
  <1>4. h \in [1..Len(c) -> 1..Len(u)]
    BY <1>2
  <1> HIDE DEF h
  <1>5. \A i \in 1..Len(c) : i \in 1..Len(b) \/ i = Len(b) + 1
    BY <1>2
  <1>6. ASSUME NEW i \in 1..Len(c) PROVE c[i] = u[h[i]]
    <2>1. CASE i \in 1..Len(b)
      <3>1. c[i] = b[i] /\ b[i] = s[g[i]]
        BY <1>1, <1>2, <2>1
      <3>2. h[i] = g[i] /\ g[i] \in 1..Len(s)
        BY <1>3, <2>1
      <3>3. u[g[i]] = s[g[i]]
        BY <1>2, <3>2
      <3> QED BY <3>1, <3>2, <3>3
    <2>2. CASE i = Len(b) + 1
      BY <1>2, <1>3, <2>2
    <2> QED BY <1>5, <2>1, <2>2
  <1>7. ASSUME NEW j \in RecentAt(u, t) PROVE \E i \in 1..Len(c) : h[i] = j
    <2>1. CASE j = Len(s) + 1
      <3>1. Len(b) + 1 \in 1..Len(c)
        BY <1>2
      <3> QED BY <1>3, <2>1, <3>1
    <2>2. CASE j # Len(s) + 1
      <3>1. j \in 1..Len(s) /\ j \in RecentAt(s, t)
        BY <1>2, <2>2 DEF RecentAt
      <3>2. PICK i \in 1..Len(b) : g[i] = j
        BY <1>1, <3>1
      <3>3. i \in 1..Len(c)
        BY <1>2
      <3> QED BY <1>3, <3>2, <3>3
    <2> QED BY <2>1, <2>2
  <1>8. RecentAt(u, t) \subseteq {h[i] : i \in 1..Len(c)}
    BY <1>7
  <1> QED BY <1>4, <1>6, <1>8 DEF Covers, c, u

\* One more attempt, no later than the clock: a window that reaches it holds
\* only recent attempts, the others are as before.
LEMMA PassKeepsWindows ==
    ASSUME NEW s \in Seq(Int), NEW t \in Int, NEW i \in 1..(Len(s) + 1),
           \A j \in 1..Len(s) : s[j] <= t
    PROVE  \/ WindowOf(Append(s, t), i) \subseteq RecentAt(Append(s, t), t)
           \/ i \in 1..Len(s) /\ WindowOf(Append(s, t), i) = WindowOf(s, i)
  <1> DEFINE u == Append(s, t)
  <1>1. /\ Len(s) \in Nat /\ Len(u) = Len(s) + 1 /\ u[Len(s) + 1] = t
        /\ \A j \in 1..Len(s) : u[j] = s[j] /\ s[j] \in Int
        /\ \A j \in 1..Len(u) : j \in 1..Len(s) \/ j = Len(s) + 1
        /\ \A j \in 1..Len(u) : u[j] \in Int
    OBVIOUS
  <1>2. i \in 1..Len(u)
    BY <1>1
  <1>3. Window \in Nat \ {0}
    BY RateAssumption
  <1> HIDE DEF u
  <1>4. CASE t - u[i] < Window
    BY SMTT(20), <1>1, <1>2, <1>3, <1>4 DEF WindowOf, RecentAt, u
  <1>5. CASE ~(t - u[i] < Window)
    <2>1. i \in 1..Len(s) /\ u[i] = s[i]
      BY <1>1, <1>2, <1>3, <1>5
    <2>2. ASSUME NEW j PROVE j \in WindowOf(u, i) <=> j \in WindowOf(s, i)
      <3>1. CASE j \in 1..Len(s)
        <4>1. j \in 1..Len(u) /\ u[j] = s[j]
          BY <1>1, <3>1
        <4> QED BY <2>1, <3>1, <4>1 DEF WindowOf
      <3>2. CASE j = Len(s) + 1
        <4>1. ~(u[j] < u[i] + Window)
          BY <1>1, <1>2, <1>3, <1>5, <3>2
        <4>2. j \notin 1..Len(s)
          BY <1>1, <3>2
        <4> QED BY <4>1, <4>2 DEF WindowOf
      <3>3. CASE j \notin 1..Len(u) /\ j \notin 1..Len(s)
        BY <3>3 DEF WindowOf
      <3> QED BY <1>1, <3>1, <3>2, <3>3
    <2> QED BY <2>1, <2>2 DEF u
  <1> QED BY <1>4, <1>5

\* A later reading only makes attempts older.
LEMMA LaterCovers ==
    ASSUME RateInv, steady, NEW t \in 0..MaxClock, t >= latest
    PROVE  (\A i \in 1..Len(passed) : passed[i] <= t) /\ Covers(bucket, passed, t)
  <1>1. /\ \A i \in 1..Len(passed) : passed[i] <= latest /\ passed[i] \in Int
        /\ latest \in Int /\ t \in Int /\ Window \in Int
    BY RateAssumption DEF RateInv
  <1>2. RecentAt(passed, t) \subseteq RecentAt(passed, latest)
    BY <1>1 DEF RecentAt
  <1>3. Covers(bucket, passed, latest)
    BY DEF RateInv
  <1>4. Covers(bucket, passed, t)
    BY <1>2, <1>3 DEF Covers
  <1> QED BY <1>1, <1>4

\* The retain and what follows it, whether the attempt passes or not.
LEMMA CheckKeepsTheLimit ==
    ASSUME RateInv, NEW c \in Client, Check(c)
    PROVE  RateInv'
  <1> DEFINE now == reading[c]
  <1>a. /\ now \in 0..MaxClock /\ now \in Int /\ latest \in 0..MaxClock
        /\ wall' \in 0..MaxClock /\ latest' = now
        /\ reading' \in [Client -> {Unread} \cup 0..MaxClock]
        /\ \A d \in Client : reading'[d] # Unread => Limit > 0
        /\ steady' = (steady /\ now >= latest) /\ steady \in BOOLEAN
    BY RateAssumption DEF RateInv, Check, Applied, Unread
  <1>b. steady' \in BOOLEAN /\ (steady' => steady /\ now >= latest)
    BY <1>a
  <1>0. /\ Limit \in Nat /\ Window \in Nat \ {0} /\ Limit > 0
        /\ bucket \in Seq(Int) /\ passed \in Seq(Int)
        /\ Len(bucket) \in Nat /\ Len(passed) \in Nat
        /\ Len(bucket) <= Limit /\ Len(bucket) <= Len(passed)
    BY SMTT(20), RateAssumption DEF RateInv, Check
  <1>c. steady' => (\A i \in 1..Len(passed) : passed[i] <= now) /\ Covers(bucket, passed, now)
    BY <1>a, <1>b, LaterCovers
  <1>1. PICK n \in 0..Len(bucket) : \E place \in [1..n -> 1..Len(bucket)] :
            /\ Keeps(place, now)
            /\ IF n >= Limit THEN Refuse(Kept(place), now) ELSE Pass(Kept(place), now)
    BY DEF Check
  <1>2. PICK place \in [1..n -> 1..Len(bucket)] :
            /\ Keeps(place, now)
            /\ IF n >= Limit THEN Refuse(Kept(place), now) ELSE Pass(Kept(place), now)
    BY <1>1
  <1> DEFINE kept == Kept(place)
  <1>3. n \in Nat /\ n <= Len(bucket) /\ DOMAIN place = 1..n
    BY <1>0
  <1>4. /\ kept \in Seq(Int) /\ Len(kept) = n
        /\ \A i \in 1..n : kept[i] = bucket[place[i]]
    <2>1. kept = [i \in 1..n |-> bucket[place[i]]]
      BY <1>3 DEF Kept
    <2>2. ASSUME NEW i \in 1..n PROVE bucket[place[i]] \in Int
      <3>1. place[i] \in 1..Len(bucket)
        OBVIOUS
      <3> QED BY SMTT(20), <1>0, <1>a, <3>1
    <2> HIDE DEF kept, now
    <2> QED BY <1>3, <2>1, <2>2
  <1>5. {place[i] : i \in 1..n} = RecentAt(bucket, now)
    BY <1>2, <1>3 DEF Keeps, Recent, InWindow, RecentAt
  <1>6. steady' => Covers(kept, passed, now)
    <2> HIDE DEF kept, now
    <2> QED BY <1>0, <1>a, <1>a, <1>c, <1>3, <1>4, <1>5, KeptCovers
  <1>7. CASE n >= Limit
    <2>0. Refuse(kept, now) /\ n > 0
      BY <1>0, <1>a, <1>2, <1>3, <1>7
    <2>1. /\ bucket' = kept /\ passed' = passed
          /\ refusal' = [until |-> now + retry_after(kept, now)]
      BY <2>0 DEF Refuse
    <2>2. refusal'.until = kept[1] + Window
      <3>1. kept # <<>> /\ Head(kept) = kept[1] /\ kept[1] \in Int
        BY <1>4, <2>0
      <3>2. 1 \in 1..n /\ place[1] \in RecentAt(bucket, now)
        BY <1>3, <1>5, <2>0
      <3>3. now - kept[1] < Window
        BY <1>4, <3>2 DEF RecentAt
      <3>4. retry_after(kept, now) = Window - (now - kept[1])
        BY <1>0, <1>a, <3>1, <3>3 DEF retry_after, Larger
      <3> HIDE DEF kept
      <3> QED BY <1>0, <1>a, <2>1, <3>1, <3>4
    <2> HIDE DEF kept, now
    <2>3. /\ bucket' \in Seq(Int) /\ passed' \in Seq(Int)
          /\ Len(bucket') <= Limit /\ Len(bucket') <= Len(passed')
          /\ Len(bucket') > 0 /\ refusal'.until = bucket'[1] + Window
      BY SMTT(20), <1>0, <1>3, <1>4, <2>0, <2>1, <2>2
    <2>4. steady' => /\ \A i \in 1..Len(passed') : passed'[i] <= latest'
                     /\ Covers(bucket', passed', latest')
                     /\ \A i \in 1..Len(passed') : Cardinality(WindowOf(passed', i)) <= Limit
      BY <1>a, <1>b, <1>c, <1>6, <2>1 DEF RateInv
    <2> QED BY <1>a, <1>b, <2>3, <2>4 DEF RateInv
  <1>8. CASE ~(n >= Limit)
    <2>0. Pass(kept, now)
      BY <1>2, <1>8
    <2>1. bucket' = Append(kept, now) /\ passed' = Append(passed, now) /\ refusal' = Never
      BY <2>0 DEF Pass
    <2> HIDE DEF kept, now
    <2>2. /\ bucket' \in Seq(Int) /\ passed' \in Seq(Int)
          /\ Len(bucket') = n + 1 /\ Len(passed') = Len(passed) + 1
      BY <1>0, <1>a, <1>4, <2>1
    <2>3. Len(bucket') <= Limit /\ Len(bucket') <= Len(passed')
      BY <1>0, <1>a, <1>3, <1>8, <2>2
    <2>4. ASSUME steady'
          PROVE  /\ \A i \in 1..Len(passed') : passed'[i] <= latest'
                 /\ Covers(bucket', passed', latest')
                 /\ \A i \in 1..Len(passed') : Cardinality(WindowOf(passed', i)) <= Limit
      <3>0. /\ \A i \in 1..Len(passed) : passed[i] <= now
            /\ \A i \in 1..Len(passed) : Cardinality(WindowOf(passed, i)) <= Limit
        BY <1>b, <1>c, <2>4 DEF RateInv
      <3>1. \A i \in 1..Len(passed') : passed'[i] <= latest'
        BY <1>0, <1>a, <2>1, <2>2, <3>0
      <3>2. Covers(bucket', passed', latest')
        BY <1>0, <1>a, <1>4, <1>6, <2>1, <2>4, PassCovers
      <3>3. ASSUME NEW i \in 1..Len(passed')
            PROVE  Cardinality(WindowOf(passed', i)) <= Limit
        <4>1. \/ WindowOf(passed', i) \subseteq RecentAt(passed', latest')
              \/ i \in 1..Len(passed) /\ WindowOf(passed', i) = WindowOf(passed, i)
          BY <1>0, <1>a, <2>1, <2>2, <3>0, PassKeepsWindows
        <4>2. CASE WindowOf(passed', i) \subseteq RecentAt(passed', latest')
          <5>1. Cardinality(WindowOf(passed', i)) <= Len(bucket')
            BY <1>0, <1>a, <2>2, <3>2, <4>2, CoverBoundsRecent
          <5>2. Cardinality(WindowOf(passed', i)) \in Nat
            <6>1. IsFiniteSet(WindowOf(passed', i))
              <7>1. IsFiniteSet(1..Len(passed'))
                BY <1>0, <1>a, <2>2, FirstNumbers
              <7>2. WindowOf(passed', i) \in SUBSET (1..Len(passed'))
                BY DEF WindowOf
              <7> QED BY <7>1, <7>2, FS_Subset
            <6> QED BY <6>1, FS_CardinalityType
          <5> QED BY <1>0, <1>a, <1>3, <2>2, <2>3, <5>1, <5>2
        <4>3. CASE i \in 1..Len(passed) /\ WindowOf(passed', i) = WindowOf(passed, i)
          BY <3>0, <4>3
        <4> QED BY <4>1, <4>2, <4>3
      <3> QED BY <3>1, <3>2, <3>3
    <2> QED BY <1>0, <1>a, <2>1, <2>2, <2>3, <2>4 DEF RateInv
  <1> QED BY <1>7, <1>8

\* To read the clock, or to set it, changes nothing of what is counted.
LEMMA ClockKeepsTheLimit ==
    ASSUME RateInv, now_secs \/ \E c \in Client : ReadClock(c)
    PROVE  RateInv'
  <1>1. /\ wall' \in 0..MaxClock /\ reading' \in [Client -> {Unread} \cup 0..MaxClock]
        /\ \A c \in Client : reading'[c] # Unread => Limit > 0
        /\ UNCHANGED <<bucket, latest, steady, passed, refusal>>
    BY DEF RateInv, now_secs, ReadClock
  <1> QED BY <1>1 DEF RateInv

(* Whatever the limit and the window: the bucket holds no more than the    *)
(* limit; while calls are applied in the order of their clock readings no  *)
(* window sees more attempts than the limit; and an attempt after          *)
(* Retry-After finds room, even when the clock was set back in between or  *)
(* calls overtook each other.  middleware/rate_limit.rs:25-47.             *)
THEOREM LimitsStayKept == RateSpec => []LimitIsKept
  <1>1. RateInit => RateInv
    <2> SUFFICES ASSUME RateInit PROVE RateInv
      OBVIOUS
    <2>1. /\ wall = 0 /\ latest = 0 /\ steady = TRUE /\ bucket = <<>> /\ passed = <<>> /\ refusal = Never
          /\ wall \in 0..MaxClock /\ reading \in [Client -> {Unread} \cup 0..MaxClock]
          /\ \A c \in Client : reading[c] = Unread
      BY RateAssumption DEF RateInit
    <2>2. bucket \in Seq(Int) /\ passed \in Seq(Int) /\ Len(bucket) = 0 /\ Len(passed) = 0
      BY <2>1
    <2>3. Covers(bucket, passed, latest)
      <3> DEFINE g == [i \in 1..Len(bucket) |-> i]
      <3>1. g \in [1..Len(bucket) -> 1..Len(passed)]
        BY <2>2
      <3>2. 1..Len(bucket) = {} /\ RecentAt(passed, latest) = {}
        BY <2>2 DEF RecentAt
      <3> HIDE DEF g
      <3> QED BY <3>1, <3>2 DEF Covers
    <2> QED BY <2>1, <2>2, <2>3, RateAssumption DEF RateInv
  <1>2. RateInv /\ [RateNext]_rateVars => RateInv'
    BY CheckKeepsTheLimit, ClockKeepsTheLimit DEF RateNext, rateVars, RateInv
  <1>3. RateInv => LimitIsKept
    <2> SUFFICES ASSUME RateInv PROVE LimitIsKept
      OBVIOUS
    <2>1. RateTypeOK /\ Len(bucket) <= Limit
      BY DEF RateInv, RateTypeOK
    <2>2. steady => \A i \in 1..Len(passed) : Cardinality(InWindowOf(i)) <= Limit
      BY DEF RateInv, InWindowOf, WindowOf
    <2>3. ASSUME refusal # Never, wall >= refusal.until
          PROVE  Cardinality(Recent(bucket, wall)) < Limit
      <3>1. /\ Len(bucket) \in Nat /\ Len(bucket) > 0 /\ bucket[1] \in Int
            /\ wall \in Int /\ wall >= bucket[1] + Window /\ Window \in Int
            /\ Limit \in Nat /\ Len(bucket) <= Limit
        BY <2>3, RateAssumption DEF RateInv
      <3>2. Recent(bucket, wall) \subseteq 2..Len(bucket)
        BY <3>1 DEF Recent, InWindow
      <3>3. IsFiniteSet(2..Len(bucket)) /\ Cardinality(2..Len(bucket)) = Len(bucket) - 1
        BY <3>1, FS_Interval
      <3>4. IsFiniteSet(Recent(bucket, wall)) /\ Cardinality(Recent(bucket, wall)) <= Len(bucket) - 1
        BY <3>2, <3>3, FS_Subset
      <3>5. Cardinality(Recent(bucket, wall)) \in Nat
        BY <3>4, FS_CardinalityType
      <3> QED BY <3>1, <3>4, <3>5
    <2> QED BY <2>1, <2>2, <2>3 DEF LimitIsKept
  <1> QED BY <1>1, <1>2, <1>3, PTL DEF RateSpec
-----------------------------------------------------------------------------
(* The runs of runbooks.                                                   *)

\* The first m steps of d are done: s holds their actions, and none of them
\* was one a run refuses.
Executed(s, d, m) ==
    /\ m \in 0..Len(d) /\ ActionsOf(s, d, m)
    /\ \A i \in 1..m : d[i] \notin Long

Working == {"step", "sleep", "authorize", "submit", "awaiting", "finish"}

\* One run: its row w, snapshot sn, place p, definition d, step n, verdict k,
\* commands s and the number g of them that were answered Ok.
RunOK(w, sn, p, d, n, k, s, g) ==
    /\ p \in {"none", "fetched"} => w = "none" /\ s = <<>> /\ g = 0 /\ n = 1
    /\ p = "fetched" => d \in Definition
    /\ w # "none" => sn = d /\ d \in Definition /\ \E m \in 0..Len(d) : Executed(s, d, m)
    /\ p \in Working => w # "none" /\ w # "succeeded"
    /\ p \in {"step", "authorize", "submit"} => Executed(s, d, n - 1) /\ g = Len(s)
    /\ p \in {"authorize", "submit"} => n <= Len(d) /\ d[n] \in Action
    /\ p \in {"sleep", "awaiting"} => Executed(s, d, n)
    /\ p = "sleep" => g = Len(s)
    /\ p = "awaiting" => g + 1 = Len(s)
    /\ (p = "finish" /\ k) \/ w = "succeeded" => Executed(s, d, Len(d)) /\ g = Len(s)

RunIsOK(r) == RunOK(row[r], snapshot[r], pc[r], loaded[r], at[r], ok[r], ran[r], good[r])
RunInv == TypeOK /\ \A r \in Run : RunIsOK(r)

LEMMA NothingExecuted ==
    ASSUME NEW d \in Definition
    PROVE  Executed(<<>>, d, 0)
  <1>1. d \in Seq(Step) /\ Len(d) \in Nat
    BY RunbooksAssumption
  <1> DEFINE f == [i \in 1..0 |-> i]
  <1>2. f \in [1..Len(<<>>) -> 1..0] /\ Len(<<>>) = 0
    OBVIOUS
  <1> HIDE DEF f
  <1>3. 1..Len(<<>>) = {} /\ 1..0 = {}
    BY <1>2
  <1>4. ActionsOf(<<>>, d, 0)
    BY <1>2, <1>3 DEF ActionsOf
  <1> QED BY <1>1, <1>4 DEF Executed

\* A step that is no action, and none that is refused, adds no command.
LEMMA WaitExecuted ==
    ASSUME NEW d \in Definition, NEW s \in Seq(Action), NEW n \in Nat \ {0},
           n <= Len(d), d[n] \in Wait, Executed(s, d, n - 1)
    PROVE  Executed(s, d, n)
  <1>0. d \in Seq(Step) /\ Len(d) \in Nat /\ Len(s) \in Nat /\ n \in 0..Len(d)
        /\ d[n] \notin Action /\ d[n] \notin Long
    BY RunbooksAssumption
  <1>1. PICK f \in [1..Len(s) -> 1..(n - 1)] :
            /\ \A i \in 1..Len(s) : s[i] = d[f[i]]
            /\ \A i, j \in 1..Len(s) : i < j => f[i] < f[j]
            /\ {f[i] : i \in 1..Len(s)} = {m \in 1..(n - 1) : d[m] \in Action}
    BY DEF Executed, ActionsOf
  <1>2. f \in [1..Len(s) -> 1..n]
    BY <1>0, <1>1
  <1>3. {m \in 1..(n - 1) : d[m] \in Action} = {m \in 1..n : d[m] \in Action}
    <2>1. \A m \in 1..n : m \in 1..(n - 1) \/ m = n
      OBVIOUS
    <2> QED BY <1>0, <2>1
  <1>4. ActionsOf(s, d, n)
    BY <1>1, <1>2, <1>3 DEF ActionsOf
  <1>5. \A i \in 1..n : d[i] \notin Long
    <2>1. \A m \in 1..n : m \in 1..(n - 1) \/ m = n
      OBVIOUS
    <2> QED BY <1>0, <2>1 DEF Executed
  <1> QED BY <1>0, <1>4, <1>5 DEF Executed

\* The command of an action goes behind those of the steps before it.
LEMMA ActionExecuted ==
    ASSUME NEW d \in Definition, NEW s \in Seq(Action), NEW n \in Nat \ {0},
           n <= Len(d), d[n] \in Action, Executed(s, d, n - 1)
    PROVE  Executed(Append(s, d[n]), d, n)
  <1> DEFINE u == Append(s, d[n])
  <1>0. d \in Seq(Step) /\ Len(d) \in Nat /\ Len(s) \in Nat /\ n \in 0..Len(d)
        /\ d[n] \notin Long
    BY RunbooksAssumption
  <1>1. PICK f \in [1..Len(s) -> 1..(n - 1)] :
            /\ \A i \in 1..Len(s) : s[i] = d[f[i]]
            /\ \A i, j \in 1..Len(s) : i < j => f[i] < f[j]
            /\ {f[i] : i \in 1..Len(s)} = {m \in 1..(n - 1) : d[m] \in Action}
    BY DEF Executed, ActionsOf
  <1>2. /\ Len(u) = Len(s) + 1 /\ u[Len(s) + 1] = d[n]
        /\ \A i \in 1..Len(s) : u[i] = s[i]
    BY <1>0
  <1> HIDE DEF u
  <1>3. \A i \in 1..Len(u) : i \in 1..Len(s) \/ i = Len(s) + 1
    BY <1>0, <1>2
  <1> DEFINE h == [i \in 1..Len(u) |-> IF i <= Len(s) THEN f[i] ELSE n]
  <1>4. ASSUME NEW i \in 1..Len(s) PROVE h[i] = f[i] /\ h[i] \in 1..(n - 1)
    <2>1. i \in 1..Len(u) /\ i <= Len(s)
      BY <1>0, <1>2
    <2> QED BY <1>1, <2>1
  <1>5. h[Len(s) + 1] = n
    <2>1. Len(s) + 1 \in 1..Len(u) /\ ~(Len(s) + 1 <= Len(s))
      BY <1>0, <1>2
    <2> QED BY <2>1
  <1>6. h \in [1..Len(u) -> 1..n]
    <2>1. ASSUME NEW i \in 1..Len(u) PROVE h[i] \in 1..n
      <3>1. CASE i \in 1..Len(s)
        <4>1. h[i] \in 1..(n - 1)
          BY <1>4, <3>1
        <4> HIDE DEF h
        <4> QED BY <4>1
      <3>2. CASE i = Len(s) + 1
        <4> HIDE DEF h
        <4> QED BY <1>5, <3>2
      <3> QED BY <1>3, <3>1, <3>2
    <2>2. h = [i \in 1..Len(u) |-> h[i]]
      OBVIOUS
    <2> HIDE DEF h
    <2> QED BY <2>1, <2>2
  <1> HIDE DEF h
  <1>7. ASSUME NEW i \in 1..Len(u) PROVE u[i] = d[h[i]]
    <2>1. CASE i \in 1..Len(s)
      BY <1>1, <1>2, <1>4, <2>1
    <2>2. CASE i = Len(s) + 1
      BY <1>2, <1>5, <2>2
    <2> QED BY <1>3, <2>1, <2>2
  <1>8. ASSUME NEW i \in 1..Len(u), NEW j \in 1..Len(u), i < j PROVE h[i] < h[j]
    <2>1. i \in 1..Len(s)
      BY <1>0, <1>2, <1>8
    <2>2. CASE j \in 1..Len(s)
      BY <1>1, <1>4, <1>8, <2>1, <2>2
    <2>3. CASE j = Len(s) + 1
      BY <1>4, <1>5, <2>1, <2>3
    <2> QED BY <1>3, <2>2, <2>3
  <1>9. {h[i] : i \in 1..Len(u)} = {m \in 1..n : d[m] \in Action}
    <2>1. ASSUME NEW i \in 1..Len(u) PROVE h[i] \in 1..n /\ d[h[i]] \in Action
      <3>1. CASE i \in 1..Len(s)
        <4>1. f[i] \in {m \in 1..(n - 1) : d[m] \in Action}
          BY <1>1, <3>1
        <4> QED BY <1>4, <1>6, <3>1, <4>1
      <3>2. CASE i = Len(s) + 1
        BY <1>5, <3>2
      <3> QED BY <1>3, <3>1, <3>2
    <2>2. ASSUME NEW m \in 1..n, d[m] \in Action PROVE \E i \in 1..Len(u) : h[i] = m
      <3>1. CASE m = n
        <4>1. Len(s) + 1 \in 1..Len(u)
          BY <1>0, <1>2
        <4> QED BY <1>5, <3>1, <4>1
      <3>2. CASE m # n
        <4>1. m \in 1..(n - 1)
          BY <3>2
        <4>2. PICK i \in 1..Len(s) : f[i] = m
          BY <1>1, <2>2, <4>1
        <4>3. i \in 1..Len(u)
          BY <1>0, <1>2
        <4> QED BY <1>4, <4>2, <4>3
      <3> QED BY <3>1, <3>2
    <2> QED BY <2>1, <2>2
  <1>10. ActionsOf(u, d, n)
    BY <1>6, <1>7, <1>8, <1>9 DEF ActionsOf
  <1>11. \A i \in 1..n : d[i] \notin Long
    <2>1. \A m \in 1..n : m \in 1..(n - 1) \/ m = n
      OBVIOUS
    <2> QED BY <1>0, <2>1 DEF Executed
  <1> QED BY <1>0, <1>10, <1>11 DEF Executed, u

\* A step of the handler of one run leaves the others alone.
LEMMA OneRunMoves ==
    ASSUME RunInv, NEW r \in Run, TypeOK', RunIsOK(r)',
           \A q \in Run \ {r} :
              /\ row'[q] = row[q] /\ snapshot'[q] = snapshot[q] /\ pc'[q] = pc[q]
              /\ loaded'[q] = loaded[q] /\ at'[q] = at[q] /\ ok'[q] = ok[q]
              /\ ran'[q] = ran[q] /\ good'[q] = good[q]
    PROVE  RunInv'
  <1>1. ASSUME NEW q \in Run PROVE RunIsOK(q)'
    <2>1. CASE q = r
      BY <2>1
    <2>2. CASE q # r
      <3>1. RunIsOK(q)
        BY DEF RunInv
      <3> QED BY <2>2, <3>1 DEF RunIsOK
    <2> QED BY <2>1, <2>2
  <1> QED BY <1>1 DEF RunInv
\* Every step of the handler, from the load of the definition to the final
\* update, and its end wherever it stands.
LEMMA HandlerKeepsRuns ==
    ASSUME RunInv, NEW r \in Run,
           Fetch(r) \/ HandlerStep(r) \/ EarlyReturn(r) \/ Drop(r)
    PROVE  RunInv'
  <1>0. /\ TypeOK /\ RunIsOK(r)
        /\ at[r] \in Nat \ {0} /\ ran[r] \in Seq(Action) /\ good[r] \in Nat
        /\ Len(ran[r]) \in Nat
        /\ loaded[r] \in Definition => loaded[r] \in Seq(Step) /\ Len(loaded[r]) \in Nat
    BY RunbooksAssumption DEF RunInv, TypeOK
  <1>1. CASE Fetch(r)
    <2>1. TypeOK'
      BY <1>0, <1>1 DEF TypeOK, Running, storeVars, progressVars, Goto, Fetch
    <2>2. RunIsOK(r)'
      BY <1>0, <1>1 DEF TypeOK, Running, storeVars, progressVars, Goto, Fetch, RunIsOK, RunOK,
         Working
    <2>3. \A q \in Run \ {r} :
            /\ row'[q] = row[q] /\ snapshot'[q] = snapshot[q] /\ pc'[q] = pc[q]
            /\ loaded'[q] = loaded[q] /\ at'[q] = at[q] /\ ok'[q] = ok[q]
            /\ ran'[q] = ran[q] /\ good'[q] = good[q]
      BY <1>0, <1>1 DEF TypeOK, Running, storeVars, progressVars, Goto, Fetch
    <2> QED BY <2>1, <2>2, <2>3, OneRunMoves
  <1>2. CASE Insert(r)
    <2>1. TypeOK'
      BY <1>0, <1>2 DEF TypeOK, Running, storeVars, progressVars, Goto, Insert
    <2>2. RunIsOK(r)'
      <3>1. loaded[r] \in Definition /\ ran[r] = <<>> /\ good[r] = 0 /\ at[r] = 1
        BY <1>0, <1>2 DEF Insert, RunIsOK, RunOK
      <3>2. Executed(ran[r], loaded[r], at[r] - 1) /\ good[r] = Len(ran[r])
            /\ \E m \in 0..Len(loaded[r]) : Executed(ran[r], loaded[r], m)
        BY <1>0, <3>1, NothingExecuted
      <3>3. CASE book # NoDefinition
        BY <1>0, <1>2, <3>1, <3>2, <3>3 DEF TypeOK, Running, progressVars, Goto, Insert,
           RunIsOK, RunOK, Working
      <3>4. CASE book = NoDefinition
        BY <1>0, <1>2, <3>1, <3>4 DEF TypeOK, Running, progressVars, Goto, Insert, RunIsOK,
           RunOK, Working
      <3> QED BY <3>3, <3>4
    <2>3. \A q \in Run \ {r} :
            /\ row'[q] = row[q] /\ snapshot'[q] = snapshot[q] /\ pc'[q] = pc[q]
            /\ loaded'[q] = loaded[q] /\ at'[q] = at[q] /\ ok'[q] = ok[q]
            /\ ran'[q] = ran[q] /\ good'[q] = good[q]
      BY <1>0, <1>2 DEF TypeOK, Running, storeVars, progressVars, Goto, Insert
    <2> QED BY <2>1, <2>2, <2>3, OneRunMoves
  <1>3. CASE StepEnd(r)
    <2>1. TypeOK'
      BY <1>0, <1>3 DEF TypeOK, Running, storeVars, progressVars, Goto, StepEnd, StepsLeft
    <2>2. RunIsOK(r)'
      <3>1. loaded[r] \in Definition /\ Executed(ran[r], loaded[r], at[r] - 1)
            /\ good[r] = Len(ran[r])
        BY <1>0, <1>3 DEF StepEnd, RunIsOK, RunOK, Working
      <3>2. at[r] - 1 = Len(loaded[r])
        BY <1>0, <1>3, <3>1 DEF StepEnd, StepsLeft, Executed
      <3>3. Executed(ran[r], loaded[r], Len(loaded[r]))
        BY <3>1, <3>2
      <3> QED BY <1>0, <1>3, <3>1, <3>3 DEF TypeOK, Running, storeVars, progressVars, Goto,
         StepEnd, RunIsOK, RunOK, Working
    <2>3. \A q \in Run \ {r} :
            /\ row'[q] = row[q] /\ snapshot'[q] = snapshot[q] /\ pc'[q] = pc[q]
            /\ loaded'[q] = loaded[q] /\ at'[q] = at[q] /\ ok'[q] = ok[q]
            /\ ran'[q] = ran[q] /\ good'[q] = good[q]
      BY <1>0, <1>3 DEF TypeOK, Running, storeVars, progressVars, Goto, StepEnd, StepsLeft
    <2> QED BY <2>1, <2>2, <2>3, OneRunMoves
  <1>4. CASE StepWait(r)
    <2>1. TypeOK'
      BY <1>0, <1>4 DEF TypeOK, Running, storeVars, progressVars, Goto, StepWait, StepsLeft,
         Current
    <2>2. RunIsOK(r)'
      <3>1. loaded[r] \in Definition /\ Executed(ran[r], loaded[r], at[r] - 1)
            /\ good[r] = Len(ran[r])
        BY <1>0, <1>4 DEF StepWait, RunIsOK, RunOK, Working
      <3>2. Executed(ran[r], loaded[r], at[r])
        BY <1>0, <1>4, <3>1, WaitExecuted DEF StepWait, StepsLeft, Current
      <3> QED BY <1>0, <1>4, <3>1, <3>2 DEF TypeOK, Running, storeVars, progressVars, Goto,
         StepWait, RunIsOK, RunOK, Working
    <2>3. \A q \in Run \ {r} :
            /\ row'[q] = row[q] /\ snapshot'[q] = snapshot[q] /\ pc'[q] = pc[q]
            /\ loaded'[q] = loaded[q] /\ at'[q] = at[q] /\ ok'[q] = ok[q]
            /\ ran'[q] = ran[q] /\ good'[q] = good[q]
      BY <1>0, <1>4 DEF TypeOK, Running, storeVars, progressVars, Goto, StepWait, StepsLeft,
         Current
    <2> QED BY <2>1, <2>2, <2>3, OneRunMoves
  <1>5. CASE StepLong(r)
    <2>1. TypeOK'
      BY <1>0, <1>5 DEF TypeOK, Running, storeVars, progressVars, Goto, StepLong, StepsLeft,
         Current
    <2>2. RunIsOK(r)'
      BY <1>0, <1>5 DEF TypeOK, Running, storeVars, progressVars, Goto, StepLong, StepsLeft,
         Current, RunIsOK, RunOK, Working
    <2>3. \A q \in Run \ {r} :
            /\ row'[q] = row[q] /\ snapshot'[q] = snapshot[q] /\ pc'[q] = pc[q]
            /\ loaded'[q] = loaded[q] /\ at'[q] = at[q] /\ ok'[q] = ok[q]
            /\ ran'[q] = ran[q] /\ good'[q] = good[q]
      BY <1>0, <1>5 DEF TypeOK, Running, storeVars, progressVars, Goto, StepLong, StepsLeft,
         Current
    <2> QED BY <2>1, <2>2, <2>3, OneRunMoves
  <1>6. CASE StepAction(r)
    <2>1. TypeOK'
      BY <1>0, <1>6 DEF TypeOK, Running, storeVars, progressVars, Goto, StepAction, StepsLeft,
         Current
    <2>2. RunIsOK(r)'
      BY <1>0, <1>6 DEF TypeOK, Running, storeVars, progressVars, Goto, StepAction, StepsLeft,
         Current, RunIsOK, RunOK, Working
    <2>3. \A q \in Run \ {r} :
            /\ row'[q] = row[q] /\ snapshot'[q] = snapshot[q] /\ pc'[q] = pc[q]
            /\ loaded'[q] = loaded[q] /\ at'[q] = at[q] /\ ok'[q] = ok[q]
            /\ ran'[q] = ran[q] /\ good'[q] = good[q]
      BY <1>0, <1>6 DEF TypeOK, Running, storeVars, progressVars, Goto, StepAction, StepsLeft,
         Current
    <2> QED BY <2>1, <2>2, <2>3, OneRunMoves
  <1>7. CASE Sleep(r)
    <2>1. TypeOK'
      BY <1>0, <1>7 DEF TypeOK, Running, storeVars, progressVars, Goto, Sleep
    <2>2. RunIsOK(r)'
      BY <1>0, <1>7 DEF TypeOK, Running, storeVars, progressVars, Goto, Sleep, RunIsOK, RunOK,
         Working
    <2>3. \A q \in Run \ {r} :
            /\ row'[q] = row[q] /\ snapshot'[q] = snapshot[q] /\ pc'[q] = pc[q]
            /\ loaded'[q] = loaded[q] /\ at'[q] = at[q] /\ ok'[q] = ok[q]
            /\ ran'[q] = ran[q] /\ good'[q] = good[q]
      BY <1>0, <1>7 DEF TypeOK, Running, storeVars, progressVars, Goto, Sleep
    <2> QED BY <2>1, <2>2, <2>3, OneRunMoves
  <1>8. CASE Authorize(r)
    <2>1. TypeOK'
      BY <1>0, <1>8 DEF TypeOK, Running, storeVars, progressVars, Goto, Authorize
    <2>2. RunIsOK(r)'
      BY <1>0, <1>8 DEF TypeOK, Running, storeVars, progressVars, Goto, Authorize, RunIsOK,
         RunOK, Working
    <2>3. \A q \in Run \ {r} :
            /\ row'[q] = row[q] /\ snapshot'[q] = snapshot[q] /\ pc'[q] = pc[q]
            /\ loaded'[q] = loaded[q] /\ at'[q] = at[q] /\ ok'[q] = ok[q]
            /\ ran'[q] = ran[q] /\ good'[q] = good[q]
      BY <1>0, <1>8 DEF TypeOK, Running, storeVars, progressVars, Goto, Authorize
    <2> QED BY <2>1, <2>2, <2>3, OneRunMoves
  <1>9. CASE Submit(r)
    <2>0. /\ loaded[r] \in Definition /\ Executed(ran[r], loaded[r], at[r] - 1)
          /\ good[r] = Len(ran[r]) /\ at[r] <= Len(loaded[r]) /\ Current(r) \in Action
      BY <1>0, <1>9 DEF Submit, RunIsOK, RunOK, Working, Current
    <2> DEFINE s == Append(ran[r], Current(r))
    <2>4. s \in Seq(Action) /\ Len(s) = good[r] + 1
      BY <1>0, <2>0
    <2>5. Executed(s, loaded[r], at[r]) /\ at[r] \in 0..Len(loaded[r])
      BY <1>0, <2>0, ActionExecuted DEF Current
    <2>6. ran' = [ran EXCEPT ![r] = s]
      BY <1>9 DEF Submit
    <2> HIDE DEF s
    <2>1. TypeOK'
      BY <1>0, <1>9, <2>4, <2>6 DEF TypeOK, Running, storeVars, progressVars, Goto, Submit
    <2>2. RunIsOK(r)'
      BY <1>0, <1>9, <2>0, <2>4, <2>5, <2>6 DEF TypeOK, Running, storeVars, progressVars,
         Goto, Submit, RunIsOK, RunOK, Working
    <2>3. \A q \in Run \ {r} :
            /\ row'[q] = row[q] /\ snapshot'[q] = snapshot[q] /\ pc'[q] = pc[q]
            /\ loaded'[q] = loaded[q] /\ at'[q] = at[q] /\ ok'[q] = ok[q]
            /\ ran'[q] = ran[q] /\ good'[q] = good[q]
      BY <1>0, <1>9 DEF TypeOK, Running, storeVars, progressVars, Goto, Submit
    <2> QED BY <2>1, <2>2, <2>3, OneRunMoves
  <1>10. CASE Completed(r)
    <2>1. TypeOK'
      BY <1>0, <1>10 DEF TypeOK, Running, storeVars, progressVars, Goto, Completed
    <2>2. RunIsOK(r)'
      BY <1>0, <1>10 DEF TypeOK, Running, storeVars, progressVars, Goto, Completed, RunIsOK,
         RunOK, Working
    <2>3. \A q \in Run \ {r} :
            /\ row'[q] = row[q] /\ snapshot'[q] = snapshot[q] /\ pc'[q] = pc[q]
            /\ loaded'[q] = loaded[q] /\ at'[q] = at[q] /\ ok'[q] = ok[q]
            /\ ran'[q] = ran[q] /\ good'[q] = good[q]
      BY <1>0, <1>10 DEF TypeOK, Running, storeVars, progressVars, Goto, Completed
    <2> QED BY <2>1, <2>2, <2>3, OneRunMoves
  <1>11. CASE CommandFailed(r)
    <2>1. TypeOK'
      BY <1>0, <1>11 DEF TypeOK, Running, storeVars, progressVars, Goto, CommandFailed
    <2>2. RunIsOK(r)'
      BY <1>0, <1>11 DEF TypeOK, Running, storeVars, progressVars, Goto, CommandFailed,
         RunIsOK, RunOK, Working
    <2>3. \A q \in Run \ {r} :
            /\ row'[q] = row[q] /\ snapshot'[q] = snapshot[q] /\ pc'[q] = pc[q]
            /\ loaded'[q] = loaded[q] /\ at'[q] = at[q] /\ ok'[q] = ok[q]
            /\ ran'[q] = ran[q] /\ good'[q] = good[q]
      BY <1>0, <1>11 DEF TypeOK, Running, storeVars, progressVars, Goto, CommandFailed
    <2> QED BY <2>1, <2>2, <2>3, OneRunMoves
  <1>12. CASE Finish(r)
    <2>1. TypeOK'
      BY <1>0, <1>12 DEF TypeOK, Running, storeVars, progressVars, Goto, Finish
    <2>2. RunIsOK(r)'
      BY <1>0, <1>12 DEF TypeOK, Running, storeVars, progressVars, Goto, Finish, RunIsOK,
         RunOK, Working
    <2>3. \A q \in Run \ {r} :
            /\ row'[q] = row[q] /\ snapshot'[q] = snapshot[q] /\ pc'[q] = pc[q]
            /\ loaded'[q] = loaded[q] /\ at'[q] = at[q] /\ ok'[q] = ok[q]
            /\ ran'[q] = ran[q] /\ good'[q] = good[q]
      BY <1>0, <1>12 DEF TypeOK, Running, storeVars, progressVars, Goto, Finish
    <2> QED BY <2>1, <2>2, <2>3, OneRunMoves
  <1>13. CASE EarlyReturn(r)
    <2>1. TypeOK'
      BY <1>0, <1>13 DEF TypeOK, Running, storeVars, progressVars, Goto, EarlyReturn, Abandon
    <2>2. RunIsOK(r)'
      BY <1>0, <1>13 DEF TypeOK, Running, storeVars, progressVars, Goto, EarlyReturn, Abandon,
         RunIsOK, RunOK, Working
    <2>3. \A q \in Run \ {r} :
            /\ row'[q] = row[q] /\ snapshot'[q] = snapshot[q] /\ pc'[q] = pc[q]
            /\ loaded'[q] = loaded[q] /\ at'[q] = at[q] /\ ok'[q] = ok[q]
            /\ ran'[q] = ran[q] /\ good'[q] = good[q]
      BY <1>0, <1>13 DEF TypeOK, Running, storeVars, progressVars, Goto, EarlyReturn, Abandon
    <2> QED BY <2>1, <2>2, <2>3, OneRunMoves
  <1>14. CASE Drop(r)
    <2>1. TypeOK'
      BY <1>0, <1>14 DEF TypeOK, Running, storeVars, progressVars, Goto, Drop, Abandon
    <2>2. RunIsOK(r)'
      BY <1>0, <1>14 DEF TypeOK, Running, storeVars, progressVars, Goto, Drop, Abandon,
         RunIsOK, RunOK, Working
    <2>3. \A q \in Run \ {r} :
            /\ row'[q] = row[q] /\ snapshot'[q] = snapshot[q] /\ pc'[q] = pc[q]
            /\ loaded'[q] = loaded[q] /\ at'[q] = at[q] /\ ok'[q] = ok[q]
            /\ ran'[q] = ran[q] /\ good'[q] = good[q]
      BY <1>0, <1>14 DEF TypeOK, Running, storeVars, progressVars, Goto, Drop, Abandon
    <2> QED BY <2>1, <2>2, <2>3, OneRunMoves
  <1> QED BY <1>1, <1>2, <1>3, <1>4, <1>5, <1>6, <1>7, <1>8, <1>9, <1>10, <1>11, <1>12, <1>13,
     <1>14 DEF HandlerStep
\* Edits, permissions, cancels and the deletion of the runbook only touch
\* rows, and never make one succeed.
LEMMA AdministratorsKeepRuns ==
    ASSUME RunInv,
           \/ \E d \in Definition : Update(d)
           \/ DeleteRunbook \/ SetPermission \/ \E r \in Run : CancelRun(r)
    PROVE  RunInv'
  <1>1. /\ UNCHANGED <<snapshot, pc, loaded, at, ok, ran, good, abandoned>>
        /\ TypeOK'
        /\ \A q \in Run : \/ row'[q] = row[q]
                          \/ row[q] # "none" /\ row'[q] \in {"cancelled", "deleted"}
    <2>1. CASE \E d \in Definition : Update(d)
      BY <2>1 DEF Update, progressVars, RunInv, TypeOK
    <2>2. CASE DeleteRunbook
      BY <2>2 DEF DeleteRunbook, progressVars, RunInv, TypeOK
    <2>3. CASE SetPermission
      BY <2>3 DEF SetPermission, progressVars, RunInv, TypeOK
    <2>4. CASE \E r \in Run : CancelRun(r)
      BY <2>4 DEF CancelRun, progressVars, RunInv, TypeOK
    <2> QED BY <2>1, <2>2, <2>3, <2>4
  <1>2. ASSUME NEW q \in Run PROVE RunIsOK(q)'
    <2>1. RunIsOK(q)
      BY DEF RunInv
    <2> QED BY <1>1, <2>1 DEF RunIsOK, RunOK
  <1> QED BY <1>1, <1>2 DEF RunInv

(* Any number of runs of any definitions: the snapshot kept for audit is   *)
(* what ran, and "succeeded" means that all of it did and was answered Ok, *)
(* whatever administrators edit, cancel or delete meanwhile and wherever   *)
(* a handler ends.  automation/routes.rs:317-505.                          *)
THEOREM RunsStayTrue == Spec => []RunsAreTrue
  <1>1. Init => RunInv
    <2> SUFFICES ASSUME Init PROVE RunInv
      OBVIOUS
    <2>1. TypeOK
      BY DEF Init, TypeOK
    <2>2. ASSUME NEW r \in Run PROVE RunIsOK(r)
      BY DEF Init, RunIsOK, RunOK, Working
    <2> QED BY <2>1, <2>2 DEF RunInv
  <1>2. RunInv /\ [Next]_vars => RunInv'
    <2> SUFFICES ASSUME RunInv, [Next]_vars PROVE RunInv'
      OBVIOUS
    <2>1. CASE UNCHANGED vars
      BY <2>1 DEF vars, RunInv, TypeOK, RunIsOK
    <2>2. CASE Next
      BY <2>2, HandlerKeepsRuns, AdministratorsKeepRuns DEF Next
    <2> QED BY <2>1, <2>2
  <1>3. RunInv => RunsAreTrue
    <2> SUFFICES ASSUME RunInv PROVE RunsAreTrue
      OBVIOUS
    <2>1. TypeOK
      BY DEF RunInv
    <2>2. RanTheSnapshot
      BY DEF RanTheSnapshot, RunInv, RunIsOK, RunOK, Executed
    <2>3. SucceededMeansAll
      BY DEF SucceededMeansAll, RunInv, RunIsOK, RunOK, Executed
    <2> QED BY <2>1, <2>2, <2>3 DEF RunsAreTrue
  <1> QED BY <1>1, <1>2, <1>3, PTL DEF Spec
=============================================================================
