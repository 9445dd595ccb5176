----------------------------- MODULE PhiraRetry -----------------------------
(***************************************************************************)
(* One call to the Phira API with its retries: fetch_with_retry of the     *)
(* gateway and login_post and me of the client, which also follow          *)
(* redirects by hand.  Time is counted in units of 100 ms from the start   *)
(* of the call.                                                            *)
(***************************************************************************)
EXTENDS Naturals

CONSTANTS
    RETRY_MAX_ATTEMPTS,  \* 3
    MAX_REDIRECTS,       \* 5
    Budget,              \* RETRY_TOTAL_BUDGET_MS
    Timeout,             \* phira.timeout_ms, the limit of one request
    Duration             \* lengths a request may have, up to Timeout

ASSUME RetryAssumption ==
    /\ RETRY_MAX_ATTEMPTS \in Nat /\ MAX_REDIRECTS \in Nat
    /\ Budget \in Nat /\ Timeout \in Nat /\ Duration \subseteq Nat

VARIABLES
    kind,       \* "gateway", "login" or "me"
    status,     \* "asking", "ok", "failed"
    attempt,
    redirects,
    elapsed,    \* time since the start of the call
    asked       \* requests sent

retryVars == <<kind, status, attempt, redirects, elapsed, asked>>

RetryInit ==
    /\ kind \in {"gateway", "login", "me"}
    /\ status = "asking"
    /\ attempt = 0 /\ redirects = 0 /\ elapsed = 0 /\ asked = 0

Min3(n) == IF n < 3 THEN n ELSE 3
Delay(n) == 2 ^ Min3(n)

\* A request ends after d, in whatever way.
Request(d) ==
    /\ status = "asking"
    /\ asked' = asked + 1
    /\ kind' = kind
    /\ d <= Timeout

\* A success, a refusal (4xx), a broken or unreadable answer: no retry.
Settled(d) ==
    /\ Request(d)
    /\ elapsed' = elapsed + d
    /\ status' \in {"ok", "failed"}
    /\ UNCHANGED <<attempt, redirects>>

\* A redirect beyond the limit, or without a Location, is an error.
Redirected(d) ==
    /\ Request(d)
    /\ elapsed' = elapsed + d
    /\ \/ status' = "failed" /\ UNCHANGED redirects
       \/ /\ redirects < MAX_REDIRECTS
          /\ status' = "asking" /\ redirects' = redirects + 1
    /\ UNCHANGED attempt

\* Whether the sleep of sleep_backoff fits into what is left.
sleep_backoffLate(n, at) == TRUE
sleep_backoff(n, at) == at + Delay(n) <= Budget

\* A 5xx, a timeout or a failed connect.
Transient(d) ==
    /\ Request(d)
    /\ IF attempt < RETRY_MAX_ATTEMPTS
       THEN /\ attempt' = attempt + 1
            /\ IF sleep_backoff(attempt + 1, elapsed + d)
               THEN status' = "asking" /\ elapsed' = elapsed + d + Delay(attempt + 1)
               ELSE status' = "failed" /\ elapsed' = elapsed + d
       ELSE status' = "failed" /\ elapsed' = elapsed + d /\ UNCHANGED attempt
    /\ UNCHANGED redirects

\* reqwest follows the gateway's redirects itself.
fetch_with_retry(d) == kind = "gateway" /\ (Settled(d) \/ Transient(d))
login_post(d) == kind = "login" /\ (Settled(d) \/ Redirected(d) \/ Transient(d))
me(d) == kind = "me" /\ (Settled(d) \/ Redirected(d) \/ Transient(d))

RetryNext ==
    \/ \E d \in Duration : fetch_with_retry(d) \/ login_post(d) \/ me(d)
    \/ status # "asking" /\ UNCHANGED retryVars

RetrySpec == RetryInit /\ [][RetryNext]_retryVars

RetryTypeOK ==
    /\ status \in {"asking", "ok", "failed"}
    /\ attempt \in 0..RETRY_MAX_ATTEMPTS
    /\ redirects \in 0..MAX_REDIRECTS

(* What the comment on the budget says: "total user wait <= 5s ... the 5s  *)
(* deadline is a hard cap even if a request itself is slow".  The deadline *)
(* is only looked at before a pause: nothing cuts a request short.         *)
(* phira/client.rs:92-94, 104-116.                                         *)
WaitIsCapped == elapsed <= Budget

(* How long a caller may really wait: the budget, and then one request     *)
(* that nothing cuts short, plus the redirects it may still be sent        *)
(* through; and never more requests than the two limits allow.  This is    *)
(* what holds instead of WaitIsCapped.                                     *)
(* phira/client.rs:104-116 and 151-186, phira/gateway.rs:93-130.           *)
WaitIsBounded ==
    /\ RetryTypeOK
    /\ elapsed <= Budget + Timeout * (IF kind = "gateway" THEN 1 ELSE MAX_REDIRECTS + 1)
    /\ asked <= 1 + RETRY_MAX_ATTEMPTS + (IF kind = "gateway" THEN 0 ELSE MAX_REDIRECTS)
=============================================================================
