----------------------------- MODULE RetryDelay -----------------------------
(* How long a read sleeps between its attempts (client.go, do): as long as  *)
(* the refusal's headers say, but at most maxRetryDelay, or else 250 ms      *)
(* doubled with every attempt.  The kinds of answer mix freely, and the      *)
(* headers hold whatever the service or a proxy before it wrote.             *)
EXTENDS Duration

CONSTANTS
  MaxRetries,    \* max_retries, 4 by default
  RetryAfters,   \* what the Retry-After header may be: records kind, value
  Resets         \* what a reset header may be: records kind, value

\* kind "none": no header; "junk": neither a number nor a date; "number": the
\* value as it stands; "date" (Retry-After only): how far ahead the date is.
Header == [kind : {"none", "junk", "number", "date"}, value : Int]

ASSUME RetryDelayAssumption ==
  /\ MaxRetries \in Nat \ {0}
  /\ 300 * Second < Width
  /\ RetryAfters \subseteq Header
  /\ Resets \subseteq {h \in Header : h.kind # "date"}

VARIABLES
  attempt,   \* do's attempt
  refusal,   \* the last answer: its status and its headers
  slept,     \* the sleep before this attempt
  running    \* FALSE: the call gave up

retryVars == <<attempt, refusal, slept, running>>

maxRetryDelay == 300 * Second

\* A refusal comes from the service or, when the call had to fetch a token
\* first, from the token endpoint.  It has two reset headers,
\* X-RateLimit-Reset and X-Mimecast-RateLimit-Reset: milliseconds to wait.
Refusals == [status : {"retryable"}, from : {"service", "token"},
             retryAfter : RetryAfters, reset : Resets, mimecastReset : Resets]

-----------------------------------------------------------------------------
(* The code's arithmetic.                                                    *)

\* (bug) No bound.
UnboundedRetryDelay(delay) == IF delay <= 0 THEN 0 ELSE delay

BoundedRetryDelay(delay) ==
  IF delay <= 0 THEN 0 ELSE IF delay > maxRetryDelay THEN maxRetryDelay ELSE delay

\* A date is read as its distance from now; time.Until does not wrap.
ParseRetryAfter(h) ==
  CASE h.kind = "number" -> Seconds(h.value)
    [] h.kind = "date"   -> h.value
    [] OTHER             -> 0

IsDelay(h) == h.kind = "number" /\ h.value >= 0

\* The first reset header that holds a delay decides, even if the delay is 0.
ParseReset(r) ==
  LET h == IF IsDelay(r.reset) THEN r.reset ELSE r.mimecastReset
  IN  IF IsDelay(h) THEN BoundedRetryDelay(Milliseconds(h.value)) ELSE 0

\* (bug) The reset headers first.
TakesResetFirst(r) ==
  IF ParseReset(r) > 0 THEN ParseReset(r)
                       ELSE BoundedRetryDelay(ParseRetryAfter(r.retryAfter))

ParseRateLimitDelay(r) ==
  LET after == ParseRetryAfter(r.retryAfter)
  IN  IF after > 0 THEN BoundedRetryDelay(after) ELSE ParseReset(r)

\* The error's RetryAfter: bearerToken reads no header of a refused token.
RetryAfter(r) == IF r.from = "service" THEN ParseRateLimitDelay(r) ELSE 0

\* 1 << n
Shifted[n \in Nat] == IF n = 0 THEN 1 ELSE 2 * Shifted[n - 1]

Backoff(n) == Milliseconds(AsDuration(250 * Shifted[n]))

Sleep(r, n) ==
  IF RetryAfter(r) <= 0 THEN Backoff(n) ELSE RetryAfter(r)

-----------------------------------------------------------------------------
NoHeader == [kind |-> "none", value |-> 0]

Without(status) == [status |-> status, from |-> "service", retryAfter |-> NoHeader,
                    reset |-> NoHeader, mimecastReset |-> NoHeader]

RetryInit == attempt = 0 /\ refusal = Without("none") /\ slept = 0 /\ running = TRUE

\* A 401 to the first attempt: the token is dropped, the next attempt starts
\* at once.
Unauthorized ==
  /\ running /\ attempt = 0
  /\ attempt' = 1 /\ slept' = 0 /\ refusal' = Without("unauthorized")
  /\ UNCHANGED running

\* 429 or 5xx.
Refused(r) ==
  /\ running /\ attempt < MaxRetries
  /\ attempt' = attempt + 1 /\ slept' = Sleep(r, attempt) /\ refusal' = r
  /\ UNCHANGED running

GivesUp ==
  /\ running /\ attempt >= MaxRetries
  /\ running' = FALSE
  /\ UNCHANGED <<attempt, refusal, slept>>

RetryNext == Unauthorized \/ (\E r \in Refusals : Refused(r)) \/ GivesUp
RetrySpec == RetryInit /\ [][RetryNext]_retryVars
-----------------------------------------------------------------------------
(* What the headers mean, in integers that do not wrap.                      *)
Meaning(h, unit) == IF h.kind = "number" THEN h.value * unit
                    ELSE IF h.kind = "date" THEN h.value ELSE 0

Shorter(x, y) == IF x < y THEN x ELSE y

\* A read never sleeps longer than the bound the client sets on what a service
\* may ask, and never longer than its own back-off: not even when a header's
\* number is too large for a Duration.  And as long as the back-off fits in
\* one, a refused read does sleep before it asks again: no header, whether it
\* wraps, lies in the past or is malformed, makes the client ask in a tight
\* loop (client.go:349-361, 536-574).
SleepBounded ==
  /\ slept <= maxRetryDelay \/ slept <= 250 * Shifted[MaxRetries - 1] * Millisecond
  /\ (refusal.status = "retryable" /\ Fits(250 * Shifted[MaxRetries] * Millisecond))
       => slept > 0

\* A delay that Retry-After asks for and a Duration can hold is kept to the
\* unit, up to the bound, be it a number or a date.  If it asks for none, the
\* first reset header that holds a number not below zero is kept the same way;
\* when that number is 0 the read backs off, and a delay in the header behind
\* it is NOT kept.  Nor is anything the token endpoint asks for: the client
\* does not read its headers, and the read backs off (client.go:287, 349-361,
\* 536-564).
AdviceFollowed ==
  LET after == Meaning(refusal.retryAfter, Second)
      first == IF refusal.reset.kind = "number" /\ refusal.reset.value >= 0
               THEN refusal.reset ELSE refusal.mimecastReset
      reset == Meaning(first, Millisecond)
      none  == Fits(after) /\ after <= 0
  IN  refusal.status = "retryable" =>
        IF refusal.from = "token" THEN slept = Backoff(attempt - 1)
        ELSE /\ (Fits(after) /\ after > 0) => slept = Shorter(after, maxRetryDelay)
             /\ (none /\ Fits(reset) /\ reset > 0) => slept = Shorter(reset, maxRetryDelay)
             /\ (none /\ reset <= 0) => slept = Backoff(attempt - 1)
=============================================================================
