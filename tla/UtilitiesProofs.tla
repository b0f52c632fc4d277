-------------------------- MODULE UtilitiesProofs ---------------------------
(***************************************************************************)
(* Theorems about the parts of the client that compute with durations and  *)
(* settings, for every width of a Duration and every set of inputs, and    *)
(* about the capability check, for any products, operations and number of  *)
(* changes: what a run that nothing disturbed says of the manifest is      *)
(* true, and the documents come from manifests that validate.              *)
(***************************************************************************)
EXTENDS RetryDelay, TokenLifetime, ClientConfig, CapabilityCheck,
        NaturalRecursion, TLAPS

----------------------------------------------------------------------------
(* Duration.                                                               *)

LEMMA SecondType == Second \in Nat \ {0}
  BY DurationAssumption DEF Second

\* What fits in a Duration is kept.
LEMMA FittingIsKept ==
  ASSUME NEW x \in Int, Fits(x)
  PROVE  AsDuration(x) = x
  <1> DEFINE w == 2 * Width
             y == x + Width
  <1>1. y \in Int /\ w \in Int /\ 0 <= y /\ y < w
    BY DurationAssumption DEF Fits
  <1> HIDE DEF y, w
  <1>2. y % w = y
    BY <1>1
  <1> QED
    BY <1>2, DurationAssumption DEF AsDuration, y, w

\* What is left of a larger number is no more than the number.
LEMMA WrappingReduces ==
  ASSUME NEW x \in Int, -Width <= x
  PROVE  AsDuration(x) \in Int /\ AsDuration(x) <= x
  <1> DEFINE w == 2 * Width
             y == x + Width
  <1>1. y \in Int /\ w \in Int /\ 0 <= y /\ 0 < w
    BY DurationAssumption
  <1> HIDE DEF y, w
  <1>2. y % w \in Int /\ y % w <= y
    BY <1>1
  <1> QED
    BY <1>2, DurationAssumption DEF AsDuration, y, w

\* Products with a positive number keep the order.
LEMMA ScalingOrder ==
  ASSUME NEW a \in Int, NEW b \in Int, NEW s \in Nat \ {0}
  PROVE  /\ a * s \in Int
         /\ a <= b <=> a * s <= b * s
         /\ a < b <=> a * s < b * s
  OBVIOUS

----------------------------------------------------------------------------
(* RetryDelay.                                                             *)

\* Parsing a header that fits yields what it means.
LEMMA ParsedAsMeant ==
  ASSUME NEW h \in Header, Fits(Meaning(h, Second))
  PROVE  ParseRetryAfter(h) = Meaning(h, Second) /\ Meaning(h, Second) \in Int
  <1>1. CASE h.kind = "number"
    <2>1. h.value \in Int /\ h.value * Second \in Int
      BY SecondType DEF Header
    <2> QED
      BY <1>1, <2>1, FittingIsKept DEF Meaning, ParseRetryAfter, Seconds
  <1>2. CASE h.kind # "number"
    BY <1>2 DEF Meaning, ParseRetryAfter, Header
  <1> QED
    BY <1>1, <1>2

\* The first reset header that holds a delay.
FirstReset(r) == IF IsDelay(r.reset) THEN r.reset ELSE r.mimecastReset

\* AdviceFollowed of an answer to attempt n and the sleep d after it.
Follows(r, n, d) ==
  LET after == Meaning(r.retryAfter, Second)
      reset == Meaning(FirstReset(r), Millisecond)
      none  == Fits(after) /\ after <= 0
  IN  IF r.from = "token" THEN d = Backoff(n)
      ELSE /\ (Fits(after) /\ after > 0) => d = Shorter(after, maxRetryDelay)
           /\ (none /\ Fits(reset) /\ reset > 0) => d = Shorter(reset, maxRetryDelay)
           /\ (none /\ reset <= 0) => d = Backoff(n)

\* What the two reset headers of a refusal come to.
LEMMA ResetAsMeant ==
  ASSUME NEW r \in Refusals
  PROVE  LET reset == Meaning(FirstReset(r), Millisecond)
         IN  /\ reset \in Int
             /\ ParseReset(r) \in Int /\ ParseReset(r) <= maxRetryDelay
             /\ (reset > 0 /\ Fits(reset)) => ParseReset(r) = Shorter(reset, maxRetryDelay)
             /\ reset <= 0 => ParseReset(r) = 0
  <1> DEFINE h == FirstReset(r)
             reset == Meaning(h, Millisecond)
  <1>1. h \in Header /\ h.kind # "date"
    BY RetryDelayAssumption DEF Refusals, FirstReset
  <1>2. maxRetryDelay \in Int /\ maxRetryDelay > 0
    BY SecondType DEF maxRetryDelay
  <1>3. \A d \in Int : /\ BoundedRetryDelay(d) \in Int
                       /\ BoundedRetryDelay(d) <= maxRetryDelay
                       /\ d > 0 => BoundedRetryDelay(d) = Shorter(d, maxRetryDelay)
                       /\ d <= 0 => BoundedRetryDelay(d) = 0
    BY <1>2 DEF BoundedRetryDelay, Shorter
  <1>4. ParseReset(r) = IF IsDelay(h) THEN BoundedRetryDelay(Milliseconds(h.value)) ELSE 0
    BY DEF ParseReset, FirstReset
  <1>5. h.value \in Int /\ h.value * Millisecond \in Int
    BY <1>1, DurationAssumption DEF Header
  <1> HIDE DEF h
  <1>6. CASE h.kind # "number"
    <2>1. reset = 0 /\ ParseReset(r) = 0
      BY <1>1, <1>4, <1>6 DEF Meaning, IsDelay
    <2> QED
      BY <1>2, <2>1, DurationAssumption DEF h
  <1>7. CASE h.kind = "number"
    <2>1. reset = h.value * Millisecond /\ reset \in Int
      BY <1>5, <1>7 DEF Meaning
    <2>2. Milliseconds(h.value) = AsDuration(reset) /\ Milliseconds(h.value) \in Int
      BY <2>1, DurationAssumption DEF Milliseconds, AsDuration
    <2>3. h.value < 0 => reset <= 0
      BY <1>5, <2>1, DurationAssumption
    <2>4. reset <= 0 => h.value <= 0
      BY <1>5, <2>1, DurationAssumption
    <2>5. IsDelay(h) <=> h.value >= 0
      BY <1>7 DEF IsDelay
    <2> HIDE DEF reset
    <2>6. ParseReset(r) \in Int /\ ParseReset(r) <= maxRetryDelay
      BY <1>2, <1>3, <1>4, <2>2
    <2>7. (reset > 0 /\ Fits(reset)) => ParseReset(r) = Shorter(reset, maxRetryDelay)
      BY <1>3, <1>4, <1>5, <2>1, <2>2, <2>3, <2>5, FittingIsKept
    <2>8. reset <= 0 => ParseReset(r) = 0
      <3>1. Fits(0)
        BY DurationAssumption DEF Fits
      <3>2. CASE IsDelay(h) /\ reset <= 0
        <4>1. h.value = 0
          BY <1>5, <2>4, <2>5, <3>2
        <4>2. reset = 0
          BY <4>1, <2>1, <1>7, DurationAssumption DEF reset, Meaning
        <4>3. Milliseconds(h.value) = 0
          BY <4>2, <2>2, <3>1, FittingIsKept
        <4> QED
          BY <4>3, <1>3, <1>4, <3>2
      <3> QED
        BY <3>2, <1>4
    <2> QED
      BY <2>1, <2>6, <2>7, <2>8 DEF h, reset
  <1> QED
    BY <1>6, <1>7

\* The sleep after an answer follows the advice of its headers.
LEMMA SleepFollows ==
  ASSUME NEW r \in Refusals, NEW n
  PROVE  Follows(r, n, Sleep(r, n))
  <1> DEFINE after == Meaning(r.retryAfter, Second)
             reset == Meaning(FirstReset(r), Millisecond)
  <1>1. /\ r.retryAfter \in Header /\ r.from \in {"service", "token"}
        /\ maxRetryDelay \in Int /\ maxRetryDelay > 0
    BY SecondType, RetryDelayAssumption DEF Refusals, maxRetryDelay
  <1>2. CASE r.from = "token"
    BY <1>2 DEF Follows, Sleep, RetryAfter
  <1>3. CASE r.from = "service"
    <2>1. RetryAfter(r) = ParseRateLimitDelay(r)
      BY <1>3 DEF RetryAfter
    <2>2. ASSUME Fits(after), after > 0
          PROVE  Sleep(r, n) = Shorter(after, maxRetryDelay)
      <3>1. ParseRetryAfter(r.retryAfter) = after /\ after \in Int
        BY <1>1, <2>2, ParsedAsMeant
      <3> HIDE DEF after
      <3>2. ParseRateLimitDelay(r) = Shorter(after, maxRetryDelay)
        BY <1>1, <2>2, <3>1 DEF ParseRateLimitDelay, BoundedRetryDelay, Shorter
      <3>3. Shorter(after, maxRetryDelay) > 0 /\ Shorter(after, maxRetryDelay) \in Int
        BY <1>1, <2>2, <3>1 DEF Shorter
      <3> QED
        BY <2>1, <3>2, <3>3 DEF Sleep
    <2>3. ASSUME Fits(after), after <= 0
          PROVE  RetryAfter(r) = ParseReset(r)
      <3>1. ParseRetryAfter(r.retryAfter) = after /\ after \in Int
        BY <1>1, <2>3, ParsedAsMeant
      <3> HIDE DEF after
      <3> QED
        BY <2>1, <2>3, <3>1 DEF ParseRateLimitDelay
    <2>4. ASSUME Fits(after), after <= 0, Fits(reset), reset > 0
          PROVE  Sleep(r, n) = Shorter(reset, maxRetryDelay)
      <3>1. RetryAfter(r) = ParseReset(r)
        BY <2>3, <2>4
      <3>2. ParseReset(r) = Shorter(reset, maxRetryDelay) /\ reset \in Int
        BY <2>4, ResetAsMeant
      <3> HIDE DEF reset
      <3>3. Shorter(reset, maxRetryDelay) > 0 /\ Shorter(reset, maxRetryDelay) \in Int
        BY <1>1, <2>4, <3>2 DEF Shorter
      <3> QED
        BY <3>1, <3>2, <3>3 DEF Sleep
    <2>5. ASSUME Fits(after), after <= 0, reset <= 0
          PROVE  Sleep(r, n) = Backoff(n)
      <3>1. RetryAfter(r) = ParseReset(r)
        BY <2>3, <2>5
      <3>2. ParseReset(r) = 0
        BY <2>5, ResetAsMeant
      <3> QED
        BY <3>1, <3>2 DEF Sleep
    <2> QED
      BY <1>3, <2>2, <2>4, <2>5 DEF Follows
  <1> QED
    BY <1>1, <1>2, <1>3

\* A delay the service asks for and a Duration can hold is kept, the first
\* header that says one deciding; what the token endpoint asks for is not
\* heard, and without advice a read backs off. (client.go:287, 349-361, 536-564)
THEOREM AdviceIsFollowed == RetrySpec => []AdviceFollowed
  <1> DEFINE Inv == attempt \in Nat /\ AdviceFollowed
  <1>1. RetryInit => Inv
    BY DEF RetryInit, Without, AdviceFollowed
  <1>2. Inv /\ [RetryNext]_retryVars => Inv'
    <2> SUFFICES ASSUME Inv, [RetryNext]_retryVars
                 PROVE  Inv'
      OBVIOUS
    <2>1. CASE UNCHANGED retryVars \/ GivesUp
      BY <2>1 DEF retryVars, GivesUp, AdviceFollowed
    <2>2. CASE Unauthorized
      BY <2>2 DEF Unauthorized, Without, AdviceFollowed
    <2>3. ASSUME NEW r \in Refusals, Refused(r)
          PROVE  Inv'
      <3>1. slept' = Sleep(r, attempt) /\ refusal' = r /\ attempt' = attempt + 1
        BY <2>3 DEF Refused
      <3>2. attempt' \in Nat /\ attempt' - 1 = attempt
        BY <3>1
      <3>3. Follows(refusal', attempt' - 1, slept')
        BY <3>1, <3>2, SleepFollows
      <3>4. AdviceFollowed'
        BY <3>3 DEF Follows, FirstReset, IsDelay, AdviceFollowed
      <3> QED
        BY <3>2, <3>4
    <2> QED
      BY <2>1, <2>2, <2>3 DEF RetryNext
  <1>3. Inv => AdviceFollowed
    OBVIOUS
  <1> QED
    BY <1>1, <1>2, <1>3, PTL DEF RetrySpec

\* Shifting by one doubles, so a longer back-off is a larger one.
LEMMA ShiftedDoubles ==
  /\ Shifted[0] = 1
  /\ \A n \in Nat : Shifted[n] \in Nat \ {0} /\ Shifted[n + 1] = 2 * Shifted[n]
  <1> DEFINE Double == [p \in Nat \X Nat |-> 2 * p[2]]
             IsShift(f) == f = [n \in Nat |-> IF n = 0 THEN 1 ELSE 2 * f[n - 1]]
  <1>1. \E f : IsShift(f)
    <2>1. Double \in [Nat \X Nat -> Nat] /\ 1 \in Nat
      OBVIOUS
    <2> HIDE DEF Double
    <2>2. PICK f : Defines(f, Nat, 1, Double)
      BY <2>1, NaturalRecursionDefines
    <2>3. ASSUME NEW n \in Nat \ {0}
          PROVE  f[n] = 2 * f[n - 1]
      <3>1. f[n - 1] \in Nat
        BY <2>2 DEF Defines
      <3>2. Double[<<n, f[n - 1]>>] = 2 * f[n - 1]
        BY <3>1 DEF Double
      <3> QED
        BY <2>2, <3>2 DEF Defines
    <2>4. f = [n \in Nat |-> f[n]]
      BY <2>2 DEF Defines
    <2>5. \A n \in Nat : f[n] = IF n = 0 THEN 1 ELSE 2 * f[n - 1]
      BY <2>2, <2>3 DEF Defines
    <2>6. IsShift(f)
      BY <2>4, <2>5
    <2> QED
      BY <2>6
  <1>2. IsShift(Shifted)
    <2> DEFINE F == CHOOSE f : IsShift(f)
    <2>1. IsShift(F)
      <3> HIDE DEF IsShift
      <3> QED
        BY <1>1, Zenon
    <2>2. Shifted = F
      BY DEF Shifted
    <2> QED
      BY <2>1, <2>2
  <1>3. /\ Shifted[0] = 1
        /\ \A n \in Nat : Shifted[n + 1] = 2 * Shifted[n]
    <2>1. \A n \in Nat : Shifted[n] = IF n = 0 THEN 1 ELSE 2 * Shifted[n - 1]
      BY <1>2, Zenon
    <2> QED
      BY <2>1
  <1>4. Nat \subseteq {n \in Nat : Shifted[n] \in Nat \ {0}}
    <2> DEFINE Good == {n \in Nat : Shifted[n] \in Nat \ {0}}
    <2>1. 0 \in Good
      BY <1>3
    <2>2. \A n \in Nat : n \in Good => n + 1 \in Good
      BY <1>3
    <2> HIDE DEF Good
    <2>3. Nat \subseteq Good
      BY <2>1, <2>2, SetInduction
    <2> QED
      BY <2>3 DEF Good
  <1> QED
    BY <1>3, <1>4

LEMMA ShiftedGrows ==
  ASSUME NEW m \in Nat, NEW n \in Nat, m <= n
  PROVE  Shifted[m] <= Shifted[n]
  <1> DEFINE Good == {k \in Nat : Shifted[m] <= Shifted[m + k]}
  <1>1. 0 \in Good
    BY ShiftedDoubles
  <1>2. ASSUME NEW k \in Nat, k \in Good
        PROVE  k + 1 \in Good
    <2>1. /\ Shifted[m] \in Nat /\ Shifted[m + k] \in Nat
          /\ Shifted[(m + k) + 1] = 2 * Shifted[m + k]
      BY ShiftedDoubles
    <2>2. (m + k) + 1 = m + (k + 1)
      OBVIOUS
    <2> QED
      BY <1>2, <2>1, <2>2
  <1>3. n - m \in Good
    <2>1. n - m \in Nat
      OBVIOUS
    <2> HIDE DEF Good
    <2> QED
      BY <1>1, <1>2, <2>1, SetInduction
  <1>4. m + (n - m) = n
    OBVIOUS
  <1> QED
    BY <1>3, <1>4

\* Scaling what is left of a number leaves what is left of the scaled number.
LEMMA WrappingScales ==
  ASSUME NEW x \in Int, NEW s \in Nat \ {0}
  PROVE  AsDuration(AsDuration(x) * s) = AsDuration(x * s)
  <1> DEFINE w == 2 * Width
             q == (x + Width) \div w
  <1>1. w \in Nat \ {0} /\ x + Width \in Int
    BY DurationAssumption
  <1>2. q \in Int /\ x + Width = w * q + ((x + Width) % w)
    <2> HIDE DEF w
    <2> QED
      BY <1>1
  <1>3. AsDuration(x) = x - w * q
    BY <1>1, <1>2, DurationAssumption DEF AsDuration
  <1> HIDE DEF q, w
  <1>4. (x - w * q) * s = x * s - w * (q * s)
    BY <1>1, <1>2
  <1>5. ASSUME NEW a \in Int, NEW k \in Int
        PROVE  (a - w * k) % w = a % w
    <2> DEFINE b == a - w * k
               e == (a \div w) - k - (b \div w)
    <2>1. /\ a = w * (a \div w) + (a % w) /\ a \div w \in Int
          /\ 0 <= a % w /\ a % w < w /\ a % w \in Int
      BY <1>1
    <2>2. b \in Int
      BY <1>1
    <2> HIDE DEF b
    <2>3. /\ b = w * (b \div w) + (b % w) /\ b \div w \in Int
          /\ 0 <= b % w /\ b % w < w /\ b % w \in Int
      BY <1>1, <2>2
    <2>4. w * e = (b % w) - (a % w)
      <3>1. w * e = w * (a \div w) - w * k - w * (b \div w)
        BY <1>1, <2>1, <2>3
      <3>2. b = a - w * k /\ w * k \in Int
        BY <1>1 DEF b
      <3> DEFINE X == w * (a \div w)
                 Y == w * (b \div w)
                 Z == w * k
      <3>3. X \in Int /\ Y \in Int /\ Z \in Int
        BY <1>1, <2>1, <2>3
      <3>4. a = X + (a % w) /\ b = Y + (b % w) /\ b = a - Z /\ w * e = X - Z - Y
        BY <2>1, <2>3, <3>1, <3>2
      <3> HIDE DEF X, Y, Z, e
      <3> QED
        BY <2>1, <2>2, <2>3, <3>3, <3>4
    <2>5. e \in Int
      BY <2>1, <2>3
    <2> HIDE DEF e
    <2>6. e < 1
      <3>1. e >= 1 => w * e >= w
        BY <1>1, <2>5
      <3> QED
        BY <1>1, <2>1, <2>3, <2>4, <2>5, <3>1
    <2>7. e > -1
      <3>1. e <= -1 => w * e <= -w
        BY <1>1, <2>5
      <3> QED
        BY <1>1, <2>1, <2>3, <2>4, <2>5, <3>1
    <2>8. e = 0 /\ w * e = 0
      BY <1>1, <2>5, <2>6, <2>7
    <2> QED
      BY <2>1, <2>3, <2>4, <2>8 DEF b
  <1>6. AsDuration(x) * s + Width = (x * s + Width) - w * (q * s)
    BY <1>1, <1>2, <1>3, <1>4, DurationAssumption
  <1>7. x * s + Width \in Int /\ q * s \in Int
    BY <1>2, DurationAssumption
  <1>8. (AsDuration(x) * s + Width) % w = (x * s + Width) % w
    BY <1>5, <1>6, <1>7
  <1> QED
    BY <1>8 DEF AsDuration, w

\* The back-off before retry n: no longer than the doubled delay, and that
\* very delay when it fits in a Duration.
LEMMA BackoffBounds ==
  ASSUME NEW n \in Nat
  PROVE  LET doubled == 250 * Shifted[n] * Millisecond
         IN  /\ doubled \in Nat \ {0}
             /\ Backoff(n) \in Int /\ Backoff(n) <= doubled
             /\ Fits(doubled) => Backoff(n) = doubled
  <1> DEFINE doubled == 250 * Shifted[n] * Millisecond
  <1>1. 250 * Shifted[n] \in Nat \ {0} /\ Millisecond \in Nat \ {0}
    BY ShiftedDoubles, DurationAssumption
  <1>2. doubled \in Nat \ {0}
    BY <1>1
  <1>3. Backoff(n) = AsDuration(doubled)
    <2> DEFINE x == 250 * Shifted[n]
    <2> HIDE DEF x
    <2>1. x \in Int
      BY <1>1 DEF x
    <2>2. AsDuration(AsDuration(x) * Millisecond) = AsDuration(x * Millisecond)
      BY <1>1, <2>1, WrappingScales
    <2> QED
      BY <2>2 DEF Backoff, Milliseconds, x
  <1> HIDE DEF doubled
  <1>4. -Width <= doubled
    BY <1>2, DurationAssumption
  <1> QED
    BY <1>2, <1>3, <1>4, WrappingReduces, FittingIsKept DEF doubled

\* No header makes a read sleep longer than the bound or than its back-off,
\* or, while the back-off fits in a Duration, not at all.
LEMMA SleepBounds ==
  ASSUME NEW r \in Refusals, NEW n \in 0..(MaxRetries - 1)
  PROVE  /\ \/ Sleep(r, n) <= maxRetryDelay
            \/ Sleep(r, n) <= 250 * Shifted[MaxRetries - 1] * Millisecond
         /\ Fits(250 * Shifted[MaxRetries] * Millisecond) => Sleep(r, n) > 0
  <1> DEFINE advised == RetryAfter(r)
             Doubled(k) == 250 * Shifted[k] * Millisecond
  <1>1. maxRetryDelay \in Int /\ maxRetryDelay > 0
    BY SecondType DEF maxRetryDelay
  <1>2. \A m, k \in Nat : m <= k =>
          Doubled(m) \in Int /\ Doubled(k) \in Int /\ Doubled(m) <= Doubled(k)
    <2> SUFFICES ASSUME NEW m \in Nat, NEW k \in Nat, m <= k
                 PROVE  /\ Doubled(m) \in Int /\ Doubled(k) \in Int
                        /\ Doubled(m) <= Doubled(k)
      OBVIOUS
    <2>1. 250 * Shifted[m] \in Int /\ 250 * Shifted[k] \in Int
          /\ 250 * Shifted[m] <= 250 * Shifted[k]
      BY ShiftedDoubles, ShiftedGrows
    <2> QED
      BY <2>1, ScalingOrder, DurationAssumption
  <1>3. n \in Nat /\ MaxRetries - 1 \in Nat /\ MaxRetries \in Nat
        /\ n <= MaxRetries - 1 /\ n <= MaxRetries
    BY RetryDelayAssumption
  <1>4. CASE advised <= 0
    <2>1. Sleep(r, n) = Backoff(n)
      BY <1>4 DEF Sleep
    <2>2. Backoff(n) \in Int /\ Backoff(n) <= Doubled(n) /\ Doubled(n) > 0
          /\ (Fits(Doubled(n)) => Backoff(n) = Doubled(n))
      BY <1>3, BackoffBounds
    <2> HIDE DEF Doubled
    <2>3. Doubled(n) <= Doubled(MaxRetries - 1) /\ Doubled(n) <= Doubled(MaxRetries)
          /\ Doubled(n) \in Int /\ Doubled(MaxRetries - 1) \in Int
          /\ Doubled(MaxRetries) \in Int
      BY <1>2, <1>3
    <2>4. Backoff(n) <= Doubled(MaxRetries - 1)
      BY <2>2, <2>3
    <2>5. Fits(Doubled(MaxRetries)) => Backoff(n) > 0
      BY <2>2, <2>3, DurationAssumption DEF Fits
    <2> QED
      BY <2>1, <2>4, <2>5 DEF Doubled
  <1>5. CASE ~(advised <= 0)
    <2>1. Sleep(r, n) = advised
      BY <1>5 DEF Sleep
    <2>2. advised \in Int /\ advised <= maxRetryDelay
      <3>1. \A d \in Int : BoundedRetryDelay(d) \in Int
                             /\ BoundedRetryDelay(d) <= maxRetryDelay
        BY <1>1 DEF BoundedRetryDelay
      <3>2. r.retryAfter \in Header
        BY RetryDelayAssumption DEF Refusals
      <3>4. ParseReset(r) \in Int /\ ParseReset(r) <= maxRetryDelay
        BY ResetAsMeant
      <3>5. ParseRetryAfter(r.retryAfter) \in Int
        <4>1. r.retryAfter.value \in Int
          BY <3>2 DEF Header
        <4>2. Seconds(r.retryAfter.value) \in Int
          BY <4>1, SecondType, DurationAssumption DEF Seconds, AsDuration
        <4> QED
          BY <4>1, <4>2 DEF ParseRetryAfter
      <3> QED
        BY <1>1, <3>1, <3>4, <3>5 DEF RetryAfter, ParseRateLimitDelay
    <2> QED
      BY <1>5, <2>1, <2>2
  <1> QED
    BY <1>4, <1>5

\* A read never sleeps longer than the client's bound or its own back-off,
\* and a refused one does sleep, whatever the headers say.
\* (client.go:349-361, 536-574)
THEOREM SleepIsBounded == RetrySpec => []SleepBounded
  <1> DEFINE Inv == attempt \in 0..MaxRetries /\ SleepBounded
  <1>1. RetryInit => Inv
    <2>1. 0 <= maxRetryDelay
      BY SecondType DEF maxRetryDelay
    <2> QED
      BY <2>1, RetryDelayAssumption DEF RetryInit, Without, SleepBounded
  <1>2. Inv /\ [RetryNext]_retryVars => Inv'
    <2> SUFFICES ASSUME Inv, [RetryNext]_retryVars
                 PROVE  Inv'
      OBVIOUS
    <2>1. CASE UNCHANGED retryVars \/ GivesUp
      BY <2>1 DEF retryVars, GivesUp, SleepBounded
    <2>2. CASE Unauthorized
      <3>1. 0 <= maxRetryDelay
        BY SecondType DEF maxRetryDelay
      <3> QED
        BY <2>2, <3>1, RetryDelayAssumption
        DEF Unauthorized, Without, SleepBounded
    <2>3. ASSUME NEW r \in Refusals, Refused(r)
          PROVE  Inv'
      <3>1. /\ attempt \in 0..(MaxRetries - 1) /\ attempt' \in 0..MaxRetries
            /\ slept' = Sleep(r, attempt)
        BY <2>3, RetryDelayAssumption DEF Refused
      <3>2. SleepBounded'
        BY <3>1, SleepBounds DEF SleepBounded
      <3> QED
        BY <3>1, <3>2
    <2> QED
      BY <2>1, <2>2, <2>3 DEF RetryNext
  <1>3. Inv => SleepBounded
    OBVIOUS
  <1> QED
    BY <1>1, <1>2, <1>3, PTL DEF RetrySpec

----------------------------------------------------------------------------
(* TokenLifetime.                                                          *)

TokenTypeOK ==
  /\ now \in Nat /\ granted \in Int /\ lifetime \in Int
  /\ asking \in {"no", "asked", "granted"} /\ since \in Nat
  /\ expiry \in Int /\ cached \in Int /\ life \in Int
  /\ sent \in [at : Int, cached : Int, life : Int]

\* An answer travels no longer than the HTTP client waits.
TravelInv ==
  /\ asking # "no" => since <= now /\ now <= since + Timeout
  /\ asking = "granted" => since <= granted /\ granted <= now

\* The client drops a token neither later nor, if its lifetime fits, earlier
\* than the margin before its end allows.
ExpiryInv ==
  cached # None =>
    /\ expiry <= (cached + Timeout + Expires(life) - Margin) * Second
    /\ (life > 0 /\ Fits(life * Second)) => (cached + life - Margin) * Second <= expiry

TokenInv == TokenTypeOK /\ TravelInv /\ ExpiryInv /\ SentWhileValid

LEMMA InitTokenInv == TokenInit => TokenInv
  BY DEF TokenInit, TokenInv, TokenTypeOK, TravelInv, ExpiryInv, SentWhileValid, None

LEMMA ExpiresType == \A n \in Int : Expires(n) \in Nat \ {0}
  BY TokenAssumption DEF Expires

\* The expiry the client computes when a token arrives.
LEMMA ArrivalExpiry ==
  ASSUME TokenTypeOK, TravelInv, TokenArrives
  PROVE  /\ expiry' \in Int
         /\ expiry' <= (granted + Timeout + Expires(lifetime) - Margin) * Second
         /\ (lifetime > 0 /\ Fits(lifetime * Second)) =>
              (granted + lifetime - Margin) * Second <= expiry'
         /\ granted <= now /\ now <= granted + Timeout
  <1> DEFINE e == Expires(lifetime)
             S == Second
             left == Seconds(e)
  <1>1. /\ now \in Nat /\ granted \in Int /\ lifetime \in Int /\ since \in Nat
        /\ Timeout \in Nat /\ Margin \in Nat
        /\ granted <= now /\ now <= granted + Timeout
    BY TokenAssumption DEF TokenTypeOK, TravelInv, TokenArrives
  <1>2. S \in Nat \ {0} /\ e \in Nat \ {0} /\ e * S \in Nat
    BY <1>1, SecondType, ExpiresType
  <1>3. left \in Int /\ left <= e * S
    BY <1>2, WrappingReduces, DurationAssumption DEF Seconds
  <1>4. lifetime > 0 /\ Fits(lifetime * S) => e = lifetime /\ left = lifetime * S
    BY <1>1, <1>2, FittingIsKept DEF Seconds, Expires
  <1>5. expiry' = now * S + left - Margin * S
    BY DEF TokenArrives
  <1> HIDE DEF e, S, left
  <1>6. expiry' \in Int
    BY <1>1, <1>2, <1>3, <1>5
  <1>7. expiry' <= (granted + Timeout + e - Margin) * S
    <2>1. (granted + Timeout + e - Margin) * S
            = (granted + Timeout) * S + e * S - Margin * S
      BY <1>1, <1>2
    <2>2. now * S <= (granted + Timeout) * S
      BY <1>1, <1>2, ScalingOrder
    <2> QED
      BY <1>1, <1>2, <1>3, <1>5, <2>1, <2>2
  <1>8. ASSUME lifetime > 0, Fits(lifetime * S)
        PROVE  (granted + lifetime - Margin) * S <= expiry'
    <2>1. (granted + lifetime - Margin) * S
            = granted * S + lifetime * S - Margin * S
      BY <1>1, <1>2
    <2>2. granted * S <= now * S
      BY <1>1, <1>2, ScalingOrder
    <2> QED
      BY <1>1, <1>2, <1>4, <1>5, <1>8, <2>1, <2>2
  <1> QED
    BY <1>1, <1>6, <1>7, <1>8 DEF e, S

\* A usable token is one whose life, by the client's count, is not over.
LEMMA UsableInTime ==
  ASSUME TokenTypeOK, ExpiryInv, Usable, Timeout <= Margin
  PROVE  now < cached + Expires(life)
  <1> DEFINE end == cached + Timeout + Expires(life) - Margin
  <1>1. /\ now \in Nat /\ end \in Int /\ cached \in Int /\ expiry \in Int
        /\ Timeout \in Nat /\ Margin \in Nat /\ Expires(life) \in Nat
    BY ExpiresType, TokenAssumption DEF TokenTypeOK
  <1>2. now * Second < expiry /\ expiry <= end * Second
    BY DEF Usable, ExpiryInv
  <1>3. now * Second < end * Second
    <2>1. now * Second \in Int /\ end * Second \in Int
      BY <1>1, SecondType
    <2> HIDE DEF end
    <2> QED
      BY <1>1, <1>2, <2>1
  <1>4. now < end
    <2> HIDE DEF end
    <2> QED
      BY <1>1, <1>3, ScalingOrder, SecondType
  <1> QED
    BY <1>1, <1>4

\* TokenInv is inductive.
LEMMA TokenInvStep == TokenInv /\ [TokenNext]_tokenVars => TokenInv'
  <1> SUFFICES ASSUME TokenInv, [TokenNext]_tokenVars PROVE TokenInv'
    OBVIOUS
  <1>0. TokenTypeOK /\ TravelInv /\ ExpiryInv /\ SentWhileValid
    BY DEF TokenInv
  <1>a. Timeout \in Nat /\ Margin \in Nat /\ Lifetimes \subseteq Int
    BY TokenAssumption
  <1>1. CASE UNCHANGED tokenVars
    BY <1>0, <1>1 DEF tokenVars, TokenInv, TokenTypeOK, TravelInv, ExpiryInv,
                      SentWhileValid
  <1>2. CASE Tick
    <2>1. TokenTypeOK' /\ TravelInv'
      BY <1>0, <1>a, <1>2 DEF Tick, TokenTypeOK, TravelInv
    <2>2. ExpiryInv' /\ SentWhileValid'
      BY <1>0, <1>2 DEF Tick, ExpiryInv, SentWhileValid
    <2> QED
      BY <2>1, <2>2 DEF TokenInv
  <1>3. CASE UseToken
    <2>1. TokenTypeOK' /\ TravelInv' /\ ExpiryInv'
      BY <1>0, <1>3 DEF UseToken, TokenTypeOK, TravelInv, ExpiryInv
    <2>2. sent'.at = now /\ sent'.cached = cached /\ sent'.life = life /\ Usable
      BY <1>3 DEF UseToken
    <2>3. SentWhileValid'
      BY <1>0, <2>2, UsableInTime DEF SentWhileValid
    <2> QED
      BY <2>1, <2>3 DEF TokenInv
  <1>4. CASE AskForToken
    <2>1. TokenTypeOK' /\ TravelInv'
      BY <1>0, <1>a, <1>4 DEF AskForToken, TokenTypeOK, TravelInv
    <2>2. ExpiryInv' /\ SentWhileValid'
      BY <1>0, <1>4 DEF AskForToken, ExpiryInv, SentWhileValid
    <2> QED
      BY <2>1, <2>2 DEF TokenInv
  <1>5. ASSUME NEW n \in Lifetimes, ServiceGrants(n)
        PROVE  TokenInv'
    <2>1. TokenTypeOK' /\ TravelInv'
      <3>1. since <= now
        BY <1>0, <1>5 DEF ServiceGrants, TravelInv
      <3> QED
        BY <1>0, <1>a, <1>5, <3>1 DEF ServiceGrants, TokenTypeOK, TravelInv
    <2>2. ExpiryInv' /\ SentWhileValid'
      BY <1>0, <1>5 DEF ServiceGrants, ExpiryInv, SentWhileValid
    <2> QED
      BY <2>1, <2>2 DEF TokenInv
  <1>6. CASE TokenArrives
    <2>1. /\ expiry' \in Int
          /\ expiry' <= (granted + Timeout + Expires(lifetime) - Margin) * Second
          /\ (lifetime > 0 /\ Fits(lifetime * Second)) =>
               (granted + lifetime - Margin) * Second <= expiry'
          /\ now <= granted + Timeout
      BY <1>0, <1>6, ArrivalExpiry
    <2>2. TokenTypeOK' /\ TravelInv'
      BY <1>0, <1>6, <2>1 DEF TokenArrives, TokenTypeOK, TravelInv
    <2>3. ExpiryInv'
      BY <1>6, <2>1 DEF TokenArrives, ExpiryInv
    <2>4. SentWhileValid'
      BY <1>6, <2>1 DEF TokenArrives, SentWhileValid
    <2> QED
      BY <2>2, <2>3, <2>4 DEF TokenInv
  <1>7. CASE TokenRequestFails
    <2>1. TokenTypeOK' /\ TravelInv'
      BY <1>0, <1>7 DEF TokenRequestFails, TokenTypeOK, TravelInv
    <2>2. ExpiryInv' /\ SentWhileValid'
      BY <1>0, <1>7 DEF TokenRequestFails, ExpiryInv, SentWhileValid
    <2> QED
      BY <2>1, <2>2 DEF TokenInv
  <1>8. CASE ClearToken
    <2>1. TokenTypeOK' /\ TravelInv'
      BY <1>0, <1>8 DEF ClearToken, TokenTypeOK, TravelInv, None
    <2>2. ExpiryInv' /\ SentWhileValid'
      BY <1>0, <1>8 DEF ClearToken, ExpiryInv, SentWhileValid
    <2> QED
      BY <2>1, <2>2 DEF TokenInv
  <1> QED
    BY <1>1, <1>2, <1>3, <1>4, <1>5, <1>6, <1>7, <1>8 DEF TokenNext

THEOREM TokenInvHolds == TokenSpec => []TokenInv
  BY InitTokenInv, TokenInvStep, PTL DEF TokenSpec

\* A cached token is used within its life as the service counts it.
THEOREM SentTokensAreValid == TokenSpec => []SentWhileValid
  BY TokenInvHolds, PTL DEF TokenInv

\* A token with a sensible lifetime is used until the margin before its end.
THEOREM CachedTokensAreUsed == TokenSpec => []CachedWhileValid
  <1>1. TokenInv => CachedWhileValid
    <2> SUFFICES ASSUME TokenInv, cached # None, life > 0, Fits(life * Second),
                        now + Margin < cached + life
                 PROVE  now * Second < expiry
      BY DEF CachedWhileValid, Usable
    <2> DEFINE end == cached + life - Margin
    <2>1. now \in Int /\ end \in Int /\ now < end /\ expiry \in Int
      BY TokenAssumption DEF TokenInv, TokenTypeOK
    <2>2. end * Second <= expiry
      BY DEF TokenInv, ExpiryInv
    <2> HIDE DEF end
    <2>3. now * Second < end * Second /\ now * Second \in Int /\ end * Second \in Int
      BY <2>1, ScalingOrder, SecondType
    <2> QED
      BY <2>1, <2>2, <2>3
  <1> QED
    BY <1>1, TokenInvHolds, PTL

----------------------------------------------------------------------------
(* ClientConfig.                                                           *)

\* The attributes and the variables of which it matters what they hold.
InputsTypeOK ==
  /\ block.readOnly \in BOOLEAN \union {Unset}
  /\ env.readOnly \in BOOLEAN \union {Unset, Junk}
  /\ block.timeout \in Numbers \union {Unset}
  /\ block.retries \in Numbers \union {Unset}
  /\ block.pageSize \in Numbers \union {Unset}
  /\ env.timeout \in Numbers \union {Unset, Junk}
  /\ env.retries \in Numbers \union {Unset, Junk}
  /\ env.pageSize \in Numbers \union {Unset, Junk}

\* A client is what its settings say, and was found acceptable; what it let
\* through, its transport allowed.
ConfiguredInv ==
  /\ client # Unset => client = Settings /\ Acceptable(Settings)
  /\ client = Unset => wire = Unset
  /\ wire # Unset =>
       /\ wire.to.scheme = "https" \/ wire.to \in client.origins
       /\ wire.via = client.proxy

ConfigInv == InputsTypeOK /\ ConfiguredInv

LEMMA InitConfigInv == ConfigInit => ConfigInv
  <1> SUFFICES ASSUME ConfigInit PROVE ConfigInv
    OBVIOUS
  <1>1. ConfiguredInv
    BY DEF ConfigInit, ConfiguredInv
  <1>2. ASSUME NEW b, NEW t, NEW p, NEW b2, NEW t2, NEW p2,
               block = [Nothing EXCEPT !.base = b, !.token = t, !.proxy = p],
               env = [Nothing EXCEPT !.base = b2, !.token = t2, !.proxy = p2]
        PROVE  InputsTypeOK
    <2>1. /\ block.readOnly = Unset /\ env.readOnly = Unset
          /\ block.timeout = Unset /\ block.retries = Unset /\ block.pageSize = Unset
          /\ env.timeout = Unset /\ env.retries = Unset /\ env.pageSize = Unset
      BY <1>2 DEF Nothing
    <2> QED
      BY <2>1, Zenon DEF InputsTypeOK
  <1>3. ASSUME NEW r \in Maybe(BOOLEAN), NEW r2 \in Maybe(BOOLEAN \union {Junk}),
               block = [Nothing EXCEPT !.readOnly = r],
               env = [Nothing EXCEPT !.readOnly = r2]
        PROVE  InputsTypeOK
    <2>1. /\ block.readOnly = r /\ env.readOnly = r2
          /\ block.timeout = Unset /\ block.retries = Unset /\ block.pageSize = Unset
          /\ env.timeout = Unset /\ env.retries = Unset /\ env.pageSize = Unset
      BY <1>3, Zenon DEF Nothing
    <2>2. r \in BOOLEAN \union {Unset} /\ r2 \in BOOLEAN \union {Unset, Junk}
      BY Zenon DEF Maybe
    <2> QED
      BY <2>1, <2>2, Zenon DEF InputsTypeOK
  <1>4. ASSUME NEW t \in Maybe(Positive), NEW s \in Maybe(Positive),
               NEW n \in Maybe(NonNegative), NEW x \in Maybe(Numbers \union {Junk}),
               block = [Nothing EXCEPT !.timeout = t, !.retries = n, !.pageSize = s],
               env = [Nothing EXCEPT !.timeout = x, !.retries = x, !.pageSize = x]
        PROVE  InputsTypeOK
    <2>1. /\ block.readOnly = Unset /\ env.readOnly = Unset
          /\ block.timeout = t /\ block.retries = n /\ block.pageSize = s
          /\ env.timeout = x /\ env.retries = x /\ env.pageSize = x
      BY <1>4 DEF Nothing
    <2>2. /\ t \in Numbers \union {Unset} /\ s \in Numbers \union {Unset}
          /\ n \in Numbers \union {Unset} /\ x \in Numbers \union {Unset, Junk}
      BY DEF Maybe, Positive, NonNegative
    <2> QED
      BY <2>1, <2>2, Zenon DEF InputsTypeOK
  <1>5. InputsTypeOK
    <2>1. CASE GivesEndpoints
      <3>1. PICK b, t \in Maybe(Services), p \in Maybe(URL) :
              \E b2, t2 \in Maybe(URL), p2 \in {Unset, Junk, DefaultBase} :
                /\ block = [Nothing EXCEPT !.base = b, !.token = t, !.proxy = p]
                /\ env = [Nothing EXCEPT !.base = b2, !.token = t2, !.proxy = p2]
        BY <2>1, Zenon DEF GivesEndpoints
      <3>2. PICK b2, t2 \in Maybe(URL), p2 \in {Unset, Junk, DefaultBase} :
              /\ block = [Nothing EXCEPT !.base = b, !.token = t, !.proxy = p]
              /\ env = [Nothing EXCEPT !.base = b2, !.token = t2, !.proxy = p2]
        BY <3>1, Zenon
      <3> QED
        BY <1>2, <3>2, Zenon
    <2>2. CASE GivesReadOnly
      BY <1>3, <2>2, Zenon DEF GivesReadOnly
    <2>3. CASE GivesLimits
      BY <1>4, <2>3, Zenon DEF GivesLimits
    <2> QED
      BY <2>1, <2>2, <2>3 DEF ConfigInit
  <1> QED
    BY <1>1, <1>5 DEF ConfigInv

LEMMA ConfigInvStep == ConfigInv /\ [ConfigNext]_configVars => ConfigInv'
  <1> SUFFICES ASSUME ConfigInv, [ConfigNext]_configVars PROVE ConfigInv'
    OBVIOUS
  <1>1. block' = block /\ env' = env
    BY DEF ConfigNext, Configure, RoundTrip, configVars
  <1>2. InputsTypeOK'
    BY <1>1 DEF ConfigInv, InputsTypeOK
  <1>3. Settings' = Settings
    BY <1>1 DEF Settings
  <1>4. Acceptable(Settings') = Acceptable(Settings)
    BY <1>3
  <1>5. CASE UNCHANGED configVars
    <2>1. client' = client /\ wire' = wire
      BY <1>5 DEF configVars
    <2> QED
      BY <1>2, <1>3, <1>4, <2>1 DEF ConfigInv, ConfiguredInv
  <1>6. CASE Configure
    <2>1. wire' = Unset
      BY <1>6 DEF ConfigInv, ConfiguredInv, Configure
    <2>2. client' # Unset => client' = Settings /\ Acceptable(Settings)
      BY <1>6 DEF Configure
    <2> QED
      BY <1>2, <1>3, <1>4, <2>1, <2>2 DEF ConfigInv, ConfiguredInv
  <1>7. ASSUME NEW u \in URL, RoundTrip(u) PROVE ConfigInv'
    <2>1. client' = client /\ client # Unset
      BY <1>7 DEF RoundTrip
    <2>2. /\ wire'.to.scheme = "https" \/ wire'.to \in client.origins
          /\ wire'.via = client.proxy
      BY <1>7 DEF RoundTrip
    <2>3. client = Settings /\ Acceptable(Settings)
      BY <2>1 DEF ConfigInv, ConfiguredInv
    <2> QED
      BY <1>2, <1>3, <1>4, <2>1, <2>2, <2>3 DEF ConfigInv, ConfiguredInv
  <1> QED
    BY <1>5, <1>6, <1>7 DEF ConfigNext

THEOREM ConfigInvHolds == ConfigSpec => []ConfigInv
  BY InitConfigInv, ConfigInvStep, PTL DEF ConfigSpec

\* Nothing leaves in plain HTTP except to a numeric loopback address that the
\* configuration names.
THEOREM PlainHTTPStaysLocal == ConfigSpec => []PlainOnlyToLoopback
  <1>1. ConfigInv => PlainOnlyToLoopback
    <2> SUFFICES ASSUME ConfigInv, wire # Unset, wire.to.scheme = "http"
                 PROVE  /\ IsLoopbackHost(wire.to.host)
                        /\ wire.to \in {client.base, client.token}
                        /\ wire.via = Unset \/ IsLoopbackHost(wire.via.host)
      BY DEF PlainOnlyToLoopback
    <2>1. client # Unset
      BY DEF ConfigInv, ConfiguredInv
    <2>2. client = Settings /\ Acceptable(client)
      BY <2>1 DEF ConfigInv, ConfiguredInv
    <2>3. wire.to \in client.origins /\ wire.via = client.proxy
      BY DEF ConfigInv, ConfiguredInv
    <2>4. client.origins = Origins(client.base, client.token)
      BY <2>2 DEF Settings
    <2>5. client.proxy = Unset \/ IsLoopbackHost(client.proxy.host)
      BY <2>2, <2>3 DEF Acceptable, ProxyFits
    <2> QED
      BY <2>3, <2>4, <2>5 DEF Origins
  <1> QED
    BY <1>1, ConfigInvHolds, PTL

\* A client writes only where the block or the environment says so.
THEOREM WritesAreRequested == ConfigSpec => []WritesOnlyOnRequest
  <1>1. ConfigInv => WritesOnlyOnRequest
    <2> SUFFICES ASSUME ConfigInv, client # Unset, ~client.readOnly
                 PROVE  \/ block.readOnly = FALSE
                        \/ block.readOnly = Unset /\ env.readOnly = FALSE
      BY DEF WritesOnlyOnRequest
    <2>1. client.readOnly = From(block.readOnly, env.readOnly, TRUE)
      <3>1. client = Settings
        BY DEF ConfigInv, ConfiguredInv
      <3> QED
        BY <3>1, Zenon DEF Settings
    <2>2. ~ From(block.readOnly, env.readOnly, TRUE)
      BY <2>1
    <2>3. /\ block.readOnly \in BOOLEAN \union {Unset}
          /\ env.readOnly \in BOOLEAN \union {Unset, Junk}
      BY DEF ConfigInv, InputsTypeOK
    <2>4. CASE block.readOnly # Unset
      BY <2>2, <2>3, <2>4, Zenon DEF From
    <2>5. CASE block.readOnly = Unset /\ env.readOnly \in {Unset, Junk}
      BY <2>2, <2>5, Zenon DEF From
    <2>6. CASE block.readOnly = Unset /\ env.readOnly \notin {Unset, Junk}
      <3>1. env.readOnly \in BOOLEAN
        BY <2>3, <2>6, Zenon
      <3>2. ~ env.readOnly
        BY <2>2, <2>6, Zenon DEF From
      <3> QED
        BY <2>6, <3>1, <3>2, Zenon
    <2> QED
      BY <2>4, <2>5, <2>6, Zenon
  <1> QED
    BY <1>1, ConfigInvHolds, PTL

\* A numeric setting is a number, whatever it comes from.
LEMMA NumberSettled ==
  ASSUME NEW a \in Numbers \union {Unset}, NEW v \in Numbers \union {Unset, Junk},
         NEW d \in Int
  PROVE  From(a, v, d) \in Int
  BY ConfigAssumption DEF From

LEMMA TimeoutUsable ==
  ASSUME NEW t \in Int, t >= 0, Fits(t * Second)
  PROVE  TimeoutOf(t) > 0
  <1>1. t * Second \in Int /\ Seconds(t) = t * Second
    BY SecondType, FittingIsKept DEF Seconds
  <1>2. CASE t = 0
    <2>1. Seconds(t) = 0
      BY <1>1, <1>2, SecondType
    <2>2. Bounds.timeout * Second > 0
      BY ConfigAssumption, SecondType
    <2> QED
      BY <2>1, <2>2 DEF TimeoutOf
  <1>3. CASE t > 0
    <2>1. t * Second > 0
      BY <1>3, SecondType
    <2> QED
      BY <1>1, <2>1 DEF TimeoutOf
  <1> QED
    BY <1>2, <1>3

\* Every client can ask for a page, retry and be done.
THEOREM LimitsAreUsable == ConfigSpec => []LimitsUsable
  <1>1. ConfigInv => LimitsUsable
    <2> SUFFICES ASSUME ConfigInv, client # Unset
                 PROVE  LimitsUsable
      BY DEF LimitsUsable
    <2> DEFINE t == From(block.timeout, env.timeout, Bounds.timeout)
               n == From(block.retries, env.retries, Bounds.retries)
               s == From(block.pageSize, env.pageSize, Bounds.pageSize)
    <2>1. t \in Int /\ n \in Int /\ s \in Int
      <3>1. InputsTypeOK
        BY DEF ConfigInv
      <3>2. Bounds.timeout \in Int /\ Bounds.retries \in Int /\ Bounds.pageSize \in Int
        BY ConfigAssumption
      <3> QED
        BY <3>1, <3>2, NumberSettled DEF InputsTypeOK
    <2>2. /\ client.timeout = TimeoutOf(t)
          /\ client.retries = RetriesOf(n)
          /\ client.pageSize = PageSizeOf(s)
      BY DEF ConfigInv, ConfiguredInv, Settings
    <2> HIDE DEF n, s, t
    <2>3. client.pageSize \in 1 .. Bounds.pageSize
      BY <2>1, <2>2, ConfigAssumption DEF PageSizeOf, AtMost
    <2>4. client.retries >= 0
      BY <2>1, <2>2, ConfigAssumption DEF RetriesOf
    <2>5. client.timeout > 0 \/ t < 0 \/ ~Fits(t * Second)
      BY <2>1, <2>2, TimeoutUsable
    <2> QED
      BY <2>3, <2>4, <2>5 DEF LimitsUsable, t
  <1> QED
    BY <1>1, ConfigInvHolds, PTL

----------------------------------------------------------------------------
(* CapabilityCheck.                                                        *)

IsEntry(e) == e = [products |-> e.products, class |-> e.class]

IsManifest(m) ==
  /\ m = [titles |-> m.titles, count |-> m.count, entries |-> m.entries,
          digest |-> m.digest]
  /\ \A o \in DOMAIN m.entries : IsEntry(m.entries[o])

IsRun ==
  run # NoRun =>
    /\ run = [mode |-> run.mode, current |-> run.current, titles |-> run.titles,
              specs |-> run.specs, quiet |-> run.quiet]
    /\ IsManifest(run.current)

PortalOK ==
  portal \in [Products -> {Absent} \union [title : Titles, operations : SUBSET Ops]]

\* No verdict stands while a run is in progress.
VerdictInv == run # NoRun => verdict = NoRun

\* What an undisturbed run holds is what it would read now.
CopyInv ==
  (run # NoRun /\ run.quiet) =>
    /\ run.current = manifest
    /\ run.titles = Absent \/ run.titles = [p \in Listed |-> portal[p].title]
    /\ run.specs = [p \in DOMAIN run.specs |-> portal[p].operations]

\* Only what a maintainer has classified has a class.
OnlyClassified(m) ==
  \A o \in DOMAIN m.entries : m.entries[o].class \in Classes => o \in classified

ClassInv == OnlyClassified(manifest) /\ (run # NoRun => OnlyClassified(run.current))

CheckInv ==
  IsManifest(manifest) /\ IsRun /\ PortalOK /\ VerdictInv /\ CopyInv /\ ClassInv

----------------------------------------------------------------------------
(* The operators.                                                          *)

\* What the checks accept has entries of known classes only.
LEMMA ValidMeansClassified ==
  ASSUME NEW m, Valid(m), NEW o \in DOMAIN m.entries
  PROVE  /\ m.entries[o].class \in Classes \ {"undocumented"}
         /\ o \in ConfigLike => m.entries[o].class # "excluded"
  BY DEF Valid, ValidateManifest, ValidateSurfaceEvidence, EntryValid

\* A refreshed manifest is one, and keeps the class of what was known.
LEMMA RefreshedManifest ==
  ASSUME NEW previous, NEW live, IsManifest(previous)
  PROVE  LET m == RefreshManifest(previous, live)
         IN  /\ IsManifest(m)
             /\ m.titles = live.titles /\ m.count = live.count
             /\ DOMAIN m.entries = DOMAIN live.operations
             /\ \A o \in DOMAIN live.operations :
                  /\ m.entries[o].products = live.operations[o]
                  /\ o \in DOMAIN previous.entries =>
                       m.entries[o].class = previous.entries[o].class
                  /\ o \notin DOMAIN previous.entries =>
                       m.entries[o].class = "unclassified"
  <1> DEFINE m == RefreshManifest(previous, live)
             E == m.entries
             old(o) == previous.entries[o]
  <1>1. /\ m.titles = live.titles /\ m.count = live.count
        /\ m = [titles |-> m.titles, count |-> m.count, entries |-> m.entries,
                digest |-> m.digest]
        /\ E = [o \in DOMAIN live.operations |->
                  IF o \in DOMAIN previous.entries
                    THEN [old(o) EXCEPT !.products = live.operations[o]]
                    ELSE NewEntry(live.operations[o])]
    BY DEF RefreshManifest
  <1> HIDE DEF m
  <1>2. ASSUME NEW o \in DOMAIN live.operations, o \in DOMAIN previous.entries
        PROVE  E[o] = [products |-> live.operations[o], class |-> old(o).class]
    <2>1. old(o) = [products |-> old(o).products, class |-> old(o).class]
      BY <1>2 DEF IsManifest, IsEntry
    <2>2. E[o] = [old(o) EXCEPT !.products = live.operations[o]]
      BY <1>1, <1>2
    <2> HIDE DEF old
    <2> QED
      BY <2>1, <2>2
  <1>3. ASSUME NEW o \in DOMAIN live.operations, o \notin DOMAIN previous.entries
        PROVE  E[o] = [products |-> live.operations[o], class |-> "unclassified"]
    BY <1>1, <1>3 DEF NewEntry
  <1>4. DOMAIN E = DOMAIN live.operations
    BY <1>1
  <1>5. \A o \in DOMAIN E : IsEntry(E[o])
    <2>1. \A a, b : IsEntry([products |-> a, class |-> b])
      BY DEF IsEntry
    <2> HIDE DEF E
    <2> QED
      BY <1>2, <1>3, <1>4, <2>1
  <1>6. IsManifest(m)
    BY <1>1, <1>5 DEF IsManifest
  <1>7. ASSUME NEW o \in DOMAIN live.operations
        PROVE  /\ E[o].products = live.operations[o]
               /\ o \in DOMAIN previous.entries => E[o].class = old(o).class
               /\ o \notin DOMAIN previous.entries => E[o].class = "unclassified"
    <2>2. CASE o \in DOMAIN previous.entries
      <3>1. E[o] = [products |-> live.operations[o], class |-> old(o).class]
        BY <1>2, <1>7, <2>2
      <3> HIDE DEF E, old
      <3>2. E[o].products = live.operations[o] /\ E[o].class = old(o).class
        BY <3>1
      <3> QED
        BY <2>2, <3>2
    <2>3. CASE o \notin DOMAIN previous.entries
      <3>1. E[o] = [products |-> live.operations[o], class |-> "unclassified"]
        BY <1>3, <1>7, <2>3
      <3> HIDE DEF E, old
      <3>2. E[o].products = live.operations[o] /\ E[o].class = "unclassified"
        BY <3>1
      <3> QED
        BY <2>3, <3>2
    <2> QED
      BY <2>2, <2>3
  <1> QED
    BY <1>1, <1>4, <1>6, <1>7 DEF m

\* The catalogue of the portal as it stands.
LEMMA CatalogueIsPublished ==
  ASSUME PortalOK
  PROVE  /\ PortalCatalogue.titles = [p \in Listed |-> portal[p].title]
         /\ DOMAIN PortalCatalogue.operations = {o \in Ops : Published(o) # {}}
         /\ \A o \in DOMAIN PortalCatalogue.operations :
              PortalCatalogue.operations[o] = Published(o)
  <1> DEFINE specs == [p \in Listed |-> portal[p].operations]
             found == {q[2] : q \in ProductOperations(specs)}
  <1>1. PortalCatalogue =
          [titles |-> [p \in Listed |-> portal[p].title],
           count |-> Cardinality(ProductOperations(specs)),
           operations |-> [o \in found |-> {p \in DOMAIN specs : o \in specs[p]}]]
    BY DEF PortalCatalogue, Catalogue
  <1>2. \A o : {p \in DOMAIN specs : o \in specs[p]} = Published(o)
    BY DEF Published, Listed
  <1>3. found \subseteq {o \in Ops : Published(o) # {}}
    <2> SUFFICES ASSUME NEW p \in Listed, NEW o \in portal[p].operations
                 PROVE  o \in Ops /\ p \in Published(o)
      BY DEF ProductOperations
    <2> QED
      BY DEF PortalOK, Listed, Published
  <1>4. {o \in Ops : Published(o) # {}} \subseteq found
    <2> SUFFICES ASSUME NEW o \in Ops, NEW p \in Published(o)
                 PROVE  <<p, o>> \in ProductOperations(specs)
      <3>1. \A q \in ProductOperations(specs) : q[2] \in found
        OBVIOUS
      <3> HIDE DEF found
      <3> QED
        BY <3>1
    <2>1. p \in DOMAIN specs /\ o \in specs[p]
      BY DEF Published, Listed
    <2> HIDE DEF specs
    <2> QED
      BY <2>1 DEF ProductOperations
  <1> HIDE DEF found, specs
  <1> QED
    BY <1>1, <1>2, <1>3, <1>4

\* What compareLive finds when it finds nothing.
LEMMA NoDifference ==
  ASSUME NEW m, NEW live, CompareLive(m, live) = {}
  PROVE  /\ DOMAIN m.titles = DOMAIN live.titles
         /\ \A p \in DOMAIN live.titles : m.titles[p] = live.titles[p]
         /\ DOMAIN m.entries = DOMAIN live.operations
         /\ \A o \in DOMAIN live.operations :
              m.entries[o].products = live.operations[o]
  <1> DEFINE Differs(f, g) == {x \in DOMAIN f \union DOMAIN g :
                                 x \notin DOMAIN f \/ x \notin DOMAIN g \/ f[x] # g[x]}
  <1>1. Differs(m.titles, live.titles) = {}
    BY DEF CompareLive
  <1>2. Differs(Digest(m.entries), live.operations) = {}
    BY DEF CompareLive
  <1>3. /\ DOMAIN Digest(m.entries) = DOMAIN m.entries
        /\ \A o \in DOMAIN m.entries : Digest(m.entries)[o] = m.entries[o].products
    BY DEF Digest
  <1> QED
    BY <1>1, <1>2, <1>3

\* And when it does.
LEMMA Difference ==
  ASSUME NEW m, NEW live, m.count = live.count, m.titles = live.titles,
         DOMAIN m.entries = DOMAIN live.operations,
         \A o \in DOMAIN live.operations : m.entries[o].products = live.operations[o]
  PROVE  CompareLive(m, live) = {}
  <1> DEFINE D == Digest(m.entries)
  <1>1. /\ DOMAIN D = DOMAIN live.operations
        /\ \A o \in DOMAIN live.operations : D[o] = live.operations[o]
    BY DEF Digest
  <1> HIDE DEF D
  <1> QED
    BY <1>1 DEF CompareLive, D

----------------------------------------------------------------------------
(* The steps.  A run ends in one of five ways.                             *)

RunEnds ==
  FetchFails \/ RejectsManifest \/ EndsCheck \/ EndsOffline \/ EndsRefresh

\* CheckInv holds before the first run.
LEMMA InitCheckInv == CapabilityInit => CheckInv
  <1> SUFFICES ASSUME CapabilityInit PROVE CheckInv
    OBVIOUS
  <1>1. IsManifest(manifest)
    BY DEF CapabilityInit, EmptyManifest, NoEntries, IsManifest
  <1>2. IsRun /\ VerdictInv /\ CopyInv
    BY DEF CapabilityInit, IsRun, VerdictInv, CopyInv
  <1>3. PortalOK
    BY DEF CapabilityInit, Listings, PortalOK
  <1>4. ClassInv
    BY DEF CapabilityInit, EmptyManifest, NoEntries, ClassInv, OnlyClassified
  <1> QED
    BY <1>1, <1>2, <1>3, <1>4 DEF CheckInv

\* A change outside the runs withdraws the verdict and disturbs the run.
LEMMA ChangesStep ==
  ASSUME CheckInv, Changes
  PROVE  /\ IsRun' /\ VerdictInv' /\ CopyInv'
         /\ (run' # NoRun => run # NoRun /\ run'.current = run.current)
         /\ verdict' = NoRun /\ docs' = docs
  <1>1. CASE run = NoRun
    BY <1>1 DEF Changes, IsRun, VerdictInv, CopyInv
  <1>2. CASE run # NoRun
    <2>1. run' = [mode |-> run.mode, current |-> run.current,
                  titles |-> run.titles, specs |-> run.specs, quiet |-> FALSE]
      BY <1>2 DEF CheckInv, IsRun, Changes
    <2> QED
      BY <1>2, <2>1 DEF CheckInv, Changes, IsRun, VerdictInv, CopyInv
  <1> QED
    BY <1>1, <1>2

\* The portal may change.
LEMMA PortalStep ==
  ASSUME CheckInv, NEW p \in Products, PortalChanges(p)
  PROVE  CheckInv'
  <1>1. Changes
    BY DEF PortalChanges
  <1>2. PortalOK'
    BY DEF PortalChanges, CheckInv, PortalOK, Listings
  <1>3. IsManifest(manifest)' /\ ClassInv'
    BY <1>1, ChangesStep DEF PortalChanges, CheckInv, ClassInv, OnlyClassified,
                             IsManifest, IsEntry
  <1> QED
    BY <1>1, <1>2, <1>3, ChangesStep DEF CheckInv

\* The maintainers may edit the manifest.
LEMMA EditManifestStep ==
  ASSUME CheckInv, NEW o \in Ops, Classifies(o) \/ DropsEntry(o)
  PROVE  CheckInv'
  <1>1. Changes /\ portal' = portal /\ classified \subseteq classified'
    BY DEF Classifies, DropsEntry
  <1>2. manifest = [titles |-> manifest.titles, count |-> manifest.count,
                    entries |-> manifest.entries, digest |-> manifest.digest]
    BY DEF CheckInv, IsManifest
  <1>3. IsManifest(manifest)' /\ OnlyClassified(manifest)'
    <2>1. CASE Classifies(o)
      <3>1. PICK c : manifest' = [manifest EXCEPT !.entries[o].class = c]
        BY <2>1 DEF Classifies
      <3>2. manifest' = [titles |-> manifest.titles, count |-> manifest.count,
                         entries |-> [manifest.entries EXCEPT ![o].class = c],
                         digest |-> manifest.digest]
        BY <1>2, <3>1
      <3>3. /\ DOMAIN manifest'.entries = DOMAIN manifest.entries
            /\ \A q \in DOMAIN manifest.entries :
                 manifest'.entries[q] = IF q = o
                   THEN [manifest.entries[o] EXCEPT !.class = c]
                   ELSE manifest.entries[q]
        BY <3>2
      <3>4. \A q \in DOMAIN manifest.entries : IsEntry(manifest.entries[q])
        BY DEF CheckInv, IsManifest
      <3>5. o \in DOMAIN manifest.entries
        BY <2>1 DEF Classifies
      <3>6. IsEntry([manifest.entries[o] EXCEPT !.class = c])
        <4> DEFINE e == manifest.entries[o]
        <4>1. e = [products |-> e.products, class |-> e.class]
          BY <3>4, <3>5 DEF IsEntry
        <4> HIDE DEF e
        <4>2. [e EXCEPT !.class = c] = [products |-> e.products, class |-> c]
          BY <4>1
        <4>3. \A a, b : IsEntry([products |-> a, class |-> b])
          BY DEF IsEntry
        <4> QED
          BY <4>2, <4>3 DEF e
      <3>7. IsManifest(manifest')
        BY <3>2, <3>3, <3>4, <3>6 DEF IsManifest
      <3>8. OnlyClassified(manifest)'
        BY <2>1, <3>3 DEF Classifies, CheckInv, ClassInv, OnlyClassified
      <3> QED
        BY <3>7, <3>8
    <2>2. CASE DropsEntry(o)
      <3> DEFINE kept == [q \in DOMAIN manifest.entries \ {o} |-> manifest.entries[q]]
      <3>1. manifest' = [titles |-> manifest.titles, count |-> manifest.count,
                         entries |-> kept, digest |-> manifest.digest]
        BY <1>2, <2>2 DEF DropsEntry
      <3>2. /\ manifest'.entries = kept
            /\ DOMAIN kept = DOMAIN manifest.entries \ {o}
            /\ \A q \in DOMAIN kept : kept[q] = manifest.entries[q]
        BY <3>1
      <3> HIDE DEF kept
      <3>3. IsManifest(manifest')
        BY <3>1, <3>2 DEF CheckInv, IsManifest
      <3>4. OnlyClassified(manifest)'
        BY <1>1, <3>2 DEF CheckInv, ClassInv, OnlyClassified
      <3> QED
        BY <3>3, <3>4
    <2> QED
      BY <2>1, <2>2
  <1>4. PortalOK'
    BY <1>1 DEF CheckInv, PortalOK
  <1>5. ClassInv'
    BY <1>1, <1>3, ChangesStep DEF CheckInv, ClassInv, OnlyClassified
  <1> QED
    BY <1>1, <1>3, <1>4, <1>5, ChangesStep DEF CheckInv

\* A run starts from the manifest as it is.
LEMMA StartStep ==
  ASSUME CheckInv, NEW mode \in Modes, Start(mode)
  PROVE  CheckInv'
  <1>1. /\ run' = [mode |-> mode, current |-> manifest, titles |-> Absent,
                   specs |-> NoEntries, quiet |-> TRUE]
        /\ verdict' = NoRun
        /\ UNCHANGED <<portal, manifest, classified>>
    BY DEF Start
  <1>2. /\ run'.current = manifest /\ run'.titles = Absent
        /\ run'.specs = NoEntries
    BY <1>1
  <1>3. IsManifest(manifest)' /\ IsRun' /\ PortalOK' /\ VerdictInv'
    BY <1>1 DEF CheckInv, IsRun, IsManifest, IsEntry, PortalOK, VerdictInv
  <1>4. NoEntries = [p \in DOMAIN NoEntries |-> portal'[p].operations]
    BY DEF NoEntries
  <1>5. CopyInv'
    BY <1>1, <1>2, <1>4 DEF CopyInv
  <1>6. ClassInv'
    BY <1>1, <1>2 DEF CheckInv, ClassInv, OnlyClassified
  <1> QED
    BY <1>3, <1>5, <1>6 DEF CheckInv

\* A run reads the list, or the operations of one product, as they are.
LEMMA FetchStep ==
  ASSUME CheckInv, FetchList \/ \E p \in Products : FetchSpec(p)
  PROVE  CheckInv'
  <1>1. /\ run # NoRun
        /\ UNCHANGED <<portal, manifest, verdict, classified>>
    BY DEF FetchList, FetchSpec, ContactsPortal
  <1>2. run = [mode |-> run.mode, current |-> run.current, titles |-> run.titles,
               specs |-> run.specs, quiet |-> run.quiet]
    BY <1>1 DEF CheckInv, IsRun
  <1>3. CASE FetchList
    <2>1. run' = [mode |-> run.mode, current |-> run.current,
                  titles |-> [p \in Listed |-> portal[p].title],
                  specs |-> run.specs, quiet |-> run.quiet]
      BY <1>2, <1>3 DEF FetchList, Listed
    <2>2. IsRun' /\ CopyInv' /\ ClassInv'
      BY <1>1, <2>1 DEF CheckInv, IsRun, IsManifest, IsEntry, CopyInv, ClassInv,
                        OnlyClassified, Listed
    <2> QED
      BY <1>1, <2>2 DEF CheckInv, IsManifest, IsEntry, PortalOK, VerdictInv
  <1>4. ASSUME NEW p \in Products, FetchSpec(p)
        PROVE  CheckInv'
    <2> DEFINE specs == [q \in DOMAIN run.specs \union {p} |->
                           IF q = p THEN portal[p].operations ELSE run.specs[q]]
    <2>1. run' = [mode |-> run.mode, current |-> run.current,
                  titles |-> run.titles, specs |-> specs, quiet |-> run.quiet]
      BY <1>2, <1>4 DEF FetchSpec
    <2>2. ASSUME run.specs = [q \in DOMAIN run.specs |-> portal[q].operations]
          PROVE  specs = [q \in DOMAIN specs |-> portal[q].operations]
      BY <2>2
    <2> HIDE DEF specs
    <2>3. IsRun' /\ CopyInv' /\ ClassInv'
      BY <1>1, <2>1, <2>2 DEF CheckInv, IsRun, IsManifest, IsEntry, CopyInv,
                              ClassInv, OnlyClassified, Listed
    <2> QED
      BY <1>1, <2>3 DEF CheckInv, IsManifest, IsEntry, PortalOK, VerdictInv
  <1> QED
    BY <1>3, <1>4

\* A run ends; a refresh has written the manifest.
LEMMA EndStep ==
  ASSUME CheckInv, RunEnds
  PROVE  CheckInv'
  <1>1. run' = NoRun /\ UNCHANGED <<portal, classified>>
    BY DEF RunEnds, FetchFails, RejectsManifest, EndsCheck, EndsOffline,
           EndsRefresh, Ends
  <1>2. IsRun' /\ PortalOK' /\ VerdictInv' /\ CopyInv'
    BY <1>1 DEF CheckInv, IsRun, PortalOK, VerdictInv, CopyInv
  <1>3. IsManifest(manifest)' /\ OnlyClassified(manifest)'
    <2>1. CASE UNCHANGED manifest
      BY <1>1, <2>1 DEF CheckInv, IsManifest, IsEntry, ClassInv, OnlyClassified
    <2>2. CASE EndsRefresh
      <3> DEFINE live == Catalogue(run.titles, run.specs)
      <3>1. /\ run # NoRun
            /\ manifest' = RefreshManifest(run.current, live)
        BY <2>2 DEF EndsRefresh, ContactsPortal
      <3>2. IsManifest(run.current) /\ OnlyClassified(run.current)
        BY <3>1 DEF CheckInv, IsRun, ClassInv
      <3> HIDE DEF live
      <3>3. "unclassified" \notin Classes
        BY DEF Classes
      <3> QED
        BY <1>1, <3>1, <3>2, <3>3, RefreshedManifest DEF OnlyClassified
    <2> QED
      BY <2>1, <2>2 DEF RunEnds, FetchFails, RejectsManifest, EndsCheck, EndsOffline
  <1> QED
    BY <1>1, <1>2, <1>3 DEF CheckInv, ClassInv

\* CheckInv is inductive.
LEMMA CheckInvStep == CheckInv /\ [CapabilityNext]_capVars => CheckInv'
  <1> SUFFICES ASSUME CheckInv, [CapabilityNext]_capVars PROVE CheckInv'
    OBVIOUS
  <1>1. CASE UNCHANGED capVars
    BY <1>1 DEF capVars, CheckInv, IsManifest, IsEntry, IsRun, PortalOK, VerdictInv,
                CopyInv, ClassInv, OnlyClassified, Listed
  <1>2. CASE CapabilityNext
    BY <1>2, PortalStep, EditManifestStep, StartStep, FetchStep, EndStep
       DEF CapabilityNext, RunEnds
  <1> QED
    BY <1>1, <1>2

----------------------------------------------------------------------------
(* What the verdicts say.                                                  *)

Verdicts ==
  /\ PassMeansCurrent /\ PassMeansCovered /\ NothingPassesUnseen
  /\ RefreshIsCurrent /\ DocsFromValidManifest

\* Whatever does not end a run withdraws the verdict or changes nothing that
\* it is about.
LEMMA NoVerdictBetween ==
  ASSUME CheckInv, CapabilityNext, ~RunEnds
  PROVE  verdict' = NoRun /\ docs' = docs
  BY ChangesStep
     DEF CapabilityNext, RunEnds, PortalChanges, Classifies, DropsEntry, Start,
         FetchList, FetchSpec, ContactsPortal, CheckInv, VerdictInv

\* What an undisturbed run has fetched is the catalogue of the portal.
LEMMA FetchedIsPublished ==
  ASSUME CheckInv, run # NoRun, run.quiet, Fetched
  PROVE  Catalogue(run.titles, run.specs) = PortalCatalogue
  <1>1. run.titles = [p \in Listed |-> portal[p].title]
    BY DEF CheckInv, CopyInv, Fetched
  <1>2. DOMAIN run.specs = Listed
    BY <1>1 DEF Fetched
  <1>3. run.specs = [p \in Listed |-> portal[p].operations]
    BY <1>2 DEF CheckInv, CopyInv
  <1> QED
    BY <1>1, <1>3 DEF PortalCatalogue

\* How a run ends.
LEMMA EndVerdict ==
  ASSUME CheckInv, RunEnds
  PROVE  /\ run # NoRun /\ UNCHANGED <<portal, classified>>
         /\ verdict'.mode = run.mode /\ verdict'.quiet = run.quiet
         /\ \/ EndsRefresh
            \/ UNCHANGED manifest /\ verdict'.wrote = FALSE
  BY DEF RunEnds, FetchFails, RejectsManifest, EndsCheck, EndsOffline,
         EndsRefresh, Ends, ContactsPortal

\* A run that passes has accepted the manifest it leaves.
LEMMA PassIsValid ==
  ASSUME CheckInv, RunEnds, verdict'.passed, verdict'.quiet
  PROVE  Valid(manifest')
  <1>1. run # NoRun /\ run.quiet
    BY EndVerdict
  <1>2. run.current = manifest
    BY <1>1 DEF CheckInv, CopyInv
  <1>3. ~FetchFails /\ ~RejectsManifest
    BY DEF FetchFails, RejectsManifest, Ends
  <1>4. CASE EndsCheck
    BY <1>2, <1>4 DEF EndsCheck, ContactsPortal
  <1>5. CASE EndsOffline
    BY <1>2, <1>5 DEF EndsOffline, Ends
  <1>6. CASE EndsRefresh
    BY <1>6 DEF EndsRefresh, Ends
  <1> QED
    BY <1>3, <1>4, <1>5, <1>6 DEF RunEnds

\* Ends keeps what the verdicts and the documents are to say.
LEMMA EndVerdicts ==
  ASSUME CheckInv, DocsFromValidManifest, RunEnds
  PROVE  Verdicts'
  <1>0. run # NoRun /\ UNCHANGED <<portal, classified>>
    BY EndVerdict
  <1>1. ASSUME Passed("check")'
        PROVE  PassMeansCurrent'
    <2>1. run.quiet /\ run.mode = "check" /\ verdict'.passed
      BY <1>1, EndVerdict DEF Passed
    <2>2. EndsCheck
      BY <1>0, <2>1 DEF RunEnds, FetchFails, RejectsManifest, EndsCheck,
                        EndsOffline, EndsRefresh, Ends
    <2>3. manifest' = manifest /\ run.current = manifest /\ Fetched
      BY <1>0, <2>1, <2>2 DEF EndsCheck, CheckInv, CopyInv
    <2>4. CompareLive(manifest, PortalCatalogue) = {}
      BY <1>0, <2>1, <2>2, <2>3, FetchedIsPublished DEF EndsCheck, Ends
    <2>5. /\ DOMAIN manifest.titles = DOMAIN PortalCatalogue.titles
          /\ \A p \in DOMAIN PortalCatalogue.titles :
               manifest.titles[p] = PortalCatalogue.titles[p]
          /\ DOMAIN manifest.entries = DOMAIN PortalCatalogue.operations
          /\ \A o \in DOMAIN PortalCatalogue.operations :
               manifest.entries[o].products = PortalCatalogue.operations[o]
      BY <2>4, NoDifference
    <2>6. PassMeansCurrent
      BY <2>5, CatalogueIsPublished DEF CheckInv, PassMeansCurrent, Listed
    <2>7. /\ DOMAIN manifest.entries = {o \in Ops : Published(o) # {}}
          /\ \A o \in DOMAIN manifest.entries :
               manifest.entries[o].products = Published(o)
          /\ DOMAIN manifest.titles = {p \in Products : portal[p] # Absent}
          /\ \A p \in DOMAIN manifest.titles : manifest.titles[p] = portal[p].title
      BY <2>5, CatalogueIsPublished DEF CheckInv, Listed
    <2> QED
      BY <1>0, <2>3, <2>7 DEF PassMeansCurrent, Published
  <1>2. PassMeansCurrent'
    BY <1>1 DEF PassMeansCurrent
  <1>3. ASSUME Passed("release")',
               NEW o \in DOMAIN manifest'.entries \intersect ConfigLike
        PROVE  manifest'.entries[o].class \in {"terraform", "limited"}
    <2>1. run.quiet /\ run.mode = "release" /\ verdict'.passed /\ verdict'.quiet
      BY <1>3, EndVerdict DEF Passed
    <2>2. EndsOffline
      BY <1>0, <2>1 DEF RunEnds, FetchFails, RejectsManifest, EndsCheck,
                        EndsOffline, EndsRefresh, Ends, ContactsPortal
    <2>3. manifest' = manifest /\ run.current = manifest
      BY <1>0, <2>1, <2>2 DEF EndsOffline, CheckInv, CopyInv
    <2>4. BlockingGaps(manifest) = {}
      BY <2>1, <2>2, <2>3 DEF EndsOffline, Ends
    <2>5. manifest.entries[o].class # "gap"
      BY <1>3, <2>3, <2>4 DEF BlockingGaps
    <2>6. Valid(manifest)
      BY <2>1, <2>3, PassIsValid
    <2> QED
      BY <1>3, <2>3, <2>5, <2>6, ValidMeansClassified DEF Classes
  <1>4. PassMeansCovered'
    BY <1>3 DEF PassMeansCovered
  <1>5. ASSUME NEW mode \in Modes, Passed(mode)', NEW o \in DOMAIN manifest'.entries
        PROVE  o \in classified'
    <2>1. Valid(manifest')
      BY <1>5, PassIsValid DEF Passed
    <2>2. manifest'.entries[o].class \in Classes
      BY <1>5, <2>1, ValidMeansClassified
    <2>3. OnlyClassified(manifest)'
      BY EndStep DEF CheckInv, ClassInv
    <2> QED
      BY <1>5, <2>2, <2>3 DEF OnlyClassified
  <1>6. NothingPassesUnseen'
    BY <1>5 DEF NothingPassesUnseen
  <1>7. ASSUME verdict'.wrote, verdict'.quiet
        PROVE  /\ DOMAIN manifest'.entries = {o \in Ops : Published(o) # {}}
               /\ CompareLive(manifest', PortalCatalogue) = {}
    <2>1. EndsRefresh /\ run.quiet
      BY <1>7, EndVerdict
    <2>2. manifest' = RefreshManifest(run.current, PortalCatalogue)
      BY <1>0, <2>1, FetchedIsPublished DEF EndsRefresh
    <2>3. IsManifest(run.current)
      BY <1>0 DEF CheckInv, IsRun
    <2>4. /\ manifest'.titles = PortalCatalogue.titles
          /\ manifest'.count = PortalCatalogue.count
          /\ DOMAIN manifest'.entries = DOMAIN PortalCatalogue.operations
          /\ \A o \in DOMAIN PortalCatalogue.operations :
               manifest'.entries[o].products = PortalCatalogue.operations[o]
      BY <2>2, <2>3, RefreshedManifest
    <2>5. CompareLive(manifest', PortalCatalogue) = {}
      BY <2>4, Difference
    <2> QED
      BY <2>4, <2>5, CatalogueIsPublished DEF CheckInv
  <1>8. RefreshIsCurrent'
    BY <1>0, <1>7 DEF RefreshIsCurrent, Published, PortalCatalogue, Listed
  <1>9. DocsFromValidManifest'
    <2>1. CASE docs' = docs
      BY <2>1 DEF DocsFromValidManifest
    <2>2. CASE docs' # docs
      <3>1. \E m : Valid(m) /\ docs' = m.entries
        BY <1>0, <2>2 DEF RunEnds, FetchFails, RejectsManifest, EndsCheck,
                          EndsOffline, EndsRefresh, Ends
      <3> QED
        BY <3>1, ValidMeansClassified DEF DocsFromValidManifest
    <2> QED
      BY <2>1, <2>2
  <1> QED
    BY <1>2, <1>4, <1>6, <1>8, <1>9 DEF Verdicts

\* The verdicts are right after every step.
LEMMA VerdictsStep ==
  ASSUME CheckInv, Verdicts, [CapabilityNext]_capVars
  PROVE  Verdicts'
  <1>1. CASE UNCHANGED capVars
    BY <1>1 DEF capVars, Verdicts, PassMeansCurrent, PassMeansCovered,
                NothingPassesUnseen, RefreshIsCurrent, DocsFromValidManifest,
                Passed, Published, PortalCatalogue, Listed
  <1>2. CASE RunEnds
    BY <1>2, EndVerdicts DEF Verdicts
  <1>3. CASE CapabilityNext /\ ~RunEnds
    <2>1. verdict' = NoRun /\ docs' = docs
      BY <1>3, NoVerdictBetween
    <2> QED
      BY <2>1 DEF Verdicts, PassMeansCurrent, PassMeansCovered, NothingPassesUnseen,
                  RefreshIsCurrent, DocsFromValidManifest, Passed
  <1> QED
    BY <1>1, <1>2, <1>3

LEMMA InitVerdicts == CapabilityInit => Verdicts
  BY DEF CapabilityInit, NoEntries, Verdicts, PassMeansCurrent, PassMeansCovered,
         NothingPassesUnseen, RefreshIsCurrent, DocsFromValidManifest, Passed

\* What an undisturbed run says is true, and the documents are from manifests
\* that validate.
THEOREM VerdictsHold == CapabilitySpec => [](CheckInv /\ Verdicts)
  BY InitCheckInv, InitVerdicts, CheckInvStep, VerdictsStep, PTL DEF CapabilitySpec

\* A live check that passes undisturbed means that the manifest lists what the
\* portal publishes.
THEOREM PassesMeanCurrent == CapabilitySpec => []PassMeansCurrent
  BY VerdictsHold, PTL DEF Verdicts

\* A release check that passes undisturbed leaves no configuration operation
\* without a surface or an approved limitation.
THEOREM PassesMeanCovered == CapabilitySpec => []PassMeansCovered
  BY VerdictsHold, PTL DEF Verdicts

\* Nothing passes any run before a maintainer has classified it.
THEOREM NothingUnseenPasses == CapabilitySpec => []NothingPassesUnseen
  BY VerdictsHold, PTL DEF Verdicts

\* After an undisturbed refresh a live check finds no difference.
THEOREM RefreshedIsCurrent == CapabilitySpec => []RefreshIsCurrent
  BY VerdictsHold, PTL DEF Verdicts

\* The documents are written from manifests that validate only.
THEOREM DocsAreFromValidManifests == CapabilitySpec => []DocsFromValidManifest
  BY VerdictsHold, PTL DEF Verdicts

=============================================================================
