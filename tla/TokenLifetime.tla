--------------------------- MODULE TokenLifetime ----------------------------
(* The cached OAuth token and the clocks (client.go, bearerToken).  The     *)
(* service counts a token's life from the moment it grants it, the client    *)
(* from the moment the answer arrives; in between the answer travels, at     *)
(* most as long as the HTTP client waits.  The client stops using a token    *)
(* a minute before its end as it knows it.                                   *)
EXTENDS Duration

CONSTANTS
  Lifetimes,     \* the expires_in values the service may answer
  Timeout,       \* timeout_seconds
  Margin,        \* 60 in the code: the seconds a token is left unused at its end
  NoLifetime,    \* 300 in the code: what an answer without a lifetime means
  MaxTime        \* bound: seconds the clock runs

ASSUME TokenAssumption ==
  /\ Lifetimes \subseteq Int
  /\ Timeout \in Nat /\ Margin \in Nat /\ MaxTime \in Nat
  /\ NoLifetime \in Nat \ {0} /\ Fits(NoLifetime * Second)

None == -1       \* no token; times are natural numbers

VARIABLES
  now,       \* seconds
  granted,   \* when the service granted the newest token, or None
  lifetime,  \* its expires_in
  asking,    \* "no", "asked" (not yet granted) or "granted" (travelling)
  since,     \* when the token was asked for
  expiry,    \* tokenExpiry less the margin, in clock units, if there is a token
  cached,    \* when the token the client holds was granted, or None
  life,      \* the expires_in of the token the client holds
  sent       \* the last request: when, and the token it carried

tokenVars == <<now, granted, lifetime, asking, since, expiry, cached, life, sent>>

TokenInit ==
  /\ now = 0 /\ granted = None /\ lifetime = 0 /\ asking = "no" /\ since = 0
  /\ expiry = 0 /\ cached = None /\ life = 0
  /\ sent = [at |-> None, cached |-> None, life |-> 0]

\* The HTTP client gives up on an answer that takes longer than Timeout.
Tick ==
  /\ now < MaxTime
  /\ asking # "no" => now < since + Timeout
  /\ now' = now + 1
  /\ UNCHANGED <<granted, lifetime, asking, since, expiry, cached, life, sent>>

\* (bug) No margin.
UsableToTheEnd == cached # None /\ now * Second < expiry + Margin * Second

\* time.Now().Before(tokenExpiry.Add(-60 * time.Second))
Usable == cached # None /\ now * Second < expiry

\* A call with a usable token sends its request with it.
UseToken ==
  /\ asking = "no" /\ Usable
  /\ sent' = [at |-> now, cached |-> cached, life |-> life]
  /\ UNCHANGED <<now, granted, lifetime, asking, since, expiry, cached, life>>

\* One without asks for another; tokenMu makes the other calls wait.
AskForToken ==
  /\ asking = "no" /\ ~Usable
  /\ asking' = "asked" /\ since' = now
  /\ UNCHANGED <<now, granted, lifetime, expiry, cached, life, sent>>

ServiceGrants(n) ==
  /\ asking = "asked"
  /\ asking' = "granted" /\ granted' = now /\ lifetime' = n
  /\ UNCHANGED <<now, since, expiry, cached, life, sent>>

\* (bug) Expires_in is not read.
AlwaysDefault(n) == NoLifetime

\* expires_in, or the default if there is none or it is not positive
Expires(n) == IF n <= 0 THEN NoLifetime ELSE n

TokenArrives ==
  /\ asking = "granted"
  /\ expiry' = now * Second + Seconds(Expires(lifetime)) - Margin * Second
  /\ cached' = granted /\ life' = lifetime
  \* bearerToken returns the new token whatever its lifetime
  /\ sent' = [at |-> now, cached |-> granted, life |-> lifetime]
  /\ asking' = "no"
  /\ UNCHANGED <<now, granted, lifetime, since>>

\* The request fails or times out: the old, expired token stays where it is.
TokenRequestFails ==
  /\ asking # "no"
  /\ asking' = "no"
  /\ UNCHANGED <<now, granted, lifetime, since, expiry, cached, life, sent>>

\* clearToken, when a read was answered 401
ClearToken ==
  /\ asking = "no" /\ cached # None
  /\ cached' = None /\ expiry' = 0 /\ life' = 0
  /\ UNCHANGED <<now, granted, lifetime, asking, since, sent>>

TokenNext ==
  \/ Tick \/ UseToken \/ AskForToken \/ (\E n \in Lifetimes : ServiceGrants(n))
  \/ TokenArrives \/ TokenRequestFails \/ ClearToken
TokenSpec == TokenInit /\ [][TokenNext]_tokenVars
-----------------------------------------------------------------------------
\* While answers take no longer than the margin (the timeout is 30 s and the
\* margin 60 s by default), a request taken from the cache leaves before the
\* service's own end of the token's life: whatever expires_in says, even when
\* it is too large for a Duration, and however long the answer travelled
\* (client.go:252-257, 297-303).  A lifetime that is not positive
\* means the default.
SentWhileValid ==
  (sent.at # None /\ Timeout <= Margin)
    => sent.at <= sent.cached + Timeout \/ sent.at < sent.cached + Expires(sent.life)

\* A token with a lifetime that a Duration holds and that exceeds the margin
\* is used again: it is not asked for anew while more than the margin is left
\* of its life, unless a 401 dropped it (client.go:252-257).
CachedWhileValid ==
  (cached # None /\ life > 0 /\ Fits(life * Second)
     /\ now + Margin < cached + life)
    => Usable
=============================================================================
