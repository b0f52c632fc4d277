---------------------------- MODULE ClientConfig ----------------------------
(* From the provider block and the environment to a client (provider.go,    *)
(* Configure; client.go, New), and what that client then lets onto the wire  *)
(* (serviceTransport), redirects included.                                   *)
EXTENDS Duration

CONSTANTS
  Numbers,   \* what a numeric attribute or variable may be
  Bounds,    \* defaultTimeout (in seconds), defaultRetries, defaultPageSize
  Unset,     \* null, unknown or an empty string
  Junk       \* an environment variable that does not parse

ASSUME ConfigAssumption ==
  /\ Numbers \subseteq Int
  /\ Bounds.timeout \in Nat \ {0} /\ Bounds.retries \in Nat
  /\ Bounds.pageSize \in Nat \ {0}

\* A URL is its scheme and its host with the port: a name, or a numeric
\* loopback address.
URL == [scheme : {"https", "http"}, host : {"api", "localhost", "loop1", "loop2"}]
IsLoopbackHost(host) == host \in {"loop1", "loop2"}

\* parseServiceURL: also the validator of base_url and token_url
AllowedService(u) == u \in URL /\ (u.scheme = "https" \/ IsLoopbackHost(u.host))

DefaultBase == [scheme |-> "https", host |-> "api"]

VARIABLES
  block,    \* the provider block, after its validators
  env,      \* the MIMECAST_ variables
  client,   \* the configured client, or Unset
  failed,   \* Configure reported an error
  wire      \* the last request the transport let through, or Unset

configVars == <<block, env, client, failed, wire>>

-----------------------------------------------------------------------------
FirstSet(a, b, c) == IF a # Unset THEN a ELSE IF b # Unset THEN b ELSE c

\* (bug) The environment wins.
EnvironmentFirst(attribute, variable, default) ==
  IF variable \notin {Unset, Junk} THEN variable
  ELSE IF attribute # Unset THEN attribute ELSE default

\* boolFrom and int64From
From(attribute, variable, default) ==
  IF attribute # Unset THEN attribute
  ELSE IF variable \in {Unset, Junk} THEN default ELSE variable

AtMost(x, y) == IF x > y THEN y ELSE x

\* (bug) No upper limit.
PageSizeAsGiven(n) == IF n <= 0 THEN Bounds.pageSize ELSE n

\* New: only a negative number of retries, an absent timeout and a page size
\* out of range are replaced.
TimeoutOf(t)  == IF Seconds(t) = 0 THEN Bounds.timeout * Second ELSE Seconds(t)
RetriesOf(n)  == IF n < 0 THEN Bounds.retries ELSE n
PageSizeOf(n) == IF n <= 0 THEN Bounds.pageSize ELSE AtMost(n, Bounds.pageSize)

\* The endpoints plain HTTP is allowed for.
Origins(base, token) == {u \in {base, token} : u.scheme = "http" /\ IsLoopbackHost(u.host)}

Settings ==
  LET base  == FirstSet(block.base, env.base, DefaultBase)
      token == FirstSet(block.token, env.token, base)
  IN  [base     |-> base,
       token    |-> token,
       proxy    |-> FirstSet(block.proxy, env.proxy, Unset),
       origins  |-> Origins(base, token),
       readOnly |-> From(block.readOnly, env.readOnly, TRUE),
       timeout  |-> TimeoutOf(From(block.timeout, env.timeout, Bounds.timeout)),
       retries  |-> RetriesOf(From(block.retries, env.retries, Bounds.retries)),
       pageSize |-> PageSizeOf(From(block.pageSize, env.pageSize, Bounds.pageSize))]

\* (bug) The proxy is not looked at.
AnyProxy(s) == s.proxy = Unset \/ s.proxy \in URL

\* The checks of New.  A proxy is a URL of either scheme and any host.
ProxyFits(s) ==
  \/ s.proxy = Unset
  \/ s.proxy \in URL /\ (s.origins = {} \/ IsLoopbackHost(s.proxy.host))

Acceptable(s) == AllowedService(s.base) /\ AllowedService(s.token) /\ ProxyFits(s)

-----------------------------------------------------------------------------
Configure ==
  /\ client = Unset /\ ~failed
  /\ IF Acceptable(Settings)
       THEN client' = Settings /\ UNCHANGED failed
       ELSE failed' = TRUE /\ UNCHANGED client
  /\ UNCHANGED <<block, env, wire>>

\* A request to an endpoint, or wherever an answer redirects it.  Without a
\* proxy of its own the client uses the one of the environment, which never
\* serves a loopback address.
RoundTrip(u) ==
  /\ client # Unset
  /\ u.scheme = "https" \/ u \in client.origins
  /\ wire' = [to |-> u, via |-> client.proxy]
  /\ UNCHANGED <<block, env, client, failed>>

ConfigNext == Configure \/ \E u \in URL : RoundTrip(u)
-----------------------------------------------------------------------------
(* What a block and an environment may hold, one question at a time.        *)
Nothing == [base |-> Unset, token |-> Unset, proxy |-> Unset, readOnly |-> Unset,
            timeout |-> Unset, retries |-> Unset, pageSize |-> Unset]

Positive    == {n \in Numbers : n > 0}
NonNegative == {n \in Numbers : n >= 0}
Maybe(S)    == S \union {Unset}

Services == {u \in URL : AllowedService(u)}

GivesEndpoints ==
  \E b, t \in Maybe(Services), p \in Maybe(URL) :
  \E b2, t2 \in Maybe(URL), p2 \in {Unset, Junk, DefaultBase} :
    /\ block = [Nothing EXCEPT !.base = b, !.token = t, !.proxy = p]
    /\ env = [Nothing EXCEPT !.base = b2, !.token = t2, !.proxy = p2]

GivesReadOnly ==
  \E r \in Maybe(BOOLEAN), r2 \in Maybe(BOOLEAN \union {Junk}) :
    /\ block = [Nothing EXCEPT !.readOnly = r]
    /\ env = [Nothing EXCEPT !.readOnly = r2]

GivesLimits ==
  \E t, s \in Maybe(Positive), n \in Maybe(NonNegative) :
  \E x \in Maybe(Numbers \union {Junk}) :
    /\ block = [Nothing EXCEPT !.timeout = t, !.retries = n, !.pageSize = s]
    /\ env = [Nothing EXCEPT !.timeout = x, !.retries = x, !.pageSize = x]

ConfigInit ==
  /\ client = Unset /\ failed = FALSE /\ wire = Unset
  /\ GivesEndpoints \/ GivesReadOnly \/ GivesLimits

ConfigSpec == ConfigInit /\ [][ConfigNext]_configVars
-----------------------------------------------------------------------------
\* Nothing leaves in plain HTTP except to a numeric loopback address that the
\* configuration itself names, and then not through a proxy elsewhere: also
\* when an answer redirects the request, when the environment supplies the
\* endpoint, or when only one of the two endpoints is local (client.go:76-85,
\* 183-191, 210-244).
PlainOnlyToLoopback ==
  (wire # Unset /\ wire.to.scheme = "http") =>
    /\ IsLoopbackHost(wire.to.host)
    /\ wire.to \in {client.base, client.token}
    /\ wire.via = Unset \/ IsLoopbackHost(wire.via.host)

\* Writes are possible only where somebody said so in words that parse: the
\* block says false, or it says nothing and the environment says false.  An
\* unknown value and a misspelt variable leave the client read-only
\* (provider.go:130, 252-260).
WritesOnlyOnRequest ==
  (client # Unset /\ ~client.readOnly) =>
    \/ block.readOnly = FALSE
    \/ block.readOnly = Unset /\ env.readOnly = FALSE

\* Every client can ask for a page, every number of retries is one, and every
\* request ends: unless the seconds asked for do not fit a Duration or the
\* environment, which no validator reads, asks for a negative number
\* (provider.go:127-129, 262-270, client.go:155-169).
LimitsUsable ==
  (client # Unset) =>
    /\ client.pageSize \in 1 .. Bounds.pageSize
    /\ client.retries >= 0
    /\ client.timeout > 0
         \/ From(block.timeout, env.timeout, Bounds.timeout) < 0
         \/ ~Fits(From(block.timeout, env.timeout, Bounds.timeout) * Second)
=============================================================================
