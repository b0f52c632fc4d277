----------------------------- MODULE RequestLoop -----------------------------
(***************************************************************************)
(* The request path of internal/client/client.go: the retry loop do, one   *)
(* attempt doOnce, the shared OAuth token guarded by tokenMu (bearerToken, *)
(* clearToken), for any number of concurrent calls on one Client.          *)
(*                                                                         *)
(* Terraform walks its graph with several goroutines that share the        *)
(* Client, so every call is a process.  The token endpoint, the API and    *)
(* the clock are the environment: tokens age on the client's clock, the    *)
(* service may stop honouring one at any time, an answer may be any        *)
(* status, or never come.                                                  *)
(***************************************************************************)
EXTENDS Naturals, FiniteSets

CONSTANTS
  Reads,       \* calls with safeRead = true
  Writes,      \* calls with safeRead = false
  Unlisted,    \* DoRead calls whose POST path is not in legacyPOSTReadPaths
  ReadOnly,    \* Config.ReadOnly
  MaxRetries,  \* Config.MaxRetries, after New replaced a negative value
  NoCall       \* tokenMu is not held

Calls == Reads \union Writes \union Unlisted

ASSUME CallsAssumption ==
  /\ Reads \intersect Writes = {}
  /\ Unlisted \intersect (Reads \union Writes) = {}
  /\ IsFiniteSet(Calls)
  /\ NoCall \notin Calls

ASSUME ConfigAssumption == ReadOnly \in BOOLEAN /\ MaxRetries \in Nat

VARIABLES
  pc,           \* pc[c]: where call c is
  attempt,      \* attempt[c]: the loop variable of do
  bearer,       \* bearer[c]: the token of the attempt under way, 0 if none
  rejected,     \* rejected[c]: the token whose 401 made c refresh, 0 if none
  result,       \* result[c]: what the call returned
  tokenMu,      \* the call that holds Client.tokenMu, or NoCall
  accessToken,  \* Client.accessToken; 0 is the empty string
  tokenExpiry,  \* "ahead": now is before Client.tokenExpiry minus 60 seconds
  net,          \* net[c]: c's API request: none, on its way, or its answer
  live,         \* the tokens the service honours
  \* history
  issued,       \* how many tokens the client has obtained: they are 1..issued
  aged,         \* how many of them ran out on the client's clock
  cleared,      \* the calls that ran clearToken
  asked,        \* asked[c]: token requests made by c
  sent,         \* sent[c]: API requests sent for c
  applied       \* applied[c]: how often the service acted on c

callVars  == <<pc, attempt, bearer, rejected, result>>
tokenVars == <<tokenMu, accessToken, tokenExpiry>>
history   == <<cleared, asked, sent>>
vars == <<pc, attempt, bearer, rejected, result,
          tokenMu, accessToken, tokenExpiry, net, live,
          issued, aged, cleared, asked, sent, applied>>

\* The ways an attempt can fail, as far as do() tells them apart: an APIError
\* with 401, one retryable() accepts, any other APIError (a 4xx, the 2xx fail
\* envelope of parseLegacyFailMessage), and an error that is no APIError.
ErrorClass == {"unauthorized", "transient", "rejected", "transport"}
Answer     == {"ok", "unauthorized", "transient", "rejected"}
PC == {"idle", "doOnce", "token", "send", "wait", "clear", "backoff", "done"}
Result == {"none", "refused", "ok", "unauthorized", "failed"}

TypeOK ==
  /\ pc \in [Calls -> PC]
  /\ attempt \in [Calls -> Nat]
  /\ bearer \in [Calls -> Nat]
  /\ rejected \in [Calls -> Nat]
  /\ result \in [Calls -> Result]
  /\ tokenMu \in Calls \union {NoCall}
  /\ accessToken \in Nat
  /\ tokenExpiry \in {"ahead", "past"}
  /\ net \in [Calls -> Answer \union {"none", "request"}]
  /\ live \in SUBSET Nat
  /\ issued \in Nat
  /\ aged \in Nat
  /\ cleared \in SUBSET Calls
  /\ asked \in [Calls -> Nat]
  /\ sent \in [Calls -> Nat]
  /\ applied \in [Calls -> Nat]

Init ==
  /\ pc = [c \in Calls |-> "idle"]
  /\ attempt = [c \in Calls |-> 0]
  /\ bearer = [c \in Calls |-> 0]
  /\ rejected = [c \in Calls |-> 0]
  /\ result = [c \in Calls |-> "none"]
  /\ tokenMu = NoCall
  /\ accessToken = 0
  /\ tokenExpiry = "past"
  /\ net = [c \in Calls |-> "none"]
  /\ live = {}
  /\ issued = 0
  /\ aged = 0
  /\ cleared = {}
  /\ asked = [c \in Calls |-> 0]
  /\ sent = [c \in Calls |-> 0]
  /\ applied = [c \in Calls |-> 0]

SafeRead(c) == c \notin Writes

\* bearerToken reuses the cached token.
Usable == accessToken # 0 /\ tokenExpiry = "ahead"

Return(c, r) ==
  /\ pc' = [pc EXCEPT ![c] = "done"]
  /\ result' = [result EXCEPT ![c] = r]
  /\ bearer' = [bearer EXCEPT ![c] = 0]

Goto(c, label) ==
  /\ pc' = [pc EXCEPT ![c] = label]
  /\ UNCHANGED result

\* (bugs)
RefreshesWrites(c, err) == err = "unauthorized" /\ attempt[c] = 0
RefreshesEveryTime(c, err) == SafeRead(c) /\ err = "unauthorized"

RefreshesOn(c, err) == SafeRead(c) /\ err = "unauthorized" /\ attempt[c] = 0

\* (bug)
RetriesWrites(c, err) == err = "transient" /\ attempt[c] < MaxRetries

RetriesOn(c, err) ==
  SafeRead(c) /\ err = "transient" /\ attempt[c] < MaxRetries

\* do() after doOnce returned an error.
HandleError(c, err) ==
  \/ /\ RefreshesOn(c, err)
     /\ Goto(c, "clear")
     /\ bearer' = [bearer EXCEPT ![c] = 0]
  \/ /\ RetriesOn(c, err)
     /\ Goto(c, "backoff")
     /\ bearer' = [bearer EXCEPT ![c] = 0]
  \/ /\ ~RefreshesOn(c, err)
     /\ ~RetriesOn(c, err)
     /\ Return(c, IF err = "unauthorized" THEN "unauthorized" ELSE "failed")

-----------------------------------------------------------------------------
(* do and doOnce                                                           *)

\* DoRead refuses a POST path off the allowlist, do refuses a write in
\* read-only mode: nothing is built, no token is fetched.
Refuse(c) ==
  /\ pc[c] = "idle"
  /\ c \in Unlisted \/ (ReadOnly /\ c \in Writes)
  /\ Return(c, "refused")
  /\ UNCHANGED <<attempt, rejected, tokenVars, net, live, issued,
                 aged, history, applied>>

Begin(c) ==
  /\ pc[c] = "idle"
  /\ c \notin Unlisted /\ ~(ReadOnly /\ c \in Writes)
  /\ Goto(c, "doOnce")
  /\ UNCHANGED <<attempt, bearer, rejected, tokenVars, net, live, issued,
                 aged, history, applied>>

\* json.Marshal or http.NewRequest fails: the body never changes, so it does
\* on the first attempt, before the token is asked for.
BuildFails(c) ==
  /\ pc[c] = "doOnce" /\ attempt[c] = 0
  /\ Return(c, "failed")
  /\ UNCHANGED <<attempt, rejected, tokenVars, net, live, issued,
                 aged, history, applied>>

\* bearerToken, cached token: tokenMu is taken and released in one step.
ReuseToken(c) ==
  /\ pc[c] = "doOnce" /\ tokenMu = NoCall /\ Usable
  /\ bearer' = [bearer EXCEPT ![c] = accessToken]
  /\ Goto(c, "send")
  /\ UNCHANGED <<attempt, rejected, tokenVars, net, live, issued, aged,
                 history, applied>>

\* (bug) The cached token is not looked at again under the mutex.
RequestsRegardless(c) ==
  /\ pc[c] = "doOnce" /\ tokenMu = NoCall
  /\ tokenMu' = c
  /\ asked' = [asked EXCEPT ![c] = @ + 1]
  /\ Goto(c, "token")
  /\ UNCHANGED <<attempt, bearer, rejected, accessToken, tokenExpiry, net,
                 live, issued, aged, cleared, sent, applied>>

\* bearerToken, no usable token: tokenMu is kept across the token request.
RequestToken(c) ==
  /\ pc[c] = "doOnce" /\ tokenMu = NoCall /\ ~Usable
  /\ tokenMu' = c
  /\ asked' = [asked EXCEPT ![c] = @ + 1]
  /\ Goto(c, "token")
  /\ UNCHANGED <<attempt, bearer, rejected, accessToken, tokenExpiry, net,
                 live, issued, aged, cleared, sent, applied>>

\* The endpoint grants a token.  With expires_in of 60 or less it is never
\* before its expiry minus 60 seconds: it serves this attempt only.
TokenGranted(c) ==
  /\ pc[c] = "token"
  /\ issued' = issued + 1
  /\ live' = live \union {issued + 1}
  /\ accessToken' = issued + 1
  /\ \/ tokenExpiry' = "ahead" /\ aged' = aged
     \/ tokenExpiry' = "past" /\ aged' = aged + 1
  /\ tokenMu' = NoCall
  /\ bearer' = [bearer EXCEPT ![c] = issued + 1]
  /\ Goto(c, "send")
  /\ UNCHANGED <<attempt, rejected, net, history, applied>>

\* (bug) The error path does not unlock.
TokenFailsLocked(c) ==
  /\ pc[c] = "token"
  /\ \E err \in ErrorClass : HandleError(c, err)
  /\ UNCHANGED <<attempt, rejected, tokenVars, net, live, issued, aged,
                 history, applied>>

\* bearerToken fails: the cached token stays as it was, and the endpoint's
\* status reaches do() as if the API had answered it.
TokenFails(c) ==
  /\ pc[c] = "token"
  /\ tokenMu' = NoCall
  /\ \E err \in ErrorClass : HandleError(c, err)
  /\ UNCHANGED <<attempt, rejected, accessToken, tokenExpiry, net, live,
                 issued, aged, history, applied>>

Send(c) ==
  /\ pc[c] = "send"
  /\ net' = [net EXCEPT ![c] = "request"]
  /\ sent' = [sent EXCEPT ![c] = @ + 1]
  /\ Goto(c, "wait")
  /\ UNCHANGED <<attempt, bearer, rejected, tokenVars, live, issued, aged,
                 cleared, asked, applied>>

\* The request does not leave: no connection, a cancelled context, or a
\* redirect target serviceTransport blocks.
SendFails(c) ==
  /\ pc[c] = "send"
  /\ Return(c, "failed")
  /\ UNCHANGED <<attempt, rejected, tokenVars, net, live, issued,
                 aged, history, applied>>

ReceiveSuccess(c) ==
  /\ pc[c] = "wait" /\ net[c] = "ok"
  /\ net' = [net EXCEPT ![c] = "none"]
  /\ Return(c, "ok")
  /\ UNCHANGED <<attempt, rejected, tokenVars, live, issued, aged,
                 history, applied>>

ReceiveError(c) ==
  /\ pc[c] = "wait" /\ net[c] \in Answer \ {"ok"}
  /\ net' = [net EXCEPT ![c] = "none"]
  /\ rejected' = IF RefreshesOn(c, net[c])
                 THEN [rejected EXCEPT ![c] = bearer[c]] ELSE rejected
  /\ HandleError(c, net[c])
  /\ UNCHANGED <<attempt, tokenVars, live, issued, aged, history,
                 applied>>

\* The answer does not come in time, breaks off, is longer than
\* maxResponseSize or does not decode.  A write that is still on its way may
\* yet reach the service; nobody minds a read that does.
AnswerLost(c) ==
  /\ pc[c] = "wait"
  /\ net' = [net EXCEPT ![c] = IF c \in Writes /\ @ = "request"
                               THEN "request" ELSE "none"]
  /\ Return(c, "failed")
  /\ UNCHANGED <<attempt, rejected, tokenVars, live, issued, aged, history,
                 applied>>

\* (bug) The retry goes round without dropping the token.
KeepsRejectedToken(c) ==
  /\ pc[c] = "clear" /\ tokenMu = NoCall
  /\ cleared' = cleared \union {c}
  /\ attempt' = [attempt EXCEPT ![c] = @ + 1]
  /\ Goto(c, "doOnce")
  /\ UNCHANGED <<bearer, rejected, tokenVars, net, live, issued, aged, asked,
                 sent, applied>>

\* clearToken drops whatever token is cached by then, and do() goes round.
ClearToken(c) ==
  /\ pc[c] = "clear" /\ tokenMu = NoCall
  /\ accessToken' = 0
  /\ tokenExpiry' = "past"
  /\ cleared' = cleared \union {c}
  /\ attempt' = [attempt EXCEPT ![c] = @ + 1]
  /\ Goto(c, "doOnce")
  /\ UNCHANGED <<bearer, rejected, tokenMu, net, live, issued, aged, asked,
                 sent, applied>>

\* The backoff timer fires.
RetryAttempt(c) ==
  /\ pc[c] = "backoff"
  /\ attempt' = [attempt EXCEPT ![c] = @ + 1]
  /\ Goto(c, "doOnce")
  /\ UNCHANGED <<bearer, rejected, tokenVars, net, live, issued, aged,
                 history, applied>>

\* The caller's context ends during the backoff.
CancelBackoff(c) ==
  /\ pc[c] = "backoff"
  /\ Return(c, "failed")
  /\ UNCHANGED <<attempt, rejected, tokenVars, net, live, issued,
                 aged, history, applied>>

-----------------------------------------------------------------------------
(* The environment: the API, the token's lifetime                          *)

\* The API answers 401 exactly when it no longer honours the bearer token; a
\* 5xx or 429 may hide an effect that took place.
ServiceAnswers(c) ==
  /\ pc[c] = "wait" /\ net[c] = "request"
  /\ \/ /\ bearer[c] \notin live
        /\ net' = [net EXCEPT ![c] = "unauthorized"]
        /\ UNCHANGED applied
     \/ /\ bearer[c] \in live
        /\ \/ net' = [net EXCEPT ![c] = "ok"]
           \/ c \in Writes /\ net' = [net EXCEPT ![c] = "transient"]
        /\ applied' = [applied EXCEPT ![c] = @ + 1]
     \/ /\ bearer[c] \in live
        /\ \E answer \in {"transient", "rejected"} :
              net' = [net EXCEPT ![c] = answer]
        /\ UNCHANGED applied
  /\ UNCHANGED <<callVars, tokenVars, live, issued, aged, history>>

\* A write the client gave up on takes effect after all.
ServiceActsLate(c) ==
  /\ pc[c] = "done" /\ net[c] = "request"
  /\ net' = [net EXCEPT ![c] = "none"]
  /\ applied' = [applied EXCEPT ![c] = @ + 1]
  /\ UNCHANGED <<callVars, tokenVars, live, issued, aged, history>>

\* The clock reaches tokenExpiry minus 60 seconds.
TokenAges ==
  /\ Usable
  /\ tokenExpiry' = "past"
  /\ aged' = aged + 1
  /\ UNCHANGED <<callVars, tokenMu, accessToken, net, live, issued, history,
                 applied>>

\* Only a token that is cached or on its way can be missed.
ServiceRevokes ==
  /\ \E t \in {accessToken} \union {bearer[c] : c \in Calls} :
        t \in live /\ live' = live \ {t}
  /\ UNCHANGED <<callVars, tokenVars, net, issued, aged, history, applied>>

-----------------------------------------------------------------------------

CallStep(c) ==
  \/ BuildFails(c) \/ ReuseToken(c) \/ RequestToken(c)
  \/ TokenGranted(c) \/ TokenFails(c)
  \/ Send(c) \/ SendFails(c)
  \/ ReceiveSuccess(c) \/ ReceiveError(c) \/ AnswerLost(c)
  \/ ClearToken(c) \/ RetryAttempt(c) \/ CancelBackoff(c)

Next ==
  \/ \E c \in Calls : Refuse(c) \/ Begin(c) \/ CallStep(c)
                   \/ ServiceAnswers(c) \/ ServiceActsLate(c)
  \/ TokenAges
  \/ ServiceRevokes

Spec == Init /\ [][Next]_vars

\* A call that is under way keeps going: the goroutine is scheduled, Go's
\* mutex is handed on, and http.Client.Timeout ends every request.  Nothing
\* obliges the service to answer, or a token to age or be revoked.
FairSpec == Spec /\ \A c \in Calls : WF_vars(CallStep(c))

-----------------------------------------------------------------------------
(* Properties                                                              *)

\* A write leaves the client at most once, whatever the service answers, so
\* the service cannot act on it twice ("Only GET, HEAD, and OPTIONS are
\* treated as retry-safe reads", client.go), and a write the caller was told
\* succeeded did happen.
WriteAppliedOnce ==
  \A c \in Writes :
     /\ sent[c] <= 1 /\ applied[c] <= sent[c]
     /\ result[c] = "ok" => applied[c] = 1

\* A write in read-only mode, and a POST that is not an allowlisted read,
\* neither reach the API nor cost a token request, in whatever state the
\* shared token is: the refusal comes before OAuth.
RefusedBeforeOAuth ==
  \A c \in Unlisted \union (IF ReadOnly THEN Writes ELSE {}) :
     /\ asked[c] = 0 /\ sent[c] = 0 /\ tokenMu # c
     /\ pc[c] = "done" => result[c] = "refused"

\* One call makes at most MaxRetries + 1 attempts, and at most two when
\* max_retries is 0: the refresh after a 401 is paid from the same loop
\* variable as the transient retries and comes on top only when there are
\* none.  Each attempt costs at most one token and one API request.
AttemptsBounded ==
  LET bound == IF MaxRetries = 0 THEN 2 ELSE MaxRetries + 1 IN
  \A c \in Calls : sent[c] <= bound /\ asked[c] <= bound

\* The attempt after a 401 refresh never presents the rejected token again,
\* although any other call may fetch, reuse or clear the shared token between
\* the 401 and the retry.
RejectedTokenNotReused ==
  \A c \in Calls :
     c \in cleared /\ pc[c] \in {"send", "wait"} => bearer[c] # rejected[c]

\* Concurrent calls share one token: a second token is obtained only because
\* the one before aged or some call dropped it after a 401.  (A 401 that
\* arrives late can drop a newer token than the one it was about, so one
\* revocation may cost one token per call that met it, and no more.)
TokensAccounted ==
  issued <= aged + Cardinality(cleared)
            + (IF Usable THEN 1 ELSE 0)

\* A call that started returns, whatever the service does: no path leaves
\* tokenMu locked, and the retry loop ends.
CallsReturn == \A c \in Calls : pc[c] = "doOnce" ~> pc[c] = "done"

\* The calls behave, towards their callers, as CallContract says.
callStatus ==
  [c \in Calls |->
     CASE pc[c] = "idle" -> "idle"
       [] pc[c] = "done" -> IF result[c] = "unauthorized" THEN "failed"
                                                          ELSE result[c]
       [] OTHER -> "running"]

Contract == INSTANCE CallContract WITH status <- callStatus

ImplementsContract == Contract!ContractSpec

\* "Added one-time OAuth token refresh on 401 responses" (CHANGELOG.md:118):
\* a read whose caller is handed a 401 after every attempt reached the API
\* (so that the 401 is not the token endpoint's) refreshed the token before.
UnauthorizedAfterRefresh ==
  \A c \in Reads :
     result[c] = "unauthorized" /\ sent[c] = attempt[c] + 1 => c \in cleared

-----------------------------------------------------------------------------
(* The inductive invariant behind the properties                           *)

Started(c) == pc[c] \notin {"idle", "doOnce"}
Answered(c) == pc[c] \in {"wait", "clear", "backoff", "done"}
Refusable(c) == c \in Unlisted \/ (ReadOnly /\ c \in Writes)

\* tokenMu is held exactly across a token request.
LockInv == \A c \in Calls : tokenMu = c <=> pc[c] = "token"

\* While a token is being fetched there is no usable one: nobody can install
\* a token without tokenMu, so requests for tokens never overlap or repeat.
SingleFlightInv == \A c \in Calls : pc[c] = "token" => ~Usable

\* The loop variable pays for every request of a call.
BudgetInv ==
  \A c \in Calls :
     /\ attempt[c] <= (IF MaxRetries = 0 THEN 1 ELSE MaxRetries)
     /\ asked[c] <= attempt[c] + (IF Started(c) THEN 1 ELSE 0)
     /\ sent[c] <= attempt[c] + (IF Answered(c) THEN 1 ELSE 0)
     /\ pc[c] = "clear" => attempt[c] = 0
     /\ pc[c] = "backoff" => attempt[c] < MaxRetries
     /\ pc[c] = "idle" => attempt[c] = 0
     /\ c \in cleared => attempt[c] > 0
     /\ c \in Writes => attempt[c] = 0 /\ pc[c] \notin {"clear", "backoff"}

\* What the service did, what is on its way and what the caller was told.
EffectInv ==
  \A c \in Calls :
     /\ net[c] # "none" => \/ pc[c] = "wait"
                           \/ /\ pc[c] = "done" /\ result[c] = "failed"
                              /\ net[c] = "request" /\ c \in Writes
     /\ pc[c] = "wait" => sent[c] > 0
     /\ net[c] = "ok" \/ result[c] = "ok" => applied[c] > 0
     /\ c \in Writes =>
           applied[c] + (IF net[c] = "request" THEN 1 ELSE 0) <= sent[c]
     /\ pc[c] = "done" <=> result[c] # "none"

RefusalInv ==
  \A c \in Calls :
     Refusable(c) => /\ pc[c] \in {"idle", "done"}
                     /\ asked[c] = 0 /\ sent[c] = 0
                     /\ pc[c] = "done" => result[c] = "refused"

\* Tokens are numbered in the order tokenMu serialises the requests for them,
\* so whatever is cached after a call's clearToken is newer than the token
\* that call was refused with.
TokenOrderInv ==
  /\ accessToken <= issued
  /\ \A c \in Calls :
        /\ bearer[c] <= issued /\ rejected[c] <= issued
        /\ pc[c] \in {"send", "wait"} <=> bearer[c] > 0
        /\ c \in cleared => /\ accessToken = 0 \/ accessToken > rejected[c]
                            /\ bearer[c] = 0 \/ bearer[c] > rejected[c]

\* Each step keeps the conjunction, and it gives WriteAppliedOnce,
\* RefusedBeforeOAuth, AttemptsBounded, RejectedTokenNotReused,
\* TokensAccounted and the step simulation of CallContract.
IndInv ==
  /\ TypeOK
  /\ LockInv
  /\ SingleFlightInv
  /\ BudgetInv
  /\ EffectInv
  /\ RefusalInv
  /\ TokenOrderInv
  /\ TokensAccounted
=============================================================================
