---------------------------- MODULE CallContract ----------------------------
(***************************************************************************)
(* What Client.Do and Client.DoRead promise their callers, with the token, *)
(* the retries and the network left out: a call is refused before it has   *)
(* any effect, or it runs and ends as a success or as a failure.  A write  *)
(* takes effect at most once, and a success is reported only for an effect *)
(* that took place.  A failure says nothing: the effect may have happened, *)
(* or may still happen (a request can reach the service late).             *)
(***************************************************************************)
EXTENDS Naturals

CONSTANTS
  Reads,     \* calls do() may repeat: Do with GET, HEAD, OPTIONS; DoRead
  Writes,    \* calls of Do with any other method
  Unlisted,  \* DoRead calls whose POST path is not in legacyPOSTReadPaths
  ReadOnly   \* Config.ReadOnly

VARIABLES
  status,    \* status[c]: where the call is, as its caller sees it
  applied    \* applied[c]: how often the service acted on the call

contractVars == <<status, applied>>

ContractCalls == Reads \union Writes \union Unlisted

CallStatus == {"idle", "running", "refused", "ok", "failed"}

\* A call the client may not send at all.
MustRefuse(c) == c \in Unlisted \/ (ReadOnly /\ c \in Writes)

ContractInit ==
  /\ status = [c \in ContractCalls |-> "idle"]
  /\ applied = [c \in ContractCalls |-> 0]

ContractRefuse(c) ==
  /\ status[c] = "idle"
  /\ MustRefuse(c)
  /\ status' = [status EXCEPT ![c] = "refused"]
  /\ UNCHANGED applied

ContractBegin(c) ==
  /\ status[c] = "idle"
  /\ ~MustRefuse(c)
  /\ status' = [status EXCEPT ![c] = "running"]
  /\ UNCHANGED applied

\* The service acts on the call, possibly after the client gave up on it.
ContractApply(c) ==
  /\ status[c] \in {"running", "failed"}
  /\ c \in Writes => applied[c] = 0
  /\ applied' = [applied EXCEPT ![c] = @ + 1]
  /\ UNCHANGED status

ContractSucceed(c) ==
  /\ status[c] = "running"
  /\ applied[c] > 0
  /\ status' = [status EXCEPT ![c] = "ok"]
  /\ UNCHANGED applied

ContractFail(c) ==
  /\ status[c] = "running"
  /\ status' = [status EXCEPT ![c] = "failed"]
  /\ UNCHANGED applied

ContractNext ==
  \E c \in ContractCalls :
     \/ ContractRefuse(c)
     \/ ContractBegin(c)
     \/ ContractApply(c)
     \/ ContractSucceed(c)
     \/ ContractFail(c)

ContractSpec == ContractInit /\ [][ContractNext]_contractVars
=============================================================================
