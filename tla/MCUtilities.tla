---------------------------- MODULE MCUtilities -----------------------------
(* Four parts that no other part waits for: the sleeps between attempts, the *)
(* life of a token, the client's configuration and the capability check.  A  *)
(* behaviour is about one of them; the others keep still.                    *)
EXTENDS RetryDelay, TokenLifetime, ClientConfig, CapabilityCheck, TLC

VARIABLE part

\* 524 s fit a Duration of the width in the cfg, 525 s wrap below zero, 1049 s
\* and 1053 s to less and more than a second, 131072 s to nothing.
SomeNumbers   == {-1, 0, 1, 30, 101, 524, 525, 131072}
SomeLifetimes == {-1, 0, 1, 4, 8, 525, 1049, 1053}

NoNumber   == [kind : {"none", "junk"}, value : {0}]
SomeAfters == NoNumber
  \union [kind : {"number"}, value : {-1, 0, 300, 301, 525, 1049}]
  \union [kind : {"date"}, value : {-4000, 1, 2097151}]
SomeResets == NoNumber
  \union [kind : {"number"}, value : {-1, 0, 1, 300001, 524288}]

Defaults == [timeout |-> 30, retries |-> 4, pageSize |-> 100]

NothingListed == [p \in Products |-> Absent]
OldTitles     == [Products -> {Absent} \union [title : {"old"}, operations : SUBSET Ops]]

\* Shifting doubles.
ASSUME ShiftedIsPower == \A n \in 0..30 : Shifted[n] = 2^n

UtilitiesInit ==
  /\ \/ part = "delay" /\ block = Nothing /\ env = Nothing /\ portal = NothingListed
     \/ part = "token" /\ block = Nothing /\ env = Nothing /\ portal = NothingListed
     \/ part = "config" /\ portal = NothingListed
     \/ part = "check" /\ block = Nothing /\ env = Nothing /\ portal \in OldTitles
  /\ RetryInit /\ TokenInit /\ ConfigInit /\ CapabilityInit

UtilitiesNext ==
  /\ \/ part = "delay" /\ RetryNext /\ UNCHANGED <<tokenVars, configVars, capVars>>
     \/ part = "token" /\ TokenNext /\ UNCHANGED <<retryVars, configVars, capVars>>
     \/ part = "config" /\ ConfigNext /\ UNCHANGED <<retryVars, tokenVars, capVars>>
     \/ part = "check" /\ CapabilityNext /\ UNCHANGED <<retryVars, tokenVars, configVars>>
  /\ UNCHANGED part

UtilitiesSpec ==
  UtilitiesInit /\ [][UtilitiesNext]_<<retryVars, tokenVars, configVars, capVars, part>>

Symmetry == Permutations(Products)
=============================================================================
