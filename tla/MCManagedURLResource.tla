------------------------ MODULE MCManagedURLResource ------------------------
(* A small instance of ManagedURLResource for TLC: two ids, and two          *)
(* resources with one body between them, or one resource with three bodies,  *)
(* one of which is unreadable.                                               *)
EXTENDS ManagedURLResource, TLC

CONSTANTS r1, r2, i1, i2, allow, block, opaque

VARIABLE few

TwoResources == {r1, r2}
TwoIds == {i1, i2}
ThreeBodies == {allow, block, opaque}
OpaqueUnreadable == {opaque}
\* Every body is about the same URL, so the filter finds them all.
SameUrl == [b \in ThreeBodies |-> allow]

Smaller ==
  CASE few = "bodies" -> /\ \A i \in Ids : server[i] \in {Absent, allow}
                         /\ \A r \in Resources : body[r] \in {Absent, allow}
    [] few = "resources" ->
         \E r \in Resources : step[r] = "idle" /\ stateId[r] = NoId /\ owned[r] = {}

MCInit == Init /\ few \in {"bodies", "resources"} /\ Smaller
MCNext == Next /\ UNCHANGED few /\ Smaller'
MCSpec == MCInit /\ [][MCNext]_<<allVars, few>>

\* What the properties and the actions' guards are about: not the histories
\* that only the Inventory run's properties need.
View == <<few, callVars, fetchVars, cacheVars, server, used, resourceVars>>

ResourceSymmetry == Permutations(TwoResources) \union Permutations(TwoIds)
==============================================================================
