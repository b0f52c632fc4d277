------------------------ MODULE MCManagedURLInventory ------------------------
(* A small instance of ManagedURLInventory for TLC: two goroutines with two  *)
(* ids that all have one body, or with one id whose body may change.         *)
EXTENDS ManagedURLInventory

CONSTANTS a1, a2, i1, i2, allow, block

VARIABLE few

TwoActors == {a1, a2}
TwoIds == {i1, i2}
TwoBodies == {allow, block}
SameUrl == [b \in TwoBodies |-> allow]

Smaller ==
  CASE few = "bodies" -> /\ \A i \in Ids : server[i] # block
                         /\ \A a \in Actors : body[a] # block
    [] few = "ids"    -> i2 \notin used

MCInit == InventoryInit /\ few \in {"bodies", "ids"} /\ Smaller
MCNext == InventoryNext /\ UNCHANGED few /\ Smaller'
MCSpec == MCInit /\ [][MCNext]_<<inventoryVars, few>> /\ InventoryFairness
==============================================================================
