------------------------ MODULE StateContractProofs ------------------------
(***************************************************************************)
(* What StateContract promises in one invariant: no object of the          *)
(* configuration is ever lost without a word, unless a resource was        *)
(* misled, for any instances and names.                                    *)
(* Every module that implements the contract inherits it.                  *)
(***************************************************************************)
EXTENDS StateContract, TLAPS

ContractTypeOK ==
  /\ renewable \in BOOLEAN
  /\ given \in SUBSET Names
  /\ present \in SUBSET given
  /\ kept \in [Instances -> Names \union {None}]
  /\ pending \in [Instances -> Names \union {None}]
  /\ ours \in SUBSET present
  /\ told \in SUBSET Names
  /\ misled \in SUBSET Names

LEMMA ContractTypeStep ==
  ASSUME None \notin Names, ContractTypeOK, [Next]_contractVars
  PROVE  ContractTypeOK'
  <1> USE DEF ContractTypeOK
  <1>1. ASSUME NEW r \in Instances, Keeps(r)
        PROVE  ContractTypeOK'
    BY <1>1 DEF Keeps, Finds
  <1>2. ASSUME NEW r \in Instances, Refreshes(r)
        PROVE  ContractTypeOK'
    BY <1>2 DEF Refreshes, Finds
  <1>3. ASSUME NEW r \in Instances, Forgets(r)
        PROVE  ContractTypeOK'
    BY <1>3 DEF Forgets
  <1>4. ASSUME NEW r \in Instances, NEW k \in Names,
               Begins(r, k) \/ Makes(r, k) \/ Adopts(r, k)
        PROVE  ContractTypeOK'
    BY <1>4 DEF Begins, Makes, Adopts, Finds
  <1>5. ASSUME NEW R \in SUBSET Instances, Fails(R)
        PROVE  ContractTypeOK'
    BY <1>5 DEF Fails
  <1>6. ASSUME NEW k \in Names, Removes(k) \/ Appears(k)
        PROVE  ContractTypeOK'
    BY <1>6 DEF Removes, Appears
  <1>7. ASSUME NEW r \in Instances, Drops(r)
        PROVE  ContractTypeOK'
    BY <1>7 DEF Drops
  <1>8. CASE UNCHANGED contractVars
    BY <1>8 DEF contractVars
  <1> QED
    BY <1>1, <1>2, <1>3, <1>4, <1>5, <1>6, <1>7, <1>8 DEF Next

LEMMA NoneLostStep ==
  ASSUME None \notin Names, ContractTypeOK, NoneLost, [Next]_contractVars
  PROVE  NoneLost'
  <1> USE DEF ContractTypeOK, NoneLost
  <1>1. ASSUME NEW r \in Instances, Keeps(r)
        PROVE  NoneLost'
    BY <1>1 DEF Keeps, Finds
  <1>2. ASSUME NEW r \in Instances, Refreshes(r)
        PROVE  NoneLost'
    BY <1>2 DEF Refreshes, Finds
  <1>3. ASSUME NEW r \in Instances, Forgets(r)
        PROVE  NoneLost'
    BY <1>3 DEF Forgets
  <1>4. ASSUME NEW r \in Instances, NEW k \in Names,
               Begins(r, k) \/ Makes(r, k) \/ Adopts(r, k)
        PROVE  NoneLost'
    BY <1>4 DEF Begins, Makes, Adopts, Finds
  <1>5. ASSUME NEW R \in SUBSET Instances, Fails(R)
        PROVE  NoneLost'
    BY <1>5 DEF Fails
  <1>6. ASSUME NEW k \in Names, Removes(k) \/ Appears(k)
        PROVE  NoneLost'
    BY <1>6 DEF Removes, Appears
  <1>7. ASSUME NEW r \in Instances, Drops(r)
        PROVE  NoneLost'
    BY <1>7 DEF Drops
  <1>8. CASE UNCHANGED contractVars
    BY <1>8 DEF contractVars
  <1> QED
    BY <1>1, <1>2, <1>3, <1>4, <1>5, <1>6, <1>7, <1>8 DEF Next

\* Whatever the configuration made or imported and is still there is in a
\* state, with a method that runs, or somebody has been told of it, or was left
\* on an answer that was not about it.
THEOREM ContractLosesNothing ==
  ASSUME None \notin Names
  PROVE  Spec => []NoneLost
<1>1. Init => ContractTypeOK /\ NoneLost
  BY DEF Init, ContractTypeOK, NoneLost
<1>2. ContractTypeOK /\ NoneLost /\ [Next]_contractVars => (ContractTypeOK /\ NoneLost)'
  BY ContractTypeStep, NoneLostStep
<1> QED
  BY <1>1, <1>2, PTL DEF Spec
=============================================================================
