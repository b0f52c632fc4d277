---------------------------- MODULE LegacyProofs ----------------------------
(***************************************************************************)
(* Theorems about the two parts of the legacy API with a shape of their    *)
(* own, for any trees, lists and ids and however often others change them. *)
(*                                                                         *)
(* Address alteration definitions: an inventory that is read to its end    *)
(* misses no definition that stays where it is, and names the set it is in. *)
(*                                                                         *)
(* Web security URL policies: the list in the Terraform state is the list  *)
(* of the service but for comments that were kept, in the order of the     *)
(* configuration as far as entries can be told apart.                      *)
(*                                                                         *)
(* Last, a behaviour of the two parts together is one of each.             *)
(***************************************************************************)
EXTENDS MCLegacy, NaturalRecursion, FiniteSetTheorems, SequenceTheorems, TLAPS

----------------------------------------------------------------------------
(* Address alteration: the inductive invariant.                            *)

\* A method looks for a definition exactly while it reads the inventory, and
\* nothing of a walk outlives it.
Phases ==
  /\ wanted # NoDefinition <=> step \in {"routing", "root", "walk", "items"}
  /\ {stored, wanted} \subseteq used \union {NoDefinition}
  /\ step \in {"idle", "create", "delete", "routing", "root"} =>
       pending = {} /\ queued = {} /\ sets = {} /\ todo = {} /\ asked = {}
  /\ step \in {"idle", "create", "delete", "routing"} =>
       listed = [d \in Definitions |-> Gone]

\* A definition is at the root or in a set that exists.
HomesExist ==
  \A d \in live : home[d] \in Existing \union {Root}

\* Nothing else than its own set is ever named as a definition's folder.
ListedAtHome ==
  /\ \A d \in Definitions : listed[d] \in {Gone, Root, home[d]}
  /\ stored # NoDefinition /\ home[stored] = Root => folder = Root
  /\ wanted # NoDefinition /\ home[wanted] = Root => model = Root

\* Of the sets above the wanted definition, the walk has seen those at the
\* root and, of every one it has seen, those inside; or it has yet to ask.
FrontierPending ==
  step = "walk" =>
    \A f \in Above(wanted) :
      /\ parent[f] = Root => f \in sets
      /\ parent[f] \in sets => f \in sets \/ parent[f] \in pending

\* The wanted definition is listed, or the set it is in is still to be read.
HomeToBeListed ==
  /\ step \in {"root", "walk", "items"} /\ home[wanted] = Root =>
       listed[wanted] = Root
  /\ step = "items" /\ home[wanted] # Root =>
       home[wanted] \in todo \/ listed[wanted] = home[wanted]

UndisturbedInv ==
  wanted # NoDefinition /\ ~disturbed =>
    wanted \in live /\ FrontierPending /\ HomeToBeListed

FoldersInv ==
  /\ FoldersTypeOK /\ Phases /\ HomesExist /\ FolderAskedOnce
  /\ ListedAtHome /\ UndisturbedInv
  /\ MissedOnlyWhenDisturbed /\ FolderIDIsHome

----------------------------------------------------------------------------
(* The sets above a definition.                                            *)

\* The sets above a definition in h contain h and what their members are in.
LEMMA UpClosure ==
  ASSUME NEW p \in [Folders -> Folders \union {Root, Gone}],
         NEW h \in Folders \union {Root},
         NEW A, A = {f \in Folders :
                       \A F \in SUBSET Folders :
                         /\ h \in F \union {Root}
                         /\ \A g \in F : p[g] \in F \union {Root, Gone}
                         => f \in F}
  PROVE  /\ A \subseteq Folders
         /\ h \in A \union {Root}
         /\ \A f \in A : p[f] \in A \union {Root, Gone}
<1>1. A \subseteq Folders
  OBVIOUS
<1>2. h \in A \union {Root}
  OBVIOUS
<1>3. ASSUME NEW f \in A
      PROVE  p[f] \in A \union {Root, Gone}
  <2>1. p[f] \in Folders \union {Root, Gone}
    BY <1>1
  <2>2. ASSUME p[f] \in Folders, NEW F \in SUBSET Folders,
               h \in F \union {Root},
               \A g \in F : p[g] \in F \union {Root, Gone}
        PROVE  p[f] \in F
    <3>1. f \in F
      BY <2>2
    <3>2. Root \notin Folders /\ Gone \notin Folders
      BY FoldersAssumption
    <3> QED
      BY <2>2, <3>1, <3>2
  <2> QED
    BY <2>1, <2>2
<1> QED
  BY <1>1, <1>2, <1>3

LEMMA AboveUpClosed ==
  ASSUME FoldersTypeOK, NEW d \in Definitions
  PROVE  /\ Above(d) \subseteq Folders
         /\ home[d] \in Above(d) \union {Root}
         /\ IsUpClosed(Above(d))
<1>1. /\ parent \in [Folders -> Folders \union {Root, Gone}]
      /\ home[d] \in Folders \union {Root}
  BY DEF FoldersTypeOK
<1> QED
  BY <1>1, UpClosure DEF Above, IsUpClosed

\* They are the least such set of sets.
LEMMA AboveLeast ==
  ASSUME NEW d \in Definitions, NEW F \in SUBSET Folders,
         home[d] \in F \union {Root}, IsUpClosed(F)
  PROVE  Above(d) \subseteq F
BY DEF Above

\* They stay the same when each of them stays in its place.
LEMMA AboveStays ==
  ASSUME FoldersTypeOK, FoldersTypeOK', NEW d \in Definitions,
         home'[d] = home[d],
         \A f \in Above(d) : parent'[f] = parent[f]
  PROVE  Above(d)' = Above(d)
<1>1. /\ Above(d) \subseteq Folders
      /\ home[d] \in Above(d) \union {Root}
      /\ IsUpClosed(Above(d))
  BY AboveUpClosed
<1>2. /\ Above(d)' \subseteq Folders
      /\ home'[d] \in Above(d)' \union {Root}
      /\ \A f \in Above(d)' : parent'[f] \in Above(d)' \union {Root, Gone}
  <2>1. /\ parent' \in [Folders -> Folders \union {Root, Gone}]
        /\ home'[d] \in Folders \union {Root}
    BY DEF FoldersTypeOK
  <2> QED
    BY <2>1, UpClosure DEF Above, IsUpClosed
<1>3. Above(d)' \subseteq Above(d)
  <2>1. \A f \in Above(d) : parent'[f] \in Above(d) \union {Root, Gone}
    BY <1>1 DEF IsUpClosed
  <2>2. home'[d] \in Above(d) \union {Root}
    BY <1>1
  <2>3. \A F \in SUBSET Folders :
          /\ home'[d] \in F \union {Root}
          /\ \A f \in F : parent'[f] \in F \union {Root, Gone}
          => Above(d)' \subseteq F
    BY DEF Above, IsUpClosed
  <2> QED
    BY <1>1, <2>1, <2>2, <2>3
<1>4. Above(d) \subseteq Above(d)'
  <2>1. IsUpClosed(Above(d)')
    BY <1>2, <1>3 DEF IsUpClosed
  <2>2. home[d] \in Above(d)' \union {Root}
    BY <1>2
  <2> QED
    BY <1>2, <2>1, <2>2, AboveLeast
<1> QED
  BY <1>3, <1>4

\* Those above a definition that is there exist.
LEMMA AboveExists ==
  ASSUME FoldersTypeOK, HomesExist, NEW d \in live
  PROVE  Above(d) \subseteq Existing
<1>1. Existing \in SUBSET Folders
  BY DEF Existing
<1>2. d \in Definitions
  BY DEF FoldersTypeOK
<1>3. home[d] \in Existing \union {Root}
  BY DEF HomesExist
<1>4. IsUpClosed(Existing)
  <2> SUFFICES ASSUME NEW f \in Existing
               PROVE  parent[f] \in Existing \union {Root, Gone}
    BY DEF IsUpClosed
  <2>1. parent[f] \in Folders \union {Root, Gone}
    BY DEF Existing, FoldersTypeOK
  <2>2. parent[f] \in Folders => parent[parent[f]] # Gone
    BY DEF Existing, FoldersTypeOK, IsTree
  <2> QED
    BY <2>1, <2>2 DEF Existing
<1> QED
  BY <1>1, <1>2, <1>3, <1>4, AboveLeast

----------------------------------------------------------------------------
(* One lemma for each part of the invariant.                                *)

\* A set with nothing in it may go: what is left is a tree.
LEMMA LeafRemoved ==
  ASSUME FoldersTypeOK, NEW f \in Folders, Children(f) = {}
  PROVE  IsTree([parent EXCEPT ![f] = Gone])
<1> DEFINE above == [parent EXCEPT ![f] = Gone]
<1>1. /\ above \in [Folders -> Folders \union {Root, Gone}]
      /\ above[f] = Gone
      /\ \A g \in Folders \ {f} : above[g] = parent[g]
  BY DEF FoldersTypeOK
<1>2. \A g \in Folders : parent[g] # f
  BY DEF Children
<1>3. Root \notin Folders /\ Gone \notin Folders
  BY FoldersAssumption
<1> HIDE DEF above
<1>4. ASSUME NEW g \in Folders, above[g] \in Folders
      PROVE  above[above[g]] # Gone
  <2>1. above[g] = parent[g] /\ parent[g] # f
    BY <1>1, <1>2, <1>3, <1>4
  <2>2. parent[parent[g]] # Gone
    BY <1>4, <2>1 DEF FoldersTypeOK, IsTree
  <2> QED
    BY <1>1, <1>4, <2>1, <2>2
<1>5. ASSUME NEW F \in SUBSET {g \in Folders : above[g] # Gone}, F # {}
      PROVE  {g \in F : above[g] \notin F} # {}
  <2>1. f \notin F /\ F \subseteq Folders
    BY <1>1
  <2>2. \A g \in F : above[g] = parent[g]
    BY <1>1, <2>1
  <2>3. F \in SUBSET {g \in Folders : parent[g] # Gone}
    BY <1>5, <2>1, <2>2
  <2>4. PICK g \in F : parent[g] \notin F
    BY <1>5, <2>3 DEF FoldersTypeOK, IsTree
  <2> QED
    BY <2>2, <2>4
<1>6. IsTree(above)
  BY <1>4, <1>5 DEF IsTree
<1> QED
  BY <1>6 DEF above

\* What other administrators do touches the tree and the definitions only.
LEMMA ChangesKeepsTypes ==
  ASSUME FoldersTypeOK,
         NEW above \in [Folders -> Folders \union {Root, Gone}], IsTree(above),
         NEW ds \in SUBSET live, Changes(above, ds)
  PROVE  FoldersTypeOK'
<1>1. parent' \in [Folders -> Folders \union {Root, Gone}] /\ IsTree(parent')
  BY DEF Changes
<1>2. moves' \in 0..MaxMoves
  BY FoldersAssumption DEF Changes, FoldersTypeOK
<1>3. disturbed' \in BOOLEAN
  BY Zenon DEF Changes
<1>4. live' \subseteq used' /\ used' \subseteq Definitions
  BY DEF Changes, FoldersTypeOK
<1> QED
  BY <1>1, <1>2, <1>3, <1>4 DEF Changes, walkVars, FoldersTypeOK


\* Every step keeps the types.
LEMMA TypeStep ==
  ASSUME FoldersTypeOK, Phases, [FoldersNext]_altVars
  PROVE  FoldersTypeOK'
<1>1. CASE CreateDefinition
  <2>1. model' \in Folders \union {Root}
    BY <1>1 DEF CreateDefinition, Existing
  <2> QED
    BY <1>1, <2>1 DEF CreateDefinition, walkVars, treeVars, FoldersTypeOK
<1>2. CASE CreateAddressAlterationDefinition
  <2>1. PICK d \in Definitions \ used :
          /\ used' = used \union {d}
          /\ live' = live \union {d}
          /\ home' = [home EXCEPT ![d] = model]
          /\ \/ LooksFor(d, model, live \union {d})
             \/ Returns("error") /\ UNCHANGED disturbed
    BY <1>2 DEF CreateAddressAlterationDefinition
  <2>2. /\ home' \in [Definitions -> Folders \union {Root}]
        /\ live' \subseteq used' /\ used' \subseteq Definitions
    BY <2>1 DEF FoldersTypeOK
  <2>3. CASE LooksFor(d, model, live \union {d})
    BY <1>2, <2>2, <2>3 DEF CreateAddressAlterationDefinition, LooksFor,
       walkVars,
                        FoldersTypeOK
  <2>4. CASE Returns("error") /\ UNCHANGED disturbed
    BY <1>2, <2>2, <2>4 DEF CreateAddressAlterationDefinition, Returns,
                        FoldersTypeOK
  <2> QED
    BY <2>1, <2>3, <2>4
<1>3. CASE ReadDefinition
  BY <1>3
  DEF ReadDefinition, LooksFor, walkVars, treeVars, FoldersTypeOK
<1>4. ASSUME NEW d \in used, ImportDefinition(d) PROVE FoldersTypeOK'
  BY <1>4
  DEF ImportDefinition, LooksFor, walkVars, treeVars, FoldersTypeOK
<1>5. CASE DeleteDefinition
  BY <1>5
  DEF DeleteDefinition, walkVars, treeVars, FoldersTypeOK
<1>6. CASE DeleteAddressAlterationDefinition
  BY <1>6
  DEF DeleteAddressAlterationDefinition, Returns, FoldersTypeOK
<1>7. CASE AskByRouting
  <2>1. listed' \in [Definitions -> Folders \union {Root, Gone}]
    BY <1>7 DEF AskByRouting, Lists, FoldersTypeOK
  <2> QED
    BY <1>7, <2>1 DEF AskByRouting, treeVars, FoldersTypeOK
<1>8. CASE AskForRoot
  <2>1. sets' \subseteq Folders /\ queued' \subseteq sets'
        /\ pending' \subseteq queued'
    BY <1>8 DEF AskForRoot, ReadsChildren, Queued, Existing, FoldersTypeOK
  <2> QED
    BY <1>8, <2>1 DEF AskForRoot, ReadsChildren, Queued, treeVars,
       FoldersTypeOK
<1>9. CASE AskForChildren
  <2>1. PICK p \in pending : ReadsChildren(p) /\ asked' = asked \union {p}
    BY <1>9 DEF AskForChildren
  <2>2. /\ sets' \subseteq Folders /\ sets \subseteq sets'
        /\ queued' \subseteq sets' /\ queued \subseteq queued'
        /\ pending' \subseteq queued'
    BY <2>1 DEF ReadsChildren, Queued, Existing, FoldersTypeOK
  <2>3. asked' \subseteq queued'
    BY <2>1, <2>2 DEF FoldersTypeOK
  <2> QED
    BY <1>9, <2>2, <2>3 DEF AskForChildren, treeVars, FoldersTypeOK
<1>10. CASE WalkEnds
  BY <1>10
  DEF WalkEnds, treeVars, FoldersTypeOK
<1>11. CASE AskForItems
  <2>1. PICK f \in todo : /\ Lists({d \in live : home[d] = f}, FolderID(f))
                         /\ todo' = todo \ {f}
    BY <1>11 DEF AskForItems
  <2>2. f \in Folders
    BY DEF FoldersTypeOK
  <2>3. listed' \in [Definitions -> Folders \union {Root, Gone}]
    BY <2>1, <2>2 DEF Lists, FolderID, FoldersTypeOK
  <2> QED
    BY <1>11, <2>1, <2>3 DEF AskForItems, treeVars, FoldersTypeOK
<1>12. CASE InventoryRead
  <2>1. wanted \in Definitions
    BY <1>12 DEF InventoryRead, Phases, FoldersTypeOK
  <2>2. stored' \in Definitions \union {NoDefinition}
        /\ folder' \in Folders \union {Root}
    BY <1>12, <2>1 DEF InventoryRead, FoldersTypeOK
  <2> QED
    BY <1>12, <2>2 DEF InventoryRead, Returns, treeVars, FoldersTypeOK
<1>13. CASE DefinitionRequestFails
  BY <1>13
  DEF DefinitionRequestFails, Returns, FoldersTypeOK
<1>14. CASE MovesOrAddsSet
  <2>1. PICK f \in Folders, p \in Folders \union {Root} :
          /\ IsTree([parent EXCEPT ![f] = p])
          /\ Changes([parent EXCEPT ![f] = p], live)
    BY <1>14 DEF MovesOrAddsSet
  <2>2. [parent EXCEPT ![f] = p] \in [Folders -> Folders \union {Root, Gone}]
    BY DEF FoldersTypeOK
  <2> QED
    BY <2>1, <2>2, ChangesKeepsTypes
<1>15. CASE RemovesSet
  <2>1. PICK f \in Existing :
          /\ Children(f) = {}
          /\ Changes([parent EXCEPT ![f] = Gone], {d \in live : home[d] # f})
    BY <1>15 DEF RemovesSet
  <2>2. [parent EXCEPT ![f] = Gone]
          \in [Folders -> Folders \union {Root, Gone}]
    BY DEF FoldersTypeOK
  <2>3. IsTree([parent EXCEPT ![f] = Gone])
    BY <2>1, LeafRemoved DEF Existing
  <2>4. {d \in live : home[d] # f} \in SUBSET live
    OBVIOUS
  <2> QED
    BY <2>1, <2>2, <2>3, <2>4, ChangesKeepsTypes
<1>16. CASE RemovesDefinition
  <2>1. PICK d \in live : Changes(parent, live \ {d})
    BY <1>16 DEF RemovesDefinition
  <2> QED
    BY <2>1, ChangesKeepsTypes DEF FoldersTypeOK
<1>17. CASE UNCHANGED altVars
  BY <1>17
  DEF altVars, treeVars, walkVars, FoldersTypeOK
<1>18. CASE RequestNotFound
  BY <1>18
  DEF RequestNotFound, Returns, treeVars, FoldersTypeOK
<1> QED
  BY <1>1, <1>2, <1>3, <1>4, <1>5, <1>6, <1>7, <1>8, <1>9, <1>10, <1>11,
     <1>12, <1>13, <1>14, <1>15, <1>16, <1>17, <1>18 DEF FoldersNext

\* Every step keeps the phases.
LEMMA PhasesStep ==
  ASSUME FoldersTypeOK, Phases, [FoldersNext]_altVars
  PROVE  Phases'
<1>1. CASE CreateDefinition
  BY <1>1, FoldersAssumption
  DEF CreateDefinition, walkVars, treeVars, Phases, FoldersTypeOK
<1>2. CASE CreateAddressAlterationDefinition
  BY <1>2, FoldersAssumption
  DEF CreateAddressAlterationDefinition, LooksFor, Returns, walkVars,
      Phases, FoldersTypeOK
<1>3. CASE ReadDefinition
  BY <1>3, FoldersAssumption
  DEF ReadDefinition, LooksFor, walkVars, treeVars, Phases, FoldersTypeOK
<1>4. ASSUME NEW d \in used, ImportDefinition(d) PROVE Phases'
  BY <1>4, FoldersAssumption
  DEF ImportDefinition, LooksFor, walkVars, treeVars, Phases, FoldersTypeOK
<1>5. CASE DeleteDefinition
  BY <1>5, FoldersAssumption
  DEF DeleteDefinition, walkVars, treeVars, Phases, FoldersTypeOK
<1>6. CASE DeleteAddressAlterationDefinition
  BY <1>6, FoldersAssumption
  DEF DeleteAddressAlterationDefinition, Returns, Phases, FoldersTypeOK
<1>7. CASE AskByRouting
  BY <1>7, FoldersAssumption
  DEF AskByRouting, Lists, treeVars, Phases, FoldersTypeOK
<1>8. CASE AskForRoot
  BY <1>8, FoldersAssumption
  DEF AskForRoot, ReadsChildren, Queued, treeVars, Phases, FoldersTypeOK
<1>9. CASE AskForChildren
  BY <1>9, FoldersAssumption
  DEF AskForChildren, ReadsChildren, Queued, treeVars, Phases, FoldersTypeOK
<1>10. CASE WalkEnds
  BY <1>10, FoldersAssumption
  DEF WalkEnds, treeVars, Phases, FoldersTypeOK
<1>11. CASE AskForItems
  BY <1>11, FoldersAssumption
  DEF AskForItems, Lists, FolderID, treeVars, Phases, FoldersTypeOK
<1>12. CASE InventoryRead
  BY <1>12, FoldersAssumption
  DEF InventoryRead, Returns, treeVars, Phases, FoldersTypeOK
<1>13. CASE DefinitionRequestFails
  BY <1>13, FoldersAssumption
  DEF DefinitionRequestFails, Returns, Phases, FoldersTypeOK
<1>14. CASE MovesOrAddsSet
  BY <1>14, FoldersAssumption
  DEF MovesOrAddsSet, Changes, walkVars, Phases, FoldersTypeOK
<1>15. CASE RemovesSet
  BY <1>15, FoldersAssumption
  DEF RemovesSet, Changes, walkVars, Phases, FoldersTypeOK
<1>16. CASE RemovesDefinition
  BY <1>16, FoldersAssumption
  DEF RemovesDefinition, Changes, walkVars, Phases, FoldersTypeOK
<1>17. CASE UNCHANGED altVars
  BY <1>17, FoldersAssumption
  DEF altVars, treeVars, walkVars, Phases, FoldersTypeOK
<1>18. CASE RequestNotFound
  BY <1>18, FoldersAssumption
  DEF RequestNotFound, Returns, treeVars, Phases, FoldersTypeOK
<1> QED
  BY <1>1, <1>2, <1>3, <1>4, <1>5, <1>6, <1>7, <1>8, <1>9, <1>10, <1>11,
     <1>12, <1>13, <1>14, <1>15, <1>16, <1>17, <1>18 DEF FoldersNext

\* No set goes while a definition is in it.
LEMMA HomesExistStep ==
  ASSUME FoldersTypeOK, HomesExist, [FoldersNext]_altVars
  PROVE  HomesExist'
<1>1. CASE CreateDefinition
  BY <1>1, FoldersAssumption
  DEF CreateDefinition, walkVars, treeVars, HomesExist, Existing,
      FoldersTypeOK
<1>2. CASE CreateAddressAlterationDefinition
  BY <1>2, FoldersAssumption
  DEF CreateAddressAlterationDefinition, LooksFor, Returns, walkVars,
      HomesExist, Existing, FoldersTypeOK
<1>3. CASE ReadDefinition
  BY <1>3, FoldersAssumption
  DEF ReadDefinition, LooksFor, walkVars, treeVars, HomesExist, Existing,
      FoldersTypeOK
<1>4. ASSUME NEW d \in used, ImportDefinition(d) PROVE HomesExist'
  BY <1>4, FoldersAssumption
  DEF ImportDefinition, LooksFor, walkVars, treeVars, HomesExist, Existing,
      FoldersTypeOK
<1>5. CASE DeleteDefinition
  BY <1>5, FoldersAssumption
  DEF DeleteDefinition, walkVars, treeVars, HomesExist, Existing,
      FoldersTypeOK
<1>6. CASE DeleteAddressAlterationDefinition
  BY <1>6, FoldersAssumption
  DEF DeleteAddressAlterationDefinition, Returns, HomesExist, Existing,
      FoldersTypeOK
<1>7. CASE AskByRouting
  BY <1>7, FoldersAssumption
  DEF AskByRouting, Lists, treeVars, HomesExist, Existing, FoldersTypeOK
<1>8. CASE AskForRoot
  BY <1>8, FoldersAssumption
  DEF AskForRoot, ReadsChildren, Queued, treeVars, HomesExist, Existing,
      FoldersTypeOK
<1>9. CASE AskForChildren
  BY <1>9, FoldersAssumption
  DEF AskForChildren, ReadsChildren, Queued, treeVars, HomesExist, Existing,
      FoldersTypeOK
<1>10. CASE WalkEnds
  BY <1>10, FoldersAssumption
  DEF WalkEnds, treeVars, HomesExist, Existing, FoldersTypeOK
<1>11. CASE AskForItems
  BY <1>11, FoldersAssumption
  DEF AskForItems, Lists, FolderID, treeVars, HomesExist, Existing,
      FoldersTypeOK
<1>12. CASE InventoryRead
  BY <1>12, FoldersAssumption
  DEF InventoryRead, Returns, treeVars, HomesExist, Existing, FoldersTypeOK
<1>13. CASE DefinitionRequestFails
  BY <1>13, FoldersAssumption
  DEF DefinitionRequestFails, Returns, HomesExist, Existing, FoldersTypeOK
<1>14. CASE MovesOrAddsSet
  BY <1>14, FoldersAssumption
  DEF MovesOrAddsSet, Changes, walkVars, HomesExist, Existing, FoldersTypeOK
<1>15. CASE RemovesSet
  BY <1>15, FoldersAssumption
  DEF RemovesSet, Changes, walkVars, HomesExist, Existing, FoldersTypeOK
<1>16. CASE RemovesDefinition
  BY <1>16, FoldersAssumption
  DEF RemovesDefinition, Changes, walkVars, HomesExist, Existing,
      FoldersTypeOK
<1>17. CASE UNCHANGED altVars
  BY <1>17, FoldersAssumption
  DEF altVars, treeVars, walkVars, HomesExist, Existing, FoldersTypeOK
<1>18. CASE RequestNotFound
  BY <1>18, FoldersAssumption
  DEF RequestNotFound, Returns, treeVars, HomesExist, Existing, FoldersTypeOK
<1> QED
  BY <1>1, <1>2, <1>3, <1>4, <1>5, <1>6, <1>7, <1>8, <1>9, <1>10, <1>11,
     <1>12, <1>13, <1>14, <1>15, <1>16, <1>17, <1>18 DEF FoldersNext

\* A set that is asked for leaves the queue for good.
LEMMA AskedOnceStep ==
  ASSUME FoldersTypeOK, FolderAskedOnce, [FoldersNext]_altVars
  PROVE  FolderAskedOnce'
<1>1. CASE CreateDefinition
  BY <1>1
  DEF CreateDefinition, walkVars, treeVars, FolderAskedOnce, FoldersTypeOK
<1>2. CASE CreateAddressAlterationDefinition
  BY <1>2
  DEF CreateAddressAlterationDefinition, LooksFor, Returns, walkVars,
      FolderAskedOnce, FoldersTypeOK
<1>3. CASE ReadDefinition
  BY <1>3
  DEF ReadDefinition, LooksFor, walkVars, treeVars, FolderAskedOnce,
      FoldersTypeOK
<1>4. ASSUME NEW d \in used, ImportDefinition(d) PROVE FolderAskedOnce'
  BY <1>4
  DEF ImportDefinition, LooksFor, walkVars, treeVars, FolderAskedOnce,
      FoldersTypeOK
<1>5. CASE DeleteDefinition
  BY <1>5
  DEF DeleteDefinition, walkVars, treeVars, FolderAskedOnce, FoldersTypeOK
<1>6. CASE DeleteAddressAlterationDefinition
  BY <1>6
  DEF DeleteAddressAlterationDefinition, Returns, FolderAskedOnce,
      FoldersTypeOK
<1>7. CASE AskByRouting
  BY <1>7
  DEF AskByRouting, Lists, treeVars, FolderAskedOnce, FoldersTypeOK
<1>8. CASE AskForRoot
  BY <1>8
  DEF AskForRoot, ReadsChildren, Queued, treeVars, FolderAskedOnce,
      FoldersTypeOK, NotQueued
<1>9. CASE AskForChildren
  BY <1>9
  DEF AskForChildren, ReadsChildren, Queued, treeVars, FolderAskedOnce,
      FoldersTypeOK, NotQueued
<1>10. CASE WalkEnds
  BY <1>10
  DEF WalkEnds, treeVars, FolderAskedOnce, FoldersTypeOK
<1>11. CASE AskForItems
  BY <1>11
  DEF AskForItems, Lists, FolderID, treeVars, FolderAskedOnce, FoldersTypeOK
<1>12. CASE InventoryRead
  BY <1>12
  DEF InventoryRead, Returns, treeVars, FolderAskedOnce, FoldersTypeOK
<1>13. CASE DefinitionRequestFails
  BY <1>13
  DEF DefinitionRequestFails, Returns, FolderAskedOnce, FoldersTypeOK
<1>14. CASE MovesOrAddsSet
  BY <1>14
  DEF MovesOrAddsSet, Changes, walkVars, FolderAskedOnce, FoldersTypeOK
<1>15. CASE RemovesSet
  BY <1>15
  DEF RemovesSet, Changes, walkVars, FolderAskedOnce, FoldersTypeOK
<1>16. CASE RemovesDefinition
  BY <1>16
  DEF RemovesDefinition, Changes, walkVars, FolderAskedOnce, FoldersTypeOK
<1>17. CASE UNCHANGED altVars
  BY <1>17
  DEF altVars, treeVars, walkVars, FolderAskedOnce, FoldersTypeOK
<1>18. CASE RequestNotFound
  BY <1>18
  DEF RequestNotFound, Returns, treeVars, FolderAskedOnce, FoldersTypeOK
<1> QED
  BY <1>1, <1>2, <1>3, <1>4, <1>5, <1>6, <1>7, <1>8, <1>9, <1>10, <1>11,
     <1>12, <1>13, <1>14, <1>15, <1>16, <1>17, <1>18 DEF FoldersNext

\* Every step names nothing but its own set as a definition's folder.
LEMMA ListedStep ==
  ASSUME FoldersTypeOK, Phases, ListedAtHome, [FoldersNext]_altVars
  PROVE  ListedAtHome'
<1>1. CASE CreateDefinition
  BY <1>1, FoldersAssumption
  DEF CreateDefinition, walkVars, treeVars, ListedAtHome, Phases,
      FoldersTypeOK
<1>2. CASE CreateAddressAlterationDefinition
  BY <1>2, FoldersAssumption
  DEF CreateAddressAlterationDefinition, LooksFor, Returns, walkVars,
      ListedAtHome, Phases, FoldersTypeOK
<1>3. CASE ReadDefinition
  BY <1>3, FoldersAssumption
  DEF ReadDefinition, LooksFor, walkVars, treeVars, ListedAtHome, Phases,
      FoldersTypeOK
<1>4. ASSUME NEW d \in used, ImportDefinition(d) PROVE ListedAtHome'
  BY <1>4, FoldersAssumption
  DEF ImportDefinition, LooksFor, walkVars, treeVars, ListedAtHome, Phases,
      FoldersTypeOK
<1>5. CASE DeleteDefinition
  BY <1>5, FoldersAssumption
  DEF DeleteDefinition, walkVars, treeVars, ListedAtHome, Phases,
      FoldersTypeOK
<1>6. CASE DeleteAddressAlterationDefinition
  BY <1>6, FoldersAssumption
  DEF DeleteAddressAlterationDefinition, Returns, ListedAtHome, Phases,
      FoldersTypeOK
<1>7. CASE AskByRouting
  BY <1>7, FoldersAssumption
  DEF AskByRouting, Lists, treeVars, ListedAtHome, Phases, FoldersTypeOK
<1>8. CASE AskForRoot
  BY <1>8, FoldersAssumption
  DEF AskForRoot, ReadsChildren, Queued, treeVars, ListedAtHome, Phases,
      FoldersTypeOK
<1>9. CASE AskForChildren
  BY <1>9, FoldersAssumption
  DEF AskForChildren, ReadsChildren, Queued, treeVars, ListedAtHome, Phases,
      FoldersTypeOK
<1>10. CASE WalkEnds
  BY <1>10, FoldersAssumption
  DEF WalkEnds, treeVars, ListedAtHome, Phases, FoldersTypeOK
<1>11. CASE AskForItems
  BY <1>11, FoldersAssumption
  DEF AskForItems, Lists, FolderID, treeVars, ListedAtHome, Phases,
      FoldersTypeOK
<1>12. CASE InventoryRead
  BY <1>12, FoldersAssumption
  DEF InventoryRead, Returns, treeVars, ListedAtHome, Phases, FoldersTypeOK
<1>13. CASE DefinitionRequestFails
  BY <1>13, FoldersAssumption
  DEF DefinitionRequestFails, Returns, ListedAtHome, Phases, FoldersTypeOK
<1>14. CASE MovesOrAddsSet
  BY <1>14, FoldersAssumption
  DEF MovesOrAddsSet, Changes, walkVars, ListedAtHome, Phases, FoldersTypeOK
<1>15. CASE RemovesSet
  BY <1>15, FoldersAssumption
  DEF RemovesSet, Changes, walkVars, ListedAtHome, Phases, FoldersTypeOK
<1>16. CASE RemovesDefinition
  BY <1>16, FoldersAssumption
  DEF RemovesDefinition, Changes, walkVars, ListedAtHome, Phases,
      FoldersTypeOK
<1>17. CASE UNCHANGED altVars
  BY <1>17, FoldersAssumption
  DEF altVars, treeVars, walkVars, ListedAtHome, Phases, FoldersTypeOK
<1>18. CASE RequestNotFound
  BY <1>18, FoldersAssumption
  DEF RequestNotFound, Returns, treeVars, ListedAtHome, Phases, FoldersTypeOK
<1> QED
  BY <1>1, <1>2, <1>3, <1>4, <1>5, <1>6, <1>7, <1>8, <1>9, <1>10, <1>11,
     <1>12, <1>13, <1>14, <1>15, <1>16, <1>17, <1>18 DEF FoldersNext

\* An answer about p: nothing is missed among what is inside the sets seen.
LEMMA ReadsFrontier ==
  ASSUME FoldersTypeOK,
         NEW p \in Folders \union {Root}, ReadsChildren(p),
         NEW f \in Existing,
         parent[f] \in Folders /\ parent[f] \in sets =>
           f \in sets \/ parent[f] \in pending
  PROVE  /\ parent[f] = p => f \in sets'
         /\ f \in sets => f \in sets'
         /\ parent[f] \in sets' => f \in sets' \/ parent[f] \in pending'
<1>1. PICK A \in SUBSET Existing :
        /\ IsAnswer(A, p)
        /\ sets' = sets \union A
        /\ queued' = queued
                       \union {g \in A : HasMore(g, A) /\ NotQueued(g)}
        /\ pending' = (pending \ {p})
                        \union {g \in A : HasMore(g, A) /\ NotQueued(g)}
  BY DEF ReadsChildren, Queued
<1>2. f \in Folders /\ A \subseteq Folders /\ sets \subseteq Folders
  BY DEF Existing, FoldersTypeOK
<1>3. parent[f] = p => f \in A
  BY <1>1, <1>2 DEF IsAnswer, Children
<1>4. ASSUME NEW g \in A, parent[f] = g, g \notin sets
      PROVE  f \in A \/ g \in pending'
  <2>1. NotQueued(g)
    BY <1>4 DEF NotQueued, FoldersTypeOK
  <2>2. CASE HasMore(g, A)
    BY <1>1, <2>1, <2>2
  <2>3. CASE ~HasMore(g, A)
    <3>1. IsFiniteSet(Children(g))
      BY FoldersAssumption, FS_Subset DEF Children
    <3>2. /\ IsFiniteSet(Children(g) \intersect A)
          /\ Cardinality(Children(g) \intersect A) <= Cardinality(Children(g))
          /\ Cardinality(Children(g)) = Cardinality(Children(g) \intersect A)
               => Children(g) = Children(g) \intersect A
      BY <3>1, FS_Subset
    <3>3. /\ Cardinality(Children(g)) \in Nat
          /\ Cardinality(Children(g) \intersect A) \in Nat
      BY <3>1, <3>2, FS_CardinalityType
    <3>4. Children(g) = Children(g) \intersect A
      BY <2>3, <3>2, <3>3 DEF HasMore
    <3> QED
      BY <1>2, <1>4, <3>4 DEF Children
  <2> QED
    BY <2>2, <2>3
<1> QED
  <2>1. /\ parent[f] = p => f \in sets'
        /\ f \in sets => f \in sets'
    BY <1>1, <1>3
  <2>2. ASSUME parent[f] \in sets'
        PROVE  f \in sets' \/ parent[f] \in pending'
    <3>1. CASE parent[f] \in sets
      BY <1>1, <1>2, <1>3, <3>1
    <3>2. CASE parent[f] \notin sets
      BY <1>1, <1>4, <2>2, <3>2
    <3> QED
      BY <3>1, <3>2
  <2> QED
    BY <2>1, <2>2

\* The tree may change while a definition is looked for; when it does not
\* change above that definition, the walk has still missed nothing.
LEMMA ChangesKeepsUndisturbed ==
  ASSUME FoldersTypeOK, FoldersTypeOK', Phases, UndisturbedInv,
         NEW above, NEW ds, Changes(above, ds)
  PROVE  UndisturbedInv'
<1> SUFFICES ASSUME wanted' # NoDefinition, ~disturbed'
             PROVE  (wanted \in live /\ FrontierPending /\ HomeToBeListed)'
  BY DEF UndisturbedInv
<1>1. /\ wanted' = wanted /\ wanted # NoDefinition
      /\ step' = step /\ home' = home /\ listed' = listed
      /\ sets' = sets /\ pending' = pending /\ todo' = todo
  BY DEF Changes, walkVars
<1>2. /\ ~disturbed
      /\ wanted \in live'
      /\ \A f \in Above(wanted) : parent'[f] = parent[f]
  <2>1. /\ parent' = above /\ live' = ds
        /\ disturbed' =
             (\/ disturbed
              \/ wanted # NoDefinition /\
                   \/ wanted \notin ds
                   \/ \E f \in Above(wanted) : above[f] # parent[f])
    BY DEF Changes
  <2> QED
    BY <1>1, <2>1, Zenon
<1>3. wanted \in live /\ FrontierPending /\ HomeToBeListed
  BY <1>1, <1>2 DEF UndisturbedInv
<1>4. Above(wanted)' = Above(wanted)
  <2>1. PICK d \in Definitions : wanted = d
    BY <1>1 DEF FoldersTypeOK
  <2>2. Above(wanted) = Above(d)
    BY <2>1
  <2>3. Above(wanted)' = Above(d)'
    BY <1>1, <2>1 DEF Above
  <2>4. Above(d)' = Above(d)
    BY <1>1, <1>2, <2>2, AboveStays
  <2> QED
    BY <2>2, <2>3, <2>4
<1>5. FrontierPending'
  BY <1>1, <1>2, <1>3, <1>4 DEF FrontierPending
<1>6. HomeToBeListed'
  BY <1>1, <1>3 DEF HomeToBeListed
<1> QED
  BY <1>1, <1>2, <1>5, <1>6


\* No step misses what stays in its place.
LEMMA UndisturbedStep ==
  ASSUME FoldersTypeOK, FoldersTypeOK', Phases, HomesExist, ListedAtHome,
         UndisturbedInv, [FoldersNext]_altVars
  PROVE  UndisturbedInv'
<1>1. CASE CreateDefinition
  <2>1. wanted' = NoDefinition
    BY <1>1 DEF CreateDefinition, Phases
  <2> QED
    BY <2>1 DEF UndisturbedInv
<1>2. CASE CreateAddressAlterationDefinition
  <2>1. PICK d \in Definitions \ used :
          /\ live' = live \union {d}
          /\ \/ LooksFor(d, model, live \union {d})
             \/ Returns("error") /\ UNCHANGED disturbed
    BY <1>2 DEF CreateAddressAlterationDefinition
  <2>2. CASE LooksFor(d, model, live \union {d})
    BY <2>1, <2>2 DEF LooksFor, UndisturbedInv, FrontierPending,
       HomeToBeListed
  <2>3. CASE Returns("error") /\ UNCHANGED disturbed
    BY <2>3 DEF Returns, UndisturbedInv
  <2> QED
    BY <2>1, <2>2, <2>3
<1>3. CASE ReadDefinition
  <2>1. PICK e \in Definitions : LooksFor(e, folder, live) /\ live' = live
    BY <1>3 DEF ReadDefinition, treeVars, FoldersTypeOK
  <2>2. ~disturbed' => wanted' \in live'
    BY <2>1, Zenon DEF LooksFor
  <2>3. step' = "routing"
    BY <2>1 DEF LooksFor
  <2> QED
    BY <2>2, <2>3 DEF UndisturbedInv, FrontierPending, HomeToBeListed
<1>4. ASSUME NEW d \in used, ImportDefinition(d) PROVE UndisturbedInv'
  <2>1. PICK e \in Definitions : LooksFor(e, Root, live) /\ live' = live
    BY <1>4 DEF ImportDefinition, treeVars, FoldersTypeOK
  <2>2. ~disturbed' => wanted' \in live'
    BY <2>1, Zenon DEF LooksFor
  <2>3. step' = "routing"
    BY <2>1 DEF LooksFor
  <2> QED
    BY <2>2, <2>3 DEF UndisturbedInv, FrontierPending, HomeToBeListed
<1>5. CASE DeleteDefinition
  <2>1. wanted' = NoDefinition
    BY <1>5 DEF DeleteDefinition, Phases
  <2> QED
    BY <2>1 DEF UndisturbedInv
<1>6. CASE DeleteAddressAlterationDefinition
  <2>1. wanted' = NoDefinition
    BY <1>6 DEF DeleteAddressAlterationDefinition, Returns
  <2> QED
    BY <2>1 DEF UndisturbedInv
<1>7. CASE AskByRouting
  <2> SUFFICES ASSUME wanted' # NoDefinition, ~disturbed'
               PROVE  (wanted \in live /\ FrontierPending /\ HomeToBeListed)'
    BY DEF UndisturbedInv
  <2>1. /\ wanted' = wanted /\ disturbed' = disturbed
        /\ live' = live /\ home' = home /\ parent' = parent
    BY <1>7 DEF AskByRouting, treeVars
  <2>2. /\ wanted \in live /\ wanted \in Definitions
        /\ FrontierPending /\ HomeToBeListed
    BY <2>1 DEF UndisturbedInv, FoldersTypeOK
  <2>3. Root \notin Folders /\ Gone \notin Folders /\ Root # Gone
    BY FoldersAssumption
  <2>4. home[wanted] \in Folders \union {Root}
    BY <2>2 DEF FoldersTypeOK
  <2>5. FrontierPending'
    BY <1>7 DEF AskByRouting, FrontierPending
  <2>6. HomeToBeListed'
    <3>1. listed[wanted] = Gone
      BY <1>7, <2>2 DEF AskByRouting, Phases
    <3>2. home[wanted] = Root => listed'[wanted] = Root
      BY <1>7, <2>2, <3>1 DEF AskByRouting, Lists
    <3>3. step' = "root"
      BY <1>7 DEF AskByRouting
    <3> QED
      BY <2>1, <3>2, <3>3 DEF HomeToBeListed
  <2> QED
    BY <2>1, <2>2, <2>5, <2>6
<1>8. CASE AskForRoot
  <2> SUFFICES ASSUME wanted' # NoDefinition, ~disturbed'
               PROVE  (wanted \in live /\ FrontierPending /\ HomeToBeListed)'
    BY DEF UndisturbedInv
  <2>1. /\ wanted' = wanted /\ disturbed' = disturbed
        /\ live' = live /\ home' = home /\ parent' = parent
    BY <1>8 DEF AskForRoot, treeVars
  <2>2. /\ wanted \in live /\ wanted \in Definitions
        /\ FrontierPending /\ HomeToBeListed
    BY <2>1 DEF UndisturbedInv, FoldersTypeOK
  <2>3. Root \notin Folders /\ Gone \notin Folders /\ Root # Gone
    BY FoldersAssumption
  <2>4. home[wanted] \in Folders \union {Root}
    BY <2>2 DEF FoldersTypeOK
  <2>7. Above(wanted)' = Above(wanted)
    BY <2>1 DEF Above, IsUpClosed
  <2>8. Above(wanted) \subseteq Existing
    BY <2>2, AboveExists
  <2>5. FrontierPending'
    <3>1. ReadsChildren(Root) /\ sets = {}
      BY <1>8 DEF AskForRoot, Phases
    <3>2. ASSUME NEW f \in Above(wanted)
          PROVE  /\ parent[f] = Root => f \in sets'
                 /\ parent[f] \in sets' => f \in sets' \/ parent[f] \in pending'
      BY <2>8, <3>1, ReadsFrontier
    <3> QED
      BY <2>1, <2>7, <3>2 DEF FrontierPending
  <2>6. HomeToBeListed'
    BY <1>8, <2>1, <2>2 DEF AskForRoot, HomeToBeListed
  <2> QED
    BY <2>1, <2>2, <2>5, <2>6
<1>9. CASE AskForChildren
  <2> SUFFICES ASSUME wanted' # NoDefinition, ~disturbed'
               PROVE  (wanted \in live /\ FrontierPending /\ HomeToBeListed)'
    BY DEF UndisturbedInv
  <2>1. /\ wanted' = wanted /\ disturbed' = disturbed
        /\ live' = live /\ home' = home /\ parent' = parent
    BY <1>9 DEF AskForChildren, treeVars
  <2>2. /\ wanted \in live /\ wanted \in Definitions
        /\ FrontierPending /\ HomeToBeListed
    BY <2>1 DEF UndisturbedInv, FoldersTypeOK
  <2>3. Root \notin Folders /\ Gone \notin Folders /\ Root # Gone
    BY FoldersAssumption
  <2>4. home[wanted] \in Folders \union {Root}
    BY <2>2 DEF FoldersTypeOK
  <2>7. Above(wanted)' = Above(wanted)
    BY <2>1 DEF Above, IsUpClosed
  <2>8. Above(wanted) \subseteq Existing
    BY <2>2, AboveExists
  <2>5. FrontierPending'
    <3>1. PICK p \in pending : ReadsChildren(p)
      BY <1>9 DEF AskForChildren
    <3>2. p \in Folders
      BY DEF FoldersTypeOK
    <3>3. ASSUME NEW f \in Above(wanted)
          PROVE  /\ parent[f] = Root => f \in sets'
                 /\ parent[f] \in sets' => f \in sets' \/ parent[f] \in pending'
      <4>1. /\ parent[f] = Root => f \in sets
            /\ parent[f] \in sets => f \in sets \/ parent[f] \in pending
        BY <1>9, <2>2, <3>3 DEF AskForChildren, FrontierPending
      <4> QED
        BY <2>8, <3>1, <3>2, <4>1, ReadsFrontier
    <3> QED
      BY <2>1, <2>7, <3>3 DEF FrontierPending
  <2>6. HomeToBeListed'
    BY <1>9, <2>1, <2>2 DEF AskForChildren, HomeToBeListed
  <2> QED
    BY <2>1, <2>2, <2>5, <2>6
<1>10. CASE WalkEnds
  <2> SUFFICES ASSUME wanted' # NoDefinition, ~disturbed'
               PROVE  (wanted \in live /\ FrontierPending /\ HomeToBeListed)'
    BY DEF UndisturbedInv
  <2>1. /\ wanted' = wanted /\ disturbed' = disturbed
        /\ live' = live /\ home' = home /\ parent' = parent
    BY <1>10 DEF WalkEnds, treeVars
  <2>2. /\ wanted \in live /\ wanted \in Definitions
        /\ FrontierPending /\ HomeToBeListed
    BY <2>1 DEF UndisturbedInv, FoldersTypeOK
  <2>3. Root \notin Folders /\ Gone \notin Folders /\ Root # Gone
    BY FoldersAssumption
  <2>4. home[wanted] \in Folders \union {Root}
    BY <2>2 DEF FoldersTypeOK
  <2>7. Above(wanted)' = Above(wanted)
    BY <2>1 DEF Above, IsUpClosed
  <2>8. Above(wanted) \subseteq Existing
    BY <2>2, AboveExists
  <2>9. /\ IsUpClosed(Above(wanted))
        /\ home[wanted] \in Above(wanted) \union {Root}
    BY <2>2, AboveUpClosed
  <2>10. Above(wanted) \subseteq sets
    <3> DEFINE F == Above(wanted) \ sets
    <3>1. F \in SUBSET {f \in Folders : parent[f] # Gone}
      BY <2>8 DEF Existing
    <3>2. ASSUME NEW f \in F, parent[f] \notin F
          PROVE  FALSE
      <4>1. parent[f] \in Above(wanted) \union {Root}
        BY <2>8, <2>9 DEF Existing, IsUpClosed
      <4>2. f \notin sets /\ pending = {}
        BY <1>10 DEF WalkEnds
      <4>3. /\ parent[f] = Root => f \in sets
            /\ parent[f] \in sets => f \in sets \/ parent[f] \in pending
        BY <1>10, <2>2 DEF WalkEnds, FrontierPending
      <4> QED
        BY <3>2, <4>1, <4>2, <4>3
    <3>3. F # {} => {f \in F : parent[f] \notin F} # {}
      BY <3>1 DEF FoldersTypeOK, IsTree
    <3> QED
      BY <3>2, <3>3
  <2>5. FrontierPending'
    BY <1>10 DEF WalkEnds, FrontierPending
  <2>6. HomeToBeListed'
    BY <1>10, <2>1, <2>2, <2>9, <2>10 DEF WalkEnds, HomeToBeListed
  <2> QED
    BY <2>1, <2>2, <2>5, <2>6
<1>11. CASE AskForItems
  <2> SUFFICES ASSUME wanted' # NoDefinition, ~disturbed'
               PROVE  (wanted \in live /\ FrontierPending /\ HomeToBeListed)'
    BY DEF UndisturbedInv
  <2>1. /\ wanted' = wanted /\ disturbed' = disturbed
        /\ live' = live /\ home' = home /\ parent' = parent
    BY <1>11 DEF AskForItems, treeVars
  <2>2. /\ wanted \in live /\ wanted \in Definitions
        /\ FrontierPending /\ HomeToBeListed
    BY <2>1 DEF UndisturbedInv, FoldersTypeOK
  <2>3. Root \notin Folders /\ Gone \notin Folders /\ Root # Gone
    BY FoldersAssumption
  <2>4. home[wanted] \in Folders \union {Root}
    BY <2>2 DEF FoldersTypeOK
  <2>5. FrontierPending'
    BY <1>11 DEF AskForItems, FrontierPending
  <2>6. HomeToBeListed'
    <3>1. PICK f \in todo :
            /\ Lists({d \in live : home[d] = f}, f)
            /\ todo' = todo \ {f}
      BY <1>11 DEF AskForItems, FolderID
    <3>2. f \in Folders
      BY DEF FoldersTypeOK
    <3>3. listed'[wanted] = IF home[wanted] = f THEN f ELSE listed[wanted]
      BY <2>2, <2>3, <3>1, <3>2 DEF Lists
    <3>4. step = "items" /\ step' = "items"
      BY <1>11 DEF AskForItems
    <3> QED
      BY <2>1, <2>2, <2>3, <2>4, <3>1, <3>2, <3>3, <3>4 DEF HomeToBeListed
  <2> QED
    BY <2>1, <2>2, <2>5, <2>6
<1>12. CASE InventoryRead
  <2>1. wanted' = NoDefinition
    BY <1>12 DEF InventoryRead, Returns
  <2> QED
    BY <2>1 DEF UndisturbedInv
<1>13. CASE DefinitionRequestFails
  <2>1. wanted' = NoDefinition
    BY <1>13 DEF DefinitionRequestFails, Returns
  <2> QED
    BY <2>1 DEF UndisturbedInv
<1>14. CASE MovesOrAddsSet
  BY <1>14, ChangesKeepsUndisturbed
  DEF MovesOrAddsSet
<1>15. CASE RemovesSet
  BY <1>15, ChangesKeepsUndisturbed
  DEF RemovesSet
<1>16. CASE RemovesDefinition
  BY <1>16, ChangesKeepsUndisturbed
  DEF RemovesDefinition
<1>17. CASE UNCHANGED altVars
  <2>1. Above(wanted)' = Above(wanted)
    BY <1>17 DEF Above, IsUpClosed, altVars, treeVars
  <2> QED
    BY <1>17, <2>1 DEF altVars, treeVars, walkVars, UndisturbedInv,
       FrontierPending,
                    HomeToBeListed
<1>18. CASE RequestNotFound
  <2>1. wanted' = NoDefinition
    BY <1>18 DEF RequestNotFound, Returns
  <2> QED
    BY <2>1 DEF UndisturbedInv
<1> QED
  BY <1>1, <1>2, <1>3, <1>4, <1>5, <1>6, <1>7, <1>8, <1>9, <1>10, <1>11,
     <1>12, <1>13, <1>14, <1>15, <1>16, <1>17, <1>18 DEF FoldersNext

\* A search that finds nothing was disturbed.
LEMMA NothingMissed ==
  ASSUME FoldersTypeOK, Phases, ListedAtHome, UndisturbedInv,
         InventoryRead, ~disturbed
  PROVE  /\ listed[wanted] # Gone
         /\ (IF listed[wanted] = Root THEN model ELSE listed[wanted])
              = home[wanted]
<1>1. step = "items" /\ todo = {}
  BY DEF InventoryRead
<1>2. wanted \in Definitions /\ HomeToBeListed /\ wanted # NoDefinition
  BY <1>1 DEF Phases, UndisturbedInv, FoldersTypeOK
<1>3. home[wanted] \in Folders \union {Root} /\ Root \notin Folders
      /\ Gone \notin Folders /\ Root # Gone
  BY <1>2, FoldersAssumption DEF FoldersTypeOK
<1>4. CASE home[wanted] = Root
  BY <1>1, <1>2, <1>3, <1>4 DEF HomeToBeListed, ListedAtHome
<1>5. CASE home[wanted] # Root
  BY <1>1, <1>2, <1>3, <1>5 DEF HomeToBeListed
<1> QED
  BY <1>4, <1>5


\* So a definition counts as not found only after a disturbance.
LEMMA MissedStep ==
  ASSUME FoldersTypeOK, Phases, ListedAtHome, UndisturbedInv,
         MissedOnlyWhenDisturbed, [FoldersNext]_altVars
  PROVE  MissedOnlyWhenDisturbed'
<1>1. CASE CreateDefinition
  <2>1. outcome' = "running"
    BY <1>1 DEF CreateDefinition
  <2> QED
    BY <2>1 DEF MissedOnlyWhenDisturbed
<1>2. CASE CreateAddressAlterationDefinition
  <2>1. outcome' \in {"running", "error"}
    BY <1>2 DEF CreateAddressAlterationDefinition, LooksFor, Returns
  <2> QED
    BY <2>1 DEF MissedOnlyWhenDisturbed
<1>3. CASE ReadDefinition
  <2>1. outcome' = "running"
    BY <1>3 DEF ReadDefinition, LooksFor
  <2> QED
    BY <2>1 DEF MissedOnlyWhenDisturbed
<1>4. ASSUME NEW d \in used, ImportDefinition(d) PROVE MissedOnlyWhenDisturbed'
  <2>1. outcome' = "running"
    BY <1>4 DEF ImportDefinition, LooksFor
  <2> QED
    BY <2>1 DEF MissedOnlyWhenDisturbed
<1>5. CASE DeleteDefinition
  <2>1. outcome' = "running"
    BY <1>5 DEF DeleteDefinition
  <2> QED
    BY <2>1 DEF MissedOnlyWhenDisturbed
<1>6. CASE DeleteAddressAlterationDefinition
  <2>1. outcome' \in {"error", "done"}
    BY <1>6 DEF DeleteAddressAlterationDefinition, Returns
  <2> QED
    BY <2>1 DEF MissedOnlyWhenDisturbed
<1>7. CASE AskByRouting
  <2>1. outcome' = outcome /\ disturbed' = disturbed
    BY <1>7 DEF AskByRouting
  <2> QED
    BY <2>1 DEF MissedOnlyWhenDisturbed
<1>8. CASE AskForRoot
  <2>1. outcome' = outcome /\ disturbed' = disturbed
    BY <1>8 DEF AskForRoot
  <2> QED
    BY <2>1 DEF MissedOnlyWhenDisturbed
<1>9. CASE AskForChildren
  <2>1. outcome' = outcome /\ disturbed' = disturbed
    BY <1>9 DEF AskForChildren
  <2> QED
    BY <2>1 DEF MissedOnlyWhenDisturbed
<1>10. CASE WalkEnds
  <2>1. outcome' = outcome /\ disturbed' = disturbed
    BY <1>10 DEF WalkEnds
  <2> QED
    BY <2>1 DEF MissedOnlyWhenDisturbed
<1>11. CASE AskForItems
  <2>1. outcome' = outcome /\ disturbed' = disturbed
    BY <1>11 DEF AskForItems
  <2> QED
    BY <2>1 DEF MissedOnlyWhenDisturbed
<1>12. CASE InventoryRead
  <2>1. disturbed' = disturbed
    BY <1>12 DEF InventoryRead
  <2>2. CASE listed[wanted] # Gone
    BY <1>12, <2>2 DEF InventoryRead, Returns, MissedOnlyWhenDisturbed
  <2>3. CASE listed[wanted] = Gone
    BY <1>12, <2>1, <2>3, NothingMissed DEF MissedOnlyWhenDisturbed
  <2> QED
    BY <2>2, <2>3
<1>13. CASE DefinitionRequestFails
  <2>1. outcome' \in {"error", "done"}
    BY <1>13 DEF DefinitionRequestFails, Returns
  <2> QED
    BY <2>1 DEF MissedOnlyWhenDisturbed
<1>14. CASE MovesOrAddsSet
  <2>1. outcome' = outcome /\ (disturbed => disturbed')
    BY <1>14, Zenon DEF MovesOrAddsSet, Changes
  <2> QED
    BY <2>1 DEF MissedOnlyWhenDisturbed
<1>15. CASE RemovesSet
  <2>1. outcome' = outcome /\ (disturbed => disturbed')
    BY <1>15, Zenon DEF RemovesSet, Changes
  <2> QED
    BY <2>1 DEF MissedOnlyWhenDisturbed
<1>16. CASE RemovesDefinition
  <2>1. outcome' = outcome /\ (disturbed => disturbed')
    BY <1>16, Zenon DEF RemovesDefinition, Changes
  <2> QED
    BY <2>1 DEF MissedOnlyWhenDisturbed
<1>17. CASE UNCHANGED altVars
  <2>1. outcome' = outcome /\ disturbed' = disturbed
    BY <1>17 DEF altVars
  <2> QED
    BY <2>1 DEF MissedOnlyWhenDisturbed
<1>18. CASE RequestNotFound
  <2>1. outcome' = "404"
    BY <1>18 DEF RequestNotFound, Returns
  <2> QED
    BY <2>1 DEF MissedOnlyWhenDisturbed
<1> QED
  BY <1>1, <1>2, <1>3, <1>4, <1>5, <1>6, <1>7, <1>8, <1>9, <1>10, <1>11,
     <1>12, <1>13, <1>14, <1>15, <1>16, <1>17, <1>18 DEF FoldersNext

\* And what is stored after an undisturbed read is where the definition is.
LEMMA FolderIDStep ==
  ASSUME FoldersTypeOK, Phases, ListedAtHome, UndisturbedInv,
         FolderIDIsHome, [FoldersNext]_altVars
  PROVE  FolderIDIsHome'
<1>1. CASE CreateDefinition
  <2>1. outcome' \in {"running", "error"}
    BY <1>1 DEF CreateDefinition
  <2> QED
    BY <2>1 DEF FolderIDIsHome
<1>2. CASE CreateAddressAlterationDefinition
  <2>1. outcome' \in {"running", "error"}
    BY <1>2 DEF CreateAddressAlterationDefinition, LooksFor, Returns
  <2> QED
    BY <2>1 DEF FolderIDIsHome
<1>3. CASE ReadDefinition
  <2>1. outcome' \in {"running", "error"}
    BY <1>3 DEF ReadDefinition, LooksFor
  <2> QED
    BY <2>1 DEF FolderIDIsHome
<1>4. ASSUME NEW d \in used, ImportDefinition(d) PROVE FolderIDIsHome'
  <2>1. outcome' \in {"running", "error"}
    BY <1>4 DEF ImportDefinition, LooksFor
  <2> QED
    BY <2>1 DEF FolderIDIsHome
<1>5. CASE DeleteDefinition
  <2>1. outcome' \in {"running", "error"}
    BY <1>5 DEF DeleteDefinition
  <2> QED
    BY <2>1 DEF FolderIDIsHome
<1>6. CASE DeleteAddressAlterationDefinition
  <2>1. stored' = NoDefinition
    BY <1>6 DEF DeleteAddressAlterationDefinition
  <2> QED
    BY <2>1 DEF FolderIDIsHome
<1>7. CASE AskByRouting
  <2>1. /\ outcome' = outcome /\ disturbed' = disturbed
        /\ stored' = stored /\ folder' = folder /\ home' = home
    BY <1>7 DEF AskByRouting, treeVars
  <2> QED
    BY <2>1 DEF FolderIDIsHome
<1>8. CASE AskForRoot
  <2>1. /\ outcome' = outcome /\ disturbed' = disturbed
        /\ stored' = stored /\ folder' = folder /\ home' = home
    BY <1>8 DEF AskForRoot, treeVars
  <2> QED
    BY <2>1 DEF FolderIDIsHome
<1>9. CASE AskForChildren
  <2>1. /\ outcome' = outcome /\ disturbed' = disturbed
        /\ stored' = stored /\ folder' = folder /\ home' = home
    BY <1>9 DEF AskForChildren, treeVars
  <2> QED
    BY <2>1 DEF FolderIDIsHome
<1>10. CASE WalkEnds
  <2>1. /\ outcome' = outcome /\ disturbed' = disturbed
        /\ stored' = stored /\ folder' = folder /\ home' = home
    BY <1>10 DEF WalkEnds, treeVars
  <2> QED
    BY <2>1 DEF FolderIDIsHome
<1>11. CASE AskForItems
  <2>1. /\ outcome' = outcome /\ disturbed' = disturbed
        /\ stored' = stored /\ folder' = folder /\ home' = home
    BY <1>11 DEF AskForItems, treeVars
  <2> QED
    BY <2>1 DEF FolderIDIsHome
<1>12. CASE InventoryRead
  <2>1. disturbed' = disturbed /\ home' = home
    BY <1>12 DEF InventoryRead, treeVars
  <2>2. CASE listed[wanted] = Gone
    BY <1>12, <2>2 DEF InventoryRead, FolderIDIsHome
  <2>3. CASE listed[wanted] # Gone
    <3>1. /\ stored' = wanted
          /\ folder' = IF listed[wanted] = Root THEN model ELSE listed[wanted]
      BY <1>12, <2>3 DEF InventoryRead
    <3>2. ~disturbed => folder' = home[wanted]
      BY <1>12, <3>1, NothingMissed
    <3> QED
      BY <2>1, <3>1, <3>2 DEF FolderIDIsHome
  <2> QED
    BY <2>2, <2>3
<1>13. CASE DefinitionRequestFails
  <2>1. outcome' \in {"running", "error"}
    BY <1>13 DEF DefinitionRequestFails, Returns
  <2> QED
    BY <2>1 DEF FolderIDIsHome
<1>14. CASE MovesOrAddsSet
  <2>1. /\ outcome' = outcome /\ (disturbed => disturbed')
        /\ stored' = stored /\ folder' = folder /\ home' = home
    BY <1>14, Zenon DEF MovesOrAddsSet, Changes
  <2> QED
    BY <2>1 DEF FolderIDIsHome
<1>15. CASE RemovesSet
  <2>1. /\ outcome' = outcome /\ (disturbed => disturbed')
        /\ stored' = stored /\ folder' = folder /\ home' = home
    BY <1>15, Zenon DEF RemovesSet, Changes
  <2> QED
    BY <2>1 DEF FolderIDIsHome
<1>16. CASE RemovesDefinition
  <2>1. /\ outcome' = outcome /\ (disturbed => disturbed')
        /\ stored' = stored /\ folder' = folder /\ home' = home
    BY <1>16, Zenon DEF RemovesDefinition, Changes
  <2> QED
    BY <2>1 DEF FolderIDIsHome
<1>17. CASE UNCHANGED altVars
  <2>1. /\ outcome' = outcome /\ disturbed' = disturbed
        /\ stored' = stored /\ folder' = folder /\ home' = home
    BY <1>17 DEF altVars, treeVars
  <2> QED
    BY <2>1 DEF FolderIDIsHome
<1>18. CASE RequestNotFound
  <2>1. stored' = NoDefinition
    BY <1>18 DEF RequestNotFound
  <2> QED
    BY <2>1 DEF FolderIDIsHome
<1> QED
  BY <1>1, <1>2, <1>3, <1>4, <1>5, <1>6, <1>7, <1>8, <1>9, <1>10, <1>11,
     <1>12, <1>13, <1>14, <1>15, <1>16, <1>17, <1>18 DEF FoldersNext

----------------------------------------------------------------------------
(* The invariant holds.                                                    *)

LEMMA FoldersInitInv == FoldersInit => FoldersInv
<1> SUFFICES ASSUME FoldersInit PROVE FoldersInv
  OBVIOUS
<1>1. FoldersTypeOK
  <2>1. home \in [Definitions -> Folders \union {Root}]
        /\ parent \in [Folders -> Folders \union {Root, Gone}] /\ IsTree(parent)
        /\ live \subseteq used /\ used \subseteq Definitions
    BY DEF FoldersInit
  <2>2. moves \in 0..MaxMoves
    BY FoldersAssumption DEF FoldersInit
  <2> QED
    BY <2>1, <2>2 DEF FoldersInit, FoldersTypeOK
<1>2. Phases
  BY DEF FoldersInit, Phases
<1>3. HomesExist
  <2> SUFFICES ASSUME NEW d \in live
               PROVE  home[d] \in Existing \union {Root}
    BY DEF HomesExist
  <2>1. d \in Definitions
    BY DEF FoldersInit
  <2> QED
    BY <2>1 DEF FoldersInit
<1>4. FolderAskedOnce /\ ListedAtHome /\ UndisturbedInv
  BY DEF FoldersInit, FolderAskedOnce, ListedAtHome, UndisturbedInv
<1>5. MissedOnlyWhenDisturbed /\ FolderIDIsHome
  BY DEF FoldersInit, MissedOnlyWhenDisturbed, FolderIDIsHome
<1> QED
  BY <1>1, <1>2, <1>3, <1>4, <1>5 DEF FoldersInv

LEMMA FoldersInvStep ==
  FoldersInv /\ [FoldersNext]_altVars => FoldersInv'
<1> SUFFICES ASSUME FoldersInv, [FoldersNext]_altVars
             PROVE  FoldersInv'
  OBVIOUS
<1>1. FoldersTypeOK'
  BY TypeStep DEF FoldersInv
<1>2. Phases' /\ HomesExist' /\ FolderAskedOnce' /\ ListedAtHome'
  BY PhasesStep, HomesExistStep, AskedOnceStep, ListedStep DEF FoldersInv
<1>3. UndisturbedInv'
  BY <1>1, UndisturbedStep DEF FoldersInv
<1>4. MissedOnlyWhenDisturbed' /\ FolderIDIsHome'
  BY MissedStep, FolderIDStep DEF FoldersInv
<1> QED
  BY <1>1, <1>2, <1>3, <1>4 DEF FoldersInv

\* The inductive invariant holds.
THEOREM FoldersInvariant == FoldersSpec => []FoldersInv
BY FoldersInitInv, FoldersInvStep, PTL DEF FoldersSpec

\* The types of the walk and of the resource.
\* (AddressAlterationFolders, every variable)
THEOREM FoldersTypes == FoldersSpec => []FoldersTypeOK
<1>1. FoldersInv => FoldersTypeOK
  BY DEF FoldersInv
<1> QED
  BY <1>1, FoldersInvariant, PTL

\* An inventory that is read to its end misses a definition only if it, or a set
\* above it, was not in its place all through it.  (A request that is answered 404
\* ends the inventory otherwise.)
\* (GetAddressAlterationDefinition client/legacy_resources.go:161-172)
THEOREM OnlyDisturbedIsMissed == FoldersSpec => []MissedOnlyWhenDisturbed
<1>1. FoldersInv => MissedOnlyWhenDisturbed
  BY DEF FoldersInv
<1> QED
  BY <1>1, FoldersInvariant, PTL

\* After an undisturbed inventory the folder_id in the state is the set that
\* the definition is in.
\* (add client/legacy_resources.go:180-193)
THEOREM StoredFolderIsHome == FoldersSpec => []FolderIDIsHome
<1>1. FoldersInv => FolderIDIsHome
  BY DEF FoldersInv
<1> QED
  BY <1>1, FoldersInvariant, PTL

\* The walk asks for the children of a set at most once.
\* (queued, client/legacy_resources.go:72-77)
THEOREM EachFolderAskedOnce == FoldersSpec => []FolderAskedOnce
<1>1. FoldersInv => FolderAskedOnce
  BY DEF FoldersInv
<1> QED
  BY <1>1, FoldersInvariant, PTL

----------------------------------------------------------------------------
(* Web security: lists.                                                    *)

Elements(s) == {s[k] : k \in 1..Len(s)}

NoRepeats(s) == \A j, k \in 1..Len(s) : s[j] = s[k] => j = k

----------------------------------------------------------------------------
(* Sequences.                                                              *)

LEMMA RemoveAtProperties ==
  ASSUME NEW S, NEW s \in Seq(S), NEW k \in 1..Len(s)
  PROVE  /\ RemoveAt(s, k) \in Seq(S)
         /\ Len(RemoveAt(s, k)) = Len(s) - 1
         /\ \A i \in 1..(Len(s) - 1) :
              RemoveAt(s, k)[i] = IF i < k THEN s[i] ELSE s[i + 1]
<1> DEFINE before == SubSeq(s, 1, k - 1)
           after == SubSeq(s, k + 1, Len(s))
<1>1. Len(s) \in Nat /\ \A i \in 1..Len(s) : s[i] \in S
  BY LenProperties, ElementOfSeq
<1>2. /\ before \in Seq(S) /\ Len(before) = k - 1
      /\ \A i \in 1..(k - 1) : before[i] = s[i]
  <2>1. \A i \in 1..(k - 1) : s[i] \in S
    BY <1>1
  <2>2. /\ before \in Seq(S)
        /\ Len(before) = IF 1 <= k - 1 THEN (k - 1) - 1 + 1 ELSE 0
        /\ \A i \in 1..((k - 1) - 1 + 1) : before[i] = s[1 + i - 1]
    BY <2>1, <1>1, SubSeqProperties
  <2> HIDE DEF before
  <2> QED
    BY <1>1, <2>2
<1>3. /\ after \in Seq(S) /\ Len(after) = Len(s) - k
      /\ \A i \in 1..(Len(s) - k) : after[i] = s[k + i]
  <2>1. \A i \in (k + 1)..Len(s) : s[i] \in S
    BY <1>1
  <2>2. /\ after \in Seq(S)
        /\ Len(after) = IF k + 1 <= Len(s) THEN Len(s) - (k + 1) + 1 ELSE 0
        /\ \A i \in 1..(Len(s) - (k + 1) + 1) : after[i] = s[(k + 1) + i - 1]
    BY <2>1, <1>1, SubSeqProperties
  <2> HIDE DEF after
  <2> QED
    BY <1>1, <2>2
<1> HIDE DEF before, after
<1>4. /\ before \o after \in Seq(S)
      /\ Len(before \o after) = Len(before) + Len(after)
      /\ \A i \in 1..(Len(before) + Len(after)) :
           (before \o after)[i] = IF i <= Len(before) THEN before[i]
                                  ELSE after[i - Len(before)]
  BY <1>2, <1>3, ConcatProperties
<1>5. RemoveAt(s, k) = before \o after
  BY DEF RemoveAt, before, after
<1> QED
  <2>1. ASSUME NEW i \in 1..(Len(s) - 1)
        PROVE  (before \o after)[i] = IF i < k THEN s[i] ELSE s[i + 1]
    <3>1. CASE i < k
      BY <1>1, <1>2, <1>3, <1>4, <3>1
    <3>2. CASE ~(i < k)
      <4>1. (before \o after)[i] = after[i - (k - 1)]
        BY <1>1, <1>2, <1>3, <1>4, <3>2
      <4>2. i - (k - 1) \in 1..(Len(s) - k)
        BY <1>1, <3>2
      <4>3. k + (i - (k - 1)) = i + 1
        BY <1>1
      <4> QED
        BY <1>3, <3>2, <4>1, <4>2, <4>3
    <3> QED
      BY <3>1, <3>2
  <2>2. Len(before \o after) = Len(s) - 1
    BY <1>1, <1>2, <1>3, <1>4
  <2> QED
    BY <1>4, <1>5, <2>1, <2>2

\* Removing one place of a list takes its element out, and no other.
LEMMA RemoveAtElements ==
  ASSUME NEW S, NEW s \in Seq(S), NEW k \in 1..Len(s)
  PROVE  /\ Elements(s) = Elements(RemoveAt(s, k)) \union {s[k]}
         /\ NoRepeats(s) => /\ NoRepeats(RemoveAt(s, k))
                            /\ s[k] \notin Elements(RemoveAt(s, k))
<1> DEFINE r == RemoveAt(s, k)
           from(i) == IF i < k THEN i ELSE i + 1
<1>1. Len(s) \in Nat
  BY LenProperties
<1>2. /\ Len(r) = Len(s) - 1
      /\ \A i \in 1..Len(r) : r[i] = s[from(i)]
  BY RemoveAtProperties
<1> HIDE DEF r
<1>3. \A i \in 1..Len(r) : from(i) \in 1..Len(s) /\ from(i) # k
  BY <1>1, <1>2
<1>4. \A j \in 1..Len(s) : j # k => \E i \in 1..Len(r) : from(i) = j
  <2> SUFFICES ASSUME NEW j \in 1..Len(s), j # k
               PROVE  \E i \in 1..Len(r) : from(i) = j
    OBVIOUS
  <2>1. CASE j < k
    <3>1. j \in 1..Len(r) /\ from(j) = j
      BY <1>1, <1>2, <2>1
    <3> QED
      BY <3>1
  <2>2. CASE j > k
    <3>1. j - 1 \in 1..Len(r) /\ from(j - 1) = j
      BY <1>1, <1>2, <2>2
    <3> QED
      BY <3>1
  <2> QED
    BY <1>1, <2>1, <2>2
<1>5. \A i, j \in 1..Len(r) : from(i) = from(j) => i = j
  BY <1>1, <1>2
<1> HIDE DEF from
<1>6. Elements(s) = Elements(r) \union {s[k]}
  <2>1. Elements(r) \subseteq Elements(s)
    BY <1>2, <1>3 DEF Elements
  <2>2. \A j \in 1..Len(s) : j # k => s[j] \in Elements(r)
    BY <1>2, <1>4 DEF Elements
  <2>3. s[k] \in Elements(s)
    BY DEF Elements
  <2> QED
    BY <2>1, <2>2, <2>3 DEF Elements
<1>7. NoRepeats(s) => NoRepeats(r) /\ s[k] \notin Elements(r)
  BY <1>2, <1>3, <1>5 DEF NoRepeats, Elements
<1> QED
  BY <1>6, <1>7 DEF r

LEMMA AppendElements ==
  ASSUME NEW S, NEW s \in Seq(S), NEW e \in S
  PROVE  /\ Append(s, e) \in Seq(S) /\ Len(Append(s, e)) = Len(s) + 1
         /\ \A i \in 1..Len(s) : Append(s, e)[i] = s[i]
         /\ Append(s, e)[Len(s) + 1] = e
         /\ Elements(Append(s, e)) = Elements(s) \union {e}
<1>1. /\ Append(s, e) \in Seq(S) /\ Len(Append(s, e)) = Len(s) + 1
      /\ \A i \in 1..Len(s) : Append(s, e)[i] = s[i]
      /\ Append(s, e)[Len(s) + 1] = e
      /\ Len(s) \in Nat
  BY LenProperties
<1>2. 1..(Len(s) + 1) = (1..Len(s)) \union {Len(s) + 1}
  BY <1>1
<1> QED
  BY <1>1, <1>2 DEF Elements

LEMMA ConcatElements ==
  ASSUME NEW S, NEW s \in Seq(S), NEW t \in Seq(S)
  PROVE  /\ s \o t \in Seq(S) /\ Len(s \o t) = Len(s) + Len(t)
         /\ Elements(s \o t) = Elements(s) \union Elements(t)
<1>1. /\ s \o t \in Seq(S) /\ Len(s \o t) = Len(s) + Len(t)
      /\ \A i \in 1..(Len(s) + Len(t)) :
           (s \o t)[i] = IF i <= Len(s) THEN s[i] ELSE t[i - Len(s)]
      /\ Len(s) \in Nat /\ Len(t) \in Nat
  BY ConcatProperties, LenProperties
<1>2. Elements(s \o t) \subseteq Elements(s) \union Elements(t)
  <2> SUFFICES ASSUME NEW i \in 1..(Len(s) + Len(t))
               PROVE  (s \o t)[i] \in Elements(s) \union Elements(t)
    BY <1>1 DEF Elements
  <2>1. CASE i <= Len(s)
    BY <1>1, <2>1 DEF Elements
  <2>2. CASE ~(i <= Len(s))
    <3>1. i - Len(s) \in 1..Len(t)
      BY <1>1, <2>2
    <3> QED
      BY <1>1, <2>2, <3>1 DEF Elements
  <2> QED
    BY <2>1, <2>2
<1>3. Elements(s) \subseteq Elements(s \o t)
  BY <1>1 DEF Elements
<1>4. Elements(t) \subseteq Elements(s \o t)
  <2> SUFFICES ASSUME NEW i \in 1..Len(t)
               PROVE  t[i] \in Elements(s \o t)
    BY DEF Elements
  <2>1. Len(s) + i \in 1..(Len(s) + Len(t)) /\ (Len(s) + i) - Len(s) = i
        /\ ~(Len(s) + i <= Len(s))
    BY <1>1
  <2> QED
    BY <1>1, <2>1 DEF Elements
<1> QED
  BY <1>1, <1>2, <1>3, <1>4

----------------------------------------------------------------------------
(* Reading: what fromAPI makes of the list before and the answer.          *)

ById(e, values) == {k \in 1..Len(values) : e.id # NoId /\ values[k].id = e.id}
Alike(e, values) == {k \in 1..Len(values) : Identity(values[k]) = Identity(e)}

LEMMA FindPlace ==
  ASSUME NEW S, NEW values \in Seq(S), NEW e
  PROVE  /\ Find(e, values) \in 0..Len(values)
         /\ ById(e, values) # {} => Find(e, values) \in ById(e, values)
         /\ ById(e, values) = {} /\ Alike(e, values) # {} =>
              Find(e, values) \in Alike(e, values)
         /\ ById(e, values) = {} /\ Alike(e, values) = {} =>
              Find(e, values) = 0
<1> DEFINE First(K) == CHOOSE k \in K : \A j \in K : k <= j
<1>1. Len(values) \in Nat
  BY LenProperties
<1>2. \A K \in SUBSET (1..Len(values)) : K # {} => First(K) \in K
  <2> SUFFICES ASSUME NEW K \in SUBSET (1..Len(values)), K # {}
               PROVE  First(K) \in K
    OBVIOUS
  <2>1. \E k \in K : \A j \in K : k <= j
    BY LeastNatural
  <2> QED
    BY <2>1, Zenon
<1>3. Find(e, values) = IF ById(e, values) # {} THEN First(ById(e, values))
                     ELSE IF Alike(e, values) # {} THEN First(Alike(e, values))
                     ELSE 0
  BY DEF Find, ById, Alike
<1>4. /\ ById(e, values) \in SUBSET (1..Len(values))
      /\ Alike(e, values) \in SUBSET (1..Len(values))
  BY DEF ById, Alike
<1> HIDE DEF First
<1>5. CASE ById(e, values) # {}
  <2>1. Find(e, values) = First(ById(e, values))
    BY <1>3, <1>5
  <2>2. First(ById(e, values)) \in ById(e, values)
    BY <1>2, <1>4, <1>5
  <2>3. Find(e, values) \in 0..Len(values)
    BY <1>1, <1>4, <2>1, <2>2
  <2> QED
    BY <1>5, <2>1, <2>2, <2>3
<1>6. CASE ById(e, values) = {} /\ Alike(e, values) # {}
  BY <1>1, <1>2, <1>3, <1>4, <1>6
<1>7. CASE ById(e, values) = {} /\ Alike(e, values) = {}
  BY <1>1, <1>3, <1>7
<1> QED
  BY <1>5, <1>6, <1>7

\* How far fromAPI has come: what is matched, the entries of the model that it
\* was taken for, and the rest of the answer.
Merging(S, B) == [matched : Seq(S), old : Seq(B), rest : Seq(S)]

\* What is matched and the rest are the answer.
HoldAnswer(list, answer) ==
  /\ Elements(list.matched) \union Elements(list.rest) = Elements(answer)
  /\ Len(list.matched) + Len(list.rest) = Len(answer)
  /\ Len(list.old) = Len(list.matched)

LEMMA TakesProperties ==
  ASSUME NEW S, NEW B, NEW list \in Merging(S, B), NEW e \in B
  PROVE  /\ Takes(list, e) \in Merging(S, B)
         /\ \A answer : HoldAnswer(list, answer) =>
                         HoldAnswer(Takes(list, e), answer)
<1> DEFINE k == Find(e, list.rest)
           m == Append(list.matched, list.rest[k])
           o == Append(list.old, e)
           r == RemoveAt(list.rest, k)
<1>1. /\ list.matched \in Seq(S) /\ list.old \in Seq(B) /\ list.rest \in Seq(S)
      /\ Len(list.matched) \in Nat /\ Len(list.rest) \in Nat
  BY LenProperties DEF Merging
<1>2. k \in 0..Len(list.rest)
  BY <1>1, FindPlace
<1>3. CASE k = 0
  <2>1. Takes(list, e) = list
    BY <1>3 DEF Takes
  <2> QED
    BY <2>1
<1>4. CASE k # 0
  <2>1. Takes(list, e) = [matched |-> m, old |-> o, rest |-> r]
    BY <1>4 DEF Takes, WithoutMatched
  <2>2. k \in 1..Len(list.rest)
    BY <1>1, <1>2, <1>4
  <2> HIDE DEF k
  <2>3. list.rest[k] \in S
    BY <1>1, <2>2, ElementOfSeq
  <2>4. /\ r \in Seq(S) /\ Len(r) = Len(list.rest) - 1
        /\ Elements(list.rest) = Elements(r) \union {list.rest[k]}
    BY <1>1, <2>2, RemoveAtProperties, RemoveAtElements
  <2>5. /\ m \in Seq(S) /\ Len(m) = Len(list.matched) + 1
        /\ Elements(m) = Elements(list.matched) \union {list.rest[k]}
    BY <1>1, <2>3, AppendElements
  <2>9. o \in Seq(B) /\ Len(o) = Len(list.old) + 1
    BY <1>1, AppendElements
  <2> HIDE DEF m, o, r
  <2>6. /\ Takes(list, e) \in Merging(S, B)
        /\ Takes(list, e).matched = m /\ Takes(list, e).rest = r
        /\ Takes(list, e).old = o
    BY <2>1, <2>4, <2>5, <2>9 DEF Merging
  <2>7. Elements(m) \union Elements(r)
          = Elements(list.matched) \union Elements(list.rest)
    BY <2>4, <2>5
  <2>8. Len(m) + Len(r) = Len(list.matched) + Len(list.rest)
    <3>1. Len(r) = Len(list.rest) - 1 /\ Len(m) = Len(list.matched) + 1
      BY <2>4, <2>5
    <3>2. Len(list.matched) \in Nat /\ Len(list.rest) \in Nat
      BY <1>1
    <3> DEFINE a == Len(list.matched)
               b == Len(list.rest)
    <3>3. a \in Nat /\ b \in Nat /\ Len(m) = a + 1 /\ Len(r) = b - 1
      BY <3>1, <3>2
    <3> HIDE DEF a, b
    <3>4. Len(m) + Len(r) = a + b
      BY <3>3
    <3> QED
      BY <3>4 DEF a, b
  <2>10. Len(list.old) = Len(list.matched) => Len(o) = Len(m)
    BY <2>5, <2>9
  <2>11. \A answer : HoldAnswer(list, answer) => HoldAnswer(Takes(list, e), answer)
    BY <2>6, <2>7, <2>8, <2>10 DEF HoldAnswer
  <2> QED
    BY <2>6, <2>11
<1> QED
  BY <1>3, <1>4

\* The lists fromAPI goes through, one for each entry of the list before.
IsMerge(list, S, B, before, answer) ==
  /\ list \in [0..Len(before) -> Merging(S, B)]
  /\ list[0] = [matched |-> <<>>, old |-> <<>>, rest |-> answer]
  /\ \A n \in 1..Len(before) : list[n] = Takes(list[n - 1], before[n])

LEMMA FromAPIMerges ==
  ASSUME NEW S, NEW B, NEW before \in Seq(B), NEW answer \in Seq(S)
  PROVE  \E list : /\ IsMerge(list, S, B, before, answer)
                   /\ FromAPI(before, answer)
                        = MatchedThenRest(list[Len(before)])
<1> DEFINE L == Len(before)
           first == [matched |-> <<>>, old |-> <<>>, rest |-> answer]
           next == [p \in Nat \X Merging(S, B) |->
                      IF p[1] \in 1..L THEN Takes(p[2], before[p[1]]) ELSE p[2]]
           IsList(f) == f = [n \in 0..L |-> IF n = 0 THEN first
                                            ELSE Takes(f[n - 1], before[n])]
           list == CHOOSE f : IsList(f)
<1>0. L \in Nat /\ \A n \in 1..L : before[n] \in B
  BY LenProperties, ElementOfSeq
<1>1. first \in Merging(S, B)
  BY EmptySeq DEF Merging
<1>2. next \in [Nat \X Merging(S, B) -> Merging(S, B)]
  BY <1>0, TakesProperties
<1>3. \A n \in 1..L, x \in Merging(S, B) : next[<<n, x>>] = Takes(x, before[n])
  OBVIOUS
<1> HIDE DEF first, next
<1>4. PICK f : DefinesUpTo(f, L, Merging(S, B), first, next)
  BY <1>0, <1>1, <1>2, DefinedUpTo
<1>5. /\ f \in [0..L -> Merging(S, B)] /\ f[0] = first
      /\ \A n \in 1..L : f[n] = next[<<n, f[n - 1]>>]
  BY <1>4 DEF DefinesUpTo
<1>6. \A n \in 1..L : f[n] = Takes(f[n - 1], before[n])
  <2> SUFFICES ASSUME NEW n \in 1..L
               PROVE  f[n] = Takes(f[n - 1], before[n])
    OBVIOUS
  <2>1. n - 1 \in 0..L
    OBVIOUS
  <2>2. f[n - 1] \in Merging(S, B)
    BY <1>5, <2>1
  <2> QED
    BY <1>3, <1>5, <2>2
<1>7. IsList(f)
  <2>1. f = [n \in 0..L |-> f[n]]
    BY <1>5
  <2>2. \A n \in 0..L : f[n] = IF n = 0 THEN first ELSE Takes(f[n - 1], before[n])
    BY <1>5, <1>6
  <2> QED
    BY <2>1, <2>2
<1>8. IsList(list)
  <2> HIDE DEF IsList
  <2> QED
    BY <1>7, Zenon
<1>9. list = f
  <2>1. \A n \in 0..L : list[n] = IF n = 0 THEN first
                                   ELSE Takes(list[n - 1], before[n])
    BY <1>8, Zenon
  <2>2. \A n \in 0..L : f[n] = IF n = 0 THEN first ELSE Takes(f[n - 1], before[n])
    BY <1>7, Zenon
  <2>3. list = [n \in 0..L |-> list[n]] /\ f = [n \in 0..L |-> f[n]]
    BY <1>7, <1>8, Zenon
  <2> HIDE DEF list, IsList
  <2> DEFINE Same == {n \in Nat : n \in 0..L => list[n] = f[n]}
  <2>4. 0 \in Same
    BY <2>1, <2>2
  <2>5. \A n \in Nat : n \in Same => n + 1 \in Same
    BY <2>1, <2>2
  <2> HIDE DEF Same
  <2>6. Nat \subseteq Same
    BY <2>4, <2>5, SetInduction
  <2>7. \A n \in 0..L : list[n] = f[n]
    BY <2>6 DEF Same
  <2> QED
    BY <2>3, <2>7
<1>10. FromAPI(before, answer) = MatchedThenRest(list[L])
  BY DEF FromAPI, first
<1> HIDE DEF list
<1>11. IsMerge(f, S, B, before, answer)
  BY <1>5, <1>6 DEF IsMerge, first
<1> QED
  BY <1>9, <1>10, <1>11

\* An entry of the answer as it is, or as an entry of the model fills it.
ComesFrom(s, B, e) == s = e \/ \E old \in B : s = EntryFromAPI(old, e)

\* The list is the entries of the answer in some order.
Enumerates(list, S, B, answer) ==
  \E plain \in Seq(S) :
    /\ Elements(plain) = Elements(answer)
    /\ Len(plain) = Len(answer) /\ Len(list) = Len(answer)
    /\ \A k \in 1..Len(plain) : ComesFrom(list[k], B, plain[k])

\* What has been matched, with what the entries of the model fill in.
LEMMA FilledFrom ==
  ASSUME NEW S, NEW B, NEW list \in Merging(S, B), NEW R,
         \A o \in B, e \in S : EntryFromAPI(o, e) \in R,
         Len(list.old) = Len(list.matched)
  PROVE  /\ Filled(list) \in Seq(R) /\ Len(Filled(list)) = Len(list.matched)
         /\ \A k \in 1..Len(list.matched) :
              /\ list.matched[k] \in S /\ list.old[k] \in B
              /\ Filled(list)[k] = EntryFromAPI(list.old[k], list.matched[k])
<1> DEFINE u == list.matched
           o == list.old
           f == [k \in 1..Len(u) |-> EntryFromAPI(o[k], u[k])]
<1>1. u \in Seq(S) /\ o \in Seq(B) /\ Len(u) \in Nat /\ Len(o) = Len(u)
  BY LenProperties DEF Merging
<1>2. Filled(list) = f
  BY DEF Filled
<1> HIDE DEF u, o
<1>3. \A k \in 1..Len(u) : u[k] \in S /\ o[k] \in B
  BY <1>1, ElementOfSeq
<1>4. f \in [1..Len(u) -> R]
  BY <1>3
<1>5. f \in Seq(R) /\ Len(f) = Len(u)
  BY <1>1, <1>4
<1>6. \A k \in 1..Len(u) : f[k] = EntryFromAPI(o[k], u[k])
  OBVIOUS
<1> HIDE DEF f
<1> QED
  BY <1>2, <1>3, <1>5, <1>6 DEF u, o

\* No entry of the answer is lost, and none comes twice.
LEMMA FromAPIKeeps ==
  ASSUME NEW S, NEW B, NEW before \in Seq(B), NEW answer \in Seq(S),
         NEW R, S \subseteq R, \A o \in B, e \in S : EntryFromAPI(o, e) \in R
  PROVE  /\ FromAPI(before, answer) \in Seq(R)
         /\ Enumerates(FromAPI(before, answer), S, B, answer)
<1>0. Len(before) \in Nat /\ \A n \in 1..Len(before) : before[n] \in B
  BY LenProperties, ElementOfSeq
<1>1. PICK list : /\ IsMerge(list, S, B, before, answer)
                  /\ FromAPI(before, answer) = MatchedThenRest(list[Len(before)])
  BY FromAPIMerges
<1> DEFINE Kept == {n \in Nat : n <= Len(before) => HoldAnswer(list[n], answer)}
<1>2. 0 \in Kept
  <2>1. list[0].matched = <<>> /\ list[0].old = <<>> /\ list[0].rest = answer
    BY <1>1 DEF IsMerge
  <2>2. Elements(<<>>) = {} /\ Len(<<>>) = 0 /\ Len(answer) \in Nat
    BY LenProperties DEF Elements
  <2>3. HoldAnswer(list[0], answer)
    BY <2>1, <2>2 DEF HoldAnswer
  <2> QED
    BY <2>3
<1>3. ASSUME NEW n \in Nat, n \in Kept
      PROVE  n + 1 \in Kept
  <2> SUFFICES ASSUME n + 1 <= Len(before)
               PROVE  HoldAnswer(list[n + 1], answer)
    OBVIOUS
  <2>1. /\ list[n] \in Merging(S, B) /\ list[n + 1] = Takes(list[n], before[n + 1])
        /\ before[n + 1] \in B
    <3>1. n \in 0..Len(before) /\ n + 1 \in 1..Len(before) /\ (n + 1) - 1 = n
      BY <1>0
    <3> QED
      BY <1>0, <1>1, <3>1 DEF IsMerge
  <2>2. HoldAnswer(list[n], answer)
    BY <1>0, <1>3
  <2> QED
    BY <2>1, <2>2, TakesProperties
<1>4. HoldAnswer(list[Len(before)], answer)
  <2> HIDE DEF Kept
  <2>1. Nat \subseteq Kept
    BY <1>2, <1>3, SetInduction
  <2>2. Len(before) \in Kept
    BY <1>0, <2>1
  <2> QED
    BY <1>0, <2>2 DEF Kept
<1>5. list[Len(before)] \in Merging(S, B)
  BY <1>0, <1>1 DEF IsMerge
<1> DEFINE x == list[Len(before)]
           u == x.matched
           v == x.rest
           f == Filled(x)
<1>6. u \in Seq(S) /\ v \in Seq(S)
  BY <1>5 DEF Merging
<1>7. FromAPI(before, answer) = f \o v
  BY <1>1 DEF MatchedThenRest
<1>8. HoldAnswer(x, answer)
  BY <1>4
<1>9. /\ f \in Seq(R) /\ Len(f) = Len(u)
      /\ \A k \in 1..Len(u) : ComesFrom(f[k], B, u[k])
  <2>1. Len(x.old) = Len(x.matched)
    BY <1>8 DEF HoldAnswer
  <2>2. /\ f \in Seq(R) /\ Len(f) = Len(u)
        /\ \A k \in 1..Len(u) :
             x.old[k] \in B /\ f[k] = EntryFromAPI(x.old[k], u[k])
    <3>1. x \in Merging(S, B)
      BY <1>5
    <3>2. \A o \in B, e \in S : EntryFromAPI(o, e) \in R
      OBVIOUS
    <3>3. /\ Filled(x) \in Seq(R) /\ Len(Filled(x)) = Len(x.matched)
          /\ \A k \in 1..Len(x.matched) :
               /\ x.matched[k] \in S /\ x.old[k] \in B
               /\ Filled(x)[k] = EntryFromAPI(x.old[k], x.matched[k])
      <4> HIDE DEF x
      <4> QED
        BY <2>1, <3>1, <3>2, FilledFrom, Zenon
    <3> QED
      BY <3>3
  <2> HIDE DEF x, u, f
  <2> QED
    BY <2>2 DEF ComesFrom
<1>10. /\ Elements(u) \union Elements(v) = Elements(answer)
       /\ Len(u) + Len(v) = Len(answer)
  BY <1>8 DEF HoldAnswer
<1> HIDE DEF x, u, v, f
<1>11. v \in Seq(R)
  <2>1. v \in [1..Len(v) -> R] /\ Len(v) \in Nat
    BY <1>6, LenProperties
  <2> QED
    BY <2>1
<1>12. /\ f \o v \in Seq(R) /\ Len(f \o v) = Len(u) + Len(v)
       /\ \A i \in 1..(Len(u) + Len(v)) :
            (f \o v)[i] = IF i <= Len(u) THEN f[i] ELSE v[i - Len(u)]
  <2>1. /\ f \o v \in Seq(R) /\ Len(f \o v) = Len(f) + Len(v)
        /\ \A i \in 1..(Len(f) + Len(v)) :
             (f \o v)[i] = IF i <= Len(f) THEN f[i] ELSE v[i - Len(f)]
    BY <1>9, <1>11, ConcatProperties
  <2> QED
    BY <1>9, <2>1
<1>13. /\ u \o v \in Seq(S) /\ Len(u \o v) = Len(u) + Len(v)
       /\ Elements(u \o v) = Elements(u) \union Elements(v)
       /\ \A i \in 1..(Len(u) + Len(v)) :
            (u \o v)[i] = IF i <= Len(u) THEN u[i] ELSE v[i - Len(u)]
  BY <1>6, ConcatElements, ConcatProperties
<1>14. ASSUME NEW k \in 1..Len(u \o v)
       PROVE  ComesFrom((f \o v)[k], B, (u \o v)[k])
  <2>1. Len(u) \in Nat /\ Len(v) \in Nat /\ k \in 1..(Len(u) + Len(v))
    BY <1>6, <1>13, LenProperties
  <2>2. CASE k <= Len(u)
    <3>1. k \in 1..Len(u)
      BY <2>1, <2>2
    <3>2. (f \o v)[k] = f[k] /\ (u \o v)[k] = u[k]
      BY <1>12, <1>13, <2>1, <2>2
    <3> QED
      BY <1>9, <3>1, <3>2
  <2>3. CASE ~(k <= Len(u))
    <3>1. (f \o v)[k] = (u \o v)[k]
      BY <1>12, <1>13, <2>1, <2>3
    <3> QED
      BY <3>1 DEF ComesFrom
  <2> QED
    BY <2>2, <2>3
<1>15. Enumerates(f \o v, S, B, answer)
  <2> DEFINE plain == u \o v
             all == f \o v
  <2>1. /\ plain \in Seq(S) /\ Elements(plain) = Elements(answer)
        /\ Len(plain) = Len(answer) /\ Len(all) = Len(answer)
        /\ \A k \in 1..Len(plain) : ComesFrom(all[k], B, plain[k])
    BY <1>10, <1>12, <1>13, <1>14
  <2> HIDE DEF plain, all
  <2>2. Enumerates(all, S, B, answer)
    BY <2>1 DEF Enumerates
  <2> QED
    BY <2>2 DEF all
<1> QED
  BY <1>7, <1>12, <1>15

\* The entry of the answer that belongs in place n of the list before is the
\* first one fromAPI finds there.
Belongs(e, target, n, len) ==
  /\ \A j \in n..len : e.id # NoId /\ target[j].id = e.id => j = n
  /\ \/ e.id # NoId /\ target[n].id = e.id
     \/ \A j \in n..len : Identity(target[j]) = Identity(e) <=> j = n

\* The entries of the answer each belong in a place of the list before.
Fits(answer, target, S, before) ==
  /\ NoRepeats(answer)
  /\ target \in [1..Len(before) -> S]
  /\ \A j, k \in 1..Len(before) : target[j] = target[k] => j = k
  /\ Elements(answer) = {target[k] : k \in 1..Len(before)}
  /\ \A n \in 1..Len(before) : Belongs(before[n], target, n, Len(before))

\* After n entries of the list before, the first n places are taken.
HaveTaken(list, S, before, target, n) ==
  /\ list.matched \in Seq(S) /\ Len(list.matched) = n
  /\ \A i \in 1..n : list.matched[i] = target[i]
  /\ Len(list.old) = n /\ \A i \in 1..n : list.old[i] = before[i]
  /\ list.rest \in Seq(S)
  /\ NoRepeats(list.rest)
  /\ Elements(list.rest) = {target[k] : k \in (n + 1)..Len(before)}

LEMMA BelongingIsFound ==
  ASSUME NEW S, NEW B, NEW before \in Seq(B), NEW answer, NEW target,
         Fits(answer, target, S, before), NEW n \in Nat, n + 1 <= Len(before),
         NEW list \in Merging(S, B), HaveTaken(list, S, before, target, n)
  PROVE  HaveTaken(Takes(list, before[n + 1]), S, before, target, n + 1)
<1> DEFINE e == before[n + 1]
           len == Len(before)
<1>0. /\ e \in B /\ len \in Nat /\ n + 1 <= len /\ target \in [1..len -> S]
      /\ \A j, k \in 1..len : target[j] = target[k] => j = k
  <2>1. Len(before) \in Nat
    BY LenProperties
  <2>2. n + 1 \in 1..Len(before)
    BY <2>1
  <2> QED
    BY <2>1, <2>2, ElementOfSeq DEF Fits
<1>a. /\ list.old \in Seq(B) /\ Len(list.old) = n
      /\ \A i \in 1..n : list.old[i] = before[i]
  BY DEF HaveTaken, Merging
<1>b. Belongs(e, target, n + 1, len)
  BY <1>0 DEF Fits
<1>e. Elements(list.rest) = {target[j] : j \in (n + 1)..len}
  BY DEF HaveTaken
<1> HIDE DEF e, len
<1> DEFINE rest == list.rest
           k == Find(e, rest)
<1>1. /\ list.matched \in Seq(S) /\ rest \in Seq(S) /\ Len(list.matched) = n
      /\ \A i \in 1..n : list.matched[i] = target[i]
      /\ NoRepeats(rest) /\ Len(rest) \in Nat
      /\ Elements(rest) = {target[j] : j \in (n + 1)..len}
  BY <1>e, LenProperties DEF HaveTaken
<1>2. /\ \A j \in (n + 1)..len : e.id # NoId /\ target[j].id = e.id => j = n + 1
      /\ \/ e.id # NoId /\ target[n + 1].id = e.id
         \/ \A j \in (n + 1)..len : Identity(target[j]) = Identity(e) <=> j = n + 1
  BY <1>b DEF Belongs
<1> DEFINE t == target[n + 1]
<1>3. n + 1 \in (n + 1)..len /\ n + 1 \in 1..len /\ t \in S
  BY <1>0
<1>4. \A i \in 1..Len(rest) : \E j \in (n + 1)..len : rest[i] = target[j]
  <2> SUFFICES ASSUME NEW i \in 1..Len(rest)
               PROVE  \E j \in (n + 1)..len : rest[i] = target[j]
    OBVIOUS
  <2>1. rest[i] \in Elements(rest)
    BY DEF Elements
  <2> QED
    BY <1>1, <2>1
<1>5. PICK p \in 1..Len(rest) : rest[p] = t
  <2>1. t \in Elements(rest)
    BY <1>1, <1>3
  <2> QED
    BY <2>1 DEF Elements
<1>6. /\ k \in 0..Len(rest)
      /\ ById(e, rest) # {} => k \in ById(e, rest)
      /\ ById(e, rest) = {} /\ Alike(e, rest) # {} => k \in Alike(e, rest)
  BY <1>1, FindPlace
<1> HIDE DEF k, rest, t
<1>7. k \in 1..Len(rest) /\ rest[k] = t
  <2>1. CASE ById(e, rest) # {}
    <3>1. k \in 1..Len(rest) /\ e.id # NoId /\ rest[k].id = e.id
      BY <1>6, <2>1 DEF ById
    <3>2. PICK j \in (n + 1)..len : rest[k] = target[j]
      BY <1>4, <3>1
    <3>3. j = n + 1
      BY <1>2, <3>1, <3>2
    <3> QED
      BY <3>1, <3>2, <3>3 DEF t
  <2>2. CASE ById(e, rest) = {}
    <3>1. ~(e.id # NoId /\ t.id = e.id)
      BY <1>5, <2>2 DEF ById
    <3>2. \A j \in (n + 1)..len : Identity(target[j]) = Identity(e) <=> j = n + 1
      BY <1>2, <3>1 DEF t
    <3>3. Identity(t) = Identity(e)
      BY <1>3, <3>2 DEF t
    <3>4. p \in Alike(e, rest)
      BY <1>5, <3>3 DEF Alike
    <3>5. k \in 1..Len(rest) /\ Identity(rest[k]) = Identity(e)
      BY <1>6, <2>2, <3>4 DEF Alike
    <3>6. PICK j \in (n + 1)..len : rest[k] = target[j]
      BY <1>4, <3>5
    <3>7. j = n + 1
      BY <3>2, <3>5, <3>6
    <3> QED
      BY <3>5, <3>6, <3>7 DEF t
  <2> QED
    BY <2>1, <2>2
<1> DEFINE m == Append(list.matched, t)
           o == Append(list.old, e)
           r == RemoveAt(rest, k)
<1>8. Takes(list, e) = [matched |-> m, old |-> o, rest |-> r]
  <2>1. k # 0
    BY <1>1, <1>7
  <2> QED
    BY <1>7, <2>1 DEF Takes, WithoutMatched, k, rest
<1>9. /\ m \in Seq(S) /\ Len(m) = n + 1
      /\ \A i \in 1..n : m[i] = list.matched[i]
      /\ m[n + 1] = t
  BY <1>1, <1>3, AppendElements
<1>10. /\ r \in Seq(S) /\ NoRepeats(r)
       /\ Elements(rest) = Elements(r) \union {t} /\ t \notin Elements(r)
  <2>1. r \in Seq(S)
    BY <1>1, <1>7, RemoveAtProperties
  <2>2. /\ Elements(rest) = Elements(r) \union {rest[k]}
        /\ NoRepeats(rest) => NoRepeats(r) /\ rest[k] \notin Elements(r)
    BY <1>1, <1>7, RemoveAtElements
  <2> HIDE DEF r
  <2> QED
    BY <1>1, <1>7, <2>1, <2>2
<1>c. /\ Len(o) = n + 1 /\ \A i \in 1..n : o[i] = list.old[i]
      /\ o[n + 1] = e
  BY <1>0, <1>a, AppendElements
<1> HIDE DEF m, o, r
<1>d. \A i \in 1..(n + 1) : o[i] = before[i]
  BY <1>a, <1>c DEF e
<1>11. \A i \in 1..(n + 1) : m[i] = target[i]
  BY <1>1, <1>9 DEF t
<1>12. Elements(r) = {target[j] : j \in ((n + 1) + 1)..len}
  <2> DEFINE T == {target[j] : j \in ((n + 1) + 1)..len}
  <2>1. (n + 1)..len = {n + 1} \union (((n + 1) + 1)..len)
    BY <1>0, <1>3
  <2>2. Elements(rest) = T \union {t}
    BY <1>1, <2>1 DEF t
  <2>3. t \notin T
    BY <1>0, <1>3 DEF t
  <2> HIDE DEF T
  <2> QED
    BY <1>10, <2>2, <2>3 DEF T
<1> QED
  BY <1>8, <1>9, <1>10, <1>11, <1>12, <1>c, <1>d DEF HaveTaken, e, len

LEMMA ConcatNothing ==
  ASSUME NEW S, NEW u \in Seq(S), NEW v \in Seq(S), Len(v) = 0
  PROVE  /\ Len(u \o v) = Len(u)
         /\ \A i \in 1..Len(u) : (u \o v)[i] = u[i]
<1>1. /\ Len(u \o v) = Len(u) + Len(v) /\ Len(u) \in Nat
      /\ \A i \in 1..(Len(u) + Len(v)) :
           (u \o v)[i] = IF i <= Len(u) THEN u[i] ELSE v[i - Len(u)]
  BY ConcatProperties, LenProperties
<1> QED
  BY <1>1

\* The list is the entries of target, as the entries before fill them.
Follows(list, before, target) ==
  /\ Len(list) = Len(before)
  /\ \A k \in 1..Len(before) : list[k] = EntryFromAPI(before[k], target[k])

\* When every entry of the answer belongs in a place of the list before, the
\* answer comes out in that order.
LEMMA FromAPIFollows ==
  ASSUME NEW S, NEW B, NEW before \in Seq(B),
         NEW R, \A o \in B, e \in S : EntryFromAPI(o, e) \in R, S \subseteq R,
         NEW answer \in Seq(S), NEW target, Fits(answer, target, S, before)
  PROVE  Follows(FromAPI(before, answer), before, target)
<1>0. /\ Len(before) \in Nat /\ NoRepeats(answer)
      /\ target \in [1..Len(before) -> S]
      /\ \A j, k \in 1..Len(before) : target[j] = target[k] => j = k
      /\ Elements(answer) = {target[k] : k \in 1..Len(before)}
      /\ \A n \in 1..Len(before) : Belongs(before[n], target, n, Len(before))
  BY LenProperties DEF Fits
<1> DEFINE L == Len(before)
<1>1. PICK list : /\ IsMerge(list, S, B, before, answer)
                  /\ FromAPI(before, answer) = MatchedThenRest(list[L])
  BY FromAPIMerges
<1> DEFINE Good == {n \in Nat : n <= L => HaveTaken(list[n], S, before, target, n)}
<1>2. 0 \in Good
  <2>1. /\ list[0].matched = <<>> /\ list[0].rest = answer
        /\ list[0].old = <<>> /\ <<>> \in Seq(S)
    BY <1>1, EmptySeq DEF IsMerge
  <2>2. HaveTaken(list[0], S, before, target, 0)
    BY <1>0, <2>1 DEF HaveTaken
  <2> QED
    BY <2>2
<1>3. ASSUME NEW n \in Nat, n \in Good
      PROVE  n + 1 \in Good
  <2> SUFFICES ASSUME n + 1 <= L
               PROVE  HaveTaken(list[n + 1], S, before, target, n + 1)
    OBVIOUS
  <2>1. /\ list[n] \in Merging(S, B)
        /\ list[n + 1] = Takes(list[n], before[n + 1])
    <3>1. n \in 0..L /\ n + 1 \in 1..L /\ (n + 1) - 1 = n
      BY <1>0
    <3> QED
      BY <1>1, <3>1 DEF IsMerge
  <2>2. HaveTaken(list[n], S, before, target, n)
    BY <1>0, <1>3
  <2>3. n + 1 <= Len(before)
    BY <1>0
  <2> QED
    BY <2>1, <2>2, <2>3, BelongingIsFound
<1>4. HaveTaken(list[L], S, before, target, L)
  <2> HIDE DEF Good
  <2>1. Nat \subseteq Good
    BY <1>2, <1>3, SetInduction
  <2>2. L \in Good
    BY <1>0, <2>1
  <2> QED
    BY <1>0, <2>2 DEF Good
<1> DEFINE x == list[L]
           f == Filled(x)
           v == x.rest
<1>5. x \in Merging(S, B)
  BY <1>0, <1>1 DEF IsMerge
<1>6. /\ v \in Seq(S) /\ Len(x.matched) = L /\ Len(x.old) = Len(x.matched)
      /\ \A i \in 1..L : x.matched[i] = target[i] /\ x.old[i] = before[i]
      /\ Elements(v) = {}
  BY <1>4 DEF HaveTaken
<1>7. Len(v) = 0 /\ v \in Seq(R)
  <2>1. Len(v) \in Nat /\ v \in [1..Len(v) -> S]
    BY <1>6, LenProperties
  <2>2. Len(v) >= 1 => v[1] \in Elements(v)
    BY <2>1 DEF Elements
  <2>3. v \in [1..Len(v) -> R]
    BY <2>1
  <2> QED
    BY <1>6, <2>1, <2>2, <2>3
<1>8. FromAPI(before, answer) = f \o v
  BY <1>1 DEF MatchedThenRest
<1>9. /\ f \in Seq(R) /\ Len(f) = L
      /\ \A k \in 1..L : f[k] = EntryFromAPI(before[k], target[k])
  <2>1. /\ f \in Seq(R) /\ Len(f) = Len(x.matched)
        /\ \A k \in 1..Len(x.matched) :
             f[k] = EntryFromAPI(x.old[k], x.matched[k])
    <3>1. x \in Merging(S, B) /\ Len(x.old) = Len(x.matched)
      BY <1>5, <1>6
    <3> HIDE DEF x
    <3> QED
      BY <3>1, FilledFrom
  <2> HIDE DEF x, f
  <2> QED
    BY <1>6, <2>1
<1> HIDE DEF x, f, v
<1>10. /\ Len(f \o v) = Len(f)
       /\ \A i \in 1..Len(f) : (f \o v)[i] = f[i]
  BY <1>7, <1>9, ConcatNothing
<1> QED
  BY <1>8, <1>9, <1>10 DEF Follows

----------------------------------------------------------------------------
(* The inductive invariant.                                                *)

IdsUnique(S) == \A d, e \in S : d.id = e.id => d = e

EntriesInv ==
  /\ IsFiniteSet(entries) /\ IsFiniteSet(shown)
  /\ IdsUnique(entries) /\ IdsUnique(shown)

\* A plan takes its ids from the state, and the service gave those, and its
\* contents from the configuration.
PlanIDs ==
  \A k \in 1..Len(plan) :
    plan[k].id \in ids \union {NoId} /\ plan[k].content \in Contents

\* new are the ids under which the service took the plan.
WrittenAs(new) ==
  /\ new \in [1..Len(plan) -> Ids]
  /\ \A j, k \in 1..Len(plan) : new[j] = new[k] => j = k
  /\ entries = {Entry(new[k], plan[k].content) : k \in 1..Len(plan)}
  /\ \A k \in 1..Len(plan) : Known(plan[k]) => new[k] = plan[k].id

WrittenInv == quiet => request = "read" /\ \E new : WrittenAs(new)

WebSecurityInv ==
  /\ WebSecurityTypeOK /\ EntriesInv /\ PlanIDs /\ StateShowsService
  /\ WrittenInv

----------------------------------------------------------------------------
(* The answers of the service.                                             *)

\* A list of all elements of a set that is no longer than the set has no
\* element twice.
LEMMA EnumerationHasNoRepeats ==
  ASSUME NEW S, IsFiniteSet(S), NEW s \in Seq(S),
         Elements(s) = S, Len(s) = Cardinality(S)
  PROVE  NoRepeats(s)
<1>1. Len(s) \in Nat /\ s \in [1..Len(s) -> S]
  BY LenProperties
<1>2. IsFiniteSet(1..Len(s)) /\ Cardinality(1..Len(s)) = Len(s)
  BY <1>1, FS_Interval
<1>3. s \in Surjection(1..Len(s), S)
  BY <1>1 DEF Surjection, Elements
<1>4. s \in Injection(1..Len(s), S)
  BY <1>2, <1>3, FS_SurjSameCardinalityImpliesInj
<1> QED
  BY <1>1, <1>4 DEF Injection, IsInjective, NoRepeats

LEMMA AnswerEnumerates ==
  ASSUME IsFiniteSet(entries), NEW answer \in Answers
  PROVE  /\ answer \in Seq(entries) /\ Len(answer) = Cardinality(entries)
         /\ Elements(answer) = entries /\ NoRepeats(answer)
<1>1. Cardinality(entries) \in Nat
  BY FS_CardinalityType
<1>2. answer \in [1..Cardinality(entries) -> entries] /\ Range(answer) = entries
  BY DEF Answers
<1>3. answer \in Seq(entries) /\ Len(answer) = Cardinality(entries)
  BY <1>1, <1>2
<1>4. Elements(answer) = entries
  BY <1>2, <1>3 DEF Range, Elements
<1> QED
  BY <1>3, <1>4, EnumerationHasNoRepeats

\* The entries that a list in the state or the plan may hold.
PlannedEntries ==
  [id : Ids \union {NoId}, content : {<<c[1], d[2]>> : c, d \in Contents}]

LEMMA PlannedListsAre == PlannedLists = Seq(PlannedEntries)
BY DEF PlannedLists, PlannedEntries

\* What an entry of the model fills in leaves an entry such a list may hold.
LEMMA FilledIn ==
  ASSUME WebSecurityTypeOK
  PROVE  /\ entries \subseteq PlannedEntries
         /\ \A o \in PlannedEntries, e \in entries :
              /\ EntryFromAPI(o, e) \in PlannedEntries
              /\ Shows(EntryFromAPI(o, e), e)
<1> DEFINE Both == {<<c[1], d[2]>> : c, d \in Contents}
<1>1. \A e \in entries : /\ e.id \in Ids \union {NoId} /\ e.content \in Contents
                         /\ e = [id |-> e.id, content |-> e.content]
  BY DEF WebSecurityTypeOK
<1>2. \A c \in Contents : c = <<c[1], c[2]>> /\ c \in Both
  BY WebSecurityAssumption
<1>3. entries \subseteq PlannedEntries
  BY <1>1, <1>2 DEF PlannedEntries
<1>4. ASSUME NEW o \in PlannedEntries, NEW e \in entries
      PROVE  /\ EntryFromAPI(o, e) \in PlannedEntries
             /\ Shows(EntryFromAPI(o, e), e)
  <2>1. PICK c \in Contents, d \in Contents : o.content = <<c[1], d[2]>>
    BY DEF PlannedEntries
  <2> DEFINE f == [id |-> e.id, content |-> <<e.content[1], o.content[2]>>]
  <2>2. CASE kind = "targets" /\ e.content[2] = NoComment
    <3>1. EntryFromAPI(o, e) = f
      BY <2>2 DEF EntryFromAPI, Entry
    <3>2. f.content \in Both
      BY <1>1, <2>1
    <3>3. f \in PlannedEntries
      BY <1>1, <3>2 DEF PlannedEntries
    <3>4. f.id = e.id /\ f.content[1] = e.content[1]
      OBVIOUS
    <3> HIDE DEF f
    <3>5. Shows(f, e)
      BY <2>2, <3>4 DEF Shows, Identity
    <3> QED
      BY <3>1, <3>3, <3>5
  <2>3. CASE ~(kind = "targets" /\ e.content[2] = NoComment)
    <3>1. EntryFromAPI(o, e) = e
      BY <2>3 DEF EntryFromAPI
    <3> QED
      BY <1>3, <3>1 DEF Shows
  <2> QED
    BY <2>2, <2>3
<1> QED
  BY <1>3, <1>4

\* The list is what the service shows in the entries S.
ListShows(list, S) ==
  /\ {list[k].id : k \in 1..Len(list)} = {e.id : e \in S}
  /\ \A k \in 1..Len(list) : \E e \in S : Shows(list[k], e)
  /\ Len(list) = Cardinality(S)

\* What a read makes of any list is what the service shows.
LEMMA ReadShows ==
  ASSUME WebSecurityTypeOK, IsFiniteSet(entries), NEW before \in PlannedLists,
         NEW answer \in Answers
  PROVE  /\ FromAPI(before, answer) \in PlannedLists
         /\ ListShows(FromAPI(before, answer), entries)
<1> DEFINE list == FromAPI(before, answer)
<1>1. /\ answer \in Seq(entries) /\ Len(answer) = Cardinality(entries)
      /\ Elements(answer) = entries
  BY AnswerEnumerates
<1>2. before \in Seq(PlannedEntries)
  BY DEF PlannedLists, PlannedEntries
<1>3. /\ entries \subseteq PlannedEntries
      /\ \A o \in PlannedEntries, e \in entries :
           EntryFromAPI(o, e) \in PlannedEntries /\ Shows(EntryFromAPI(o, e), e)
  BY FilledIn
<1>4. /\ list \in Seq(PlannedEntries)
      /\ Enumerates(list, entries, PlannedEntries, answer)
  BY <1>1, <1>2, <1>3, FromAPIKeeps
<1> HIDE DEF list
<1>5. PICK plain \in Seq(entries) :
        /\ Elements(plain) = entries
        /\ Len(plain) = Cardinality(entries) /\ Len(list) = Cardinality(entries)
        /\ \A k \in 1..Len(plain) :
             ComesFrom(list[k], PlannedEntries, plain[k])
  BY <1>1, <1>4 DEF Enumerates
<1>6. \A k \in 1..Len(list) : plain[k] \in entries /\ Shows(list[k], plain[k])
  <2> SUFFICES ASSUME NEW k \in 1..Len(list)
               PROVE  plain[k] \in entries /\ Shows(list[k], plain[k])
    OBVIOUS
  <2>1. plain[k] \in entries
    BY <1>5, ElementOfSeq
  <2>2. ComesFrom(list[k], PlannedEntries, plain[k])
    BY <1>5
  <2>3. CASE list[k] = plain[k]
    BY <2>1, <2>3 DEF Shows
  <2>4. CASE \E o \in PlannedEntries : list[k] = EntryFromAPI(o, plain[k])
    BY <1>3, <2>1, <2>4
  <2> QED
    BY <2>1, <2>2, <2>3, <2>4 DEF ComesFrom
<1>7. {list[k].id : k \in 1..Len(list)} = {e.id : e \in entries}
  <2>1. \A k \in 1..Len(list) : plain[k] \in entries /\ list[k].id = plain[k].id
    BY <1>6 DEF Shows
  <2>2. \A e \in entries : \E k \in 1..Len(list) : plain[k] = e
    BY <1>5 DEF Elements
  <2> QED
    BY <2>1, <2>2
<1>8. ListShows(list, entries)
  BY <1>5, <1>6, <1>7 DEF ListShows
<1>9. list \in PlannedLists
  BY <1>4 DEF PlannedLists, PlannedEntries
<1> QED
  BY <1>8, <1>9 DEF list

----------------------------------------------------------------------------
(* The invariant holds.                                                    *)

\* The entries of the service as the types have them.
LEMMA EntryFields ==
  ASSUME WebSecurityTypeOK
  PROVE  \A e \in entries \union shown :
           /\ e.id \in ids /\ e.id \in Ids /\ e.id # NoId
           /\ e.content \in Contents
           /\ e = Entry(e.id, e.content)
BY WebSecurityAssumption DEF WebSecurityTypeOK, Entry, NoId

\* Every place of the state shows an entry of its own.
ShowsEach(was) ==
  /\ was \in [1..Len(state) -> shown]
  /\ \A k \in 1..Len(state) : Shows(state[k], was[k])
  /\ \A j, k \in 1..Len(state) : was[j] = was[k] => j = k
  /\ \A e \in shown : \E k \in 1..Len(state) : was[k] = e

LEMMA StateEntries ==
  ASSUME WebSecurityInv
  PROVE  /\ Len(state) \in Nat
         /\ \E was : ShowsEach(was)
         /\ \A k \in 1..Len(state) : state[k].id \in ids
         /\ \A j, k \in 1..Len(state) : state[j].id = state[k].id => j = k
<1> DEFINE L == Len(state)
<1>0. L \in Nat
  BY PlannedListsAre, LenProperties DEF WebSecurityInv, WebSecurityTypeOK
<1>1. /\ L \in Nat /\ L = Cardinality(shown) /\ IsFiniteSet(shown)
      /\ {state[k].id : k \in 1..L} = {e.id : e \in shown}
      /\ \A k \in 1..L : \E e \in shown : Shows(state[k], e)
      /\ \A d, e \in shown : d.id = e.id => d = e
  BY <1>0 DEF WebSecurityInv, EntriesInv, IdsUnique, StateShowsService
<1> DEFINE Was(k) == CHOOSE e \in shown : Shows(state[k], e)
           was == [k \in 1..L |-> Was(k)]
<1>2. \A k \in 1..L : Was(k) \in shown /\ Shows(state[k], Was(k))
  BY <1>1
<1> HIDE DEF Was
<1>3. /\ was \in [1..L -> shown]
      /\ \A k \in 1..L : /\ was[k] \in shown /\ Shows(state[k], was[k])
                         /\ state[k].id = was[k].id
  BY <1>2 DEF Shows
<1> HIDE DEF was
<1>4. ASSUME NEW e \in shown
      PROVE  \E k \in 1..L : was[k] = e
  <2>1. PICK k \in 1..L : state[k].id = e.id
    BY <1>1
  <2> QED
    BY <1>1, <1>3, <2>1
<1>5. \A j, k \in 1..L : was[j] = was[k] => j = k
  <2>1. was \in Seq(shown) /\ Len(was) = L
    BY <1>1, <1>3
  <2>2. Elements(was) = shown
    BY <1>3, <1>4, <2>1 DEF Elements
  <2>3. NoRepeats(was)
    BY <1>1, <2>1, <2>2, EnumerationHasNoRepeats
  <2> QED
    BY <2>1, <2>3 DEF NoRepeats
<1>6. ShowsEach(was)
  BY <1>3, <1>4, <1>5 DEF ShowsEach
<1>7. \A j, k \in 1..L : state[j].id = state[k].id => j = k
  BY <1>1, <1>3, <1>5
<1>8. \A k \in 1..L : state[k].id \in ids
  BY <1>3, EntryFields DEF WebSecurityInv
<1> QED
  BY <1>1, <1>6, <1>7, <1>8

\* A plan names the id of the state at the same place, or none.
LEMMA PlannedIDs ==
  ASSUME WebSecurityInv, NEW n \in Nat, NEW config \in [1..n -> Contents]
  PROVE  /\ Planned(config) \in PlannedLists /\ Len(Planned(config)) = n
         /\ \A k \in 1..n : /\ Planned(config)[k].id \in ids \union {NoId}
                            /\ Planned(config)[k].content \in Contents
         /\ \A j, k \in 1..n :
              j # k /\ Planned(config)[j].id = Planned(config)[k].id
                => Planned(config)[j].id = NoId
<1> DEFINE id(k) == IF k <= Len(state) THEN state[k].id ELSE NoId
           p == [k \in 1..n |-> Entry(id(k), config[k])]
<1>1. Planned(config) = p
  <2>1. config \in Seq(Contents) /\ Len(config) = n
    OBVIOUS
  <2> QED
    BY <2>1 DEF Planned
<1>2. /\ Len(state) \in Nat
      /\ \A k \in 1..Len(state) : state[k].id \in ids /\ state[k].id \in Ids
      /\ \A j, k \in 1..Len(state) : state[j].id = state[k].id => j = k
  BY StateEntries DEF WebSecurityInv, WebSecurityTypeOK
<1>3. /\ \A k \in 1..n : id(k) \in ids \union {NoId} /\ id(k) \in Ids \union {NoId}
      /\ \A j, k \in 1..n : j # k /\ id(j) = id(k) => id(j) = NoId
  <2>1. NoId \notin ids
    BY WebSecurityAssumption DEF WebSecurityInv, WebSecurityTypeOK, NoId
  <2> QED
    BY <1>2, <2>1
<1> HIDE DEF id
<1>4. /\ \A k \in 1..n : p[k].id = id(k) /\ p[k].content \in Contents
      /\ p \in [1..n -> PlannedEntries]
  <2>1. \A c \in Contents : c = <<c[1], c[2]>>
    BY WebSecurityAssumption
  <2> QED
    BY <1>3, <2>1 DEF Entry, PlannedEntries
<1>5. p \in PlannedLists /\ Len(p) = n
  <2>1. p \in Seq(PlannedEntries) /\ Len(p) = n
    BY <1>4
  <2> QED
    BY <2>1, PlannedListsAre
<1> HIDE DEF p
<1> QED
  BY <1>1, <1>3, <1>4, <1>5

\* What the service stores: as many entries as it is sent, with new ids for
\* those that it did not have.
LEMMA StoresWrites ==
  ASSUME WebSecurityInv, Stores(plan)
  PROVE  /\ entries' \subseteq [id : ids', content : Contents]
         /\ ids \subseteq ids' /\ ids' \subseteq Ids
         /\ IsFiniteSet(entries') /\ IdsUnique(entries')
         /\ plan' = plan => \E new : WrittenAs(new)'
<1> DEFINE N == Len(plan)
<1>1. /\ N \in Nat
      /\ \A k \in 1..N : plan[k].content \in Contents
                         /\ plan[k].id \in ids \union {NoId}
  BY LenProperties DEF WebSecurityInv, WebSecurityTypeOK, PlannedLists, PlanIDs
<1>2. PICK new \in [1..N -> Ids] :
        /\ \A k \in 1..N : IF Known(plan[k]) THEN new[k] = plan[k].id
                                             ELSE new[k] \notin ids
        /\ IsInjective(new)
        /\ entries' = {Entry(new[k], plan[k].content) : k \in 1..N}
        /\ ids' = ids \union {new[k] : k \in 1..N}
  BY DEF Stores
<1>3. \A j, k \in 1..N : new[j] = new[k] => j = k
  BY <1>2 DEF IsInjective
<1>4. /\ entries' \subseteq [id : ids', content : Contents]
      /\ ids \subseteq ids' /\ ids' \subseteq Ids
  BY <1>1, <1>2 DEF Entry, WebSecurityInv, WebSecurityTypeOK
<1>5. IsFiniteSet(entries')
  <2>1. IsFiniteSet(1..N)
    BY <1>1, FS_Interval
  <2> DEFINE T == {Entry(new[k], plan[k].content) : k \in 1..N}
             f == [k \in 1..N |-> Entry(new[k], plan[k].content)]
  <2>2. f \in Surjection(1..N, T)
    BY DEF Surjection
  <2>3. IsFiniteSet(T)
    BY <2>1, <2>2, FS_Surjection
  <2> QED
    BY <1>2, <2>3
<1>6. IdsUnique(entries')
  BY <1>2, <1>3 DEF IdsUnique, Entry
<1>7. ASSUME plan' = plan, NEW k \in 1..N, Known(plan[k])'
      PROVE  new[k] = plan[k].id
  <2>1. PICK e \in entries' : e.id = plan[k].id
    BY <1>7 DEF Known
  <2>2. PICK j \in 1..N : e = Entry(new[j], plan[j].content)
    BY <1>2, <2>1
  <2>3. new[j] = plan[k].id
    BY <2>1, <2>2 DEF Entry
  <2>4. new[j] \in Ids /\ NoId \notin Ids
    BY WebSecurityAssumption DEF NoId
  <2>5. plan[k].id \in ids
    BY <1>1, <2>3, <2>4
  <2>6. Known(plan[j])
    BY <1>2, <2>3, <2>5
  <2>7. Known(plan[k])
    BY <1>2, <2>3, <2>6 DEF Known
  <2> QED
    BY <1>2, <2>7
<1>8. plan' = plan => WrittenAs(new)'
  BY <1>2, <1>3, <1>7 DEF WrittenAs
<1> QED
  BY <1>4, <1>5, <1>6, <1>8

\* Only a read changes what the state shows.
LEMMA ShownStays ==
  ASSUME StateShowsService, kind' = kind, state' = state, shown' = shown
  PROVE  StateShowsService'
BY DEF StateShowsService, Shows, Identity

\* One change by another administrator, whatever entries it leaves.
LEMMA ChangesKeepInv ==
  ASSUME WebSecurityInv, NEW S, ChangesEntries(S),
         S \subseteq [id : Ids, content : Contents],
         IsFiniteSet(S), IdsUnique(S)
  PROVE  WebSecurityInv'
<1>1. /\ changes < MaxChanges /\ changes' = changes + 1
      /\ entries' = S /\ ids' = ids \union {e.id : e \in S}
      /\ quiet' = FALSE
      /\ kind' = kind /\ state' = state /\ plan' = plan
      /\ request' = request /\ shown' = shown
  BY DEF ChangesEntries
<1>2. WebSecurityTypeOK'
  <2>1. S \subseteq [id : ids', content : Contents]
    BY <1>1
  <2>2. shown \subseteq [id : ids', content : Contents]
    BY <1>1 DEF WebSecurityInv, WebSecurityTypeOK
  <2>3. ids' \subseteq Ids
    BY <1>1 DEF WebSecurityInv, WebSecurityTypeOK
  <2>4. changes' \in 0..MaxChanges
    BY <1>1, WebSecurityAssumption DEF WebSecurityInv, WebSecurityTypeOK
  <2> QED
    BY <1>1, <2>1, <2>2, <2>3, <2>4 DEF WebSecurityInv, WebSecurityTypeOK
<1>3. EntriesInv'
  BY <1>1 DEF WebSecurityInv, EntriesInv, IdsUnique
<1>4. PlanIDs'
  BY <1>1 DEF WebSecurityInv, PlanIDs
<1>5. StateShowsService'
  BY <1>1, ShownStays DEF WebSecurityInv
<1>6. WrittenInv'
  BY <1>1 DEF WrittenInv
<1> QED
  BY <1>2, <1>3, <1>4, <1>5, <1>6 DEF WebSecurityInv

\* A read that leaves the plan or drops it.
LEMMA ReadKeepsInv ==
  ASSUME WebSecurityInv, NEW before \in PlannedLists, NEW answer \in Answers,
         state' = FromAPI(before, answer), shown' = entries,
         UNCHANGED <<kind, entries, ids, changes>>,
         plan' = plan \/ plan' = <<>>,
         request' = "idle", quiet' = FALSE
  PROVE  WebSecurityInv'
<1>2. IsFiniteSet(entries) /\ WebSecurityTypeOK
  BY DEF WebSecurityInv, EntriesInv
<1>5. state' \in PlannedLists /\ ListShows(state', entries)
  BY <1>2, ReadShows
<1>6. plan' \in PlannedLists
  <2>1. <<>> \in PlannedLists
    BY EmptySeq, PlannedListsAre
  <2>2. plan \in PlannedLists
    BY DEF WebSecurityInv, WebSecurityTypeOK
  <2> QED
    BY <2>1, <2>2
<1>7. \A j, k \in 1..Len(plan') :
        j # k /\ plan'[j].id = plan'[k].id => plan'[j].id = NoId
  <2>1. CASE plan' = plan
    BY <2>1 DEF WebSecurityInv, WebSecurityTypeOK
  <2>2. CASE plan' = <<>>
    BY <2>2
  <2> QED
    BY <2>1, <2>2
<1>8. WebSecurityTypeOK'
  BY <1>5, <1>6, <1>7 DEF WebSecurityInv, WebSecurityTypeOK
<1>9. EntriesInv'
  BY DEF WebSecurityInv, EntriesInv, IdsUnique
<1>10. PlanIDs'
  <2>1. CASE plan' = plan
    BY <2>1 DEF WebSecurityInv, PlanIDs
  <2>2. CASE plan' = <<>>
    BY <2>2 DEF PlanIDs
  <2> QED
    BY <2>1, <2>2
<1>11. StateShowsService'
  BY <1>5 DEF StateShowsService, ListShows, Shows, Identity
<1>12. WrittenInv'
  BY DEF WrittenInv
<1> QED
  BY <1>8, <1>9, <1>10, <1>11, <1>12 DEF WebSecurityInv

LEMMA WebSecurityInitInv == WebSecurityInit => WebSecurityInv
<1> SUFFICES ASSUME WebSecurityInit
             PROVE  WebSecurityInv
  OBVIOUS
<1>1. IsFiniteSet({}) /\ Cardinality({}) = 0
  BY FS_EmptySet
<1>2. <<>> \in PlannedLists /\ Len(<<>>) = 0
  BY EmptySeq DEF PlannedLists
<1>3. WebSecurityTypeOK
  <2>0. MaxChanges \in Nat
    BY WebSecurityAssumption
  <2>1. /\ kind \in {"targets", "actions"}
        /\ entries \union shown \subseteq [id : ids, content : Contents]
        /\ ids \subseteq Ids /\ changes \in 0..MaxChanges
        /\ state \in PlannedLists /\ plan \in PlannedLists
    BY <1>2, <2>0 DEF WebSecurityInit
  <2>3. request \in {"idle", "write", "read"} /\ quiet \in BOOLEAN
    BY DEF WebSecurityInit
  <2>2. 1..Len(plan) = {}
    BY <1>2 DEF WebSecurityInit
  <2> QED
    BY <2>1, <2>2, <2>3 DEF WebSecurityTypeOK
<1>4. EntriesInv /\ PlanIDs /\ WrittenInv
  BY <1>1, <1>2
     DEF WebSecurityInit, EntriesInv, IdsUnique, PlanIDs, WrittenInv
<1>5. StateShowsService
  <2>1. state = <<>> /\ shown = {} /\ 1..Len(state) = {}
    BY <1>2 DEF WebSecurityInit
  <2> QED
    BY <1>1, <1>2, <2>1 DEF StateShowsService
<1> QED
  BY <1>3, <1>4, <1>5 DEF WebSecurityInv

LEMMA WebSecurityNextInv ==
  WebSecurityInv /\ [WebSecurityNext]_webVars => WebSecurityInv'
<1> SUFFICES ASSUME WebSecurityInv, [WebSecurityNext]_webVars
             PROVE  WebSecurityInv'
  OBVIOUS
<1>0. /\ request # "read" => ~quiet
      /\ quiet \in BOOLEAN
      /\ state \in PlannedLists /\ plan \in PlannedLists
      /\ entries \subseteq [id : Ids, content : Contents]
      /\ IsFiniteSet(entries) /\ IdsUnique(entries)
  BY DEF WebSecurityInv, WrittenInv, WebSecurityTypeOK, EntriesInv
<1>1. CASE PlanApply
  <2>a. PICK n \in 0..MaxLength :
          \E config \in [1..n -> Contents] : plan' = Planned(config)
    BY <1>1 DEF PlanApply
  <2>1. PICK config \in [1..n -> Contents] : plan' = Planned(config)
    BY <2>a
  <2>2. /\ request = "idle" /\ request' = "write"
        /\ kind' = kind /\ entries' = entries /\ ids' = ids
        /\ changes' = changes /\ state' = state /\ shown' = shown
        /\ quiet' = quiet
    BY <1>1 DEF PlanApply
  <2>3. n \in Nat
    BY <2>1, WebSecurityAssumption
  <2>4. /\ plan' \in PlannedLists /\ Len(plan') = n
        /\ \A k \in 1..n : /\ plan'[k].id \in ids \union {NoId}
                           /\ plan'[k].content \in Contents
        /\ \A j, k \in 1..n :
             j # k /\ plan'[j].id = plan'[k].id => plan'[j].id = NoId
    BY <2>1, <2>3, PlannedIDs
  <2>5. WebSecurityTypeOK'
    BY <2>2, <2>4 DEF WebSecurityInv, WebSecurityTypeOK
  <2>6. EntriesInv' /\ StateShowsService'
    BY <2>2, ShownStays DEF WebSecurityInv, EntriesInv, IdsUnique
  <2>7. PlanIDs'
    BY <2>2, <2>4 DEF PlanIDs
  <2>8. WrittenInv'
    BY <1>0, <2>2 DEF WrittenInv
  <2> QED
    BY <2>5, <2>6, <2>7, <2>8 DEF WebSecurityInv
<1>2. CASE UpdateWebSecurityURLPolicy
  <2>1. /\ Stores(plan) /\ quiet' = TRUE /\ request' = "read"
        /\ kind' = kind /\ changes' = changes /\ state' = state
        /\ plan' = plan /\ shown' = shown
    BY <1>2 DEF UpdateWebSecurityURLPolicy
  <2>2. /\ entries' \subseteq [id : ids', content : Contents]
        /\ ids \subseteq ids' /\ ids' \subseteq Ids
        /\ IsFiniteSet(entries') /\ IdsUnique(entries')
        /\ \E new : WrittenAs(new)'
    BY <2>1, StoresWrites
  <2>3. WebSecurityTypeOK'
    BY <2>1, <2>2 DEF WebSecurityInv, WebSecurityTypeOK
  <2>4. EntriesInv' /\ StateShowsService'
    BY <2>1, <2>2, ShownStays DEF WebSecurityInv, EntriesInv, IdsUnique
  <2>5. PlanIDs'
    BY <2>1, <2>2 DEF WebSecurityInv, PlanIDs
  <2>6. WrittenInv'
    BY <2>1, <2>2 DEF WrittenInv
  <2> QED
    BY <2>3, <2>4, <2>5, <2>6 DEF WebSecurityInv
<1>3. CASE ReadBack
  <2>1. PICK answer \in Answers : state' = FromAPI(plan, answer)
    BY <1>3 DEF ReadBack
  <2>2. /\ shown' = entries /\ UNCHANGED <<kind, entries, ids, changes>>
        /\ plan' = <<>> /\ request' = "idle" /\ quiet' = FALSE
    BY <1>3 DEF ReadBack
  <2> QED
    BY <1>0, <2>1, <2>2, ReadKeepsInv
<1>4. CASE Refresh
  <2>1. PICK answer \in Answers : state' = FromAPI(state, answer)
    BY <1>4 DEF Refresh
  <2>2. /\ shown' = entries /\ UNCHANGED <<kind, entries, ids, changes>>
        /\ plan' = plan /\ request' = "idle" /\ quiet' = quiet
        /\ request = "idle"
    BY <1>4 DEF Refresh
  <2>3. quiet' = FALSE
    BY <1>0, <2>2
  <2> QED
    BY <1>0, <2>1, <2>2, <2>3, ReadKeepsInv
<1>5. CASE RequestFails
  <2>1. /\ request' = "idle" /\ plan' = <<>> /\ quiet' = FALSE
        /\ kind' = kind /\ changes' = changes /\ state' = state
        /\ shown' = shown
        /\ Stores(plan) \/ (entries' = entries /\ ids' = ids)
    BY <1>5 DEF RequestFails
  <2>2. /\ entries' \subseteq [id : ids', content : Contents]
        /\ ids \subseteq ids' /\ ids' \subseteq Ids
        /\ IsFiniteSet(entries') /\ IdsUnique(entries')
    <3>1. CASE Stores(plan)
      BY <3>1, StoresWrites
    <3>2. CASE entries' = entries /\ ids' = ids
      BY <3>2, <1>0 DEF WebSecurityInv, WebSecurityTypeOK, IdsUnique
    <3> QED
      BY <2>1, <3>1, <3>2
  <2>3. <<>> \in PlannedLists /\ Len(<<>>) = 0
    BY EmptySeq DEF PlannedLists
  <2>4. WebSecurityTypeOK'
    <3>1. /\ kind' \in {"targets", "actions"}
          /\ entries' \union shown' \subseteq [id : ids', content : Contents]
          /\ ids' \subseteq Ids /\ changes' \in 0..MaxChanges
          /\ state' \in PlannedLists /\ plan' \in PlannedLists
      BY <2>1, <2>2, <2>3 DEF WebSecurityInv, WebSecurityTypeOK
    <3>2. request' \in {"idle", "write", "read"} /\ quiet' \in BOOLEAN
      BY <2>1
    <3>3. 1..Len(plan') = {}
      BY <2>1, <2>3
    <3> QED
      BY <3>1, <3>2, <3>3 DEF WebSecurityTypeOK
  <2>5. EntriesInv' /\ StateShowsService'
    BY <2>1, <2>2, ShownStays DEF WebSecurityInv, EntriesInv, IdsUnique
  <2>6. PlanIDs' /\ WrittenInv'
    BY <2>1, <2>3 DEF PlanIDs, WrittenInv
  <2> QED
    BY <2>4, <2>5, <2>6 DEF WebSecurityInv
<1>6. CASE AddsEntry
  <2>1. PICK i \in Ids \ ids, c \in Contents :
          ChangesEntries(entries \union {Entry(i, c)})
    BY <1>6 DEF AddsEntry
  <2> DEFINE S == entries \union {Entry(i, c)}
  <2>2. IsFiniteSet(S)
    BY <1>0, FS_AddElement
  <2>3. S \subseteq [id : Ids, content : Contents] /\ IdsUnique(S)
    BY <1>0 DEF Entry, IdsUnique, WebSecurityInv, WebSecurityTypeOK
  <2> QED
    BY <2>1, <2>2, <2>3, ChangesKeepInv
<1>7. CASE RemovesEntry
  <2>1. PICK e \in entries : ChangesEntries(entries \ {e})
    BY <1>7 DEF RemovesEntry
  <2>2. IsFiniteSet(entries \ {e})
    BY <1>0, FS_RemoveElement
  <2>3. /\ entries \ {e} \subseteq [id : Ids, content : Contents]
        /\ IdsUnique(entries \ {e})
    BY <1>0 DEF IdsUnique
  <2> QED
    BY <2>1, <2>2, <2>3, ChangesKeepInv
<1>8. CASE EditsEntry
  <2>1. PICK e \in entries, c \in Contents :
          ChangesEntries((entries \ {e}) \union {Entry(e.id, c)})
    BY <1>8 DEF EditsEntry
  <2> DEFINE S == (entries \ {e}) \union {Entry(e.id, c)}
  <2>2. IsFiniteSet(S)
    BY <1>0, FS_RemoveElement, FS_AddElement
  <2>3. S \subseteq [id : Ids, content : Contents] /\ IdsUnique(S)
    BY <1>0 DEF Entry, IdsUnique
  <2> QED
    BY <2>1, <2>2, <2>3, ChangesKeepInv
<1>9. CASE RenumbersEntry
  <2>1. PICK e \in entries, i \in Ids \ ids :
          ChangesEntries((entries \ {e}) \union {Entry(i, e.content)})
    BY <1>9 DEF RenumbersEntry
  <2> DEFINE S == (entries \ {e}) \union {Entry(i, e.content)}
  <2>2. IsFiniteSet(S)
    BY <1>0, FS_RemoveElement, FS_AddElement
  <2>3. S \subseteq [id : Ids, content : Contents] /\ IdsUnique(S)
    BY <1>0 DEF Entry, IdsUnique, WebSecurityInv, WebSecurityTypeOK
  <2> QED
    BY <2>1, <2>2, <2>3, ChangesKeepInv
<1>10. CASE UNCHANGED webVars
  <2>1. /\ kind' = kind /\ entries' = entries /\ ids' = ids
        /\ changes' = changes /\ state' = state /\ plan' = plan
        /\ request' = request /\ shown' = shown /\ quiet' = quiet
    BY <1>10 DEF webVars
  <2>2. WebSecurityTypeOK'
    BY <2>1 DEF WebSecurityInv, WebSecurityTypeOK
  <2>3. EntriesInv' /\ StateShowsService' /\ PlanIDs'
    BY <2>1, ShownStays DEF WebSecurityInv, EntriesInv, IdsUnique, PlanIDs
  <2>4. WrittenInv'
    BY <2>1 DEF WebSecurityInv, WrittenInv, WrittenAs, Known
  <2> QED
    BY <2>2, <2>3, <2>4 DEF WebSecurityInv
<1> QED
  BY <1>1, <1>2, <1>3, <1>4, <1>5, <1>6, <1>7, <1>8, <1>9, <1>10
     DEF WebSecurityNext

\* The inductive invariant holds.
THEOREM WebSecurityInvariant == WebSecuritySpec => []WebSecurityInv
<1> QED
  BY WebSecurityInitInv, WebSecurityNextInv, PTL DEF WebSecuritySpec

\* The types, and that a request never names one id twice.
\* (idAttr provider/helpers.go:32)
THEOREM WebSecurityTypes == WebSecuritySpec => []WebSecurityTypeOK
<1>1. WebSecurityInv => WebSecurityTypeOK
  BY DEF WebSecurityInv
<1> QED
  BY <1>1, WebSecurityInvariant, PTL

\* A read loses no entry of the service and takes none twice; only the comment
\* of a target may be one that the service no longer has.
\* (fromAPI provider/legacy_resources.go:775-813, comment :370-373)
THEOREM StateIsWhatServiceShowed == WebSecuritySpec => []StateShowsService
<1>1. WebSecurityInv => StateShowsService
  BY DEF WebSecurityInv
<1> QED
  BY <1>1, WebSecurityInvariant, PTL

----------------------------------------------------------------------------
(* The order of a list.                                                    *)

\* The lists that reads make are sequences of the service's entries.
LEMMA ReadFollows ==
  ASSUME WebSecurityInv, NEW before \in PlannedLists, NEW answer \in Answers,
         NEW target \in [1..Len(before) -> entries],
         \A j, k \in 1..Len(before) : target[j] = target[k] => j = k,
         \A e \in entries : \E k \in 1..Len(before) : target[k] = e,
         \A n \in 1..Len(before) : Belongs(before[n], target, n, Len(before))
  PROVE  Follows(FromAPI(before, answer), before, target)
<1>1. before \in Seq(PlannedEntries)
  BY DEF PlannedLists, PlannedEntries
<1>2. IsFiniteSet(entries) /\ WebSecurityTypeOK
  BY DEF WebSecurityInv, EntriesInv
<1>3. /\ answer \in Seq(entries) /\ NoRepeats(answer)
      /\ Elements(answer) = entries
  BY <1>2, AnswerEnumerates
<1>4. entries = {target[k] : k \in 1..Len(before)}
  OBVIOUS
<1>5. /\ entries \subseteq PlannedEntries
      /\ \A o \in PlannedEntries, e \in entries :
           EntryFromAPI(o, e) \in PlannedEntries
  BY <1>2, FilledIn
<1>6. Fits(answer, target, entries, before)
  BY <1>3, <1>4 DEF Fits
<1> QED
  BY <1>1, <1>3, <1>5, <1>6, FromAPIFollows

LEMMA StateInList ==
  ASSUME WebSecurityInv
  PROVE  /\ state \in PlannedLists /\ Len(state) \in Nat
         /\ \A k \in 1..Len(state) : state[k] \in PlannedEntries
<1>1. state \in Seq(PlannedEntries)
  BY PlannedListsAre DEF WebSecurityInv, WebSecurityTypeOK
<1> QED
  BY <1>1, PlannedListsAre, LenProperties, ElementOfSeq

\* An entry that the answer has as the model does is not changed by it.
LEMMA FilledAsBefore ==
  ASSUME NEW o, NEW e, o.content = e.content, e.content = <<e.content[1], e.content[2]>>
  PROVE  EntryFromAPI(o, e).content = e.content /\ EntryFromAPI(o, e).id = e.id
BY DEF EntryFromAPI, Entry

\* Nor is one whose entry shows it, or showed one with the same content.
LEMMA FilledAsShown ==
  ASSUME NEW s \in PlannedEntries, NEW w, NEW e, Shows(s, w),
         e.content = w.content
  PROVE  EntryFromAPI(s, e).content = s.content /\ EntryFromAPI(s, e).id = e.id
<1>1. s.content = <<s.content[1], s.content[2]>>
  BY DEF PlannedEntries
<1>2. Identity(s) = Identity(w)
      /\ (s.content = w.content \/ (kind = "targets" /\ w.content[2] = NoComment))
  BY DEF Shows
<1>3. CASE kind = "targets" /\ e.content[2] = NoComment
  <2>1. EntryFromAPI(s, e) = [id |-> e.id,
                              content |-> <<e.content[1], s.content[2]>>]
    BY <1>3 DEF EntryFromAPI, Entry
  <2>2. s.content[1] = e.content[1]
    BY <1>2, <1>3 DEF Identity
  <2> QED
    BY <1>1, <2>1, <2>2
<1>4. CASE ~(kind = "targets" /\ e.content[2] = NoComment)
  BY <1>2, <1>4 DEF EntryFromAPI
<1> QED
  BY <1>3, <1>4

LEMMA IdentityOfContent ==
  ASSUME NEW d, NEW e, d.content = e.content
  PROVE  Identity(d) = Identity(e)
BY DEF Identity

\* What the service took from the plan belongs in the plan's places.
LEMMA WrittenFollows ==
  ASSUME WebSecurityInv, quiet, Distinct(plan), NEW answer \in Answers
  PROVE  /\ Len(FromAPI(plan, answer)) = Len(plan)
         /\ \A k \in 1..Len(plan) :
              /\ FromAPI(plan, answer)[k].content = plan[k].content
              /\ Known(plan[k]) => FromAPI(plan, answer)[k].id = plan[k].id
<1>1. PICK new : WrittenAs(new)
  BY DEF WebSecurityInv, WrittenInv
<1> DEFINE L == Len(plan)
           target == [k \in 1..L |-> Entry(new[k], plan[k].content)]
<1>2. /\ new \in [1..L -> Ids]
      /\ \A j, k \in 1..L : new[j] = new[k] => j = k
      /\ entries = {Entry(new[k], plan[k].content) : k \in 1..L}
      /\ \A k \in 1..L : Known(plan[k]) => new[k] = plan[k].id
  BY <1>1 DEF WrittenAs
<1>3. \A k \in 1..L : /\ target[k] \in entries
                      /\ target[k].id = new[k]
                      /\ target[k].content = plan[k].content
  BY <1>2 DEF Entry
<1>4. \A e \in entries : \E k \in 1..L : target[k] = e
  BY <1>2
<1>5. target \in [1..L -> entries]
  BY <1>3
<1> HIDE DEF target
<1>6. ASSUME NEW n \in 1..L
      PROVE  Belongs(plan[n], target, n, L)
  <2>1. ASSUME NEW j \in n..L, target[j].id = plan[n].id
        PROVE  j = n
    <3>1. j \in 1..L
      OBVIOUS
    <3>2. Known(plan[n])
      BY <1>3, <2>1, <3>1 DEF Known
    <3>3. new[j] = new[n]
      BY <1>2, <1>3, <2>1, <3>1, <3>2
    <3> QED
      BY <1>2, <3>1, <3>3
  <2>2. ASSUME NEW j \in n..L
        PROVE  Identity(target[j]) = Identity(plan[n]) <=> j = n
    <3>1. j \in 1..L
      OBVIOUS
    <3>2. Identity(target[j]) = Identity(plan[j])
      BY <1>3, <3>1, IdentityOfContent
    <3> QED
      BY <3>1, <3>2 DEF Distinct
  <2> QED
    BY <2>1, <2>2 DEF Belongs
<1>7. \A j, k \in 1..L : target[j] = target[k] => j = k
  BY <1>2, <1>3
<1>8. plan \in PlannedLists
  BY DEF WebSecurityInv, WebSecurityTypeOK
<1>9. /\ Len(FromAPI(plan, answer)) = L
      /\ \A k \in 1..L :
           FromAPI(plan, answer)[k] = EntryFromAPI(plan[k], target[k])
  BY <1>4, <1>5, <1>6, <1>7, <1>8, ReadFollows DEF Follows
<1>10. \A k \in 1..L : plan[k].content = <<plan[k].content[1], plan[k].content[2]>>
  BY WebSecurityAssumption DEF WebSecurityInv, PlanIDs
<1>11. \A k \in 1..L :
         /\ EntryFromAPI(plan[k], target[k]).content = plan[k].content
         /\ EntryFromAPI(plan[k], target[k]).id = new[k]
  BY <1>3, <1>10, FilledAsBefore
<1> QED
  BY <1>2, <1>9, <1>11

\* A read of what the state holds changes nothing.
LEMMA SameFollows ==
  ASSUME WebSecurityInv, entries = shown, NEW answer \in Answers
  PROVE  FromAPI(state, answer) = state
<1> DEFINE L == Len(state)
           list == FromAPI(state, answer)
<1>1. PICK was : ShowsEach(was)
  BY StateEntries
<1>2. /\ was \in [1..L -> entries]
      /\ \A k \in 1..L : was[k] \in entries /\ Shows(state[k], was[k])
      /\ \A k \in 1..L : /\ state[k].id = was[k].id
                         /\ Identity(state[k]) = Identity(was[k])
      /\ \A j, k \in 1..L : was[j] = was[k] => j = k
      /\ \A e \in entries : \E k \in 1..L : was[k] = e
  BY <1>1 DEF ShowsEach, Shows
<1>3. /\ state \in PlannedLists /\ L \in Nat
      /\ \A k \in 1..L : state[k] \in PlannedEntries
  BY StateInList
<1>4. \A d, e \in entries : d.id = e.id => d = e
  BY DEF WebSecurityInv, EntriesInv, IdsUnique
<1>5. \A e \in entries : e.id # NoId
  BY EntryFields DEF WebSecurityInv
<1>6. \A n \in 1..L : Belongs(state[n], was, n, L)
  BY <1>2, <1>3, <1>4, <1>5 DEF Belongs
<1>7. /\ Len(list) = L
      /\ \A k \in 1..L : list[k] = EntryFromAPI(state[k], was[k])
  BY <1>2, <1>3, <1>6, ReadFollows DEF Follows
<1>8. list \in PlannedLists
  <2>1. IsFiniteSet(entries) /\ WebSecurityTypeOK
    BY DEF WebSecurityInv, EntriesInv
  <2> QED
    BY <1>3, <2>1, ReadShows
<1> HIDE DEF list
<1>9. ASSUME NEW k \in 1..L
      PROVE  list[k] = state[k]
  <2>1. list[k].content = state[k].content /\ list[k].id = state[k].id
    BY <1>2, <1>3, <1>7, FilledAsShown
  <2>2. list[k] \in PlannedEntries
    <3>1. list \in Seq(PlannedEntries) /\ k \in 1..Len(list)
      BY <1>7, <1>8, PlannedListsAre
    <3> QED
      BY <3>1, ElementOfSeq
  <2>3. state[k] \in PlannedEntries
    BY <1>3
  <2> QED
    BY <2>1, <2>2, <2>3 DEF PlannedEntries
<1>10. list = state
  <2>1. list \in Seq(PlannedEntries) /\ state \in Seq(PlannedEntries)
    BY <1>3, <1>8, PlannedListsAre
  <2> QED
    BY <1>7, <1>9, <2>1, SeqEqual
<1> QED
  BY <1>10 DEF list

\* When only ids have changed, every content is still there once.
LEMMA RenumberedOnce ==
  ASSUME WebSecurityInv, OnlyRenumbered, Distinct(state)
  PROVE  \A d, e \in entries : d.content = e.content => d = e
<1> DEFINE C == {e.content : e \in shown}
           f == [e \in shown |-> e.content]
           g == [e \in entries |-> e.content]
<1>1. /\ IsFiniteSet(entries) /\ IsFiniteSet(shown)
      /\ C = {e.content : e \in entries}
      /\ Cardinality(entries) = Cardinality(shown)
  BY DEF WebSecurityInv, EntriesInv, OnlyRenumbered
<1>2. f \in Surjection(shown, C)
  BY DEF Surjection
<1>3. g \in Surjection(entries, C)
  BY <1>1 DEF Surjection
<1>4. \A d, e \in shown : d.content = e.content => d = e
  <2> SUFFICES ASSUME NEW d \in shown, NEW e \in shown, d.content = e.content
               PROVE  d = e
    OBVIOUS
  <2>0. PICK was : ShowsEach(was)
    BY StateEntries
  <2>1. PICK j \in 1..Len(state) : was[j] = d
    BY <2>0 DEF ShowsEach
  <2>2. PICK k \in 1..Len(state) : was[k] = e
    BY <2>0 DEF ShowsEach
  <2>3. Identity(state[j]) = Identity(state[k])
    <3>1. Identity(state[j]) = Identity(d) /\ Identity(state[k]) = Identity(e)
      BY <2>0, <2>1, <2>2 DEF ShowsEach, Shows
    <3> QED
      BY <3>1, IdentityOfContent
  <2> QED
    BY <2>1, <2>2, <2>3 DEF Distinct
<1>5. f \in Injection(shown, C)
  BY <1>2, <1>4 DEF Surjection, Injection, IsInjective
<1>6. Cardinality(C) = Cardinality(shown)
  <2> HIDE DEF C, f
  <2> QED
    BY <1>1, <1>2, <1>5, FS_Surjection
<1>7. g \in Injection(entries, C)
  <2> HIDE DEF C, g
  <2> QED
    BY <1>1, <1>3, <1>6, FS_SurjSameCardinalityImpliesInj
<1> QED
  BY <1>7 DEF Injection, IsInjective

\* Then a read keeps the order of the list.
LEMMA RenumberedFollows ==
  ASSUME WebSecurityInv, OnlyRenumbered, Distinct(state), NEW answer \in Answers
  PROVE  /\ Len(FromAPI(state, answer)) = Len(state)
         /\ \A k \in 1..Len(state) :
              FromAPI(state, answer)[k].content = state[k].content
<1> DEFINE L == Len(state)
<1>0. PICK was : ShowsEach(was)
  BY StateEntries
<1> DEFINE Now(k) == CHOOSE e \in entries : e.content = was[k].content
           target == [k \in 1..L |-> Now(k)]
<1>1. /\ L \in Nat /\ state \in PlannedLists
      /\ \A k \in 1..L : state[k] \in PlannedEntries
      /\ \A k \in 1..L : was[k] \in shown /\ Shows(state[k], was[k])
      /\ \A k \in 1..L : /\ state[k].id = was[k].id
                         /\ Identity(state[k]) = Identity(was[k])
      /\ \A e \in shown : \E k \in 1..L : was[k] = e
  <2>1. /\ \A k \in 1..L : was[k] \in shown /\ Shows(state[k], was[k])
        /\ \A e \in shown : \E k \in 1..L : was[k] = e
    BY <1>0 DEF ShowsEach
  <2>2. \A k \in 1..L : /\ state[k].id = was[k].id
                        /\ Identity(state[k]) = Identity(was[k])
    BY <2>1 DEF Shows
  <2> QED
    BY <2>1, <2>2, StateInList
<1>2. \A k \in 1..L : Now(k) \in entries /\ Now(k).content = was[k].content
  <2> SUFFICES ASSUME NEW k \in 1..L
               PROVE  Now(k) \in entries /\ Now(k).content = was[k].content
    OBVIOUS
  <2>1. was[k].content \in {e.content : e \in entries}
    BY <1>1 DEF OnlyRenumbered
  <2>2. \E e \in entries : e.content = was[k].content
    BY <2>1
  <2> QED
    BY <2>2
<1> HIDE DEF Now
<1>3. \A k \in 1..L : /\ target[k] \in entries
                      /\ target[k].content = was[k].content
  BY <1>2
<1>4. target \in [1..L -> entries]
  BY <1>2
<1> HIDE DEF target
<1>a. \A k \in 1..L : Identity(target[k]) = Identity(state[k])
  BY <1>1, <1>3, IdentityOfContent
<1>5. \A j, k \in 1..L : was[j].content = was[k].content => j = k
  BY <1>1, IdentityOfContent DEF Distinct
<1>6. \A j, k \in 1..L : target[j] = target[k] => j = k
  BY <1>3, <1>5
<1>7. ASSUME NEW e \in entries
      PROVE  \E k \in 1..L : target[k] = e
  <2>1. PICK d \in shown : d.content = e.content
    <3>1. e.content \in {d.content : d \in shown}
      BY DEF OnlyRenumbered
    <3> QED
      BY <3>1
  <2>2. PICK k \in 1..L : was[k] = d
    BY <1>1
  <2>3. target[k] = e
    BY <1>3, <2>1, <2>2, RenumberedOnce
  <2> QED
    BY <2>3
<1>8. ASSUME NEW n \in 1..L
      PROVE  Belongs(state[n], target, n, L)
  <2>1. ASSUME NEW j \in n..L, target[j].id = state[n].id
        PROVE  j = n
    <3>1. j \in 1..L
      BY <1>1
    <3>2. target[j] = was[n]
      BY <1>1, <1>3, <2>1, <3>1 DEF OnlyRenumbered
    <3> QED
      BY <1>3, <1>5, <3>1, <3>2
  <2>2. ASSUME NEW j \in n..L
        PROVE  Identity(target[j]) = Identity(state[n]) <=> j = n
    <3>1. j \in 1..L
      BY <1>1
    <3>2. Identity(target[j]) = Identity(state[j])
      BY <1>a, <3>1
    <3> QED
      BY <3>1, <3>2 DEF Distinct
  <2> QED
    BY <2>1, <2>2 DEF Belongs
<1>9. /\ Len(FromAPI(state, answer)) = L
      /\ \A k \in 1..L :
           FromAPI(state, answer)[k] = EntryFromAPI(state[k], target[k])
  BY <1>1, <1>4, <1>6, <1>7, <1>8, ReadFollows DEF Follows
<1>10. ASSUME NEW k \in 1..L
       PROVE  EntryFromAPI(state[k], target[k]).content = state[k].content
  BY <1>1, <1>3, FilledAsShown
<1> QED
  BY <1>9, <1>10

\* An undisturbed apply ends with the contents and the ids it planned, in
\* their order.
\* (idAttr provider/helpers.go:32, fromAPI provider/legacy_resources.go:775-813)
THEOREM ApplyIsAsPlanned == WebSecuritySpec => ApplyAsPlanned
<1>1. ASSUME WebSecurityInv, ReadBack, quiet, Distinct(plan)
      PROVE  /\ ContentsOf(state') = ContentsOf(plan)
             /\ \A k \in 1..Len(plan) :
                  Known(plan[k]) => state'[k].id = plan[k].id
  <2>1. PICK answer \in Answers : state' = FromAPI(plan, answer)
    BY <1>1 DEF ReadBack
  <2>2. /\ Len(state') = Len(plan)
        /\ \A k \in 1..Len(plan) :
             /\ state'[k].content = plan[k].content
             /\ Known(plan[k]) => state'[k].id = plan[k].id
    BY <1>1, <2>1, WrittenFollows
  <2> QED
    BY <2>2 DEF ContentsOf
<1>2. WebSecurityInv =>
        (ReadBack /\ quiet /\ Distinct(plan) =>
           /\ ContentsOf(state') = ContentsOf(plan)
           /\ \A k \in 1..Len(plan) :
                Known(plan[k]) => state'[k].id = plan[k].id)
  BY <1>1
<1> QED
  BY <1>2, WebSecurityInvariant, PTL DEF ApplyAsPlanned, WebSecuritySpec

\* A refresh changes nothing when nothing changed, and keeps the order of the
\* configuration when the service has only given new ids.
\* (fromAPI provider/legacy_resources.go:775-813)
THEOREM RefreshIsInOrder == WebSecuritySpec => RefreshKeepsOrder
<1>1. ASSUME WebSecurityInv, Refresh
      PROVE  /\ entries = shown => state' = state
             /\ OnlyRenumbered /\ Distinct(state) =>
                  ContentsOf(state') = ContentsOf(state)
  <2>1. PICK answer \in Answers : state' = FromAPI(state, answer)
    BY <1>1 DEF Refresh
  <2>2. entries = shown => state' = state
    BY <1>1, <2>1, SameFollows
  <2>3. ASSUME OnlyRenumbered, Distinct(state)
        PROVE  ContentsOf(state') = ContentsOf(state)
    <3>1. /\ Len(state') = Len(state)
          /\ \A k \in 1..Len(state) : state'[k].content = state[k].content
      BY <1>1, <2>1, <2>3, RenumberedFollows
    <3> QED
      BY <3>1 DEF ContentsOf
  <2> QED
    BY <2>2, <2>3
<1>2. WebSecurityInv =>
        (Refresh =>
           /\ entries = shown => state' = state
           /\ OnlyRenumbered /\ Distinct(state) =>
                ContentsOf(state') = ContentsOf(state))
  BY <1>1
<1> QED
  BY <1>2, WebSecurityInvariant, PTL DEF RefreshKeepsOrder, WebSecuritySpec

----------------------------------------------------------------------------
(* Both parts.                                                             *)

LEMMA LegacyStep ==
  [LegacyNext]_<<altVars, webVars, part>>
    => [FoldersNext]_altVars /\ [WebSecurityNext]_webVars
BY DEF LegacyNext

\* A behaviour of both parts is a behaviour of each: the other one's steps
\* leave it alone.
THEOREM LegacyParts == LegacySpec => FoldersSpec /\ WebSecuritySpec
<1>1. LegacyInit => FoldersInit /\ WebSecurityInit
  BY DEF LegacyInit
<1> QED
  BY <1>1, LegacyStep, PTL DEF LegacySpec, FoldersSpec, WebSecuritySpec

\* The types of both parts, and that no request names one id twice.
\* (idAttr provider/helpers.go:32)
THEOREM LegacyTypes == LegacySpec => []LegacyTypeOK
<1>1. FoldersTypeOK /\ WebSecurityTypeOK => LegacyTypeOK
  BY DEF LegacyTypeOK
<1> QED
  BY <1>1, LegacyParts, FoldersTypes, WebSecurityTypes, PTL

=============================================================================
