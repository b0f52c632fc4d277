--------------------------- MODULE ManagedURLProofs ---------------------------
(***************************************************************************)
(* Theorems about ManagedURLInventory and ManagedURLResource, for any      *)
(* goroutines, resources, ids and bodies.  InventoryInv is inductive, so   *)
(* the snapshot is current and every list reflects the acknowledged        *)
(* changes.  ResourceInv is, so nothing is orphaned in silence but by a    *)
(* 404 of the token endpoint, no resource deletes what is not its own, and *)
(* a refresh tells the truth.                                              *)
(* The resource implements StateContract.                                  *)
(***************************************************************************)
EXTENDS ManagedURLResource, TLAPS

----------------------------------------------------------------------------
(* ManagedURLInventory.                                                    *)

\* The steps a provider can make the client take, the filtered list included.
ClientNext ==
  \/ InventoryNext
  \/ \E a \in Actors, b \in Bodies : StartFilter(a, b)
  \/ \E a \in Actors : FilterAnswers(a)

\* InventoryInv holds of a fresh client.
LEMMA InitInventoryInv == InventoryInit => InventoryInv
  <1> SUFFICES ASSUME InventoryInit PROVE InventoryInv
    OBVIOUS
  <1> USE InventoryAssumption DEF InventoryInit, Nothing, Listing
  <1>1. InventoryTypeOK
    BY DEF InventoryTypeOK, PC
  <1>2. MuInv /\ CallInv
    BY DEF MuInv, CallInv, CallOf
  <1>3. PagesCurrent /\ SnapshotCurrent
    BY DEF PagesCurrent, SnapshotCurrent
  <1>4. CreatedInv /\ DeletedInv /\ PromiseInv
    BY DEF CreatedInv, DeletedInv, PromiseInv
  <1>5. ListsReflectAcknowledged
    BY DEF ListsReflectAcknowledged
  <1> QED
    BY <1>1, <1>2, <1>3, <1>4, <1>5 DEF InventoryInv

\* No step of a client or of the service leaves the types.
LEMMA InventoryTypeStep ==
  ASSUME InventoryTypeOK, CallInv,
         [ClientNext]_inventoryVars
  PROVE  InventoryTypeOK'
  <1> USE InventoryAssumption DEF InventoryTypeOK, CallInv, CallOf, PC, Listing,
          Nothing, callVars, fetchVars, cacheVars, ackVars
  <1>1. ASSUME NEW a \in Actors, NEW b \in Bodies, StartCreate(a, b)
        PROVE  InventoryTypeOK'
    BY <1>1 DEF StartCreate, Begin, Ready
  <1>2. ASSUME NEW a \in Actors, NEW b \in Bodies, StartFilter(a, b)
        PROVE  InventoryTypeOK'
    BY <1>2 DEF StartFilter, Begin, Ready
  <1>3. ASSUME NEW a \in Actors, NEW i \in used, StartDelete(a, i)
        PROVE  InventoryTypeOK'
    BY <1>3 DEF StartDelete, Begin, Ready, Unpromise
  <1>4. ASSUME NEW a \in Actors, StartList(a)
        PROVE  InventoryTypeOK'
    BY <1>4 DEF StartList, Begin, Ready
  <1>5. ASSUME NEW a \in Actors, ServiceCreates(a)
        PROVE  InventoryTypeOK'
    BY <1>5 DEF ServiceCreates
  <1>6. ASSUME NEW a \in Actors, ServiceDeletes(a)
        PROVE  InventoryTypeOK'
    BY <1>6 DEF ServiceDeletes
  <1>6t. ASSUME NEW a \in Actors, TokenMisses(a)
        PROVE  InventoryTypeOK'
    BY <1>6t DEF TokenMisses
  <1>7. ASSUME NEW a \in Actors, RequestFails(a)
        PROVE  InventoryTypeOK'
    BY <1>7 DEF RequestFails, Finish
  <1>8. ASSUME NEW a \in Actors, AnswerLost(a)
        PROVE  InventoryTypeOK'
    BY <1>8 DEF AnswerLost, Finish
  <1>9. ASSUME NEW a \in Actors, AnswerArrives(a)
        PROVE  InventoryTypeOK'
    BY <1>9 DEF AnswerArrives
  <1>10. ASSUME NEW a \in Actors, Invalidate(a)
        PROVE  InventoryTypeOK'
    <2>1. valid' \in BOOLEAN
      BY <1>10, Zenon DEF Invalidate
    <2>2. /\ pc' = [pc EXCEPT ![a] = "return"]
          /\ \E r \in {"none", "ok", "noid", "missing", "notoken", "error"} :
                outcome' = [outcome EXCEPT ![a] = r]
      BY <1>10 DEF Invalidate, Finish
    <2>3. pc' \in [Actors -> PC]
          /\ outcome' \in [Actors -> {"none", "ok", "noid", "missing", "notoken", "error"}]
      BY <2>2
    <2>4. created' \in SUBSET Ids /\ deleted' \in SUBSET Ids
      BY <1>10 DEF Invalidate
    <2>5. inventory' \in Listing /\ mu' \in Actors \union {NoActor}
      BY <1>10 DEF Invalidate
    <2>6. UNCHANGED <<op, target, body, got, aliases, scanned, found, server,
                      used, drift, mustSee, mustMiss>>
      BY <1>10 DEF Invalidate
    <2> QED
      BY <2>1, <2>3, <2>4, <2>5, <2>6
  <1>11. ASSUME NEW a \in Actors, ListFromSnapshot(a)
        PROVE  InventoryTypeOK'
    BY <1>11 DEF ListFromSnapshot, Finish
  <1>12. ASSUME NEW a \in Actors, ListFetches(a)
        PROVE  InventoryTypeOK'
    BY <1>12 DEF ListFetches
  <1>13. ASSUME NEW a \in Actors, FetchPage(a)
        PROVE  InventoryTypeOK'
    BY <1>13 DEF FetchPage, Seen
  <1>14. ASSUME NEW a \in Actors, FetchLastPage(a)
        PROVE  InventoryTypeOK'
    BY <1>14 DEF FetchLastPage, Seen, ForgetPages, Finish
  <1>15. ASSUME NEW a \in Actors, FetchFails(a)
        PROVE  InventoryTypeOK'
    BY <1>15 DEF FetchFails, ForgetPages, Finish
  <1>16. ASSUME NEW a \in Actors, FilterAnswers(a)
        PROVE  InventoryTypeOK'
    <2>1. valid' \in BOOLEAN
      BY <1>16, Zenon DEF FilterAnswers
    <2>2. got' \in [Actors -> Listing] /\ aliases' \in [Actors -> SUBSET Bodies]
      <3>1. \/ \E l \in Listing, s \in SUBSET Bodies :
                  /\ got' = [got EXCEPT ![a] = l]
                  /\ aliases' = [aliases EXCEPT ![a] = s]
            \/ UNCHANGED <<got, aliases>>
        BY <1>16 DEF FilterAnswers, Matching
      <3>2. CASE UNCHANGED <<got, aliases>>
        BY <3>2
      <3>3. CASE \E l \in Listing, s \in SUBSET Bodies :
                    /\ got' = [got EXCEPT ![a] = l]
                    /\ aliases' = [aliases EXCEPT ![a] = s]
        <4>1. PICK l \in Listing, s \in SUBSET Bodies :
                    /\ got' = [got EXCEPT ![a] = l]
                    /\ aliases' = [aliases EXCEPT ![a] = s]
          BY <3>3
        <4> HIDE DEF Listing
        <4> QED
          BY <4>1
      <3> QED
        BY <3>1, <3>2, <3>3
    <2>3. pc' \in [Actors -> PC]
          /\ outcome' \in [Actors -> {"none", "ok", "noid", "missing", "notoken", "error"}]
      BY <1>16 DEF FilterAnswers, Finish
    <2>4. UNCHANGED <<op, target, body, scanned, found, inventory, mu, server,
                      used, drift, created, deleted, mustSee, mustMiss>>
      BY <1>16 DEF FilterAnswers
    <2> QED
      BY <2>1, <2>2, <2>3, <2>4
  <1>17. CASE ElsewhereCreates
    BY <1>17 DEF ElsewhereCreates
  <1>18. CASE ElsewhereDeletes
    BY <1>18 DEF ElsewhereDeletes, Unpromise
  <1>19. CASE ElsewhereEdits
    BY <1>19 DEF ElsewhereEdits
  <1>20. CASE UNCHANGED inventoryVars
    BY <1>20 DEF inventoryVars
  <1> QED
    BY <1>1, <1>2, <1>3, <1>4, <1>5, <1>6, <1>6t, <1>7, <1>8, <1>9, <1>10,
       <1>11, <1>12, <1>13, <1>14, <1>15, <1>16, <1>17, <1>18, <1>19,
       <1>20
       DEF ClientNext, InventoryNext, StartCall, ClientStep, Elsewhere

\* managedURLInventoryMu is taken and released with the fetch.
LEMMA MuStep ==
  ASSUME InventoryTypeOK, MuInv,
         [ClientNext]_inventoryVars
  PROVE  MuInv'
  <1> USE InventoryAssumption DEF InventoryTypeOK, MuInv, callVars,
          fetchVars, cacheVars, ackVars
  <1>1. ASSUME NEW a \in Actors, NEW b \in Bodies, StartCreate(a, b)
        PROVE  MuInv'
    BY <1>1 DEF StartCreate, Begin, Ready
  <1>2. ASSUME NEW a \in Actors, NEW b \in Bodies, StartFilter(a, b)
        PROVE  MuInv'
    BY <1>2 DEF StartFilter, Begin, Ready
  <1>3. ASSUME NEW a \in Actors, NEW i \in used, StartDelete(a, i)
        PROVE  MuInv'
    BY <1>3 DEF StartDelete, Begin, Ready, Unpromise
  <1>4. ASSUME NEW a \in Actors, StartList(a)
        PROVE  MuInv'
    BY <1>4 DEF StartList, Begin, Ready
  <1>5. ASSUME NEW a \in Actors, ServiceCreates(a)
        PROVE  MuInv'
    BY <1>5 DEF ServiceCreates
  <1>6. ASSUME NEW a \in Actors, ServiceDeletes(a)
        PROVE  MuInv'
    BY <1>6 DEF ServiceDeletes
  <1>6t. ASSUME NEW a \in Actors, TokenMisses(a)
        PROVE  MuInv'
    BY <1>6t DEF TokenMisses
  <1>7. ASSUME NEW a \in Actors, RequestFails(a)
        PROVE  MuInv'
    BY <1>7 DEF RequestFails, Finish
  <1>8. ASSUME NEW a \in Actors, AnswerLost(a)
        PROVE  MuInv'
    BY <1>8 DEF AnswerLost, Finish
  <1>9. ASSUME NEW a \in Actors, AnswerArrives(a)
        PROVE  MuInv'
    BY <1>9 DEF AnswerArrives
  <1>10. ASSUME NEW a \in Actors, Invalidate(a)
        PROVE  MuInv'
    BY <1>10 DEF Invalidate, Finish
  <1>11. ASSUME NEW a \in Actors, ListFromSnapshot(a)
        PROVE  MuInv'
    BY <1>11 DEF ListFromSnapshot, Finish
  <1>12. ASSUME NEW a \in Actors, ListFetches(a)
        PROVE  MuInv'
    BY <1>12 DEF ListFetches
  <1>13. ASSUME NEW a \in Actors, FetchPage(a)
        PROVE  MuInv'
    BY <1>13 DEF FetchPage, Seen
  <1>14. ASSUME NEW a \in Actors, FetchLastPage(a)
        PROVE  MuInv'
    BY <1>14 DEF FetchLastPage, Seen, ForgetPages, Finish
  <1>15. ASSUME NEW a \in Actors, FetchFails(a)
        PROVE  MuInv'
    BY <1>15 DEF FetchFails, ForgetPages, Finish
  <1>16. ASSUME NEW a \in Actors, FilterAnswers(a)
        PROVE  MuInv'
    BY <1>16 DEF FilterAnswers, Finish
  <1>17. CASE ElsewhereCreates
    BY <1>17 DEF ElsewhereCreates
  <1>18. CASE ElsewhereDeletes
    BY <1>18 DEF ElsewhereDeletes, Unpromise
  <1>19. CASE ElsewhereEdits
    BY <1>19 DEF ElsewhereEdits
  <1>20. CASE UNCHANGED inventoryVars
    BY <1>20 DEF inventoryVars
  <1> QED
    BY <1>1, <1>2, <1>3, <1>4, <1>5, <1>6, <1>6t, <1>7, <1>8, <1>9, <1>10,
       <1>11, <1>12, <1>13, <1>14, <1>15, <1>16, <1>17, <1>18, <1>19,
       <1>20
       DEF ClientNext, InventoryNext, StartCall, ClientStep, Elsewhere

\* What a call knows about itself survives the steps of the others.
LEMMA CallStep ==
  ASSUME InventoryTypeOK, CallInv,
         [ClientNext]_inventoryVars
  PROVE  CallInv'
  <1> USE InventoryAssumption DEF InventoryTypeOK, CallInv, CallOf, Listing,
          callVars, fetchVars, cacheVars, ackVars
  <1>1. ASSUME NEW a \in Actors, NEW b \in Bodies, StartCreate(a, b)
        PROVE  CallInv'
    BY <1>1 DEF StartCreate, Begin, Ready
  <1>2. ASSUME NEW a \in Actors, NEW b \in Bodies, StartFilter(a, b)
        PROVE  CallInv'
    BY <1>2 DEF StartFilter, Begin, Ready
  <1>3. ASSUME NEW a \in Actors, NEW i \in used, StartDelete(a, i)
        PROVE  CallInv'
    BY <1>3 DEF StartDelete, Begin, Ready, Unpromise
  <1>4. ASSUME NEW a \in Actors, StartList(a)
        PROVE  CallInv'
    BY <1>4 DEF StartList, Begin, Ready
  <1>5. ASSUME NEW a \in Actors, ServiceCreates(a)
        PROVE  CallInv'
    <2>1. PICK i \in Ids \ used :
             /\ server' = [server EXCEPT ![i] = body[a]]
             /\ used' = used \union {i}
             /\ target' = [target EXCEPT ![a] = i]
      BY <1>5 DEF ServiceCreates
    <2>2. pc[a] = "posting" /\ pc' = [pc EXCEPT ![a] = "posted"]
      BY <1>5 DEF ServiceCreates
    <2>3. UNCHANGED <<op, body, outcome, scanned>>
      BY <1>5 DEF ServiceCreates
    <2>4. op[a] = "create" /\ scanned[a] = {}
      BY <2>2
    <2> SUFFICES ASSUME NEW c \in Actors PROVE CallOf(c)'
      BY DEF CallOf
    <2>5. CASE c = a
      BY <2>1, <2>2, <2>3, <2>4, <2>5 DEF CallOf
    <2>6. CASE c # a
      <3>1. UNCHANGED <<pc[c], op[c], target[c], body[c], outcome[c], scanned[c]>>
        BY <2>1, <2>2, <2>3, <2>6
      <3>2. target[c] \in used => server'[target[c]] = server[target[c]]
        BY <2>1
      <3> QED
        BY <2>1, <3>1, <3>2 DEF CallOf
    <2> QED
      BY <2>5, <2>6
  <1>6. ASSUME NEW a \in Actors, ServiceDeletes(a)
        PROVE  CallInv'
    BY <1>6 DEF ServiceDeletes
  <1>6t. ASSUME NEW a \in Actors, TokenMisses(a)
        PROVE  CallInv'
    BY <1>6t DEF TokenMisses
  <1>7. ASSUME NEW a \in Actors, RequestFails(a)
        PROVE  CallInv'
    BY <1>7 DEF RequestFails, Finish
  <1>8. ASSUME NEW a \in Actors, AnswerLost(a)
        PROVE  CallInv'
    BY <1>8 DEF AnswerLost, Finish
  <1>9. ASSUME NEW a \in Actors, AnswerArrives(a)
        PROVE  CallInv'
    BY <1>9 DEF AnswerArrives
  <1>10. ASSUME NEW a \in Actors, Invalidate(a)
        PROVE  CallInv'
    <2>1. /\ pc' = [pc EXCEPT ![a] = "return"] /\ pc[a] = "invalidate"
          /\ \A c \in Actors \ {a} : outcome'[c] = outcome[c]
      BY <1>10 DEF Invalidate, Finish
    <2>2. UNCHANGED <<op, target, body, scanned, server, used>>
      BY <1>10 DEF Invalidate
    <2> SUFFICES ASSUME NEW c \in Actors PROVE CallOf(c)'
      BY DEF CallOf
    <2>3. CASE c = a
      BY <2>1, <2>2, <2>3
    <2>4. CASE c # a
      <3>1. UNCHANGED <<pc[c], outcome[c]>>
        BY <2>1, <2>4
      <3> QED
        BY <2>2, <3>1
    <2> QED
      BY <2>3, <2>4
  <1>11. ASSUME NEW a \in Actors, ListFromSnapshot(a)
        PROVE  CallInv'
    BY <1>11 DEF ListFromSnapshot, Finish
  <1>12. ASSUME NEW a \in Actors, ListFetches(a)
        PROVE  CallInv'
    BY <1>12 DEF ListFetches
  <1>13. ASSUME NEW a \in Actors, FetchPage(a)
        PROVE  CallInv'
    BY <1>13 DEF FetchPage, Seen
  <1>14. ASSUME NEW a \in Actors, FetchLastPage(a)
        PROVE  CallInv'
    BY <1>14 DEF FetchLastPage, Seen, ForgetPages, Finish
  <1>15. ASSUME NEW a \in Actors, FetchFails(a)
        PROVE  CallInv'
    BY <1>15 DEF FetchFails, ForgetPages, Finish
  <1>16. ASSUME NEW a \in Actors, FilterAnswers(a)
        PROVE  CallInv'
    BY <1>16 DEF FilterAnswers, Finish
  <1>17. CASE ElsewhereCreates
    BY <1>17 DEF ElsewhereCreates
  <1>18. CASE ElsewhereDeletes
    BY <1>18 DEF ElsewhereDeletes, Unpromise
  <1>19. CASE ElsewhereEdits
    BY <1>19 DEF ElsewhereEdits
  <1>20. CASE UNCHANGED inventoryVars
    BY <1>20 DEF inventoryVars
  <1> QED
    BY <1>1, <1>2, <1>3, <1>4, <1>5, <1>6, <1>6t, <1>7, <1>8, <1>9, <1>10,
       <1>11, <1>12, <1>13, <1>14, <1>15, <1>16, <1>17, <1>18, <1>19,
       <1>20
       DEF ClientNext, InventoryNext, StartCall, ClientStep, Elsewhere

\* The service and the client's knowledge of its changes move together: what
\* changes on the service is drift or about to be acknowledged, and neither is
\* forgotten.  Only an invalidation and a new fetch start afresh.
ChangesAccounted ==
  \A i \in Ids :
     /\ server'[i] = server[i] \/ i \in drift' \/ BeingAcknowledged(i)'
     /\ i \in drift => i \in drift'
     /\ BeingAcknowledged(i) => BeingAcknowledged(i)' \/ i \in drift'

\* An actor that is not acknowledging does not matter to BeingAcknowledged.
LEMMA AcknowledgedKept ==
  ASSUME NEW a \in Actors, NEW i \in Ids,
         pc[a] \notin {"posted", "deleted", "invalidate"},
         \A c \in Actors \ {a} : UNCHANGED <<pc[c], target[c]>>
  PROVE  BeingAcknowledged(i) => BeingAcknowledged(i)'
  BY DEF BeingAcknowledged

\* Starting a call, or ending one that changed nothing, changes nothing.
LEMMA QuietAccounted ==
  ASSUME InventoryTypeOK, NEW a \in Actors, UNCHANGED <<server, drift>>,
         pc[a] \notin {"posted", "deleted", "invalidate"},
         \A c \in Actors \ {a} : UNCHANGED <<pc[c], target[c]>>
  PROVE  ChangesAccounted
  BY AcknowledgedKept DEF ChangesAccounted

\* Every step but an invalidation and the start of a fetch accounts for the
\* changes it makes.
LEMMA ChangesAreAccounted ==
  ASSUME InventoryTypeOK, CallInv, [ClientNext]_inventoryVars,
         \A a \in Actors : ~Invalidate(a) /\ ~ListFetches(a)
  PROVE  ChangesAccounted
  <1> USE DEF InventoryTypeOK, callVars, fetchVars, cacheVars, ackVars
  <1>1. ASSUME NEW a \in Actors, NEW b \in Bodies,
               StartCreate(a, b) \/ StartFilter(a, b)
        PROVE  ChangesAccounted
    BY <1>1, QuietAccounted DEF StartCreate, StartFilter, Begin, Ready
  <1>2. ASSUME NEW a \in Actors, NEW i \in used, StartDelete(a, i)
        PROVE  ChangesAccounted
    BY <1>2, QuietAccounted DEF StartDelete, Begin, Ready
  <1>3. ASSUME NEW a \in Actors, StartList(a)
        PROVE  ChangesAccounted
    BY <1>3, QuietAccounted DEF StartList, Begin, Ready
  <1>4. ASSUME NEW a \in Actors, ServiceCreates(a)
        PROVE  ChangesAccounted
    <2>1. PICK i \in Ids \ used :
             /\ server' = [server EXCEPT ![i] = body[a]]
             /\ target' = [target EXCEPT ![a] = i]
      BY <1>4 DEF ServiceCreates
    <2>2. /\ pc[a] = "posting" /\ pc' = [pc EXCEPT ![a] = "posted"]
          /\ drift' = drift
      BY <1>4 DEF ServiceCreates
    <2>3. BeingAcknowledged(i)'
      BY <2>1, <2>2 DEF BeingAcknowledged
    <2>4. \A j \in Ids : BeingAcknowledged(j) => BeingAcknowledged(j)'
      BY <2>1, <2>2, AcknowledgedKept
    <2> QED
      BY <2>1, <2>2, <2>3, <2>4 DEF ChangesAccounted
  <1>5. ASSUME NEW a \in Actors, ServiceDeletes(a)
        PROVE  ChangesAccounted
    <2>1. /\ pc[a] = "deleting" /\ pc' = [pc EXCEPT ![a] = "deleted"]
          /\ server' = [server EXCEPT ![target[a]] = Absent]
          /\ UNCHANGED <<target, drift>>
      BY <1>5 DEF ServiceDeletes
    <2>2. BeingAcknowledged(target[a])'
      BY <2>1 DEF BeingAcknowledged
    <2>3. \A j \in Ids : BeingAcknowledged(j) => BeingAcknowledged(j)'
      BY <2>1, AcknowledgedKept
    <2> QED
      BY <2>1, <2>2, <2>3 DEF ChangesAccounted
  <1>5t. ASSUME NEW a \in Actors, TokenMisses(a)
        PROVE  ChangesAccounted
    <2>1. /\ pc[a] = "deleting" /\ pc' = [pc EXCEPT ![a] = "invalidate"]
          /\ UNCHANGED <<server, target, drift>>
      BY <1>5t DEF TokenMisses
    <2>2. \A j \in Ids : BeingAcknowledged(j) => BeingAcknowledged(j)'
      BY <2>1, AcknowledgedKept
    <2> QED
      BY <2>1, <2>2 DEF ChangesAccounted
  <1>6. ASSUME NEW a \in Actors, RequestFails(a)
        PROVE  ChangesAccounted
    BY <1>6, QuietAccounted DEF RequestFails, Finish
  <1>7. ASSUME NEW a \in Actors, AnswerLost(a)
        PROVE  ChangesAccounted
    <2>1. /\ drift' = drift \union {target[a]} /\ server' = server
          /\ \A c \in Actors \ {a} : UNCHANGED <<pc[c], target[c]>>
      BY <1>7 DEF AnswerLost, Finish
    <2>2. ASSUME NEW i \in Ids, BeingAcknowledged(i)
          PROVE  BeingAcknowledged(i)' \/ i \in drift'
      <3>1. PICK c \in Actors : /\ target[c] = i
                                /\ pc[c] \in {"posted", "deleted", "invalidate"}
        BY <2>2 DEF BeingAcknowledged
      <3> QED
        BY <2>1, <3>1 DEF BeingAcknowledged
    <2> QED
      BY <2>1, <2>2 DEF ChangesAccounted
  <1>8. ASSUME NEW a \in Actors, AnswerArrives(a)
        PROVE  ChangesAccounted
    <2>1. /\ pc' = [pc EXCEPT ![a] = "invalidate"]
          /\ UNCHANGED <<target, server, drift>>
      BY <1>8 DEF AnswerArrives
    <2>2. \A i \in Ids : BeingAcknowledged(i) => BeingAcknowledged(i)'
      BY <2>1 DEF BeingAcknowledged
    <2> QED
      BY <2>1, <2>2 DEF ChangesAccounted
  <1>9. ASSUME NEW a \in Actors,
               \/ ListFromSnapshot(a) \/ FetchPage(a) \/ FetchLastPage(a)
               \/ FetchFails(a) \/ FilterAnswers(a)
        PROVE  ChangesAccounted
    <2>1. /\ UNCHANGED <<server, drift, target>>
          /\ pc[a] \in {"list", "fetch", "filter"}
          /\ \A c \in Actors \ {a} : pc'[c] = pc[c]
      BY <1>9 DEF ListFromSnapshot, FetchPage, FetchLastPage, FetchFails,
                  FilterAnswers, Finish
    <2> QED
      BY <2>1, QuietAccounted
  <1>10. CASE Elsewhere
    <2>1. PICK i \in Ids, b \in Bodies \union {Absent} :
             /\ server' = [server EXCEPT ![i] = b]
             /\ drift' = drift \union {i}
      BY <1>10 DEF Elsewhere, ElsewhereCreates, ElsewhereDeletes, ElsewhereEdits
    <2>2. UNCHANGED <<pc, target>>
      BY <1>10 DEF Elsewhere, ElsewhereCreates, ElsewhereDeletes, ElsewhereEdits
    <2> QED
      BY <2>1, <2>2 DEF ChangesAccounted, BeingAcknowledged
  <1>11. CASE UNCHANGED inventoryVars
    BY <1>11 DEF inventoryVars, ChangesAccounted, BeingAcknowledged
  <1> QED
    BY <1>1, <1>2, <1>3, <1>4, <1>5, <1>5t, <1>6, <1>7, <1>8, <1>9, <1>10, <1>11
       DEF ClientNext, InventoryNext, StartCall, ClientStep

\* Only the list calls touch the pages, the snapshot and the mutex.
LEMMA OnlyFetchesTouchPages ==
  ASSUME InventoryTypeOK, [ClientNext]_inventoryVars,
         \A a \in Actors : /\ ~ListFetches(a) /\ ~FetchPage(a)
                           /\ ~FetchLastPage(a) /\ ~FetchFails(a)
                           /\ ~Invalidate(a)
  PROVE  /\ UNCHANGED <<scanned, found, inventory>>
         /\ valid' <=> valid
         /\ \A c \in Actors : pc'[c] = "fetch" => pc[c] = "fetch"
  <1> USE DEF InventoryTypeOK, callVars, fetchVars, cacheVars, ackVars
  <1>1. UNCHANGED <<scanned, found, inventory, valid>>
    BY DEF ClientNext, InventoryNext, StartCall, ClientStep, Elsewhere,
           inventoryVars, StartCreate, StartFilter, StartDelete, StartList,
           ServiceCreates, ServiceDeletes, TokenMisses, RequestFails, AnswerLost,
           AnswerArrives, ListFromSnapshot, FilterAnswers, ElsewhereCreates,
           ElsewhereDeletes, ElsewhereEdits
  <1>2. \A c \in Actors : pc'[c] = "fetch" => pc[c] = "fetch"
    BY DEF ClientNext, InventoryNext, StartCall, ClientStep, Elsewhere,
           inventoryVars, StartCreate, StartFilter, StartDelete, StartList,
           ServiceCreates, ServiceDeletes, TokenMisses, RequestFails, AnswerLost,
           AnswerArrives, ListFromSnapshot, FilterAnswers, ElsewhereCreates,
           ElsewhereDeletes, ElsewhereEdits, Begin, Finish
  <1> QED
    BY <1>1, <1>2

\* The pages of a fetch under way stay as current as they need to be: an
\* invalidation has to wait for the mutex, so there is no fetch beside it.
LEMMA PagesStep ==
  ASSUME InventoryTypeOK, MuInv, CallInv, PagesCurrent,
         [ClientNext]_inventoryVars
  PROVE  PagesCurrent'
  <1> USE InventoryAssumption
  <1>1. ASSUME NEW a \in Actors, Invalidate(a)
        PROVE  PagesCurrent'
    <2>1. mu = NoActor /\ pc' = [pc EXCEPT ![a] = "return"]
      BY <1>1 DEF Invalidate, Finish
    <2>2. \A c \in Actors : pc[c] # "fetch"
      BY <2>1 DEF MuInv
    <2> QED
      BY <2>1, <2>2 DEF PagesCurrent, InventoryTypeOK
  <1>2. ASSUME NEW a \in Actors, ListFetches(a)
        PROVE  PagesCurrent'
    <2>1. mu = NoActor /\ pc[a] = "list" /\ scanned' = scanned
          /\ \A c \in Actors \ {a} : pc'[c] = pc[c]
      BY <1>2 DEF ListFetches, fetchVars, InventoryTypeOK
    <2>2. \A c \in Actors : pc[c] # "fetch" /\ scanned[c] = {}
      BY <2>1 DEF MuInv, CallInv, CallOf
    <2> QED
      BY <2>1, <2>2 DEF PagesCurrent
  <1>3. ASSUME \A a \in Actors : ~Invalidate(a) /\ ~ListFetches(a)
        PROVE  PagesCurrent'
    <2>1. ChangesAccounted
      BY <1>3, ChangesAreAccounted
    <2>2. CASE \E a \in Actors :
                  FetchPage(a) \/ FetchLastPage(a) \/ FetchFails(a)
      <3>1. PICK a \in Actors :
                  FetchPage(a) \/ FetchLastPage(a) \/ FetchFails(a)
        BY <2>2
      <3>2. \A c \in Actors :
               pc'[c] = "fetch" => c = a /\ FetchPage(a) /\ pc[a] = "fetch"
        BY <3>1 DEF FetchPage, FetchLastPage, FetchFails, Finish, MuInv,
                    InventoryTypeOK, callVars
      <3>3. ASSUME FetchPage(a), NEW i \in scanned'[a]
            PROVE  \/ found'[a][i] = server[i]
                   \/ i \in scanned[a] /\ found'[a][i] = found[a][i]
        <4>1. PICK P \in SUBSET Ids : /\ scanned'[a] = scanned[a] \union P
                                      /\ found'[a] = Seen(a, P)
          BY <3>3 DEF FetchPage, InventoryTypeOK
        <4>2. i \in Ids
          BY <4>1 DEF InventoryTypeOK
        <4> QED
          BY <4>1, <4>2 DEF Seen
      <3>4. FetchPage(a) => scanned'[a] \subseteq Ids
        BY DEF FetchPage, InventoryTypeOK
      <3> QED
        BY <2>1, <3>2, <3>3, <3>4 DEF PagesCurrent, ChangesAccounted
    <2>3. CASE \A a \in Actors :
                  ~FetchPage(a) /\ ~FetchLastPage(a) /\ ~FetchFails(a)
      <3>1. /\ UNCHANGED <<scanned, found>>
            /\ \A c \in Actors : pc'[c] = "fetch" => pc[c] = "fetch"
        BY <1>3, <2>3, OnlyFetchesTouchPages
      <3>2. \A c \in Actors : scanned[c] \subseteq Ids
        BY DEF InventoryTypeOK
      <3> QED
        BY <2>1, <3>1, <3>2 DEF PagesCurrent, ChangesAccounted
    <2> QED
      BY <2>2, <2>3
  <1> QED
    BY <1>1, <1>2, <1>3

\* No step makes the stored snapshot stale without a drift or a pending
\* invalidation.
LEMMA SnapshotStep ==
  ASSUME InventoryTypeOK, MuInv, CallInv, PagesCurrent, SnapshotCurrent,
         [ClientNext]_inventoryVars
  PROVE  SnapshotCurrent'
  <1>1. ASSUME NEW a \in Actors, Invalidate(a) \/ ListFetches(a)
        PROVE  SnapshotCurrent'
    <2>1. ~valid'
      BY <1>1, Zenon DEF Invalidate, ListFetches
    <2> QED
      BY <2>1 DEF SnapshotCurrent
  <1>2. ASSUME \A a \in Actors : ~Invalidate(a) /\ ~ListFetches(a)
        PROVE  SnapshotCurrent'
    <2>1. ChangesAccounted
      BY <1>2, ChangesAreAccounted
    <2>2. CASE \E a \in Actors : FetchLastPage(a)
      <3>1. PICK a \in Actors : FetchLastPage(a)
        BY <2>2
      <3>2. pc[a] = "fetch"
        BY <3>1 DEF FetchLastPage
      <3>3. \A i \in Ids :
               \/ inventory'[i] = server[i]
               \/ i \in scanned[a] /\ inventory'[i] = found[a][i]
        <4>1. inventory' = Seen(a, Ids \ scanned[a])
          BY <3>1 DEF FetchLastPage
        <4> QED
          BY <4>1 DEF Seen
      <3> QED
        BY <2>1, <3>2, <3>3 DEF PagesCurrent, SnapshotCurrent, ChangesAccounted
    <2>3. ASSUME NEW a \in Actors, FetchPage(a) \/ FetchFails(a)
          PROVE  SnapshotCurrent'
      <3>1. inventory' = inventory /\ (valid' => valid)
        BY <2>3 DEF FetchPage, FetchFails, cacheVars
      <3> QED
        BY <2>1, <3>1 DEF SnapshotCurrent, ChangesAccounted
    <2>4. CASE \A a \in Actors :
                  ~FetchPage(a) /\ ~FetchLastPage(a) /\ ~FetchFails(a)
      <3>1. inventory' = inventory /\ (valid' => valid)
        BY <1>2, <2>4, OnlyFetchesTouchPages
      <3> QED
        BY <2>1, <3>1 DEF SnapshotCurrent, ChangesAccounted
    <2> QED
      BY <2>2, <2>3, <2>4
  <1> QED
    BY <1>1, <1>2

\* Nothing stored or half fetched loses an acknowledged create.
LEMMA CreatedStep ==
  ASSUME InventoryTypeOK, MuInv, CallInv, CreatedInv,
         [ClientNext]_inventoryVars
  PROVE  CreatedInv'
  <1> USE InventoryAssumption DEF InventoryTypeOK, MuInv, CallInv, CallOf,
          CreatedInv, BeingRemoved, Listing, callVars, fetchVars,
          cacheVars, ackVars
  <1>1. ASSUME NEW a \in Actors, NEW b \in Bodies, StartCreate(a, b)
        PROVE  CreatedInv'
    BY <1>1 DEF StartCreate, Begin, Ready
  <1>2. ASSUME NEW a \in Actors, NEW b \in Bodies, StartFilter(a, b)
        PROVE  CreatedInv'
    BY <1>2 DEF StartFilter, Begin, Ready
  <1>3. ASSUME NEW a \in Actors, NEW i \in used, StartDelete(a, i)
        PROVE  CreatedInv'
    BY <1>3 DEF StartDelete, Begin, Ready, Unpromise
  <1>4. ASSUME NEW a \in Actors, StartList(a)
        PROVE  CreatedInv'
    BY <1>4 DEF StartList, Begin, Ready
  <1>5. ASSUME NEW a \in Actors, ServiceCreates(a)
        PROVE  CreatedInv'
    <2>1. PICK i \in Ids \ used :
             /\ server' = [server EXCEPT ![i] = body[a]]
             /\ target' = [target EXCEPT ![a] = i]
      BY <1>5 DEF ServiceCreates
    <2>2. pc[a] = "posting" /\ pc' = [pc EXCEPT ![a] = "posted"]
      BY <1>5 DEF ServiceCreates
    <2>3. UNCHANGED <<created, inventory, valid, scanned, found>>
      BY <1>5 DEF ServiceCreates
    <2> SUFFICES ASSUME NEW j \in created
                 PROVE  /\ ~BeingRemoved(j)'
                        /\ valid' => inventory'[j] # Absent
                        /\ \A c \in Actors :
                              pc'[c] = "fetch" /\ j \in scanned'[c] =>
                                 found'[c][j] # Absent
      BY <2>3 DEF CreatedInv
    <2>4. server'[j] # Absent
      <3>1. body[a] # Absent
        BY <2>2
      <3>2. server[j] # Absent
        BY DEF CreatedInv
      <3> QED
        BY <2>1, <3>1, <3>2
    <2>5. ~BeingRemoved(j)'
      BY <2>1, <2>2, <2>4 DEF CreatedInv
    <2> QED
      BY <2>2, <2>3, <2>5 DEF CreatedInv
  <1>6. ASSUME NEW a \in Actors, ServiceDeletes(a)
        PROVE  CreatedInv'
    BY <1>6 DEF ServiceDeletes
  <1>6t. ASSUME NEW a \in Actors, TokenMisses(a)
        PROVE  CreatedInv'
    BY <1>6t DEF TokenMisses
  <1>7. ASSUME NEW a \in Actors, RequestFails(a)
        PROVE  CreatedInv'
    BY <1>7 DEF RequestFails, Finish
  <1>8. ASSUME NEW a \in Actors, AnswerLost(a)
        PROVE  CreatedInv'
    BY <1>8 DEF AnswerLost, Finish
  <1>9. ASSUME NEW a \in Actors, AnswerArrives(a)
        PROVE  CreatedInv'
    BY <1>9 DEF AnswerArrives
  <1>10. ASSUME NEW a \in Actors, Invalidate(a)
        PROVE  CreatedInv'
    <2>1. /\ mu = NoActor /\ pc[a] = "invalidate"
          /\ pc' = [pc EXCEPT ![a] = "return"]
      BY <1>10 DEF Invalidate, Finish
    <2>2. ~valid' /\ UNCHANGED <<target, server>>
      BY <1>10 DEF Invalidate
    <2>3. \A j \in created' : j \in created \/ ~BeingRemoved(j)
      BY <1>10 DEF Invalidate
    <2>4. \A c \in Actors : pc'[c] # "fetch"
      BY <2>1
    <2>5. \A j \in Ids : ~BeingRemoved(j) => ~BeingRemoved(j)'
      BY <2>1, <2>2
    <2>6. created' \subseteq Ids
      BY <1>10 DEF Invalidate
    <2> HIDE DEF BeingRemoved
    <2> QED
      BY <2>2, <2>3, <2>4, <2>5, <2>6 DEF CreatedInv
  <1>11. ASSUME NEW a \in Actors, ListFromSnapshot(a)
        PROVE  CreatedInv'
    BY <1>11 DEF ListFromSnapshot, Finish
  <1>12. ASSUME NEW a \in Actors, ListFetches(a)
        PROVE  CreatedInv'
    BY <1>12 DEF ListFetches
  <1>13. ASSUME NEW a \in Actors, FetchPage(a)
        PROVE  CreatedInv'
    BY <1>13 DEF FetchPage, Seen
  <1>14. ASSUME NEW a \in Actors, FetchLastPage(a)
        PROVE  CreatedInv'
    BY <1>14 DEF FetchLastPage, Seen, ForgetPages, Finish
  <1>15. ASSUME NEW a \in Actors, FetchFails(a)
        PROVE  CreatedInv'
    BY <1>15 DEF FetchFails, ForgetPages, Finish
  <1>16. ASSUME NEW a \in Actors, FilterAnswers(a)
        PROVE  CreatedInv'
    BY <1>16 DEF FilterAnswers, Finish
  <1>17. CASE ElsewhereCreates
    BY <1>17 DEF ElsewhereCreates
  <1>18. CASE ElsewhereDeletes
    BY <1>18 DEF ElsewhereDeletes, Unpromise
  <1>19. CASE ElsewhereEdits
    BY <1>19 DEF ElsewhereEdits
  <1>20. CASE UNCHANGED inventoryVars
    BY <1>20 DEF inventoryVars
  <1> QED
    BY <1>1, <1>2, <1>3, <1>4, <1>5, <1>6, <1>6t, <1>7, <1>8, <1>9, <1>10,
       <1>11, <1>12, <1>13, <1>14, <1>15, <1>16, <1>17, <1>18, <1>19,
       <1>20
       DEF ClientNext, InventoryNext, StartCall, ClientStep, Elsewhere

\* Nothing stored or half fetched regains an acknowledged delete.
LEMMA DeletedStep ==
  ASSUME InventoryTypeOK, MuInv, CallInv, DeletedInv,
         [ClientNext]_inventoryVars
  PROVE  DeletedInv'
  <1> USE InventoryAssumption DEF InventoryTypeOK, MuInv, CallInv, CallOf,
          DeletedInv, Listing, callVars, fetchVars, cacheVars, ackVars
  <1>1. ASSUME NEW a \in Actors, NEW b \in Bodies, StartCreate(a, b)
        PROVE  DeletedInv'
    BY <1>1 DEF StartCreate, Begin, Ready
  <1>2. ASSUME NEW a \in Actors, NEW b \in Bodies, StartFilter(a, b)
        PROVE  DeletedInv'
    BY <1>2 DEF StartFilter, Begin, Ready
  <1>3. ASSUME NEW a \in Actors, NEW i \in used, StartDelete(a, i)
        PROVE  DeletedInv'
    BY <1>3 DEF StartDelete, Begin, Ready, Unpromise
  <1>4. ASSUME NEW a \in Actors, StartList(a)
        PROVE  DeletedInv'
    BY <1>4 DEF StartList, Begin, Ready
  <1>5. ASSUME NEW a \in Actors, ServiceCreates(a)
        PROVE  DeletedInv'
    BY <1>5 DEF ServiceCreates
  <1>6. ASSUME NEW a \in Actors, ServiceDeletes(a)
        PROVE  DeletedInv'
    BY <1>6 DEF ServiceDeletes
  <1>6t. ASSUME NEW a \in Actors, TokenMisses(a)
        PROVE  DeletedInv'
    BY <1>6t DEF TokenMisses
  <1>7. ASSUME NEW a \in Actors, RequestFails(a)
        PROVE  DeletedInv'
    BY <1>7 DEF RequestFails, Finish
  <1>8. ASSUME NEW a \in Actors, AnswerLost(a)
        PROVE  DeletedInv'
    BY <1>8 DEF AnswerLost, Finish
  <1>9. ASSUME NEW a \in Actors, AnswerArrives(a)
        PROVE  DeletedInv'
    BY <1>9 DEF AnswerArrives
  <1>10. ASSUME NEW a \in Actors, Invalidate(a)
        PROVE  DeletedInv'
    <2>1. ~valid' /\ UNCHANGED <<scanned, found, server, used, mu>>
      BY <1>10 DEF Invalidate
    <2>2. pc' = [pc EXCEPT ![a] = "return"] /\ mu = NoActor
      BY <1>10 DEF Invalidate, Finish
    <2>3. \A c \in Actors : pc'[c] # "fetch"
      BY <2>2
    <2>4. pc[a] = "invalidate"
          /\ deleted' \subseteq
                deleted \union (IF op[a] = "delete" /\ outcome[a] # "notoken"
                               THEN {target[a]} ELSE {})
      BY <1>10 DEF Invalidate
    <2>5. \A j \in deleted' : j \in used /\ server[j] = Absent
      BY <2>4 DEF DeletedInv, CallInv
    <2> QED
      BY <2>1, <2>3, <2>5 DEF DeletedInv
  <1>11. ASSUME NEW a \in Actors, ListFromSnapshot(a)
        PROVE  DeletedInv'
    BY <1>11 DEF ListFromSnapshot, Finish
  <1>12. ASSUME NEW a \in Actors, ListFetches(a)
        PROVE  DeletedInv'
    BY <1>12 DEF ListFetches
  <1>13. ASSUME NEW a \in Actors, FetchPage(a)
        PROVE  DeletedInv'
    BY <1>13 DEF FetchPage, Seen
  <1>14. ASSUME NEW a \in Actors, FetchLastPage(a)
        PROVE  DeletedInv'
    BY <1>14 DEF FetchLastPage, Seen, ForgetPages, Finish
  <1>15. ASSUME NEW a \in Actors, FetchFails(a)
        PROVE  DeletedInv'
    BY <1>15 DEF FetchFails, ForgetPages, Finish
  <1>16. ASSUME NEW a \in Actors, FilterAnswers(a)
        PROVE  DeletedInv'
    BY <1>16 DEF FilterAnswers, Finish
  <1>17. CASE ElsewhereCreates
    BY <1>17 DEF ElsewhereCreates
  <1>18. CASE ElsewhereDeletes
    BY <1>18 DEF ElsewhereDeletes, Unpromise
  <1>19. CASE ElsewhereEdits
    BY <1>19 DEF ElsewhereEdits
  <1>20. CASE UNCHANGED inventoryVars
    BY <1>20 DEF inventoryVars
  <1> QED
    BY <1>1, <1>2, <1>3, <1>4, <1>5, <1>6, <1>6t, <1>7, <1>8, <1>9, <1>10,
       <1>11, <1>12, <1>13, <1>14, <1>15, <1>16, <1>17, <1>18, <1>19,
       <1>20
       DEF ClientNext, InventoryNext, StartCall, ClientStep, Elsewhere

\* What a list under way has to reflect stays acknowledged.
LEMMA PromiseStep ==
  ASSUME InventoryTypeOK, PromiseInv,
         [ClientNext]_inventoryVars
  PROVE  PromiseInv'
  <1> USE InventoryAssumption DEF InventoryTypeOK, PromiseInv, callVars,
          fetchVars, cacheVars, ackVars
  <1>1. ASSUME NEW a \in Actors, NEW b \in Bodies, StartCreate(a, b)
        PROVE  PromiseInv'
    BY <1>1 DEF StartCreate, Begin, Ready
  <1>2. ASSUME NEW a \in Actors, NEW b \in Bodies, StartFilter(a, b)
        PROVE  PromiseInv'
    BY <1>2 DEF StartFilter, Begin, Ready
  <1>3. ASSUME NEW a \in Actors, NEW i \in used, StartDelete(a, i)
        PROVE  PromiseInv'
    BY <1>3 DEF StartDelete, Begin, Ready, Unpromise
  <1>4. ASSUME NEW a \in Actors, StartList(a)
        PROVE  PromiseInv'
    BY <1>4 DEF StartList, Begin, Ready
  <1>5. ASSUME NEW a \in Actors, ServiceCreates(a)
        PROVE  PromiseInv'
    BY <1>5 DEF ServiceCreates
  <1>6. ASSUME NEW a \in Actors, ServiceDeletes(a)
        PROVE  PromiseInv'
    BY <1>6 DEF ServiceDeletes
  <1>6t. ASSUME NEW a \in Actors, TokenMisses(a)
        PROVE  PromiseInv'
    BY <1>6t DEF TokenMisses
  <1>7. ASSUME NEW a \in Actors, RequestFails(a)
        PROVE  PromiseInv'
    BY <1>7 DEF RequestFails, Finish
  <1>8. ASSUME NEW a \in Actors, AnswerLost(a)
        PROVE  PromiseInv'
    BY <1>8 DEF AnswerLost, Finish
  <1>9. ASSUME NEW a \in Actors, AnswerArrives(a)
        PROVE  PromiseInv'
    BY <1>9 DEF AnswerArrives
  <1>10. ASSUME NEW a \in Actors, Invalidate(a)
        PROVE  PromiseInv'
    BY <1>10 DEF Invalidate, Finish
  <1>11. ASSUME NEW a \in Actors, ListFromSnapshot(a)
        PROVE  PromiseInv'
    BY <1>11 DEF ListFromSnapshot, Finish
  <1>12. ASSUME NEW a \in Actors, ListFetches(a)
        PROVE  PromiseInv'
    BY <1>12 DEF ListFetches
  <1>13. ASSUME NEW a \in Actors, FetchPage(a)
        PROVE  PromiseInv'
    BY <1>13 DEF FetchPage, Seen
  <1>14. ASSUME NEW a \in Actors, FetchLastPage(a)
        PROVE  PromiseInv'
    BY <1>14 DEF FetchLastPage, Seen, ForgetPages, Finish
  <1>15. ASSUME NEW a \in Actors, FetchFails(a)
        PROVE  PromiseInv'
    BY <1>15 DEF FetchFails, ForgetPages, Finish
  <1>16. ASSUME NEW a \in Actors, FilterAnswers(a)
        PROVE  PromiseInv'
    BY <1>16 DEF FilterAnswers, Finish
  <1>17. CASE ElsewhereCreates
    BY <1>17 DEF ElsewhereCreates
  <1>18. CASE ElsewhereDeletes
    BY <1>18 DEF ElsewhereDeletes, Unpromise
  <1>19. CASE ElsewhereEdits
    BY <1>19 DEF ElsewhereEdits
  <1>20. CASE UNCHANGED inventoryVars
    BY <1>20 DEF inventoryVars
  <1> QED
    BY <1>1, <1>2, <1>3, <1>4, <1>5, <1>6, <1>6t, <1>7, <1>8, <1>9, <1>10,
       <1>11, <1>12, <1>13, <1>14, <1>15, <1>16, <1>17, <1>18, <1>19,
       <1>20
       DEF ClientNext, InventoryNext, StartCall, ClientStep, Elsewhere

\* A list that returns reflects what it promised.
LEMMA ListsStep ==
  ASSUME InventoryTypeOK, CallInv, CreatedInv, DeletedInv, PromiseInv,
         ListsReflectAcknowledged, [ClientNext]_inventoryVars
  PROVE  ListsReflectAcknowledged'
  <1> USE InventoryAssumption DEF InventoryTypeOK, CallInv, CallOf, CreatedInv,
          DeletedInv, PromiseInv, ListsReflectAcknowledged,
          BeingRemoved, Listing, callVars, fetchVars, cacheVars, ackVars
  <1>1. ASSUME NEW a \in Actors, NEW b \in Bodies, StartCreate(a, b)
        PROVE  ListsReflectAcknowledged'
    BY <1>1 DEF StartCreate, Begin, Ready
  <1>2. ASSUME NEW a \in Actors, NEW b \in Bodies, StartFilter(a, b)
        PROVE  ListsReflectAcknowledged'
    BY <1>2 DEF StartFilter, Begin, Ready
  <1>3. ASSUME NEW a \in Actors, NEW i \in used, StartDelete(a, i)
        PROVE  ListsReflectAcknowledged'
    BY <1>3 DEF StartDelete, Begin, Ready, Unpromise
  <1>4. ASSUME NEW a \in Actors, StartList(a)
        PROVE  ListsReflectAcknowledged'
    BY <1>4 DEF StartList, Begin, Ready
  <1>5. ASSUME NEW a \in Actors, ServiceCreates(a)
        PROVE  ListsReflectAcknowledged'
    BY <1>5 DEF ServiceCreates
  <1>6. ASSUME NEW a \in Actors, ServiceDeletes(a)
        PROVE  ListsReflectAcknowledged'
    BY <1>6 DEF ServiceDeletes
  <1>6t. ASSUME NEW a \in Actors, TokenMisses(a)
        PROVE  ListsReflectAcknowledged'
    BY <1>6t DEF TokenMisses
  <1>7. ASSUME NEW a \in Actors, RequestFails(a)
        PROVE  ListsReflectAcknowledged'
    BY <1>7 DEF RequestFails, Finish
  <1>8. ASSUME NEW a \in Actors, AnswerLost(a)
        PROVE  ListsReflectAcknowledged'
    BY <1>8 DEF AnswerLost, Finish
  <1>9. ASSUME NEW a \in Actors, AnswerArrives(a)
        PROVE  ListsReflectAcknowledged'
    BY <1>9 DEF AnswerArrives
  <1>10. ASSUME NEW a \in Actors, Invalidate(a)
        PROVE  ListsReflectAcknowledged'
    <2>1. pc[a] = "invalidate" /\ pc' = [pc EXCEPT ![a] = "return"]
      BY <1>10 DEF Invalidate, Finish
    <2>2. op[a] # "list" /\ op' = op /\ got' = got
          /\ UNCHANGED <<mustSee, mustMiss>>
      BY <1>10 DEF Invalidate
    <2>3. \A c \in Actors : c # a => outcome'[c] = outcome[c]
      BY <1>10 DEF Invalidate, Finish
    <2> QED
      BY <2>1, <2>2, <2>3 DEF ListsReflectAcknowledged
  <1>11. ASSUME NEW a \in Actors, ListFromSnapshot(a)
        PROVE  ListsReflectAcknowledged'
    BY <1>11 DEF ListFromSnapshot, Finish
  <1>12. ASSUME NEW a \in Actors, ListFetches(a)
        PROVE  ListsReflectAcknowledged'
    BY <1>12 DEF ListFetches
  <1>13. ASSUME NEW a \in Actors, FetchPage(a)
        PROVE  ListsReflectAcknowledged'
    BY <1>13 DEF FetchPage, Seen
  <1>14. ASSUME NEW a \in Actors, FetchLastPage(a)
        PROVE  ListsReflectAcknowledged'
    BY <1>14 DEF FetchLastPage, Seen, ForgetPages, Finish
  <1>15. ASSUME NEW a \in Actors, FetchFails(a)
        PROVE  ListsReflectAcknowledged'
    BY <1>15 DEF FetchFails, ForgetPages, Finish
  <1>16. ASSUME NEW a \in Actors, FilterAnswers(a)
        PROVE  ListsReflectAcknowledged'
    <2>1. pc[a] = "filter" /\ pc' = [pc EXCEPT ![a] = "return"]
      BY <1>16 DEF FilterAnswers, Finish
    <2>2. op' = op /\ UNCHANGED <<mustSee, mustMiss>>
      BY <1>16 DEF FilterAnswers
    <2>3. \A c \in Actors \ {a} : UNCHANGED <<outcome[c], got[c]>>
      BY <1>16 DEF FilterAnswers, Finish
    <2> QED
      BY <2>1, <2>2, <2>3 DEF ListsReflectAcknowledged
  <1>17. CASE ElsewhereCreates
    BY <1>17 DEF ElsewhereCreates
  <1>18. CASE ElsewhereDeletes
    BY <1>18 DEF ElsewhereDeletes, Unpromise
  <1>19. CASE ElsewhereEdits
    BY <1>19 DEF ElsewhereEdits
  <1>20. CASE UNCHANGED inventoryVars
    BY <1>20 DEF inventoryVars
  <1> QED
    BY <1>1, <1>2, <1>3, <1>4, <1>5, <1>6, <1>6t, <1>7, <1>8, <1>9, <1>10,
       <1>11, <1>12, <1>13, <1>14, <1>15, <1>16, <1>17, <1>18, <1>19,
       <1>20
       DEF ClientNext, InventoryNext, StartCall, ClientStep, Elsewhere

\* Every step keeps the inductive invariant.
LEMMA InventoryStep ==
  InventoryInv /\ [ClientNext]_inventoryVars => InventoryInv'
  BY InventoryTypeStep, MuStep, CallStep, PagesStep, SnapshotStep,
     CreatedStep, DeletedStep, PromiseStep, ListsStep
     DEF InventoryInv

\* The conjunction behind the snapshot's properties (MuInv, CallInv,
\* PagesCurrent, ...) holds in every state of any number of goroutines that
\* create, delete and list managed URLs through one Client.
THEOREM InventoryInvHolds == InventorySpec => []InventoryInv
  <1>1. InventoryInv /\ [InventoryNext]_inventoryVars => InventoryInv'
    BY InventoryStep DEF ClientNext
  <1> QED
    BY InitInventoryInv, <1>1, PTL DEF InventorySpec

\* Every variable of the client calls and the snapshot keeps its type.
THEOREM InventoryTypeCorrect == InventorySpec => []InventoryTypeOK
  <1>1. InventoryInv => InventoryTypeOK
    BY DEF InventoryInv
  <1> QED
    BY InventoryInvHolds, <1>1, PTL

\* invalidateManagedURLInventory and the mutex kept across the page fetch are
\* enough: a valid snapshot is never stale for a change this client made and
\* has acknowledged.
THEOREM SnapshotIsCurrent == InventorySpec => []SnapshotCurrent
  <1>1. InventoryInv => SnapshotCurrent
    BY DEF InventoryInv
  <1> QED
    BY InventoryInvHolds, <1>1, PTL

\* ListManagedURLs never hides a managed URL whose CreateManagedURL had
\* returned, nor shows one whose DeleteManagedURL had, before it was called.
THEOREM ListsAreReflecting == InventorySpec => []ListsReflectAcknowledged
  <1>1. InventoryInv => ListsReflectAcknowledged
    BY DEF InventoryInv
  <1> QED
    BY InventoryInvHolds, <1>1, PTL

----------------------------------------------------------------------------
(* ManagedURLResource.  The steps of the client keep InventoryInv by the   *)
(* lemmas above.                                                           *)

\* ResourceInv holds of a fresh provider with an empty state.
LEMMA InitResourceInv == Init => ResourceInv
  <1> SUFFICES ASSUME Init PROVE ResourceInv
    OBVIOUS
  <1> USE InventoryAssumption DEF Init, Resources
  <1>1. InventoryInv
    BY InitInventoryInv
  <1>2. TypeOK
    BY <1>1 DEF TypeOK, InventoryInv, Step
  <1>3. UsedInv
    BY DEF UsedInv, InventoryInit, Nothing
  <1>4. CallsInv
    <2> SUFFICES ASSUME NEW r \in Actors
                 PROVE  StepOf(r) /\ MakingOf(r) /\ OwnOf(r) /\ GoneOf(r) /\ ListedOf(r)
      BY DEF CallsInv
    <2>1. step[r] = "idle" /\ pc[r] = "idle" /\ stateId[r] = NoId /\ making[r] = NoId
      BY DEF InventoryInit
    <2> QED
      BY <2>1 DEF StepOf, MakingOf, OwnOf, GoneOf, ListedOf
  <1>5. ShownInv
    BY DEF ShownInv, InventoryInit, Nothing
  <1>6. ConfirmedInv /\ DroppedInv /\ DriftDetected
    BY DEF ConfirmedInv, DroppedInv, DriftDetected
  <1>7. NoSilentOrphan
    BY DEF NoSilentOrphan
  <1> QED
    BY <1>1, <1>2, <1>3, <1>4, <1>5, <1>6, <1>7 DEF ResourceInv

\* A method that ends drops what its last call returned; the snapshot and the
\* calls of the others are as they were.
LEMMA LeaveKeepsInventory ==
  ASSUME InventoryInv, NEW r \in Resources, Leave(r), pc[r] = "return"
  PROVE  InventoryInv'
  <1> USE InventoryAssumption
      DEF InventoryInv, Resources, Leave, fetchVars, cacheVars
  <1>1. \A a \in Actors \ {r} : UNCHANGED <<pc[a], op[a], target[a], body[a], outcome[a],
                                           got[a], mustSee[a], mustMiss[a]>>
    BY DEF InventoryTypeOK
  <1>2. pc'[r] = "idle" /\ mustSee'[r] = {} /\ mustMiss'[r] = {}
    BY DEF InventoryTypeOK
  <1>3. \A i \in Ids : BeingAcknowledged(i) => BeingAcknowledged(i)'
    BY <1>1 DEF BeingAcknowledged
  <1>4. \A i \in Ids : BeingRemoved(i)' => BeingRemoved(i)
    BY <1>1, <1>2 DEF BeingRemoved
  <1>5. InventoryTypeOK'
    BY DEF InventoryTypeOK, PC, Nothing, Listing
  <1> HIDE DEF Leave
  <1>6. UNCHANGED <<scanned, found, inventory, valid, mu, server, used, drift,
                    created, deleted>>
    BY DEF Leave
  <1>7. MuInv'
    <2>1. ASSUME NEW a \in Actors PROVE (mu = a <=> pc[a] = "fetch")'
      <3>1. CASE a = r
        BY <1>2, <1>6, <3>1 DEF MuInv
      <3>2. CASE a # r
        BY <1>1, <1>6, <3>2 DEF MuInv
      <3> QED
        BY <3>1, <3>2
    <2> QED
      BY <2>1 DEF MuInv
  <1>8. CallInv'
    <2>1. ASSUME NEW a \in Actors PROVE CallOf(a)'
      <3>1. CASE a = r
        BY <1>2, <1>6, <3>1 DEF CallInv, CallOf
      <3>2. CASE a # r
        BY <1>1, <1>6, <3>2 DEF CallInv, CallOf
      <3> QED
        BY <3>1, <3>2
    <2> QED
      BY <2>1 DEF CallInv
  <1>9. PagesCurrent'
    BY <1>1, <1>2, <1>3, <1>6 DEF PagesCurrent, InventoryTypeOK
  <1>10. SnapshotCurrent'
    BY <1>3, <1>6 DEF SnapshotCurrent
  <1>11. CreatedInv'
    BY <1>1, <1>2, <1>4, <1>6 DEF CreatedInv, InventoryTypeOK
  <1>12. DeletedInv'
    BY <1>1, <1>2, <1>6 DEF DeletedInv, InventoryTypeOK
  <1>13. PromiseInv' /\ ListsReflectAcknowledged'
    BY <1>1, <1>2, <1>6 DEF PromiseInv, ListsReflectAcknowledged
  <1> QED
    BY <1>5, <1>7, <1>8, <1>9, <1>10, <1>11, <1>12, <1>13

\* So does the end of the process: the next one has a client of its own, and
\* what was promised to the lists of the old one is forgotten.
LEMMA NewProcessKeepsInventory ==
  ASSUME InventoryInv, NewProcess
  PROVE  InventoryInv'
  <1> USE InventoryAssumption DEF InventoryInv, NewProcess
  <1>1. InventoryTypeOK'
    BY DEF InventoryTypeOK, PC, Nothing, Listing
  <1>2. MuInv' /\ CallInv'
    BY DEF MuInv, CallInv, CallOf
  <1>3. PagesCurrent' /\ SnapshotCurrent'
    BY DEF PagesCurrent, SnapshotCurrent
  <1>4. CreatedInv' /\ DeletedInv' /\ PromiseInv'
    BY DEF CreatedInv, DeletedInv, PromiseInv
  <1>5. ListsReflectAcknowledged'
    BY DEF ListsReflectAcknowledged
  <1> QED
    BY <1>1, <1>2, <1>3, <1>4, <1>5

\* A method either makes a call of the client or ends.
LEMMA MethodCallsOrLeaves ==
  ASSUME TypeOK, UsedInv, NEW r \in Resources, Method(r)
  PROVE  ClientNext \/ (Leave(r) /\ pc[r] = "return")
  <1> USE DEF TypeOK, InventoryTypeOK, Resources
  <1>1. CASE CreateStart(r)
    BY <1>1 DEF CreateStart, ClientNext, InventoryNext, StartCall
  <1>2. CASE CreateReadsBack(r) \/ ReadFallsBack(r) \/ ImportStart(r)
    BY <1>2 DEF CreateReadsBack, ReadFallsBack, ImportStart, ClientNext, InventoryNext, StartCall
  <1>3. CASE ReadStart(r)
    <2>1. stateBody[r] \in Bodies
      BY <1>3 DEF ReadStart, Managed
    <2> QED
      BY <1>3, <2>1 DEF ReadStart, ClientNext
  <1>4. CASE DeleteStart(r)
    <2>1. stateId[r] \in used
      BY <1>4 DEF DeleteStart, Managed, UsedInv
    <2> QED
      BY <1>4, <2>1 DEF DeleteStart, ClientNext, InventoryNext, StartCall
  <1>5. CASE CreateFails(r) \/ CreateEnds(r) \/ ReadFromFilter(r) \/ ReadFromInventory(r)
             \/ ReadFails(r) \/ DeleteEnds(r) \/ ImportEnds(r)
    BY <1>5 DEF CreateFails, CreateEnds, ReadFromFilter, ReadFromInventory, ReadFails,
         DeleteEnds, ImportEnds, Returned
  <1> QED
    BY <1>1, <1>2, <1>3, <1>4, <1>5 DEF Method

\* Every step of the composition keeps what ManagedURLInventory promises.
LEMMA InventoryKept ==
  ASSUME InventoryInv, TypeOK, UsedInv, [Next]_allVars
  PROVE  InventoryInv'
  <1>1. ASSUME NEW r \in Resources, Method(r)
        PROVE  InventoryInv'
    BY <1>1, MethodCallsOrLeaves, LeaveKeepsInventory, InventoryStep
  <1>2. ASSUME NEW r \in Resources, ClientMoves(r)
        PROVE  InventoryInv'
    BY <1>2, InventoryStep DEF ClientMoves, Observe, ClientNext, InventoryNext, Resources
  <1>3. CASE OthersMove
    BY <1>3, InventoryStep DEF OthersMove, Observe, ClientNext, InventoryNext
  <1>4. CASE NewProcess
    BY <1>4, NewProcessKeepsInventory
  <1>5. CASE UNCHANGED allVars
    BY <1>5, InventoryStep DEF allVars
  <1> QED
    BY <1>1, <1>2, <1>3, <1>4, <1>5 DEF Next

\* No step of a method, the client or the process leaves the types.
LEMMA ResourceTypeStep ==
  ASSUME TypeOK, CallsInv, InventoryTypeOK',
         [Next]_allVars
  PROVE  TypeOK'
  <1> USE InventoryAssumption, UnreadableAssumption DEF TypeOK, InventoryTypeOK, Resources, Step, Listing, stateVars, historyVars
  <1>1. ASSUME NEW r \in Resources, CreateStart(r)
        PROVE  TypeOK'
    BY <1>1 DEF CreateStart, Enter, Managed, StartCreate, Begin, Ready
  <1>2. ASSUME NEW r \in Resources, CreateReadsBack(r)
        PROVE  TypeOK'
    BY <1>2 DEF CreateReadsBack, Enter, Returned, StartList, Begin, Ready
  <1>3. ASSUME NEW r \in Resources, CreateFails(r)
        PROVE  TypeOK'
    BY <1>3 DEF CreateFails, Enter, Returned, Hydrates, FoundById, Leave
  <1>4. ASSUME NEW r \in Resources, CreateEnds(r)
        PROVE  TypeOK'
    <2>1. \/ UNCHANGED <<stateId, stateBody>>
          \/ /\ givenId[r] \in Ids
             /\ got[r][givenId[r]] \in Bodies \ Unreadable
             /\ stateId' = [stateId EXCEPT ![r] = givenId[r]]
             /\ stateBody' = [stateBody EXCEPT ![r] = got[r][givenId[r]]]
      BY <1>4 DEF CreateEnds, Returned, Refresh, Forget, SetState, Hydrates, FoundById, CallsInv,
         StepOf, MakingOf
    <2>2. confirmed' \in {confirmed, confirmed \union {r}, confirmed \ {r}}
      BY <1>4, Zenon DEF CreateEnds, Refresh, Forget, Confirm, SetState
    <2>3. confirmed' \in SUBSET Resources
      BY <2>2
    <2>4. /\ step' = [step EXCEPT ![r] = "idle"]
          /\ givenId' = [givenId EXCEPT ![r] = NoId]
          /\ making' = [making EXCEPT ![r] = NoId]
          /\ UNCHANGED <<reported, quiet>>
          /\ \/ UNCHANGED owned
             \/ givenId[r] \in Ids /\ owned' = [owned EXCEPT ![r] = owned[r] \union {givenId[r]}]
      BY <1>4 DEF CreateEnds, Leave, Enter, SetState, Returned, CallsInv, StepOf, MakingOf
    <2>5. /\ stateId' \in [Resources -> Ids \union {NoId}]
          /\ stateBody' \in [Resources -> (Bodies \ Unreadable) \union {Absent}]
          /\ \A q \in Resources : stateId'[q] = NoId <=> stateBody'[q] = Absent
      <3>1. \/ UNCHANGED <<stateId, stateBody>>
            \/ \E i \in Ids \union {NoId}, b \in (Bodies \ Unreadable) \union {Absent} :
                  /\ i = NoId <=> b = Absent
                  /\ stateId' = [stateId EXCEPT ![r] = i]
                  /\ stateBody' = [stateBody EXCEPT ![r] = b]
        BY <2>1
      <3>2. ASSUME NEW i \in Ids \union {NoId}, NEW b \in (Bodies \ Unreadable) \union {Absent},
                   i = NoId <=> b = Absent,
                   stateId' = [stateId EXCEPT ![r] = i],
                   stateBody' = [stateBody EXCEPT ![r] = b]
            PROVE  /\ stateId' \in [Resources -> Ids \union {NoId}]
                   /\ stateBody' \in [Resources -> (Bodies \ Unreadable) \union {Absent}]
                   /\ \A q \in Resources : stateId'[q] = NoId <=> stateBody'[q] = Absent
        BY <3>2
      <3> QED
        BY <3>1, <3>2
    <2>6. /\ step' \in [Resources -> Step]
          /\ givenId' \in [Resources -> Ids \union {NoId}]
          /\ making' \in [Resources -> Ids \union {NoId}]
      BY <2>4
    <2>8. owned' \in [Resources -> SUBSET Ids]
      <3>1. CASE UNCHANGED owned
        BY <3>1
      <3>2. CASE /\ givenId[r] \in Ids
                 /\ owned' = [owned EXCEPT ![r] = owned[r] \union {givenId[r]}]
        <4>1. owned[r] \union {givenId[r]} \in SUBSET Ids
          BY <3>2
        <4> QED
          BY <3>2, <4>1
      <3> QED
        BY <2>4, <3>1, <3>2
    <2>7. quiet' \in BOOLEAN
      BY <2>4, Zenon
    <2>9. dropped' \in SUBSET Ids
      <3>1. \/ dropped' \subseteq dropped
            \/ stateId[r] \in Ids /\ dropped' = dropped \union {stateId[r]}
        BY <1>4 DEF CreateEnds, Returned, Refresh, Forget, SetState, CallsInv, StepOf
      <3> QED
        BY <3>1
    <2> QED
      BY <2>3, <2>4, <2>5, <2>6, <2>7, <2>8, <2>9, Zenon
  <1>5. ASSUME NEW r \in Resources, ReadStart(r)
        PROVE  TypeOK'
    BY <1>5 DEF ReadStart, Enter, Managed, StartFilter, Begin, Ready
  <1>6. ASSUME NEW r \in Resources, ReadFromFilter(r)
        PROVE  TypeOK'
    <2>1. \/ UNCHANGED <<stateId, stateBody>>
          \/ /\ stateId[r] \in Ids
             /\ got[r][stateId[r]] \in Bodies \ Unreadable
             /\ stateBody' = [stateBody EXCEPT ![r] = got[r][stateId[r]]]
             /\ UNCHANGED stateId
      BY <1>6 DEF ReadFromFilter, Returned, Refresh, Forget, SetState, Hydrates, FoundById, CallsInv,
         StepOf, MakingOf
    <2>2. confirmed' \in {confirmed, confirmed \union {r}, confirmed \ {r}}
      BY <1>6, Zenon DEF ReadFromFilter, Refresh, Forget, Confirm, SetState
    <2>3. confirmed' \in SUBSET Resources
      BY <2>2
    <2>4. /\ step' = [step EXCEPT ![r] = "idle"]
          /\ givenId' = [givenId EXCEPT ![r] = NoId]
          /\ making' = [making EXCEPT ![r] = NoId]
          /\ UNCHANGED <<reported, quiet>>
          /\ \/ UNCHANGED owned
             \/ givenId[r] \in Ids /\ owned' = [owned EXCEPT ![r] = owned[r] \union {givenId[r]}]
      BY <1>6 DEF ReadFromFilter, Leave, Enter, SetState, Returned, CallsInv, StepOf, MakingOf
    <2>5. /\ stateId' \in [Resources -> Ids \union {NoId}]
          /\ stateBody' \in [Resources -> (Bodies \ Unreadable) \union {Absent}]
          /\ \A q \in Resources : stateId'[q] = NoId <=> stateBody'[q] = Absent
      <3>1. \/ UNCHANGED <<stateId, stateBody>>
            \/ \E i \in Ids \union {NoId}, b \in (Bodies \ Unreadable) \union {Absent} :
                  /\ i = NoId <=> b = Absent
                  /\ stateId' = [stateId EXCEPT ![r] = i]
                  /\ stateBody' = [stateBody EXCEPT ![r] = b]
        BY <2>1
      <3>2. ASSUME NEW i \in Ids \union {NoId}, NEW b \in (Bodies \ Unreadable) \union {Absent},
                   i = NoId <=> b = Absent,
                   stateId' = [stateId EXCEPT ![r] = i],
                   stateBody' = [stateBody EXCEPT ![r] = b]
            PROVE  /\ stateId' \in [Resources -> Ids \union {NoId}]
                   /\ stateBody' \in [Resources -> (Bodies \ Unreadable) \union {Absent}]
                   /\ \A q \in Resources : stateId'[q] = NoId <=> stateBody'[q] = Absent
        BY <3>2
      <3> QED
        BY <3>1, <3>2
    <2>6. /\ step' \in [Resources -> Step]
          /\ givenId' \in [Resources -> Ids \union {NoId}]
          /\ making' \in [Resources -> Ids \union {NoId}]
      BY <2>4
    <2>8. owned' \in [Resources -> SUBSET Ids]
      <3>1. CASE UNCHANGED owned
        BY <3>1
      <3>2. CASE /\ givenId[r] \in Ids
                 /\ owned' = [owned EXCEPT ![r] = owned[r] \union {givenId[r]}]
        <4>1. owned[r] \union {givenId[r]} \in SUBSET Ids
          BY <3>2
        <4> QED
          BY <3>2, <4>1
      <3> QED
        BY <2>4, <3>1, <3>2
    <2>7. quiet' \in BOOLEAN
      BY <2>4, Zenon
    <2>9. dropped' \in SUBSET Ids
      <3>1. \/ dropped' \subseteq dropped
            \/ stateId[r] \in Ids /\ dropped' = dropped \union {stateId[r]}
        BY <1>6 DEF ReadFromFilter, Returned, Refresh, Forget, SetState, CallsInv, StepOf
      <3> QED
        BY <3>1
    <2> QED
      BY <2>3, <2>4, <2>5, <2>6, <2>7, <2>8, <2>9, Zenon
  <1>7. ASSUME NEW r \in Resources, ReadFallsBack(r)
        PROVE  TypeOK'
    BY <1>7 DEF ReadFallsBack, Enter, Returned, FoundById, StartList, Begin, Ready
  <1>8. ASSUME NEW r \in Resources, ReadFromInventory(r)
        PROVE  TypeOK'
    <2>1. \/ UNCHANGED <<stateId, stateBody>>
          \/ /\ stateId[r] \in Ids
             /\ got[r][stateId[r]] \in Bodies \ Unreadable
             /\ stateBody' = [stateBody EXCEPT ![r] = got[r][stateId[r]]]
             /\ UNCHANGED stateId
          \/ /\ stateId' = [stateId EXCEPT ![r] = NoId]
             /\ stateBody' = [stateBody EXCEPT ![r] = Absent]
      BY <1>8 DEF ReadFromInventory, Returned, Refresh, Forget, SetState, Hydrates, FoundById, CallsInv,
         StepOf, MakingOf
    <2>2. confirmed' \in {confirmed, confirmed \union {r}, confirmed \ {r}}
      BY <1>8, Zenon DEF ReadFromInventory, Refresh, Forget, Confirm, SetState
    <2>3. confirmed' \in SUBSET Resources
      BY <2>2
    <2>4. /\ step' = [step EXCEPT ![r] = "idle"]
          /\ givenId' = [givenId EXCEPT ![r] = NoId]
          /\ making' = [making EXCEPT ![r] = NoId]
          /\ UNCHANGED <<reported, quiet>>
          /\ \/ UNCHANGED owned
             \/ givenId[r] \in Ids /\ owned' = [owned EXCEPT ![r] = owned[r] \union {givenId[r]}]
      BY <1>8 DEF ReadFromInventory, Leave, Enter, SetState, Returned, CallsInv, StepOf, MakingOf
    <2>5. /\ stateId' \in [Resources -> Ids \union {NoId}]
          /\ stateBody' \in [Resources -> (Bodies \ Unreadable) \union {Absent}]
          /\ \A q \in Resources : stateId'[q] = NoId <=> stateBody'[q] = Absent
      <3>1. \/ UNCHANGED <<stateId, stateBody>>
            \/ \E i \in Ids \union {NoId}, b \in (Bodies \ Unreadable) \union {Absent} :
                  /\ i = NoId <=> b = Absent
                  /\ stateId' = [stateId EXCEPT ![r] = i]
                  /\ stateBody' = [stateBody EXCEPT ![r] = b]
        BY <2>1
      <3>2. ASSUME NEW i \in Ids \union {NoId}, NEW b \in (Bodies \ Unreadable) \union {Absent},
                   i = NoId <=> b = Absent,
                   stateId' = [stateId EXCEPT ![r] = i],
                   stateBody' = [stateBody EXCEPT ![r] = b]
            PROVE  /\ stateId' \in [Resources -> Ids \union {NoId}]
                   /\ stateBody' \in [Resources -> (Bodies \ Unreadable) \union {Absent}]
                   /\ \A q \in Resources : stateId'[q] = NoId <=> stateBody'[q] = Absent
        BY <3>2
      <3> QED
        BY <3>1, <3>2
    <2>6. /\ step' \in [Resources -> Step]
          /\ givenId' \in [Resources -> Ids \union {NoId}]
          /\ making' \in [Resources -> Ids \union {NoId}]
      BY <2>4
    <2>8. owned' \in [Resources -> SUBSET Ids]
      <3>1. CASE UNCHANGED owned
        BY <3>1
      <3>2. CASE /\ givenId[r] \in Ids
                 /\ owned' = [owned EXCEPT ![r] = owned[r] \union {givenId[r]}]
        <4>1. owned[r] \union {givenId[r]} \in SUBSET Ids
          BY <3>2
        <4> QED
          BY <3>2, <4>1
      <3> QED
        BY <2>4, <3>1, <3>2
    <2>7. quiet' \in BOOLEAN
      BY <2>4, Zenon
    <2>9. dropped' \in SUBSET Ids
      <3>1. \/ dropped' \subseteq dropped
            \/ stateId[r] \in Ids /\ dropped' = dropped \union {stateId[r]}
        BY <1>8 DEF ReadFromInventory, Returned, Refresh, Forget, SetState, CallsInv, StepOf
      <3> QED
        BY <3>1
    <2> QED
      BY <2>3, <2>4, <2>5, <2>6, <2>7, <2>8, <2>9, Zenon
  <1>9. ASSUME NEW r \in Resources, ReadFails(r)
        PROVE  TypeOK'
    BY <1>9 DEF ReadFails, Enter, Returned, Hydrates, FoundById, Leave
  <1>10. ASSUME NEW r \in Resources, DeleteStart(r)
        PROVE  TypeOK'
    BY <1>10 DEF DeleteStart, Enter, Managed, StartDelete, Begin, Ready, Unpromise
  <1>11. ASSUME NEW r \in Resources, DeleteEnds(r)
        PROVE  TypeOK'
    <2>1. \/ UNCHANGED <<stateId, stateBody>>
          \/ /\ stateId' = [stateId EXCEPT ![r] = NoId]
             /\ stateBody' = [stateBody EXCEPT ![r] = Absent]
      BY <1>11 DEF DeleteEnds, Returned, Refresh, Forget, SetState, Hydrates, FoundById, CallsInv,
         StepOf, MakingOf
    <2>2. confirmed' \in {confirmed, confirmed \union {r}, confirmed \ {r}}
      BY <1>11, Zenon DEF DeleteEnds, Refresh, Forget, Confirm, SetState
    <2>3. confirmed' \in SUBSET Resources
      BY <2>2
    <2>4. /\ step' = [step EXCEPT ![r] = "idle"]
          /\ givenId' = [givenId EXCEPT ![r] = NoId]
          /\ making' = [making EXCEPT ![r] = NoId]
          /\ UNCHANGED <<reported, quiet>>
          /\ \/ UNCHANGED owned
             \/ givenId[r] \in Ids /\ owned' = [owned EXCEPT ![r] = owned[r] \union {givenId[r]}]
      BY <1>11 DEF DeleteEnds, Leave, Enter, SetState, Returned, CallsInv, StepOf, MakingOf
    <2>5. /\ stateId' \in [Resources -> Ids \union {NoId}]
          /\ stateBody' \in [Resources -> (Bodies \ Unreadable) \union {Absent}]
          /\ \A q \in Resources : stateId'[q] = NoId <=> stateBody'[q] = Absent
      <3>1. \/ UNCHANGED <<stateId, stateBody>>
            \/ \E i \in Ids \union {NoId}, b \in (Bodies \ Unreadable) \union {Absent} :
                  /\ i = NoId <=> b = Absent
                  /\ stateId' = [stateId EXCEPT ![r] = i]
                  /\ stateBody' = [stateBody EXCEPT ![r] = b]
        BY <2>1
      <3>2. ASSUME NEW i \in Ids \union {NoId}, NEW b \in (Bodies \ Unreadable) \union {Absent},
                   i = NoId <=> b = Absent,
                   stateId' = [stateId EXCEPT ![r] = i],
                   stateBody' = [stateBody EXCEPT ![r] = b]
            PROVE  /\ stateId' \in [Resources -> Ids \union {NoId}]
                   /\ stateBody' \in [Resources -> (Bodies \ Unreadable) \union {Absent}]
                   /\ \A q \in Resources : stateId'[q] = NoId <=> stateBody'[q] = Absent
        BY <3>2
      <3> QED
        BY <3>1, <3>2
    <2>6. /\ step' \in [Resources -> Step]
          /\ givenId' \in [Resources -> Ids \union {NoId}]
          /\ making' \in [Resources -> Ids \union {NoId}]
      BY <2>4
    <2>8. owned' \in [Resources -> SUBSET Ids]
      <3>1. CASE UNCHANGED owned
        BY <3>1
      <3>2. CASE /\ givenId[r] \in Ids
                 /\ owned' = [owned EXCEPT ![r] = owned[r] \union {givenId[r]}]
        <4>1. owned[r] \union {givenId[r]} \in SUBSET Ids
          BY <3>2
        <4> QED
          BY <3>2, <4>1
      <3> QED
        BY <2>4, <3>1, <3>2
    <2>7. quiet' \in BOOLEAN
      BY <2>4, Zenon
    <2>9. dropped' \in SUBSET Ids
      <3>1. \/ dropped' \subseteq dropped
            \/ stateId[r] \in Ids /\ dropped' = dropped \union {stateId[r]}
        BY <1>11 DEF DeleteEnds, Returned, Refresh, Forget, SetState, CallsInv, StepOf
      <3> QED
        BY <3>1
    <2> QED
      BY <2>3, <2>4, <2>5, <2>6, <2>7, <2>8, <2>9, Zenon
  <1>12. ASSUME NEW r \in Resources, ImportStart(r)
        PROVE  TypeOK'
    BY <1>12 DEF ImportStart, Enter, Managed, StartList, Begin, Ready
  <1>13. ASSUME NEW r \in Resources, ImportEnds(r)
        PROVE  TypeOK'
    <2>1. \/ UNCHANGED <<stateId, stateBody>>
          \/ /\ givenId[r] \in Ids
             /\ got[r][givenId[r]] \in Bodies \ Unreadable
             /\ stateId' = [stateId EXCEPT ![r] = givenId[r]]
             /\ stateBody' = [stateBody EXCEPT ![r] = got[r][givenId[r]]]
      BY <1>13 DEF ImportEnds, Returned, Refresh, Forget, SetState, Hydrates, FoundById, CallsInv,
         StepOf, MakingOf
    <2>2. confirmed' \in {confirmed, confirmed \union {r}, confirmed \ {r}}
      BY <1>13, Zenon DEF ImportEnds, Refresh, Forget, Confirm, SetState
    <2>3. confirmed' \in SUBSET Resources
      BY <2>2
    <2>4. /\ step' = [step EXCEPT ![r] = "idle"]
          /\ givenId' = [givenId EXCEPT ![r] = NoId]
          /\ making' = [making EXCEPT ![r] = NoId]
          /\ UNCHANGED <<reported, quiet>>
          /\ \/ UNCHANGED owned
             \/ givenId[r] \in Ids /\ owned' = [owned EXCEPT ![r] = owned[r] \union {givenId[r]}]
      BY <1>13 DEF ImportEnds, Leave, Enter, SetState, Returned, CallsInv, StepOf, MakingOf
    <2>5. /\ stateId' \in [Resources -> Ids \union {NoId}]
          /\ stateBody' \in [Resources -> (Bodies \ Unreadable) \union {Absent}]
          /\ \A q \in Resources : stateId'[q] = NoId <=> stateBody'[q] = Absent
      <3>1. \/ UNCHANGED <<stateId, stateBody>>
            \/ \E i \in Ids \union {NoId}, b \in (Bodies \ Unreadable) \union {Absent} :
                  /\ i = NoId <=> b = Absent
                  /\ stateId' = [stateId EXCEPT ![r] = i]
                  /\ stateBody' = [stateBody EXCEPT ![r] = b]
        BY <2>1
      <3>2. ASSUME NEW i \in Ids \union {NoId}, NEW b \in (Bodies \ Unreadable) \union {Absent},
                   i = NoId <=> b = Absent,
                   stateId' = [stateId EXCEPT ![r] = i],
                   stateBody' = [stateBody EXCEPT ![r] = b]
            PROVE  /\ stateId' \in [Resources -> Ids \union {NoId}]
                   /\ stateBody' \in [Resources -> (Bodies \ Unreadable) \union {Absent}]
                   /\ \A q \in Resources : stateId'[q] = NoId <=> stateBody'[q] = Absent
        BY <3>2
      <3> QED
        BY <3>1, <3>2
    <2>6. /\ step' \in [Resources -> Step]
          /\ givenId' \in [Resources -> Ids \union {NoId}]
          /\ making' \in [Resources -> Ids \union {NoId}]
      BY <2>4
    <2>8. owned' \in [Resources -> SUBSET Ids]
      <3>1. CASE UNCHANGED owned
        BY <3>1
      <3>2. CASE /\ givenId[r] \in Ids
                 /\ owned' = [owned EXCEPT ![r] = owned[r] \union {givenId[r]}]
        <4>1. owned[r] \union {givenId[r]} \in SUBSET Ids
          BY <3>2
        <4> QED
          BY <3>2, <4>1
      <3> QED
        BY <2>4, <3>1, <3>2
    <2>7. quiet' \in BOOLEAN
      BY <2>4, Zenon
    <2>9. dropped' \in SUBSET Ids
      <3>1. \/ dropped' \subseteq dropped
            \/ stateId[r] \in Ids /\ dropped' = dropped \union {stateId[r]}
        BY <1>13 DEF ImportEnds, Returned, Refresh, Forget, SetState, CallsInv, StepOf
      <3> QED
        BY <3>1
    <2> QED
      BY <2>3, <2>4, <2>5, <2>6, <2>7, <2>8, <2>9, Zenon
  <1>14. ASSUME NEW r \in Resources, ClientMoves(r), ServiceCreates(r)
        PROVE  TypeOK'
    BY <1>14 DEF ClientMoves, Observe, ServiceCreates
  <1>15. ASSUME NEW r \in Resources, ClientMoves(r), ServiceDeletes(r)
        PROVE  TypeOK'
    BY <1>15 DEF ClientMoves, Observe, ServiceDeletes
  <1>15t. ASSUME NEW r \in Resources, ClientMoves(r), TokenMisses(r)
        PROVE  TypeOK'
    BY <1>15t DEF ClientMoves, Observe, TokenMisses
  <1>16. ASSUME NEW r \in Resources, ClientMoves(r), RequestFails(r)
        PROVE  TypeOK'
    BY <1>16 DEF ClientMoves, Observe, RequestFails, Finish
  <1>17. ASSUME NEW r \in Resources, ClientMoves(r), AnswerLost(r)
        PROVE  TypeOK'
    BY <1>17 DEF ClientMoves, Observe, AnswerLost, Finish
  <1>18. ASSUME NEW r \in Resources, ClientMoves(r), AnswerArrives(r)
        PROVE  TypeOK'
    BY <1>18 DEF ClientMoves, Observe, AnswerArrives
  <1>19. ASSUME NEW r \in Resources, ClientMoves(r), Invalidate(r)
        PROVE  TypeOK'
    BY <1>19 DEF ClientMoves, Observe, Invalidate, Finish
  <1>20. ASSUME NEW r \in Resources, ClientMoves(r), ListFromSnapshot(r)
        PROVE  TypeOK'
    BY <1>20 DEF ClientMoves, Observe, ListFromSnapshot, Finish
  <1>21. ASSUME NEW r \in Resources, ClientMoves(r), ListFetches(r)
        PROVE  TypeOK'
    BY <1>21 DEF ClientMoves, Observe, ListFetches
  <1>22. ASSUME NEW r \in Resources, ClientMoves(r), FetchPage(r)
        PROVE  TypeOK'
    BY <1>22 DEF ClientMoves, Observe, FetchPage, Seen
  <1>23. ASSUME NEW r \in Resources, ClientMoves(r), FetchLastPage(r)
        PROVE  TypeOK'
    BY <1>23 DEF ClientMoves, Observe, FetchLastPage, Seen, ForgetPages, Finish
  <1>24. ASSUME NEW r \in Resources, ClientMoves(r), FetchFails(r)
        PROVE  TypeOK'
    BY <1>24 DEF ClientMoves, Observe, FetchFails, ForgetPages, Finish
  <1>25. ASSUME NEW r \in Resources, ClientMoves(r), FilterAnswers(r)
        PROVE  TypeOK'
    BY <1>25 DEF ClientMoves, Observe, FilterAnswers, Finish, Matching
  <1>26. CASE OthersMove /\ ElsewhereCreates
    BY <1>26 DEF OthersMove, Observe, ElsewhereCreates
  <1>27. CASE OthersMove /\ ElsewhereDeletes
    BY <1>27 DEF OthersMove, Observe, ElsewhereDeletes, Unpromise
  <1>28. CASE OthersMove /\ ElsewhereEdits
    BY <1>28 DEF OthersMove, Observe, ElsewhereEdits
  <1>29. CASE NewProcess
    BY <1>29 DEF NewProcess
  <1>30. CASE UNCHANGED allVars
    BY <1>30 DEF allVars, resourceVars, inventoryVars
  <1> QED
    BY <1>1, <1>2, <1>3, <1>4, <1>5, <1>6, <1>7, <1>8, <1>9, <1>10, <1>11, <1>12, <1>13, <1>14, <1>15, <1>15t, <1>16, <1>17, <1>18, <1>19, <1>20, <1>21, <1>22, <1>23, <1>24, <1>25, <1>26, <1>27, <1>28, <1>29, <1>30 DEF Next, Method, OthersMove, Elsewhere, ClientMoves, ClientStep

\* Only the service gives ids, and everything else follows from a list.
LEMMA UsedStep ==
  ASSUME TypeOK, InventoryInv, UsedInv,
         [Next]_allVars
  PROVE  UsedInv'
  <1> USE InventoryAssumption, UnreadableAssumption DEF TypeOK, InventoryTypeOK, Resources, Listing, stateVars, historyVars, callVars, fetchVars, cacheVars, ackVars, UsedInv, Nothing
  <1>1. ASSUME NEW r \in Resources, CreateStart(r)
        PROVE  UsedInv'
    BY <1>1 DEF CreateStart, Enter, Managed, StartCreate, Begin, Ready
  <1>2. ASSUME NEW r \in Resources, CreateReadsBack(r)
        PROVE  UsedInv'
    BY <1>2 DEF CreateReadsBack, Enter, Returned, StartList, Begin, Ready
  <1>3. ASSUME NEW r \in Resources, CreateFails(r)
        PROVE  UsedInv'
    BY <1>3 DEF CreateFails, Enter, Returned, Hydrates, FoundById, Leave
  <1>4. ASSUME NEW r \in Resources, CreateEnds(r)
        PROVE  UsedInv'
    BY <1>4 DEF CreateEnds, Enter, Returned, Hydrates, FoundById, SetState, Confirm, Leave
  <1>5. ASSUME NEW r \in Resources, ReadStart(r)
        PROVE  UsedInv'
    BY <1>5 DEF ReadStart, Enter, Managed, StartFilter, Begin, Ready
  <1>6. ASSUME NEW r \in Resources, ReadFromFilter(r)
        PROVE  UsedInv'
    BY <1>6 DEF ReadFromFilter, Enter, Returned, Hydrates, FoundById, SemanticMatch, Refresh, Confirm, Leave
  <1>7. ASSUME NEW r \in Resources, ReadFallsBack(r)
        PROVE  UsedInv'
    BY <1>7 DEF ReadFallsBack, Enter, Returned, FoundById, StartList, Begin, Ready
  <1>8. ASSUME NEW r \in Resources, ReadFromInventory(r)
        PROVE  UsedInv'
    BY <1>8 DEF ReadFromInventory, Enter, Returned, Hydrates, FoundById, Refresh, Confirm, Forget, Leave
  <1>9. ASSUME NEW r \in Resources, ReadFails(r)
        PROVE  UsedInv'
    BY <1>9 DEF ReadFails, Enter, Returned, Hydrates, FoundById, Leave
  <1>10. ASSUME NEW r \in Resources, DeleteStart(r)
        PROVE  UsedInv'
    BY <1>10 DEF DeleteStart, Enter, Managed, StartDelete, Begin, Ready, Unpromise
  <1>11. ASSUME NEW r \in Resources, DeleteEnds(r)
        PROVE  UsedInv'
    BY <1>11 DEF DeleteEnds, Enter, Returned, Forget, Leave
  <1>12. ASSUME NEW r \in Resources, ImportStart(r)
        PROVE  UsedInv'
    BY <1>12 DEF ImportStart, Enter, Managed, StartList, Begin, Ready
  <1>13. ASSUME NEW r \in Resources, ImportEnds(r)
        PROVE  UsedInv'
    BY <1>13 DEF ImportEnds, Enter, Returned, Hydrates, FoundById, SetState, Confirm, Leave
  <1>14. ASSUME NEW r \in Resources, ClientMoves(r), ServiceCreates(r)
        PROVE  UsedInv'
    BY <1>14 DEF ClientMoves, Observe, ServiceCreates
  <1>15. ASSUME NEW r \in Resources, ClientMoves(r), ServiceDeletes(r)
        PROVE  UsedInv'
    BY <1>15 DEF ClientMoves, Observe, ServiceDeletes
  <1>15t. ASSUME NEW r \in Resources, ClientMoves(r), TokenMisses(r)
        PROVE  UsedInv'
    BY <1>15t DEF ClientMoves, Observe, TokenMisses
  <1>16. ASSUME NEW r \in Resources, ClientMoves(r), RequestFails(r)
        PROVE  UsedInv'
    BY <1>16 DEF ClientMoves, Observe, RequestFails, Finish
  <1>17. ASSUME NEW r \in Resources, ClientMoves(r), AnswerLost(r)
        PROVE  UsedInv'
    BY <1>17 DEF ClientMoves, Observe, AnswerLost, Finish
  <1>18. ASSUME NEW r \in Resources, ClientMoves(r), AnswerArrives(r)
        PROVE  UsedInv'
    BY <1>18 DEF ClientMoves, Observe, AnswerArrives
  <1>19. ASSUME NEW r \in Resources, ClientMoves(r), Invalidate(r)
        PROVE  UsedInv'
    BY <1>19 DEF ClientMoves, Observe, Invalidate, Finish
  <1>20. ASSUME NEW r \in Resources, ClientMoves(r), ListFromSnapshot(r)
        PROVE  UsedInv'
    BY <1>20 DEF ClientMoves, Observe, ListFromSnapshot, Finish
  <1>21. ASSUME NEW r \in Resources, ClientMoves(r), ListFetches(r)
        PROVE  UsedInv'
    BY <1>21 DEF ClientMoves, Observe, ListFetches
  <1>22. ASSUME NEW r \in Resources, ClientMoves(r), FetchPage(r)
        PROVE  UsedInv'
    BY <1>22 DEF ClientMoves, Observe, FetchPage, Seen
  <1>23. ASSUME NEW r \in Resources, ClientMoves(r), FetchLastPage(r)
        PROVE  UsedInv'
    BY <1>23 DEF ClientMoves, Observe, FetchLastPage, Seen, ForgetPages, Finish
  <1>24. ASSUME NEW r \in Resources, ClientMoves(r), FetchFails(r)
        PROVE  UsedInv'
    BY <1>24 DEF ClientMoves, Observe, FetchFails, ForgetPages, Finish
  <1>25. ASSUME NEW r \in Resources, ClientMoves(r), FilterAnswers(r)
        PROVE  UsedInv'
    <2>1. CASE got' = got
      BY <1>25, <2>1 DEF ClientMoves, Observe, FilterAnswers
    <2>2. CASE got' # got
      <3>1. PICK S \in SUBSET Matching(body[r]) :
               got' = [got EXCEPT ![r] = [i \in Ids |-> IF i \in S THEN server[i] ELSE Absent]]
        BY <1>25, <2>2 DEF FilterAnswers
      <3>2. \A i \in Ids \ used : got'[r][i] = Absent
        BY <3>1 DEF Matching
      <3>3. \A q \in Resources \ {r} : got'[q] = got[q]
        BY <3>1
      <3>4. ASSUME NEW q \in Resources, NEW i \in Ids \ used PROVE got'[q][i] = Absent
        <4>1. CASE q = r
          BY <3>2, <4>1
        <4>2. CASE q # r
          BY <3>3, <4>2 DEF UsedInv
        <4> QED
          BY <4>1, <4>2
      <3> QED
        BY <1>25, <3>4 DEF ClientMoves, Observe, FilterAnswers
    <2> QED
      BY <2>1, <2>2
  <1>26. CASE OthersMove /\ ElsewhereCreates
    BY <1>26 DEF OthersMove, Observe, ElsewhereCreates
  <1>27. CASE OthersMove /\ ElsewhereDeletes
    BY <1>27 DEF OthersMove, Observe, ElsewhereDeletes, Unpromise
  <1>28. CASE OthersMove /\ ElsewhereEdits
    BY <1>28 DEF OthersMove, Observe, ElsewhereEdits
  <1>29. CASE NewProcess
    BY <1>29 DEF NewProcess
  <1>30. CASE UNCHANGED allVars
    BY <1>30 DEF allVars, resourceVars, inventoryVars
  <1> QED
    BY <1>1, <1>2, <1>3, <1>4, <1>5, <1>6, <1>7, <1>8, <1>9, <1>10, <1>11, <1>12, <1>13, <1>14, <1>15, <1>15t, <1>16, <1>17, <1>18, <1>19, <1>20, <1>21, <1>22, <1>23, <1>24, <1>25, <1>26, <1>27, <1>28, <1>29, <1>30 DEF Next, Method, OthersMove, Elsewhere, ClientMoves, ClientStep

\* Each place in a method knows the call it is in, and what it is about.
LEMMA MethodStep ==
  ASSUME TypeOK, InventoryInv, UsedInv, CallsInv,
         [Next]_allVars
  PROVE  (\A q \in Resources : StepOf(q) /\ MakingOf(q))'
  <1> USE InventoryAssumption, UnreadableAssumption DEF TypeOK, InventoryTypeOK, Resources, Listing, stateVars, historyVars, callVars, fetchVars, cacheVars, ackVars, CallsInv, StepOf, MakingOf, HasMade
  <1>1. ASSUME NEW r \in Resources, CreateStart(r)
        PROVE  (\A q \in Resources : StepOf(q) /\ MakingOf(q))'
    BY <1>1 DEF CreateStart, Enter, Managed, StartCreate, Begin, Ready
  <1>2. ASSUME NEW r \in Resources, CreateReadsBack(r)
        PROVE  (\A q \in Resources : StepOf(q) /\ MakingOf(q))'
    BY <1>2 DEF CreateReadsBack, Enter, Returned, StartList, Begin, Ready
  <1>3. ASSUME NEW r \in Resources, CreateFails(r)
        PROVE  (\A q \in Resources : StepOf(q) /\ MakingOf(q))'
    BY <1>3 DEF CreateFails, Enter, Returned, Hydrates, FoundById, Leave
  <1>4. ASSUME NEW r \in Resources, CreateEnds(r)
        PROVE  (\A q \in Resources : StepOf(q) /\ MakingOf(q))'
    BY <1>4 DEF CreateEnds, Enter, Returned, Hydrates, FoundById, SetState, Confirm, Leave
  <1>5. ASSUME NEW r \in Resources, ReadStart(r)
        PROVE  (\A q \in Resources : StepOf(q) /\ MakingOf(q))'
    BY <1>5 DEF ReadStart, Enter, Managed, StartFilter, Begin, Ready
  <1>6. ASSUME NEW r \in Resources, ReadFromFilter(r)
        PROVE  (\A q \in Resources : StepOf(q) /\ MakingOf(q))'
    BY <1>6 DEF ReadFromFilter, Enter, Returned, Hydrates, FoundById, SemanticMatch, Refresh, Confirm, Leave
  <1>7. ASSUME NEW r \in Resources, ReadFallsBack(r)
        PROVE  (\A q \in Resources : StepOf(q) /\ MakingOf(q))'
    BY <1>7 DEF ReadFallsBack, Enter, Returned, FoundById, StartList, Begin, Ready
  <1>8. ASSUME NEW r \in Resources, ReadFromInventory(r)
        PROVE  (\A q \in Resources : StepOf(q) /\ MakingOf(q))'
    BY <1>8 DEF ReadFromInventory, Enter, Returned, Hydrates, FoundById, Refresh, Confirm, Forget, Leave
  <1>9. ASSUME NEW r \in Resources, ReadFails(r)
        PROVE  (\A q \in Resources : StepOf(q) /\ MakingOf(q))'
    BY <1>9 DEF ReadFails, Enter, Returned, Hydrates, FoundById, Leave
  <1>10. ASSUME NEW r \in Resources, DeleteStart(r)
        PROVE  (\A q \in Resources : StepOf(q) /\ MakingOf(q))'
    BY <1>10 DEF DeleteStart, Enter, Managed, StartDelete, Begin, Ready, Unpromise
  <1>11. ASSUME NEW r \in Resources, DeleteEnds(r)
        PROVE  (\A q \in Resources : StepOf(q) /\ MakingOf(q))'
    BY <1>11 DEF DeleteEnds, Enter, Returned, Forget, Leave
  <1>12. ASSUME NEW r \in Resources, ImportStart(r)
        PROVE  (\A q \in Resources : StepOf(q) /\ MakingOf(q))'
    BY <1>12 DEF ImportStart, Enter, Managed, StartList, Begin, Ready
  <1>13. ASSUME NEW r \in Resources, ImportEnds(r)
        PROVE  (\A q \in Resources : StepOf(q) /\ MakingOf(q))'
    BY <1>13 DEF ImportEnds, Enter, Returned, Hydrates, FoundById, SetState, Confirm, Leave
  <1>14. ASSUME NEW r \in Resources, ClientMoves(r), ServiceCreates(r)
        PROVE  (\A q \in Resources : StepOf(q) /\ MakingOf(q))'
    <2>1. PICK i \in Ids : target' = [target EXCEPT ![r] = i]
      BY <1>14 DEF ServiceCreates
    <2>2. /\ pc[r] = "posting" /\ pc' = [pc EXCEPT ![r] = "posted"]
          /\ making' = [making EXCEPT ![r] = target'[r]]
          /\ UNCHANGED <<step, op, stateId, givenId, outcome>>
      BY <1>14 DEF ClientMoves, Observe, ServiceCreates
    <2>4. step[r] = "create"
      BY <2>2 DEF Step
    <2>3. ASSUME NEW q \in Resources PROVE (StepOf(q) /\ MakingOf(q))'
      <3>1. CASE q = r
        BY <2>1, <2>2, <2>4, <3>1 DEF StepOf, MakingOf, HasMade
      <3>2. CASE q # r
        BY <2>1, <2>2, <3>2 DEF StepOf, MakingOf, HasMade
      <3> QED
        BY <3>1, <3>2
    <2> QED
      BY <2>3, Zenon
  <1>15. ASSUME NEW r \in Resources, ClientMoves(r), ServiceDeletes(r)
        PROVE  (\A q \in Resources : StepOf(q) /\ MakingOf(q))'
    BY <1>15 DEF ClientMoves, Observe, ServiceDeletes
  <1>15t. ASSUME NEW r \in Resources, ClientMoves(r), TokenMisses(r)
        PROVE  (\A q \in Resources : StepOf(q) /\ MakingOf(q))'
    BY <1>15t DEF ClientMoves, Observe, TokenMisses
  <1>16. ASSUME NEW r \in Resources, ClientMoves(r), RequestFails(r)
        PROVE  (\A q \in Resources : StepOf(q) /\ MakingOf(q))'
    BY <1>16 DEF ClientMoves, Observe, RequestFails, Finish
  <1>17. ASSUME NEW r \in Resources, ClientMoves(r), AnswerLost(r)
        PROVE  (\A q \in Resources : StepOf(q) /\ MakingOf(q))'
    BY <1>17 DEF ClientMoves, Observe, AnswerLost, Finish
  <1>18. ASSUME NEW r \in Resources, ClientMoves(r), AnswerArrives(r)
        PROVE  (\A q \in Resources : StepOf(q) /\ MakingOf(q))'
    BY <1>18 DEF ClientMoves, Observe, AnswerArrives
  <1>19. ASSUME NEW r \in Resources, ClientMoves(r), Invalidate(r)
        PROVE  (\A q \in Resources : StepOf(q) /\ MakingOf(q))'
    BY <1>19 DEF ClientMoves, Observe, Invalidate, Finish
  <1>20. ASSUME NEW r \in Resources, ClientMoves(r), ListFromSnapshot(r)
        PROVE  (\A q \in Resources : StepOf(q) /\ MakingOf(q))'
    BY <1>20 DEF ClientMoves, Observe, ListFromSnapshot, Finish
  <1>21. ASSUME NEW r \in Resources, ClientMoves(r), ListFetches(r)
        PROVE  (\A q \in Resources : StepOf(q) /\ MakingOf(q))'
    BY <1>21 DEF ClientMoves, Observe, ListFetches
  <1>22. ASSUME NEW r \in Resources, ClientMoves(r), FetchPage(r)
        PROVE  (\A q \in Resources : StepOf(q) /\ MakingOf(q))'
    BY <1>22 DEF ClientMoves, Observe, FetchPage, Seen
  <1>23. ASSUME NEW r \in Resources, ClientMoves(r), FetchLastPage(r)
        PROVE  (\A q \in Resources : StepOf(q) /\ MakingOf(q))'
    BY <1>23 DEF ClientMoves, Observe, FetchLastPage, Seen, ForgetPages, Finish
  <1>24. ASSUME NEW r \in Resources, ClientMoves(r), FetchFails(r)
        PROVE  (\A q \in Resources : StepOf(q) /\ MakingOf(q))'
    BY <1>24 DEF ClientMoves, Observe, FetchFails, ForgetPages, Finish
  <1>25. ASSUME NEW r \in Resources, ClientMoves(r), FilterAnswers(r)
        PROVE  (\A q \in Resources : StepOf(q) /\ MakingOf(q))'
    BY <1>25 DEF ClientMoves, Observe, FilterAnswers, Finish, Matching
  <1>26. CASE OthersMove /\ ElsewhereCreates
    BY <1>26 DEF OthersMove, Observe, ElsewhereCreates
  <1>27. CASE OthersMove /\ ElsewhereDeletes
    BY <1>27 DEF OthersMove, Observe, ElsewhereDeletes, Unpromise
  <1>28. CASE OthersMove /\ ElsewhereEdits
    BY <1>28 DEF OthersMove, Observe, ElsewhereEdits
  <1>29. CASE NewProcess
    BY <1>29 DEF NewProcess
  <1>30. CASE UNCHANGED allVars
    BY <1>30 DEF allVars, resourceVars, inventoryVars
  <1> QED
    BY <1>1, <1>2, <1>3, <1>4, <1>5, <1>6, <1>7, <1>8, <1>9, <1>10, <1>11, <1>12, <1>13, <1>14, <1>15, <1>15t, <1>16, <1>17, <1>18, <1>19, <1>20, <1>21, <1>22, <1>23, <1>24, <1>25, <1>26, <1>27, <1>28, <1>29, <1>30 DEF Next, Method, OthersMove, Elsewhere, ClientMoves, ClientStep

\* What the service has removed stays away: no id is given twice.
LEMMA GoneStep ==
  ASSUME TypeOK, InventoryInv, UsedInv, CallsInv,
         [Next]_allVars
  PROVE  (\A q \in Resources : OwnOf(q) /\ GoneOf(q))'
  <1> USE InventoryAssumption, UnreadableAssumption DEF TypeOK, InventoryTypeOK, Resources, Listing, stateVars, historyVars, callVars, fetchVars, cacheVars, ackVars, UsedInv, CallsInv, StepOf, MakingOf, OwnOf, GoneOf, HasDeleted
  <1>1. ASSUME NEW r \in Resources, CreateStart(r)
        PROVE  (\A q \in Resources : OwnOf(q) /\ GoneOf(q))'
    BY <1>1 DEF CreateStart, Enter, Managed, StartCreate, Begin, Ready
  <1>2. ASSUME NEW r \in Resources, CreateReadsBack(r)
        PROVE  (\A q \in Resources : OwnOf(q) /\ GoneOf(q))'
    BY <1>2 DEF CreateReadsBack, Enter, Returned, StartList, Begin, Ready
  <1>3. ASSUME NEW r \in Resources, CreateFails(r)
        PROVE  (\A q \in Resources : OwnOf(q) /\ GoneOf(q))'
    BY <1>3 DEF CreateFails, Enter, Returned, Hydrates, FoundById, Leave
  <1>4. ASSUME NEW r \in Resources, CreateEnds(r)
        PROVE  (\A q \in Resources : OwnOf(q) /\ GoneOf(q))'
    BY <1>4 DEF CreateEnds, Enter, Returned, Hydrates, FoundById, SetState, Confirm, Leave
  <1>5. ASSUME NEW r \in Resources, ReadStart(r)
        PROVE  (\A q \in Resources : OwnOf(q) /\ GoneOf(q))'
    BY <1>5 DEF ReadStart, Enter, Managed, StartFilter, Begin, Ready
  <1>6. ASSUME NEW r \in Resources, ReadFromFilter(r)
        PROVE  (\A q \in Resources : OwnOf(q) /\ GoneOf(q))'
    BY <1>6 DEF ReadFromFilter, Enter, Returned, Hydrates, FoundById, SemanticMatch, Refresh, Confirm, Leave
  <1>7. ASSUME NEW r \in Resources, ReadFallsBack(r)
        PROVE  (\A q \in Resources : OwnOf(q) /\ GoneOf(q))'
    BY <1>7 DEF ReadFallsBack, Enter, Returned, FoundById, StartList, Begin, Ready
  <1>8. ASSUME NEW r \in Resources, ReadFromInventory(r)
        PROVE  (\A q \in Resources : OwnOf(q) /\ GoneOf(q))'
    BY <1>8 DEF ReadFromInventory, Enter, Returned, Hydrates, FoundById, Refresh, Confirm, Forget, Leave
  <1>9. ASSUME NEW r \in Resources, ReadFails(r)
        PROVE  (\A q \in Resources : OwnOf(q) /\ GoneOf(q))'
    BY <1>9 DEF ReadFails, Enter, Returned, Hydrates, FoundById, Leave
  <1>10. ASSUME NEW r \in Resources, DeleteStart(r)
        PROVE  (\A q \in Resources : OwnOf(q) /\ GoneOf(q))'
    BY <1>10 DEF DeleteStart, Enter, Managed, StartDelete, Begin, Ready, Unpromise
  <1>11. ASSUME NEW r \in Resources, DeleteEnds(r)
        PROVE  (\A q \in Resources : OwnOf(q) /\ GoneOf(q))'
    BY <1>11 DEF DeleteEnds, Enter, Returned, Forget, Leave
  <1>12. ASSUME NEW r \in Resources, ImportStart(r)
        PROVE  (\A q \in Resources : OwnOf(q) /\ GoneOf(q))'
    BY <1>12 DEF ImportStart, Enter, Managed, StartList, Begin, Ready
  <1>13. ASSUME NEW r \in Resources, ImportEnds(r)
        PROVE  (\A q \in Resources : OwnOf(q) /\ GoneOf(q))'
    BY <1>13 DEF ImportEnds, Enter, Returned, Hydrates, FoundById, SetState, Confirm, Leave
  <1>14. ASSUME NEW r \in Resources, ClientMoves(r), ServiceCreates(r)
        PROVE  (\A q \in Resources : OwnOf(q) /\ GoneOf(q))'
    BY <1>14 DEF ClientMoves, Observe, ServiceCreates
  <1>15. ASSUME NEW r \in Resources, ClientMoves(r), ServiceDeletes(r)
        PROVE  (\A q \in Resources : OwnOf(q) /\ GoneOf(q))'
    BY <1>15 DEF ClientMoves, Observe, ServiceDeletes
  <1>15t. ASSUME NEW r \in Resources, ClientMoves(r), TokenMisses(r)
        PROVE  (\A q \in Resources : OwnOf(q) /\ GoneOf(q))'
    BY <1>15t DEF ClientMoves, Observe, TokenMisses
  <1>16. ASSUME NEW r \in Resources, ClientMoves(r), RequestFails(r)
        PROVE  (\A q \in Resources : OwnOf(q) /\ GoneOf(q))'
    BY <1>16 DEF ClientMoves, Observe, RequestFails, Finish
  <1>17. ASSUME NEW r \in Resources, ClientMoves(r), AnswerLost(r)
        PROVE  (\A q \in Resources : OwnOf(q) /\ GoneOf(q))'
    BY <1>17 DEF ClientMoves, Observe, AnswerLost, Finish
  <1>18. ASSUME NEW r \in Resources, ClientMoves(r), AnswerArrives(r)
        PROVE  (\A q \in Resources : OwnOf(q) /\ GoneOf(q))'
    BY <1>18 DEF ClientMoves, Observe, AnswerArrives
  <1>19. ASSUME NEW r \in Resources, ClientMoves(r), Invalidate(r)
        PROVE  (\A q \in Resources : OwnOf(q) /\ GoneOf(q))'
    <2>1. pc[r] = "invalidate" /\ pc' = [pc EXCEPT ![r] = "return"]
      BY <1>19 DEF Invalidate, Finish
    <2>2. UNCHANGED <<step, stateId, owned, server>>
      BY <1>19 DEF ClientMoves, Observe, Invalidate
    <2>3. /\ \A q \in Resources \ {r} : outcome'[q] = outcome[q]
          /\ op[r] = "delete" => outcome'[r] = outcome[r]
      BY <1>19 DEF Invalidate, Finish
    <2> QED
      BY <2>1, <2>2, <2>3
  <1>20. ASSUME NEW r \in Resources, ClientMoves(r), ListFromSnapshot(r)
        PROVE  (\A q \in Resources : OwnOf(q) /\ GoneOf(q))'
    BY <1>20 DEF ClientMoves, Observe, ListFromSnapshot, Finish
  <1>21. ASSUME NEW r \in Resources, ClientMoves(r), ListFetches(r)
        PROVE  (\A q \in Resources : OwnOf(q) /\ GoneOf(q))'
    BY <1>21 DEF ClientMoves, Observe, ListFetches
  <1>22. ASSUME NEW r \in Resources, ClientMoves(r), FetchPage(r)
        PROVE  (\A q \in Resources : OwnOf(q) /\ GoneOf(q))'
    BY <1>22 DEF ClientMoves, Observe, FetchPage, Seen
  <1>23. ASSUME NEW r \in Resources, ClientMoves(r), FetchLastPage(r)
        PROVE  (\A q \in Resources : OwnOf(q) /\ GoneOf(q))'
    BY <1>23 DEF ClientMoves, Observe, FetchLastPage, Seen, ForgetPages, Finish
  <1>24. ASSUME NEW r \in Resources, ClientMoves(r), FetchFails(r)
        PROVE  (\A q \in Resources : OwnOf(q) /\ GoneOf(q))'
    BY <1>24 DEF ClientMoves, Observe, FetchFails, ForgetPages, Finish
  <1>25. ASSUME NEW r \in Resources, ClientMoves(r), FilterAnswers(r)
        PROVE  (\A q \in Resources : OwnOf(q) /\ GoneOf(q))'
    BY <1>25 DEF ClientMoves, Observe, FilterAnswers, Finish, Matching
  <1>26. CASE OthersMove /\ ElsewhereCreates
    BY <1>26 DEF OthersMove, Observe, ElsewhereCreates
  <1>27. CASE OthersMove /\ ElsewhereDeletes
    BY <1>27 DEF OthersMove, Observe, ElsewhereDeletes, Unpromise
  <1>28. CASE OthersMove /\ ElsewhereEdits
    BY <1>28 DEF OthersMove, Observe, ElsewhereEdits
  <1>29. CASE NewProcess
    BY <1>29 DEF NewProcess
  <1>30. CASE UNCHANGED allVars
    BY <1>30 DEF allVars, resourceVars, inventoryVars
  <1> QED
    BY <1>1, <1>2, <1>3, <1>4, <1>5, <1>6, <1>7, <1>8, <1>9, <1>10, <1>11, <1>12, <1>13, <1>14, <1>15, <1>15t, <1>16, <1>17, <1>18, <1>19, <1>20, <1>21, <1>22, <1>23, <1>24, <1>25, <1>26, <1>27, <1>28, <1>29, <1>30 DEF Next, Method, OthersMove, Elsewhere, ClientMoves, ClientStep

\* A managed URL that no snapshot lacks is in every later one until it goes.
LEMMA ListedStable ==
  ASSUME TypeOK, InventoryInv, UsedInv, NEW i \in used, Listed(i),
         [Next]_allVars
  PROVE  Listed(i)'
  <1> USE InventoryAssumption, UnreadableAssumption DEF TypeOK, InventoryTypeOK, Resources, Listing, stateVars, historyVars, callVars, fetchVars, cacheVars, ackVars, Listed, Nothing
  <1>1. ASSUME NEW r \in Resources, CreateStart(r)
        PROVE  Listed(i)'
    BY <1>1 DEF CreateStart, Enter, Managed, StartCreate, Begin, Ready
  <1>2. ASSUME NEW r \in Resources, CreateReadsBack(r)
        PROVE  Listed(i)'
    BY <1>2 DEF CreateReadsBack, Enter, Returned, StartList, Begin, Ready
  <1>3. ASSUME NEW r \in Resources, CreateFails(r)
        PROVE  Listed(i)'
    BY <1>3 DEF CreateFails, Enter, Returned, Hydrates, FoundById, Leave
  <1>4. ASSUME NEW r \in Resources, CreateEnds(r)
        PROVE  Listed(i)'
    BY <1>4 DEF CreateEnds, Enter, Returned, Hydrates, FoundById, SetState, Confirm, Leave
  <1>5. ASSUME NEW r \in Resources, ReadStart(r)
        PROVE  Listed(i)'
    BY <1>5 DEF ReadStart, Enter, Managed, StartFilter, Begin, Ready
  <1>6. ASSUME NEW r \in Resources, ReadFromFilter(r)
        PROVE  Listed(i)'
    BY <1>6 DEF ReadFromFilter, Enter, Returned, Hydrates, FoundById, SemanticMatch, Refresh, Confirm, Leave
  <1>7. ASSUME NEW r \in Resources, ReadFallsBack(r)
        PROVE  Listed(i)'
    BY <1>7 DEF ReadFallsBack, Enter, Returned, FoundById, StartList, Begin, Ready
  <1>8. ASSUME NEW r \in Resources, ReadFromInventory(r)
        PROVE  Listed(i)'
    BY <1>8 DEF ReadFromInventory, Enter, Returned, Hydrates, FoundById, Refresh, Confirm, Forget, Leave
  <1>9. ASSUME NEW r \in Resources, ReadFails(r)
        PROVE  Listed(i)'
    BY <1>9 DEF ReadFails, Enter, Returned, Hydrates, FoundById, Leave
  <1>10. ASSUME NEW r \in Resources, DeleteStart(r)
        PROVE  Listed(i)'
    BY <1>10 DEF DeleteStart, Enter, Managed, StartDelete, Begin, Ready, Unpromise
  <1>11. ASSUME NEW r \in Resources, DeleteEnds(r)
        PROVE  Listed(i)'
    BY <1>11 DEF DeleteEnds, Enter, Returned, Forget, Leave
  <1>12. ASSUME NEW r \in Resources, ImportStart(r)
        PROVE  Listed(i)'
    BY <1>12 DEF ImportStart, Enter, Managed, StartList, Begin, Ready
  <1>13. ASSUME NEW r \in Resources, ImportEnds(r)
        PROVE  Listed(i)'
    BY <1>13 DEF ImportEnds, Enter, Returned, Hydrates, FoundById, SetState, Confirm, Leave
  <1>14. ASSUME NEW r \in Resources, ClientMoves(r), ServiceCreates(r)
        PROVE  Listed(i)'
    BY <1>14 DEF ClientMoves, Observe, ServiceCreates
  <1>15. ASSUME NEW r \in Resources, ClientMoves(r), ServiceDeletes(r)
        PROVE  Listed(i)'
    BY <1>15 DEF ClientMoves, Observe, ServiceDeletes
  <1>15t. ASSUME NEW r \in Resources, ClientMoves(r), TokenMisses(r)
        PROVE  Listed(i)'
    BY <1>15t DEF ClientMoves, Observe, TokenMisses
  <1>16. ASSUME NEW r \in Resources, ClientMoves(r), RequestFails(r)
        PROVE  Listed(i)'
    BY <1>16 DEF ClientMoves, Observe, RequestFails, Finish
  <1>17. ASSUME NEW r \in Resources, ClientMoves(r), AnswerLost(r)
        PROVE  Listed(i)'
    BY <1>17 DEF ClientMoves, Observe, AnswerLost, Finish
  <1>18. ASSUME NEW r \in Resources, ClientMoves(r), AnswerArrives(r)
        PROVE  Listed(i)'
    BY <1>18 DEF ClientMoves, Observe, AnswerArrives
  <1>19. ASSUME NEW r \in Resources, ClientMoves(r), Invalidate(r)
        PROVE  Listed(i)'
    BY <1>19 DEF ClientMoves, Observe, Invalidate, Finish
  <1>20. ASSUME NEW r \in Resources, ClientMoves(r), ListFromSnapshot(r)
        PROVE  Listed(i)'
    BY <1>20 DEF ClientMoves, Observe, ListFromSnapshot, Finish
  <1>21. ASSUME NEW r \in Resources, ClientMoves(r), ListFetches(r)
        PROVE  Listed(i)'
    BY <1>21 DEF ClientMoves, Observe, ListFetches, InventoryInv, CallInv, CallOf
  <1>22. ASSUME NEW r \in Resources, ClientMoves(r), FetchPage(r)
        PROVE  Listed(i)'
    BY <1>22 DEF ClientMoves, Observe, FetchPage, Seen
  <1>23. ASSUME NEW r \in Resources, ClientMoves(r), FetchLastPage(r)
        PROVE  Listed(i)'
    BY <1>23 DEF ClientMoves, Observe, FetchLastPage, Seen, ForgetPages, Finish
  <1>24. ASSUME NEW r \in Resources, ClientMoves(r), FetchFails(r)
        PROVE  Listed(i)'
    BY <1>24 DEF ClientMoves, Observe, FetchFails, ForgetPages, Finish
  <1>25. ASSUME NEW r \in Resources, ClientMoves(r), FilterAnswers(r)
        PROVE  Listed(i)'
    BY <1>25 DEF ClientMoves, Observe, FilterAnswers, Finish, Matching
  <1>26. CASE OthersMove /\ ElsewhereCreates
    BY <1>26 DEF OthersMove, Observe, ElsewhereCreates
  <1>27. CASE OthersMove /\ ElsewhereDeletes
    BY <1>27 DEF OthersMove, Observe, ElsewhereDeletes, Unpromise
  <1>28. CASE OthersMove /\ ElsewhereEdits
    BY <1>28 DEF OthersMove, Observe, ElsewhereEdits
  <1>29. CASE NewProcess
    BY <1>29 DEF NewProcess
  <1>30. CASE UNCHANGED allVars
    BY <1>30 DEF allVars, resourceVars, inventoryVars
  <1> QED
    BY <1>1, <1>2, <1>3, <1>4, <1>5, <1>6, <1>7, <1>8, <1>9, <1>10, <1>11, <1>12, <1>13, <1>14, <1>15, <1>15t, <1>16, <1>17, <1>18, <1>19, <1>20, <1>21, <1>22, <1>23, <1>24, <1>25, <1>26, <1>27, <1>28, <1>29, <1>30 DEF Next, Method, OthersMove, Elsewhere, ClientMoves, ClientStep

\* No step brings back a record, because no id is given twice.
LEMMA RecordsStayAway ==
  ASSUME TypeOK,
         [Next]_allVars
  PROVE  \A i \in used : i \in used' /\ (server[i] = Absent => server'[i] = Absent)
  <1> USE InventoryAssumption, UnreadableAssumption DEF TypeOK, InventoryTypeOK, Resources, Listing, stateVars, historyVars, callVars, fetchVars, cacheVars, ackVars
  <1>1. ASSUME NEW r \in Resources, CreateStart(r)
        PROVE  \A i \in used : i \in used' /\ (server[i] = Absent => server'[i] = Absent)
    BY <1>1 DEF CreateStart, Enter, Managed, StartCreate, Begin, Ready
  <1>2. ASSUME NEW r \in Resources, CreateReadsBack(r)
        PROVE  \A i \in used : i \in used' /\ (server[i] = Absent => server'[i] = Absent)
    BY <1>2 DEF CreateReadsBack, Enter, Returned, StartList, Begin, Ready
  <1>3. ASSUME NEW r \in Resources, CreateFails(r)
        PROVE  \A i \in used : i \in used' /\ (server[i] = Absent => server'[i] = Absent)
    BY <1>3 DEF CreateFails, Enter, Returned, Hydrates, FoundById, Leave
  <1>4. ASSUME NEW r \in Resources, CreateEnds(r)
        PROVE  \A i \in used : i \in used' /\ (server[i] = Absent => server'[i] = Absent)
    BY <1>4 DEF CreateEnds, Enter, Returned, Hydrates, FoundById, SetState, Confirm, Leave
  <1>5. ASSUME NEW r \in Resources, ReadStart(r)
        PROVE  \A i \in used : i \in used' /\ (server[i] = Absent => server'[i] = Absent)
    BY <1>5 DEF ReadStart, Enter, Managed, StartFilter, Begin, Ready
  <1>6. ASSUME NEW r \in Resources, ReadFromFilter(r)
        PROVE  \A i \in used : i \in used' /\ (server[i] = Absent => server'[i] = Absent)
    BY <1>6 DEF ReadFromFilter, Enter, Returned, Hydrates, FoundById, SemanticMatch, Refresh, Confirm, Leave
  <1>7. ASSUME NEW r \in Resources, ReadFallsBack(r)
        PROVE  \A i \in used : i \in used' /\ (server[i] = Absent => server'[i] = Absent)
    BY <1>7 DEF ReadFallsBack, Enter, Returned, FoundById, StartList, Begin, Ready
  <1>8. ASSUME NEW r \in Resources, ReadFromInventory(r)
        PROVE  \A i \in used : i \in used' /\ (server[i] = Absent => server'[i] = Absent)
    BY <1>8 DEF ReadFromInventory, Enter, Returned, Hydrates, FoundById, Refresh, Confirm, Forget, Leave
  <1>9. ASSUME NEW r \in Resources, ReadFails(r)
        PROVE  \A i \in used : i \in used' /\ (server[i] = Absent => server'[i] = Absent)
    BY <1>9 DEF ReadFails, Enter, Returned, Hydrates, FoundById, Leave
  <1>10. ASSUME NEW r \in Resources, DeleteStart(r)
        PROVE  \A i \in used : i \in used' /\ (server[i] = Absent => server'[i] = Absent)
    BY <1>10 DEF DeleteStart, Enter, Managed, StartDelete, Begin, Ready, Unpromise
  <1>11. ASSUME NEW r \in Resources, DeleteEnds(r)
        PROVE  \A i \in used : i \in used' /\ (server[i] = Absent => server'[i] = Absent)
    BY <1>11 DEF DeleteEnds, Enter, Returned, Forget, Leave
  <1>12. ASSUME NEW r \in Resources, ImportStart(r)
        PROVE  \A i \in used : i \in used' /\ (server[i] = Absent => server'[i] = Absent)
    BY <1>12 DEF ImportStart, Enter, Managed, StartList, Begin, Ready
  <1>13. ASSUME NEW r \in Resources, ImportEnds(r)
        PROVE  \A i \in used : i \in used' /\ (server[i] = Absent => server'[i] = Absent)
    BY <1>13 DEF ImportEnds, Enter, Returned, Hydrates, FoundById, SetState, Confirm, Leave
  <1>14. ASSUME NEW r \in Resources, ClientMoves(r), ServiceCreates(r)
        PROVE  \A i \in used : i \in used' /\ (server[i] = Absent => server'[i] = Absent)
    BY <1>14 DEF ClientMoves, Observe, ServiceCreates
  <1>15. ASSUME NEW r \in Resources, ClientMoves(r), ServiceDeletes(r)
        PROVE  \A i \in used : i \in used' /\ (server[i] = Absent => server'[i] = Absent)
    BY <1>15 DEF ClientMoves, Observe, ServiceDeletes
  <1>15t. ASSUME NEW r \in Resources, ClientMoves(r), TokenMisses(r)
        PROVE  \A i \in used : i \in used' /\ (server[i] = Absent => server'[i] = Absent)
    BY <1>15t DEF ClientMoves, Observe, TokenMisses
  <1>16. ASSUME NEW r \in Resources, ClientMoves(r), RequestFails(r)
        PROVE  \A i \in used : i \in used' /\ (server[i] = Absent => server'[i] = Absent)
    BY <1>16 DEF ClientMoves, Observe, RequestFails, Finish
  <1>17. ASSUME NEW r \in Resources, ClientMoves(r), AnswerLost(r)
        PROVE  \A i \in used : i \in used' /\ (server[i] = Absent => server'[i] = Absent)
    BY <1>17 DEF ClientMoves, Observe, AnswerLost, Finish
  <1>18. ASSUME NEW r \in Resources, ClientMoves(r), AnswerArrives(r)
        PROVE  \A i \in used : i \in used' /\ (server[i] = Absent => server'[i] = Absent)
    BY <1>18 DEF ClientMoves, Observe, AnswerArrives
  <1>19. ASSUME NEW r \in Resources, ClientMoves(r), Invalidate(r)
        PROVE  \A i \in used : i \in used' /\ (server[i] = Absent => server'[i] = Absent)
    BY <1>19 DEF ClientMoves, Observe, Invalidate, Finish
  <1>20. ASSUME NEW r \in Resources, ClientMoves(r), ListFromSnapshot(r)
        PROVE  \A i \in used : i \in used' /\ (server[i] = Absent => server'[i] = Absent)
    BY <1>20 DEF ClientMoves, Observe, ListFromSnapshot, Finish
  <1>21. ASSUME NEW r \in Resources, ClientMoves(r), ListFetches(r)
        PROVE  \A i \in used : i \in used' /\ (server[i] = Absent => server'[i] = Absent)
    BY <1>21 DEF ClientMoves, Observe, ListFetches
  <1>22. ASSUME NEW r \in Resources, ClientMoves(r), FetchPage(r)
        PROVE  \A i \in used : i \in used' /\ (server[i] = Absent => server'[i] = Absent)
    BY <1>22 DEF ClientMoves, Observe, FetchPage, Seen
  <1>23. ASSUME NEW r \in Resources, ClientMoves(r), FetchLastPage(r)
        PROVE  \A i \in used : i \in used' /\ (server[i] = Absent => server'[i] = Absent)
    BY <1>23 DEF ClientMoves, Observe, FetchLastPage, Seen, ForgetPages, Finish
  <1>24. ASSUME NEW r \in Resources, ClientMoves(r), FetchFails(r)
        PROVE  \A i \in used : i \in used' /\ (server[i] = Absent => server'[i] = Absent)
    BY <1>24 DEF ClientMoves, Observe, FetchFails, ForgetPages, Finish
  <1>25. ASSUME NEW r \in Resources, ClientMoves(r), FilterAnswers(r)
        PROVE  \A i \in used : i \in used' /\ (server[i] = Absent => server'[i] = Absent)
    BY <1>25 DEF ClientMoves, Observe, FilterAnswers, Finish, Matching
  <1>26. CASE OthersMove /\ ElsewhereCreates
    BY <1>26 DEF OthersMove, Observe, ElsewhereCreates
  <1>27. CASE OthersMove /\ ElsewhereDeletes
    BY <1>27 DEF OthersMove, Observe, ElsewhereDeletes, Unpromise
  <1>28. CASE OthersMove /\ ElsewhereEdits
    BY <1>28 DEF OthersMove, Observe, ElsewhereEdits
  <1>29. CASE NewProcess
    BY <1>29 DEF NewProcess
  <1>30. CASE UNCHANGED allVars
    BY <1>30 DEF allVars, resourceVars, inventoryVars
  <1> QED
    BY <1>1, <1>2, <1>3, <1>4, <1>5, <1>6, <1>7, <1>8, <1>9, <1>10, <1>11, <1>12, <1>13, <1>14, <1>15, <1>15t, <1>16, <1>17, <1>18, <1>19, <1>20, <1>21, <1>22, <1>23, <1>24, <1>25, <1>26, <1>27, <1>28, <1>29, <1>30 DEF Next, Method, OthersMove, Elsewhere, ClientMoves, ClientStep

\* While the process stays quiet nothing the service had is changed.
LEMMA QuietStep ==
  ASSUME TypeOK,
         [Next]_allVars
  PROVE  quiet' => NewProcess \/ (quiet /\ \A i \in used : server'[i] = server[i])
  <1> USE InventoryAssumption, UnreadableAssumption DEF Resources, Listing, stateVars, historyVars, callVars, fetchVars, cacheVars, ackVars
  <1>1. ASSUME NEW r \in Resources, CreateStart(r)
        PROVE  quiet' => NewProcess \/ (quiet /\ \A i \in used : server'[i] = server[i])
    BY <1>1 DEF CreateStart, Enter, Managed, StartCreate, Begin, Ready
  <1>2. ASSUME NEW r \in Resources, CreateReadsBack(r)
        PROVE  quiet' => NewProcess \/ (quiet /\ \A i \in used : server'[i] = server[i])
    BY <1>2 DEF CreateReadsBack, Enter, Returned, StartList, Begin, Ready
  <1>3. ASSUME NEW r \in Resources, CreateFails(r)
        PROVE  quiet' => NewProcess \/ (quiet /\ \A i \in used : server'[i] = server[i])
    BY <1>3 DEF CreateFails, Enter, Returned, Hydrates, FoundById, Leave
  <1>4. ASSUME NEW r \in Resources, CreateEnds(r)
        PROVE  quiet' => NewProcess \/ (quiet /\ \A i \in used : server'[i] = server[i])
    BY <1>4 DEF CreateEnds, Enter, Returned, Hydrates, FoundById, SetState, Confirm, Leave
  <1>5. ASSUME NEW r \in Resources, ReadStart(r)
        PROVE  quiet' => NewProcess \/ (quiet /\ \A i \in used : server'[i] = server[i])
    BY <1>5 DEF ReadStart, Enter, Managed, StartFilter, Begin, Ready
  <1>6. ASSUME NEW r \in Resources, ReadFromFilter(r)
        PROVE  quiet' => NewProcess \/ (quiet /\ \A i \in used : server'[i] = server[i])
    BY <1>6 DEF ReadFromFilter, Enter, Returned, Hydrates, FoundById, SemanticMatch, Refresh, Confirm, Leave
  <1>7. ASSUME NEW r \in Resources, ReadFallsBack(r)
        PROVE  quiet' => NewProcess \/ (quiet /\ \A i \in used : server'[i] = server[i])
    BY <1>7 DEF ReadFallsBack, Enter, Returned, FoundById, StartList, Begin, Ready
  <1>8. ASSUME NEW r \in Resources, ReadFromInventory(r)
        PROVE  quiet' => NewProcess \/ (quiet /\ \A i \in used : server'[i] = server[i])
    BY <1>8 DEF ReadFromInventory, Enter, Returned, Hydrates, FoundById, Refresh, Confirm, Forget, Leave
  <1>9. ASSUME NEW r \in Resources, ReadFails(r)
        PROVE  quiet' => NewProcess \/ (quiet /\ \A i \in used : server'[i] = server[i])
    BY <1>9 DEF ReadFails, Enter, Returned, Hydrates, FoundById, Leave
  <1>10. ASSUME NEW r \in Resources, DeleteStart(r)
        PROVE  quiet' => NewProcess \/ (quiet /\ \A i \in used : server'[i] = server[i])
    BY <1>10 DEF DeleteStart, Enter, Managed, StartDelete, Begin, Ready, Unpromise
  <1>11. ASSUME NEW r \in Resources, DeleteEnds(r)
        PROVE  quiet' => NewProcess \/ (quiet /\ \A i \in used : server'[i] = server[i])
    BY <1>11 DEF DeleteEnds, Enter, Returned, Forget, Leave
  <1>12. ASSUME NEW r \in Resources, ImportStart(r)
        PROVE  quiet' => NewProcess \/ (quiet /\ \A i \in used : server'[i] = server[i])
    BY <1>12 DEF ImportStart, Enter, Managed, StartList, Begin, Ready
  <1>13. ASSUME NEW r \in Resources, ImportEnds(r)
        PROVE  quiet' => NewProcess \/ (quiet /\ \A i \in used : server'[i] = server[i])
    BY <1>13 DEF ImportEnds, Enter, Returned, Hydrates, FoundById, SetState, Confirm, Leave
  <1>14. ASSUME NEW r \in Resources, ClientMoves(r), ServiceCreates(r)
        PROVE  quiet' => NewProcess \/ (quiet /\ \A i \in used : server'[i] = server[i])
    BY <1>14 DEF ClientMoves, Observe, ServiceCreates
  <1>15. ASSUME NEW r \in Resources, ClientMoves(r), ServiceDeletes(r)
        PROVE  quiet' => NewProcess \/ (quiet /\ \A i \in used : server'[i] = server[i])
    BY <1>15 DEF ClientMoves, Observe, ServiceDeletes
  <1>15t. ASSUME NEW r \in Resources, ClientMoves(r), TokenMisses(r)
        PROVE  quiet' => NewProcess \/ (quiet /\ \A i \in used : server'[i] = server[i])
    BY <1>15t DEF ClientMoves, Observe, TokenMisses
  <1>16. ASSUME NEW r \in Resources, ClientMoves(r), RequestFails(r)
        PROVE  quiet' => NewProcess \/ (quiet /\ \A i \in used : server'[i] = server[i])
    BY <1>16 DEF ClientMoves, Observe, RequestFails, Finish
  <1>17. ASSUME NEW r \in Resources, ClientMoves(r), AnswerLost(r)
        PROVE  quiet' => NewProcess \/ (quiet /\ \A i \in used : server'[i] = server[i])
    BY <1>17 DEF ClientMoves, Observe, AnswerLost, Finish
  <1>18. ASSUME NEW r \in Resources, ClientMoves(r), AnswerArrives(r)
        PROVE  quiet' => NewProcess \/ (quiet /\ \A i \in used : server'[i] = server[i])
    BY <1>18 DEF ClientMoves, Observe, AnswerArrives
  <1>19. ASSUME NEW r \in Resources, ClientMoves(r), Invalidate(r)
        PROVE  quiet' => NewProcess \/ (quiet /\ \A i \in used : server'[i] = server[i])
    BY <1>19 DEF ClientMoves, Observe, Invalidate, Finish
  <1>20. ASSUME NEW r \in Resources, ClientMoves(r), ListFromSnapshot(r)
        PROVE  quiet' => NewProcess \/ (quiet /\ \A i \in used : server'[i] = server[i])
    BY <1>20 DEF ClientMoves, Observe, ListFromSnapshot, Finish
  <1>21. ASSUME NEW r \in Resources, ClientMoves(r), ListFetches(r)
        PROVE  quiet' => NewProcess \/ (quiet /\ \A i \in used : server'[i] = server[i])
    BY <1>21 DEF ClientMoves, Observe, ListFetches
  <1>22. ASSUME NEW r \in Resources, ClientMoves(r), FetchPage(r)
        PROVE  quiet' => NewProcess \/ (quiet /\ \A i \in used : server'[i] = server[i])
    BY <1>22 DEF ClientMoves, Observe, FetchPage, Seen
  <1>23. ASSUME NEW r \in Resources, ClientMoves(r), FetchLastPage(r)
        PROVE  quiet' => NewProcess \/ (quiet /\ \A i \in used : server'[i] = server[i])
    BY <1>23 DEF ClientMoves, Observe, FetchLastPage, Seen, ForgetPages, Finish
  <1>24. ASSUME NEW r \in Resources, ClientMoves(r), FetchFails(r)
        PROVE  quiet' => NewProcess \/ (quiet /\ \A i \in used : server'[i] = server[i])
    BY <1>24 DEF ClientMoves, Observe, FetchFails, ForgetPages, Finish
  <1>25. ASSUME NEW r \in Resources, ClientMoves(r), FilterAnswers(r)
        PROVE  quiet' => NewProcess \/ (quiet /\ \A i \in used : server'[i] = server[i])
    BY <1>25 DEF ClientMoves, Observe, FilterAnswers, Finish, Matching
  <1>26. CASE OthersMove /\ ElsewhereCreates
    BY <1>26 DEF OthersMove, Observe, ElsewhereCreates
  <1>27. CASE OthersMove /\ ElsewhereDeletes
    BY <1>27 DEF OthersMove, Observe, ElsewhereDeletes, Unpromise
  <1>28. CASE OthersMove /\ ElsewhereEdits
    BY <1>28 DEF OthersMove, Observe, ElsewhereEdits
  <1>29. CASE NewProcess
    BY <1>29 DEF NewProcess
  <1>30. CASE UNCHANGED allVars
    BY <1>30 DEF allVars, resourceVars, inventoryVars
  <1> QED
    BY <1>1, <1>2, <1>3, <1>4, <1>5, <1>6, <1>7, <1>8, <1>9, <1>10, <1>11, <1>12, <1>13, <1>14, <1>15, <1>15t, <1>16, <1>17, <1>18, <1>19, <1>20, <1>21, <1>22, <1>23, <1>24, <1>25, <1>26, <1>27, <1>28, <1>29, <1>30 DEF Next, Method, OthersMove, Elsewhere, ClientMoves, ClientStep

\* What a step does to the last list of q and to its state: neither shows more
\* than before, or q has just been given the snapshot.
Restates(q) ==
  /\ \/ stateId'[q] \in {stateId[q], NoId}
     \/ /\ op[q] = "list" /\ pc[q] = "return" /\ outcome[q] = "ok"
        /\ stateId'[q] \in Ids /\ got[q][stateId'[q]] # Absent
  /\ \/ pc'[q] # "return" \/ op'[q] # "list" \/ outcome'[q] # "ok"
     \/ UNCHANGED <<stateId[q], step[q], op[q], pc[q], outcome[q], got[q]>>

FreshList(q) ==
  /\ valid' /\ got'[q] = inventory' /\ stateId'[q] = stateId[q]
  /\ \A a \in Actors : pc'[a] # "fetch"

\* Every step is of one of the two kinds, for every resource.
LEMMA ListChanges ==
  ASSUME TypeOK, InventoryInv, CallsInv,
         [Next]_allVars
  PROVE  \A q \in Resources : Restates(q) \/ FreshList(q)
  <1> USE InventoryAssumption, UnreadableAssumption DEF TypeOK, InventoryTypeOK, Resources, Listing, stateVars, historyVars, callVars, fetchVars, cacheVars, ackVars, CallsInv, StepOf, MakingOf, Restates, FreshList, InventoryInv, MuInv, CallInv, CallOf
  <1>1. ASSUME NEW r \in Resources, CreateStart(r)
        PROVE  \A q \in Resources : Restates(q) \/ FreshList(q)
    BY <1>1 DEF CreateStart, Enter, Managed, StartCreate, Begin, Ready
  <1>2. ASSUME NEW r \in Resources, CreateReadsBack(r)
        PROVE  \A q \in Resources : Restates(q) \/ FreshList(q)
    BY <1>2 DEF CreateReadsBack, Enter, Returned, StartList, Begin, Ready
  <1>3. ASSUME NEW r \in Resources, CreateFails(r)
        PROVE  \A q \in Resources : Restates(q) \/ FreshList(q)
    BY <1>3 DEF CreateFails, Enter, Returned, Hydrates, FoundById, Leave
  <1>4. ASSUME NEW r \in Resources, CreateEnds(r)
        PROVE  \A q \in Resources : Restates(q) \/ FreshList(q)
    BY <1>4 DEF CreateEnds, Enter, Returned, Hydrates, FoundById, SetState, Confirm, Leave
  <1>5. ASSUME NEW r \in Resources, ReadStart(r)
        PROVE  \A q \in Resources : Restates(q) \/ FreshList(q)
    BY <1>5 DEF ReadStart, Enter, Managed, StartFilter, Begin, Ready
  <1>6. ASSUME NEW r \in Resources, ReadFromFilter(r)
        PROVE  \A q \in Resources : Restates(q) \/ FreshList(q)
    BY <1>6 DEF ReadFromFilter, Enter, Returned, Hydrates, FoundById, SemanticMatch, Refresh, Confirm, Leave
  <1>7. ASSUME NEW r \in Resources, ReadFallsBack(r)
        PROVE  \A q \in Resources : Restates(q) \/ FreshList(q)
    BY <1>7 DEF ReadFallsBack, Enter, Returned, FoundById, StartList, Begin, Ready
  <1>8. ASSUME NEW r \in Resources, ReadFromInventory(r)
        PROVE  \A q \in Resources : Restates(q) \/ FreshList(q)
    BY <1>8 DEF ReadFromInventory, Enter, Returned, Hydrates, FoundById, Refresh, Confirm, Forget, Leave
  <1>9. ASSUME NEW r \in Resources, ReadFails(r)
        PROVE  \A q \in Resources : Restates(q) \/ FreshList(q)
    BY <1>9 DEF ReadFails, Enter, Returned, Hydrates, FoundById, Leave
  <1>10. ASSUME NEW r \in Resources, DeleteStart(r)
        PROVE  \A q \in Resources : Restates(q) \/ FreshList(q)
    BY <1>10 DEF DeleteStart, Enter, Managed, StartDelete, Begin, Ready, Unpromise
  <1>11. ASSUME NEW r \in Resources, DeleteEnds(r)
        PROVE  \A q \in Resources : Restates(q) \/ FreshList(q)
    BY <1>11 DEF DeleteEnds, Enter, Returned, Forget, Leave
  <1>12. ASSUME NEW r \in Resources, ImportStart(r)
        PROVE  \A q \in Resources : Restates(q) \/ FreshList(q)
    BY <1>12 DEF ImportStart, Enter, Managed, StartList, Begin, Ready
  <1>13. ASSUME NEW r \in Resources, ImportEnds(r)
        PROVE  \A q \in Resources : Restates(q) \/ FreshList(q)
    BY <1>13 DEF ImportEnds, Enter, Returned, Hydrates, FoundById, SetState, Confirm, Leave
  <1>14. ASSUME NEW r \in Resources, ClientMoves(r), ServiceCreates(r)
        PROVE  \A q \in Resources : Restates(q) \/ FreshList(q)
    BY <1>14 DEF ClientMoves, Observe, ServiceCreates
  <1>15. ASSUME NEW r \in Resources, ClientMoves(r), ServiceDeletes(r)
        PROVE  \A q \in Resources : Restates(q) \/ FreshList(q)
    BY <1>15 DEF ClientMoves, Observe, ServiceDeletes
  <1>15t. ASSUME NEW r \in Resources, ClientMoves(r), TokenMisses(r)
        PROVE  \A q \in Resources : Restates(q) \/ FreshList(q)
    BY <1>15t DEF ClientMoves, Observe, TokenMisses
  <1>16. ASSUME NEW r \in Resources, ClientMoves(r), RequestFails(r)
        PROVE  \A q \in Resources : Restates(q) \/ FreshList(q)
    BY <1>16 DEF ClientMoves, Observe, RequestFails, Finish
  <1>17. ASSUME NEW r \in Resources, ClientMoves(r), AnswerLost(r)
        PROVE  \A q \in Resources : Restates(q) \/ FreshList(q)
    BY <1>17 DEF ClientMoves, Observe, AnswerLost, Finish
  <1>18. ASSUME NEW r \in Resources, ClientMoves(r), AnswerArrives(r)
        PROVE  \A q \in Resources : Restates(q) \/ FreshList(q)
    BY <1>18 DEF ClientMoves, Observe, AnswerArrives
  <1>19. ASSUME NEW r \in Resources, ClientMoves(r), Invalidate(r)
        PROVE  \A q \in Resources : Restates(q) \/ FreshList(q)
    BY <1>19 DEF ClientMoves, Observe, Invalidate, Finish
  <1>20. ASSUME NEW r \in Resources, ClientMoves(r), ListFromSnapshot(r)
        PROVE  \A q \in Resources : Restates(q) \/ FreshList(q)
    BY <1>20 DEF ClientMoves, Observe, ListFromSnapshot, Finish
  <1>21. ASSUME NEW r \in Resources, ClientMoves(r), ListFetches(r)
        PROVE  \A q \in Resources : Restates(q) \/ FreshList(q)
    BY <1>21 DEF ClientMoves, Observe, ListFetches
  <1>22. ASSUME NEW r \in Resources, ClientMoves(r), FetchPage(r)
        PROVE  \A q \in Resources : Restates(q) \/ FreshList(q)
    BY <1>22 DEF ClientMoves, Observe, FetchPage, Seen
  <1>23. ASSUME NEW r \in Resources, ClientMoves(r), FetchLastPage(r)
        PROVE  \A q \in Resources : Restates(q) \/ FreshList(q)
    BY <1>23 DEF ClientMoves, Observe, FetchLastPage, Seen, ForgetPages, Finish
  <1>24. ASSUME NEW r \in Resources, ClientMoves(r), FetchFails(r)
        PROVE  \A q \in Resources : Restates(q) \/ FreshList(q)
    BY <1>24 DEF ClientMoves, Observe, FetchFails, ForgetPages, Finish
  <1>25. ASSUME NEW r \in Resources, ClientMoves(r), FilterAnswers(r)
        PROVE  \A q \in Resources : Restates(q) \/ FreshList(q)
    BY <1>25 DEF ClientMoves, Observe, FilterAnswers, Finish, Matching
  <1>26. CASE OthersMove /\ ElsewhereCreates
    BY <1>26 DEF OthersMove, Observe, ElsewhereCreates
  <1>27. CASE OthersMove /\ ElsewhereDeletes
    BY <1>27 DEF OthersMove, Observe, ElsewhereDeletes, Unpromise
  <1>28. CASE OthersMove /\ ElsewhereEdits
    BY <1>28 DEF OthersMove, Observe, ElsewhereEdits
  <1>29. CASE NewProcess
    BY <1>29 DEF NewProcess
  <1>30. CASE UNCHANGED allVars
    BY <1>30 DEF allVars, resourceVars, inventoryVars
  <1> QED
    BY <1>1, <1>2, <1>3, <1>4, <1>5, <1>6, <1>7, <1>8, <1>9, <1>10, <1>11, <1>12, <1>13, <1>14, <1>15, <1>15t, <1>16, <1>17, <1>18, <1>19, <1>20, <1>21, <1>22, <1>23, <1>24, <1>25, <1>26, <1>27, <1>28, <1>29, <1>30 DEF Next, Method, OthersMove, Elsewhere, ClientMoves, ClientStep

\* Whatever a list has shown, and whatever the state has, later lists show.
LEMMA ListedStep ==
  ASSUME TypeOK, InventoryInv, UsedInv, CallsInv, [Next]_allVars
  PROVE  (\A q \in Resources : ListedOf(q))'
  <1> SUFFICES ASSUME NEW q \in Resources PROVE ListedOf(q)'
    BY Zenon
  <1> USE InventoryAssumption DEF Resources
  <1>1. ListedOf(q)
    BY DEF CallsInv
  <1>2. \A i \in Ids : i \in used /\ Listed(i) => Listed(i)'
    BY ListedStable
  <1>3. \A i \in used : server[i] = Absent => server'[i] = Absent
    BY RecordsStayAway
  <1>4. stateId[q] # NoId => stateId[q] \in used
    BY DEF UsedInv, TypeOK
  <1>5. \A i \in Ids : got[q][i] # Absent => i \in used
    BY DEF UsedInv
  <1>6. stateId[q] # NoId => stateId[q] \in Ids
    BY DEF TypeOK
  <1>7. CASE Restates(q)
    <2>1. \A i \in Ids : i = stateId'[q] => Listed(i)'
      BY <1>1, <1>2, <1>4, <1>5, <1>6, <1>7 DEF Restates, ListedOf
    <2>2. op'[q] = "list" /\ pc'[q] = "return" /\ outcome'[q] = "ok" =>
            \A i \in Ids : got'[q][i] # Absent => Listed(i)'
      BY <1>1, <1>2, <1>5, <1>7 DEF Restates, ListedOf
    <2>3. step'[q] = "inventory" /\ pc'[q] = "return" /\ outcome'[q] = "ok"
            /\ server'[stateId'[q]] # Absent /\ op'[q] = "list"
          => got'[q][stateId'[q]] # Absent
      BY <1>1, <1>3, <1>4, <1>7 DEF Restates, ListedOf, CallsInv, StepOf
    <2>4. StepOf(q)'
      BY MethodStep
    <2>6. stateId'[q] # NoId => stateId'[q] \in Ids
      BY <1>6, <1>7 DEF Restates
    <2>5. step'[q] = "inventory" => op'[q] = "list"
      BY <2>4 DEF StepOf
    <2> QED
      BY <2>1, <2>2, <2>3, <2>5, <2>6 DEF ListedOf, Listed
  <1>8. CASE FreshList(q)
    <2>1. \A i \in Ids : i = stateId'[q] => Listed(i)'
      BY <1>1, <1>2, <1>4, <1>6, <1>8 DEF ListedOf, FreshList
    <2>2. \A i \in Ids : got'[q][i] # Absent => Listed(i)'
      BY <1>8 DEF FreshList, Listed
    <2>3. StepOf(q)'
      BY MethodStep
    <2> QED
      BY <1>6, <1>8, <2>1, <2>2, <2>3 DEF FreshList, ListedOf, Listed, StepOf
  <1> QED
    BY <1>7, <1>8, ListChanges

\* What a filtered list may show, as far as the lists go.
LEMMA FilterShows ==
  ASSUME NEW r, FilterAnswers(r)
  PROVE  \/ UNCHANGED <<got, aliases>>
         \/ \E shown, renamed \in SUBSET Matching(body[r]) :
              /\ got' = [got EXCEPT ![r] = [i \in Ids |-> IF i \in shown THEN server[i] ELSE Absent]]
              /\ aliases' = [aliases EXCEPT ![r] = {server[i] : i \in renamed}]
  <1>1. CASE UNCHANGED <<got, aliases>>
    BY <1>1
  <1>2. CASE ~ UNCHANGED <<got, aliases>>
    <2>1. PICK shown \in SUBSET Matching(body[r]), renamed \in SUBSET Matching(body[r]) :
              /\ shown \intersect renamed = {}
              /\ got' = [got EXCEPT ![r] = [i \in Ids |-> IF i \in shown THEN server[i] ELSE Absent]]
              /\ aliases' = [aliases EXCEPT ![r] = {server[i] : i \in renamed}]
              /\ Finish(r, "ok")
      BY <1>2, Zenon DEF FilterAnswers
    <2> QED
      BY <2>1, Zenon
  <1> QED
    BY <1>1, <1>2

\* What the clients show after a step was on the service before it.
ShowsNothingNew ==
  /\ \A i \in Ids : inventory'[i] \in {Absent, server[i]}
  /\ \A q \in Resources, i \in Ids :
        found'[q][i] \in {Absent, server[i]} /\ got'[q][i] \in {Absent, server[i]}
  /\ \A q \in Resources : \A b \in aliases'[q] : \E i \in Ids : server[i] = b

\* No step of a quiet process shows what is not there.
LEMMA ShownBefore ==
  ASSUME TypeOK, quiet, ShownInv,
         [Next]_allVars
  PROVE  ShowsNothingNew
  <1> USE InventoryAssumption, UnreadableAssumption DEF TypeOK, InventoryTypeOK, Resources, Listing, stateVars, historyVars, callVars, fetchVars, cacheVars, ackVars, ShownInv, Nothing, ShowsNothingNew
  <1>1. ASSUME NEW r \in Resources, CreateStart(r)
        PROVE  ShowsNothingNew
    BY <1>1 DEF CreateStart, Enter, Managed, StartCreate, Begin, Ready
  <1>2. ASSUME NEW r \in Resources, CreateReadsBack(r)
        PROVE  ShowsNothingNew
    BY <1>2 DEF CreateReadsBack, Enter, Returned, StartList, Begin, Ready
  <1>3. ASSUME NEW r \in Resources, CreateFails(r)
        PROVE  ShowsNothingNew
    BY <1>3 DEF CreateFails, Enter, Returned, Hydrates, FoundById, Leave
  <1>4. ASSUME NEW r \in Resources, CreateEnds(r)
        PROVE  ShowsNothingNew
    BY <1>4 DEF CreateEnds, Enter, Returned, Hydrates, FoundById, SetState, Confirm, Leave
  <1>5. ASSUME NEW r \in Resources, ReadStart(r)
        PROVE  ShowsNothingNew
    BY <1>5 DEF ReadStart, Enter, Managed, StartFilter, Begin, Ready
  <1>6. ASSUME NEW r \in Resources, ReadFromFilter(r)
        PROVE  ShowsNothingNew
    BY <1>6 DEF ReadFromFilter, Enter, Returned, Hydrates, FoundById, SemanticMatch, Refresh, Confirm, Leave
  <1>7. ASSUME NEW r \in Resources, ReadFallsBack(r)
        PROVE  ShowsNothingNew
    BY <1>7 DEF ReadFallsBack, Enter, Returned, FoundById, StartList, Begin, Ready
  <1>8. ASSUME NEW r \in Resources, ReadFromInventory(r)
        PROVE  ShowsNothingNew
    BY <1>8 DEF ReadFromInventory, Enter, Returned, Hydrates, FoundById, Refresh, Confirm, Forget, Leave
  <1>9. ASSUME NEW r \in Resources, ReadFails(r)
        PROVE  ShowsNothingNew
    BY <1>9 DEF ReadFails, Enter, Returned, Hydrates, FoundById, Leave
  <1>10. ASSUME NEW r \in Resources, DeleteStart(r)
        PROVE  ShowsNothingNew
    BY <1>10 DEF DeleteStart, Enter, Managed, StartDelete, Begin, Ready, Unpromise
  <1>11. ASSUME NEW r \in Resources, DeleteEnds(r)
        PROVE  ShowsNothingNew
    BY <1>11 DEF DeleteEnds, Enter, Returned, Forget, Leave
  <1>12. ASSUME NEW r \in Resources, ImportStart(r)
        PROVE  ShowsNothingNew
    BY <1>12 DEF ImportStart, Enter, Managed, StartList, Begin, Ready
  <1>13. ASSUME NEW r \in Resources, ImportEnds(r)
        PROVE  ShowsNothingNew
    BY <1>13 DEF ImportEnds, Enter, Returned, Hydrates, FoundById, SetState, Confirm, Leave
  <1>14. ASSUME NEW r \in Resources, ClientMoves(r), ServiceCreates(r)
        PROVE  ShowsNothingNew
    BY <1>14 DEF ClientMoves, Observe, ServiceCreates
  <1>15. ASSUME NEW r \in Resources, ClientMoves(r), ServiceDeletes(r)
        PROVE  ShowsNothingNew
    BY <1>15 DEF ClientMoves, Observe, ServiceDeletes
  <1>15t. ASSUME NEW r \in Resources, ClientMoves(r), TokenMisses(r)
        PROVE  ShowsNothingNew
    BY <1>15t DEF ClientMoves, Observe, TokenMisses
  <1>16. ASSUME NEW r \in Resources, ClientMoves(r), RequestFails(r)
        PROVE  ShowsNothingNew
    BY <1>16 DEF ClientMoves, Observe, RequestFails, Finish
  <1>17. ASSUME NEW r \in Resources, ClientMoves(r), AnswerLost(r)
        PROVE  ShowsNothingNew
    BY <1>17 DEF ClientMoves, Observe, AnswerLost, Finish
  <1>18. ASSUME NEW r \in Resources, ClientMoves(r), AnswerArrives(r)
        PROVE  ShowsNothingNew
    BY <1>18 DEF ClientMoves, Observe, AnswerArrives
  <1>19. ASSUME NEW r \in Resources, ClientMoves(r), Invalidate(r)
        PROVE  ShowsNothingNew
    BY <1>19 DEF ClientMoves, Observe, Invalidate, Finish
  <1>20. ASSUME NEW r \in Resources, ClientMoves(r), ListFromSnapshot(r)
        PROVE  ShowsNothingNew
    BY <1>20 DEF ClientMoves, Observe, ListFromSnapshot, Finish
  <1>21. ASSUME NEW r \in Resources, ClientMoves(r), ListFetches(r)
        PROVE  ShowsNothingNew
    BY <1>21 DEF ClientMoves, Observe, ListFetches
  <1>22. ASSUME NEW r \in Resources, ClientMoves(r), FetchPage(r)
        PROVE  ShowsNothingNew
    BY <1>22 DEF ClientMoves, Observe, FetchPage, Seen
  <1>23. ASSUME NEW r \in Resources, ClientMoves(r), FetchLastPage(r)
        PROVE  ShowsNothingNew
    BY <1>23 DEF ClientMoves, Observe, FetchLastPage, Seen, ForgetPages, Finish
  <1>24. ASSUME NEW r \in Resources, ClientMoves(r), FetchFails(r)
        PROVE  ShowsNothingNew
    BY <1>24 DEF ClientMoves, Observe, FetchFails, ForgetPages, Finish
  <1>25. ASSUME NEW r \in Resources, ClientMoves(r), FilterAnswers(r)
        PROVE  ShowsNothingNew
    <2>1. UNCHANGED <<inventory, found>>
      BY <1>25 DEF FilterAnswers
    <2>2. CASE UNCHANGED <<got, aliases>>
      BY <2>1, <2>2
    <2>3. CASE \E shown, renamed \in SUBSET Matching(body[r]) :
                 /\ got' = [got EXCEPT ![r] = [i \in Ids |-> IF i \in shown THEN server[i] ELSE Absent]]
                 /\ aliases' = [aliases EXCEPT ![r] = {server[i] : i \in renamed}]
      <3>1. PICK shown \in SUBSET Matching(body[r]), renamed \in SUBSET Matching(body[r]) :
                 /\ got' = [got EXCEPT ![r] = [i \in Ids |-> IF i \in shown THEN server[i] ELSE Absent]]
                 /\ aliases' = [aliases EXCEPT ![r] = {server[i] : i \in renamed}]
        BY <2>3, Zenon
      <3>2. \A q \in Resources, i \in Ids : got'[q][i] \in {Absent, server[i]}
        BY <3>1
      <3>3. \A b \in aliases'[r] : \E i \in Ids : server[i] = b
        BY <3>1 DEF Matching
      <3>4. \A q \in Resources \ {r} : aliases'[q] = aliases[q]
        BY <3>1
      <3> QED
        BY <2>1, <3>2, <3>3, <3>4
    <2>4. \/ UNCHANGED <<got, aliases>>
          \/ \E shown, renamed \in SUBSET Matching(body[r]) :
                 /\ got' = [got EXCEPT ![r] = [i \in Ids |-> IF i \in shown THEN server[i] ELSE Absent]]
                 /\ aliases' = [aliases EXCEPT ![r] = {server[i] : i \in renamed}]
      BY <1>25, FilterShows, Zenon
    <2> QED
      BY <2>2, <2>3, <2>4, Zenon
  <1>26. CASE OthersMove /\ ElsewhereCreates
    BY <1>26 DEF OthersMove, Observe, ElsewhereCreates
  <1>27. CASE OthersMove /\ ElsewhereDeletes
    BY <1>27 DEF OthersMove, Observe, ElsewhereDeletes, Unpromise
  <1>28. CASE OthersMove /\ ElsewhereEdits
    BY <1>28 DEF OthersMove, Observe, ElsewhereEdits
  <1>29. CASE NewProcess
    BY <1>29 DEF NewProcess
  <1>30. CASE UNCHANGED allVars
    BY <1>30 DEF allVars, resourceVars, inventoryVars
  <1> QED
    BY <1>1, <1>2, <1>3, <1>4, <1>5, <1>6, <1>7, <1>8, <1>9, <1>10, <1>11, <1>12, <1>13, <1>14, <1>15, <1>15t, <1>16, <1>17, <1>18, <1>19, <1>20, <1>21, <1>22, <1>23, <1>24, <1>25, <1>26, <1>27, <1>28, <1>29, <1>30 DEF Next, Method, OthersMove, Elsewhere, ClientMoves, ClientStep

\* In a quiet process everything shown so far is still so.
LEMMA ShownStep ==
  ASSUME TypeOK, InventoryInv, UsedInv, ShownInv, [Next]_allVars
  PROVE  ShownInv'
  <1> USE DEF Resources
  <1> SUFFICES ASSUME quiet' PROVE ShownInv'
    BY DEF ShownInv
  <1>1. CASE NewProcess
    BY <1>1 DEF NewProcess, ShownInv, Nothing
  <1>2. CASE quiet /\ \A i \in used : server'[i] = server[i]
    <2>1. ASSUME NEW q \in Resources, NEW i \in Ids
          PROVE  /\ found'[q][i] \in {Absent, server'[i]}
                 /\ got'[q][i] \in {Absent, server'[i]}
      <3>1. /\ found'[q][i] \in {Absent, server[i]}
            /\ got'[q][i] \in {Absent, server[i]}
        BY <1>2, ShownBefore DEF ShowsNothingNew
      <3>2. i \in used => server'[i] = server[i]
        BY <1>2
      <3>3. i \notin used => server[i] = Absent
        BY DEF UsedInv
      <3> QED
        BY <3>1, <3>2, <3>3
    <2>2. ASSUME NEW q \in Resources, NEW b \in aliases'[q]
          PROVE  \E i \in Ids : server'[i] = b
      <3>1. b \in Bodies
        BY ResourceTypeStep, InventoryKept DEF InventoryInv, InventoryTypeOK
      <3>2. PICK i \in Ids : server[i] = b
        BY <1>2, ShownBefore DEF ShowsNothingNew
      <3>3. i \in used
        BY <3>1, <3>2, InventoryAssumption DEF UsedInv
      <3> QED
        BY <1>2, <3>2, <3>3
    <2>3. ASSUME NEW i \in Ids PROVE inventory'[i] \in {Absent, server'[i]}
      <3>1. inventory'[i] \in {Absent, server[i]}
        BY <1>2, ShownBefore DEF ShowsNothingNew
      <3>2. i \in used => server'[i] = server[i]
        BY <1>2
      <3>3. i \notin used => server[i] = Absent
        BY DEF UsedInv
      <3> QED
        BY <3>1, <3>2, <3>3
    <2> QED
      BY <2>1, <2>2, <2>3 DEF ShownInv
  <1> QED
    BY <1>1, <1>2, QuietStep

\* What a method that ends confirms of its own resource is all there is to see.
LEMMA ConfirmingKeepsTruth ==
  ASSUME confirmed \in SUBSET Resources, quiet \in BOOLEAN,
         ConfirmedInv, DriftDetected, NEW r \in Resources,
         server' = server, quiet' = quiet,
         confirmed' \subseteq confirmed \union {r},
         \A q \in Resources \ {r} :
            stateId'[q] = stateId[q] /\ stateBody'[q] = stateBody[q],
         r \in confirmed' =>
            /\ stateId'[r] # NoId
            /\ quiet => \E i \in Ids : server[i] = stateBody'[r]
  PROVE  (ConfirmedInv /\ DriftDetected)'
  <1>1. ConfirmedInv'
    <2> SUFFICES ASSUME NEW q \in confirmed' PROVE stateId'[q] # NoId
      BY DEF ConfirmedInv
    <2>1. CASE q = r
      BY <2>1
    <2>2. CASE q # r
      BY <2>2 DEF ConfirmedInv
    <2> QED
      BY <2>1, <2>2
  <1>2. DriftDetected'
    <2> SUFFICES ASSUME quiet, NEW q \in confirmed'
                 PROVE  \E i \in Ids : server[i] = stateBody'[q]
      BY Zenon DEF DriftDetected
    <2>1. CASE q = r
      BY <2>1
    <2>2. CASE q # r
      <3>1. q \in confirmed /\ stateBody'[q] = stateBody[q]
        BY <2>2
      <3> QED
        BY <3>1, Zenon DEF DriftDetected
    <2> QED
      BY <2>1, <2>2
  <1> QED
    BY <1>1, <1>2

\* What a read confirms is on the service, and stays while the process is quiet.
LEMMA DriftStep ==
  ASSUME TypeOK, UsedInv, CallsInv, ShownInv, ConfirmedInv, DriftDetected,
         [Next]_allVars
  PROVE  (ConfirmedInv /\ DriftDetected)'
  <1> USE InventoryAssumption, UnreadableAssumption DEF TypeOK, InventoryTypeOK, Resources, Listing, stateVars, historyVars, callVars, fetchVars, cacheVars, ackVars, UsedInv, CallsInv, StepOf, MakingOf, ShownInv, ConfirmedInv, DriftDetected, Nothing
  <1>1. ASSUME NEW r \in Resources, CreateStart(r)
        PROVE  (ConfirmedInv /\ DriftDetected)'
    BY <1>1 DEF CreateStart, Enter, Managed, StartCreate, Begin, Ready
  <1>2. ASSUME NEW r \in Resources, CreateReadsBack(r)
        PROVE  (ConfirmedInv /\ DriftDetected)'
    BY <1>2 DEF CreateReadsBack, Enter, Returned, StartList, Begin, Ready
  <1>3. ASSUME NEW r \in Resources, CreateFails(r)
        PROVE  (ConfirmedInv /\ DriftDetected)'
    BY <1>3 DEF CreateFails, Enter, Returned, Hydrates, FoundById, Leave
  <1>4. ASSUME NEW r \in Resources, CreateEnds(r)
        PROVE  (ConfirmedInv /\ DriftDetected)'
    BY <1>4 DEF CreateEnds, Enter, Returned, Hydrates, FoundById, SetState, Confirm, Leave
  <1>5. ASSUME NEW r \in Resources, ReadStart(r)
        PROVE  (ConfirmedInv /\ DriftDetected)'
    BY <1>5 DEF ReadStart, Enter, Managed, StartFilter, Begin, Ready
  <1>6. ASSUME NEW r \in Resources, ReadFromFilter(r)
        PROVE  (ConfirmedInv /\ DriftDetected)'
    <2>1. UNCHANGED <<stateId, server, quiet>> /\ stateId[r] # NoId
      BY <1>6 DEF ReadFromFilter, Returned, Refresh, Leave
    <2>2. confirmed' = confirmed \/ confirmed' = confirmed \union {r}
      BY <1>6, Zenon DEF ReadFromFilter, Refresh, Confirm
    <2>3. ConfirmedInv'
      BY <2>1, <2>2 DEF ConfirmedInv
    <2>4. ASSUME quiet' PROVE \E i \in Ids : server'[i] = stateBody'[r]
      <3>1. CASE Hydrates(r, stateId[r]) /\ Refresh(r)
        <4>1. /\ got[r][stateId[r]] # Absent
              /\ stateBody'[r] = got[r][stateId[r]] /\ stateId[r] \in Ids
          BY <2>1, <3>1 DEF Hydrates, FoundById, Refresh
        <4>2. got[r][stateId[r]] = server[stateId[r]]
          BY <2>1, <2>4, <4>1 DEF ShownInv
        <4> QED
          BY <2>1, <4>1, <4>2
      <3>2. CASE SemanticMatch(r) /\ UNCHANGED stateVars
        <4>1. stateBody'[r] = stateBody[r] /\ stateBody[r] # Absent
          BY <2>1, <3>2
        <4>2. CASE stateBody[r] \in aliases[r]
          BY <2>1, <2>4, <4>1, <4>2 DEF ShownInv
        <4>3. CASE \E i \in Ids : got[r][i] = stateBody[r]
          <5>1. PICK i \in Ids : got[r][i] = stateBody[r]
            BY <4>3
          <5>2. got[r][i] = server[i]
            BY <2>1, <2>4, <4>1, <5>1 DEF ShownInv
          <5> QED
            BY <2>1, <4>1, <5>1, <5>2
        <4> QED
          BY <3>2, <4>2, <4>3 DEF SemanticMatch
      <3> QED
        BY <1>6, <3>1, <3>2, Zenon DEF ReadFromFilter
    <2>5. \A q \in Resources \ {r} : stateBody'[q] = stateBody[q]
      BY <1>6 DEF ReadFromFilter, Refresh
    <2>6. /\ server' = server /\ quiet' = quiet
          /\ confirmed' \subseteq confirmed \union {r}
          /\ confirmed \in SUBSET Resources /\ quiet \in BOOLEAN
      <3>1. server' = server /\ quiet' = quiet
        BY <2>1, Zenon
      <3> QED
        BY <2>2, <3>1
    <2>7. /\ \A q \in Resources \ {r} :
                stateId'[q] = stateId[q] /\ stateBody'[q] = stateBody[q]
          /\ stateId'[r] # NoId
      BY <2>1, <2>5
    <2>8. quiet => \E i \in Ids : server[i] = stateBody'[r]
      BY <2>4, <2>6, Zenon
    <2> HIDE DEF TypeOK, InventoryTypeOK, UsedInv, CallsInv, ShownInv,
                 ConfirmedInv, DriftDetected, Resources
    <2> QED
      BY <2>6, <2>7, <2>8, ConfirmingKeepsTruth
  <1>7. ASSUME NEW r \in Resources, ReadFallsBack(r)
        PROVE  (ConfirmedInv /\ DriftDetected)'
    BY <1>7 DEF ReadFallsBack, Enter, Returned, FoundById, StartList, Begin, Ready
  <1>8. ASSUME NEW r \in Resources, ReadFromInventory(r)
        PROVE  (ConfirmedInv /\ DriftDetected)'
    <2>1. /\ server' = server /\ quiet' = quiet
          /\ confirmed \in SUBSET Resources /\ quiet \in BOOLEAN
          /\ confirmed' \subseteq confirmed \union {r}
      <3>1. server' = server /\ quiet' = quiet
        BY <1>8, Zenon DEF ReadFromInventory, Leave
      <3>2. \/ confirmed' = confirmed
            \/ confirmed' = confirmed \union {r} \/ confirmed' = confirmed \ {r}
        BY <1>8, Zenon DEF ReadFromInventory, Refresh, Confirm, Forget
      <3> QED
        BY <3>1, <3>2
    <2>2. \A q \in Resources \ {r} :
             stateId'[q] = stateId[q] /\ stateBody'[q] = stateBody[q]
      BY <1>8 DEF ReadFromInventory, Refresh, Forget
    <2>3. ASSUME r \in confirmed'
          PROVE  /\ stateId'[r] # NoId
                 /\ quiet => \E i \in Ids : server[i] = stateBody'[r]
      <3>1. Hydrates(r, stateId[r]) /\ Refresh(r)
        BY <1>8, <2>3 DEF ReadFromInventory, Forget
      <3>2. /\ stateId[r] \in Ids /\ stateId'[r] = stateId[r]
            /\ stateBody'[r] = got[r][stateId[r]] /\ stateBody'[r] # Absent
        BY <1>8, <3>1 DEF ReadFromInventory, Returned, Hydrates, FoundById, Refresh
      <3>3. quiet => server[stateId[r]] = stateBody'[r]
        BY <3>2 DEF ShownInv
      <3> QED
        BY <3>2, <3>3
    <2> HIDE DEF TypeOK, InventoryTypeOK, UsedInv, CallsInv, ShownInv,
                 ConfirmedInv, DriftDetected, Resources
    <2> QED
      BY <2>1, <2>2, <2>3, ConfirmingKeepsTruth
  <1>9. ASSUME NEW r \in Resources, ReadFails(r)
        PROVE  (ConfirmedInv /\ DriftDetected)'
    BY <1>9 DEF ReadFails, Enter, Returned, Hydrates, FoundById, Leave
  <1>10. ASSUME NEW r \in Resources, DeleteStart(r)
        PROVE  (ConfirmedInv /\ DriftDetected)'
    BY <1>10 DEF DeleteStart, Enter, Managed, StartDelete, Begin, Ready, Unpromise
  <1>11. ASSUME NEW r \in Resources, DeleteEnds(r)
        PROVE  (ConfirmedInv /\ DriftDetected)'
    BY <1>11 DEF DeleteEnds, Enter, Returned, Forget, Leave
  <1>12. ASSUME NEW r \in Resources, ImportStart(r)
        PROVE  (ConfirmedInv /\ DriftDetected)'
    BY <1>12 DEF ImportStart, Enter, Managed, StartList, Begin, Ready
  <1>13. ASSUME NEW r \in Resources, ImportEnds(r)
        PROVE  (ConfirmedInv /\ DriftDetected)'
    <2>1. CASE Hydrates(r, givenId[r]) /\ SetState(r, givenId[r])
      <3>1. givenId[r] \in Ids /\ got[r][givenId[r]] # Absent
        BY <1>13, <2>1 DEF ImportEnds, Returned, Hydrates, FoundById
      <3>2. /\ stateId' = [stateId EXCEPT ![r] = givenId[r]]
            /\ stateBody' = [stateBody EXCEPT ![r] = got[r][givenId[r]]]
            /\ UNCHANGED <<server, quiet>>
        BY <1>13, <2>1 DEF ImportEnds, SetState, Leave
      <3>3. confirmed' = confirmed \/ confirmed' = confirmed \union {r}
        BY <2>1, Zenon DEF SetState, Confirm
      <3>4. quiet => server[givenId[r]] = got[r][givenId[r]]
        BY <3>1 DEF ShownInv
      <3>5. /\ server' = server /\ quiet' = quiet
            /\ confirmed \in SUBSET Resources /\ quiet \in BOOLEAN
            /\ confirmed' \subseteq confirmed \union {r}
        <4>1. server' = server /\ quiet' = quiet
          BY <3>2, Zenon
        <4> QED
          BY <3>3, <4>1
      <3>6. /\ \A q \in Resources \ {r} :
                  stateId'[q] = stateId[q] /\ stateBody'[q] = stateBody[q]
            /\ stateId'[r] # NoId
        BY <3>1, <3>2
      <3>7. quiet => \E i \in Ids : server[i] = stateBody'[r]
        BY <3>1, <3>2, <3>4
      <3> HIDE DEF TypeOK, InventoryTypeOK, UsedInv, CallsInv, ShownInv,
                   ConfirmedInv, DriftDetected, Resources
      <3> QED
        BY <3>5, <3>6, <3>7, ConfirmingKeepsTruth
    <2>2. CASE UNCHANGED <<stateId, stateBody, confirmed>>
      BY <1>13, <2>2 DEF ImportEnds, Leave
    <2> QED
      BY <1>13, <2>1, <2>2, Zenon DEF ImportEnds, stateVars
  <1>14. ASSUME NEW r \in Resources, ClientMoves(r), ServiceCreates(r)
        PROVE  (ConfirmedInv /\ DriftDetected)'
    BY <1>14 DEF ClientMoves, Observe, ServiceCreates
  <1>15. ASSUME NEW r \in Resources, ClientMoves(r), ServiceDeletes(r)
        PROVE  (ConfirmedInv /\ DriftDetected)'
    <2>1. UNCHANGED <<stateId, stateBody>> /\ (confirmed' = confirmed \/ confirmed' = {})
      BY <1>15, Zenon DEF ClientMoves, Observe
    <2>2. ConfirmedInv'
      BY <2>1 DEF ConfirmedInv
    <2>3. ASSUME quiet', NEW q \in confirmed'
          PROVE  \E i \in Ids : server'[i] = stateBody'[q]
      <3>1. quiet /\ \A i \in used : server'[i] = server[i]
        BY <1>15, <2>3, Zenon DEF ClientMoves, Observe
      <3>2. q \in confirmed /\ q \in Resources
        BY <2>1
      <3>3. PICK i \in Ids : server[i] = stateBody[q]
        BY <3>1, <3>2 DEF DriftDetected
      <3>4. stateBody[q] # Absent
        BY <3>2 DEF ConfirmedInv
      <3>5. i \in used
        BY <3>3, <3>4 DEF UsedInv
      <3> QED
        BY <2>1, <3>1, <3>3, <3>5
    <2> QED
      BY <2>2, <2>3 DEF DriftDetected
  <1>15t. ASSUME NEW r \in Resources, ClientMoves(r), TokenMisses(r)
        PROVE  (ConfirmedInv /\ DriftDetected)'
    <2>1. UNCHANGED <<stateId, stateBody>> /\ (confirmed' = confirmed \/ confirmed' = {})
      BY <1>15t, Zenon DEF ClientMoves, Observe
    <2>2. ConfirmedInv'
      BY <2>1 DEF ConfirmedInv
    <2>3. ASSUME quiet', NEW q \in confirmed'
          PROVE  \E i \in Ids : server'[i] = stateBody'[q]
      <3>1. quiet /\ \A i \in used : server'[i] = server[i]
        BY <1>15t, <2>3, Zenon DEF ClientMoves, Observe
      <3>2. q \in confirmed /\ q \in Resources
        BY <2>1
      <3>3. PICK i \in Ids : server[i] = stateBody[q]
        BY <3>1, <3>2 DEF DriftDetected
      <3>4. stateBody[q] # Absent
        BY <3>2 DEF ConfirmedInv
      <3>5. i \in used
        BY <3>3, <3>4 DEF UsedInv
      <3> QED
        BY <2>1, <3>1, <3>3, <3>5
    <2> QED
      BY <2>2, <2>3 DEF DriftDetected
  <1>16. ASSUME NEW r \in Resources, ClientMoves(r), RequestFails(r)
        PROVE  (ConfirmedInv /\ DriftDetected)'
    BY <1>16 DEF ClientMoves, Observe, RequestFails, Finish
  <1>17. ASSUME NEW r \in Resources, ClientMoves(r), AnswerLost(r)
        PROVE  (ConfirmedInv /\ DriftDetected)'
    BY <1>17 DEF ClientMoves, Observe, AnswerLost, Finish
  <1>18. ASSUME NEW r \in Resources, ClientMoves(r), AnswerArrives(r)
        PROVE  (ConfirmedInv /\ DriftDetected)'
    BY <1>18 DEF ClientMoves, Observe, AnswerArrives
  <1>19. ASSUME NEW r \in Resources, ClientMoves(r), Invalidate(r)
        PROVE  (ConfirmedInv /\ DriftDetected)'
    BY <1>19 DEF ClientMoves, Observe, Invalidate, Finish
  <1>20. ASSUME NEW r \in Resources, ClientMoves(r), ListFromSnapshot(r)
        PROVE  (ConfirmedInv /\ DriftDetected)'
    BY <1>20 DEF ClientMoves, Observe, ListFromSnapshot, Finish
  <1>21. ASSUME NEW r \in Resources, ClientMoves(r), ListFetches(r)
        PROVE  (ConfirmedInv /\ DriftDetected)'
    BY <1>21 DEF ClientMoves, Observe, ListFetches
  <1>22. ASSUME NEW r \in Resources, ClientMoves(r), FetchPage(r)
        PROVE  (ConfirmedInv /\ DriftDetected)'
    BY <1>22 DEF ClientMoves, Observe, FetchPage, Seen
  <1>23. ASSUME NEW r \in Resources, ClientMoves(r), FetchLastPage(r)
        PROVE  (ConfirmedInv /\ DriftDetected)'
    BY <1>23 DEF ClientMoves, Observe, FetchLastPage, Seen, ForgetPages, Finish
  <1>24. ASSUME NEW r \in Resources, ClientMoves(r), FetchFails(r)
        PROVE  (ConfirmedInv /\ DriftDetected)'
    BY <1>24 DEF ClientMoves, Observe, FetchFails, ForgetPages, Finish
  <1>25. ASSUME NEW r \in Resources, ClientMoves(r), FilterAnswers(r)
        PROVE  (ConfirmedInv /\ DriftDetected)'
    BY <1>25 DEF ClientMoves, Observe, FilterAnswers, Finish, Matching
  <1>26. CASE OthersMove /\ ElsewhereCreates
    BY <1>26 DEF OthersMove, Observe, ElsewhereCreates
  <1>27. CASE OthersMove /\ ElsewhereDeletes
    <2>1. UNCHANGED <<stateId, stateBody>> /\ (confirmed' = confirmed \/ confirmed' = {})
      BY <1>27, Zenon DEF OthersMove, Observe
    <2>2. ConfirmedInv'
      BY <2>1 DEF ConfirmedInv
    <2>3. ASSUME quiet', NEW q \in confirmed'
          PROVE  \E i \in Ids : server'[i] = stateBody'[q]
      <3>1. quiet /\ \A i \in used : server'[i] = server[i]
        BY <1>27, <2>3, Zenon DEF OthersMove, Observe
      <3>2. q \in confirmed /\ q \in Resources
        BY <2>1
      <3>3. PICK i \in Ids : server[i] = stateBody[q]
        BY <3>1, <3>2 DEF DriftDetected
      <3>4. stateBody[q] # Absent
        BY <3>2 DEF ConfirmedInv
      <3>5. i \in used
        BY <3>3, <3>4 DEF UsedInv
      <3> QED
        BY <2>1, <3>1, <3>3, <3>5
    <2> QED
      BY <2>2, <2>3 DEF DriftDetected
  <1>28. CASE OthersMove /\ ElsewhereEdits
    <2>1. UNCHANGED <<stateId, stateBody>> /\ (confirmed' = confirmed \/ confirmed' = {})
      BY <1>28, Zenon DEF OthersMove, Observe
    <2>2. ConfirmedInv'
      BY <2>1 DEF ConfirmedInv
    <2>3. ASSUME quiet', NEW q \in confirmed'
          PROVE  \E i \in Ids : server'[i] = stateBody'[q]
      <3>1. quiet /\ \A i \in used : server'[i] = server[i]
        BY <1>28, <2>3, Zenon DEF OthersMove, Observe
      <3>2. q \in confirmed /\ q \in Resources
        BY <2>1
      <3>3. PICK i \in Ids : server[i] = stateBody[q]
        BY <3>1, <3>2 DEF DriftDetected
      <3>4. stateBody[q] # Absent
        BY <3>2 DEF ConfirmedInv
      <3>5. i \in used
        BY <3>3, <3>4 DEF UsedInv
      <3> QED
        BY <2>1, <3>1, <3>3, <3>5
    <2> QED
      BY <2>2, <2>3 DEF DriftDetected
  <1>29. CASE NewProcess
    BY <1>29 DEF NewProcess
  <1>30. CASE UNCHANGED allVars
    BY <1>30 DEF allVars, resourceVars, inventoryVars
  <1> QED
    BY <1>1, <1>2, <1>3, <1>4, <1>5, <1>6, <1>7, <1>8, <1>9, <1>10, <1>11, <1>12, <1>13, <1>14, <1>15, <1>15t, <1>16, <1>17, <1>18, <1>19, <1>20, <1>21, <1>22, <1>23, <1>24, <1>25, <1>26, <1>27, <1>28, <1>29, <1>30 DEF Next, Method, OthersMove, Elsewhere, ClientMoves, ClientStep

\* NoSilentOrphan for one id.
Tied(i) == \E r \in Resources : i \in owned[r] \/ i = making[r]
Kept(i) == \E r \in Resources : stateId[r] = i \/ making[r] = i
Accounted(i) == server[i] # Absent /\ Tied(i) => Kept(i) \/ i \in reported \union dropped

\* What a resource made or took over is accounted for at every step.
LEMMA OrphanStep ==
  ASSUME TypeOK, UsedInv, CallsInv, NEW i \in Ids, Accounted(i),
         [Next]_allVars
  PROVE  Accounted(i)'
  <1> USE InventoryAssumption, UnreadableAssumption DEF TypeOK, InventoryTypeOK, Resources, Listing, stateVars, historyVars, callVars, fetchVars, cacheVars, ackVars, UsedInv, CallsInv, StepOf, MakingOf, ListedOf, GoneOf, HasMade, HasDeleted, Tied, Kept, Accounted
  <1>1. ASSUME NEW r \in Resources, CreateStart(r)
        PROVE  Accounted(i)'
    BY <1>1 DEF CreateStart, Enter, Managed, StartCreate, Begin, Ready
  <1>2. ASSUME NEW r \in Resources, CreateReadsBack(r)
        PROVE  Accounted(i)'
    BY <1>2 DEF CreateReadsBack, Enter, Returned, StartList, Begin, Ready
  <1>3. ASSUME NEW r \in Resources, CreateFails(r)
        PROVE  Accounted(i)'
    BY <1>3 DEF CreateFails, Enter, Returned, Hydrates, FoundById, Leave
  <1>4. ASSUME NEW r \in Resources, CreateEnds(r)
        PROVE  Accounted(i)'
    BY <1>4 DEF CreateEnds, Enter, Returned, Hydrates, FoundById, SetState, Confirm, Leave
  <1>5. ASSUME NEW r \in Resources, ReadStart(r)
        PROVE  Accounted(i)'
    BY <1>5 DEF ReadStart, Enter, Managed, StartFilter, Begin, Ready
  <1>6. ASSUME NEW r \in Resources, ReadFromFilter(r)
        PROVE  Accounted(i)'
    BY <1>6 DEF ReadFromFilter, Enter, Returned, Hydrates, FoundById, SemanticMatch, Refresh, Confirm, Leave
  <1>7. ASSUME NEW r \in Resources, ReadFallsBack(r)
        PROVE  Accounted(i)'
    BY <1>7 DEF ReadFallsBack, Enter, Returned, FoundById, StartList, Begin, Ready
  <1>8. ASSUME NEW r \in Resources, ReadFromInventory(r)
        PROVE  Accounted(i)'
    BY <1>8 DEF ReadFromInventory, Enter, Returned, Hydrates, FoundById, Refresh, Confirm, Forget, Leave
  <1>9. ASSUME NEW r \in Resources, ReadFails(r)
        PROVE  Accounted(i)'
    BY <1>9 DEF ReadFails, Enter, Returned, Hydrates, FoundById, Leave
  <1>10. ASSUME NEW r \in Resources, DeleteStart(r)
        PROVE  Accounted(i)'
    BY <1>10 DEF DeleteStart, Enter, Managed, StartDelete, Begin, Ready, Unpromise
  <1>11. ASSUME NEW r \in Resources, DeleteEnds(r)
        PROVE  Accounted(i)'
    <2>1. /\ UNCHANGED <<server, reported, owned>>
          /\ making' = [making EXCEPT ![r] = NoId] /\ making[r] = NoId
          /\ stateId[r] # NoId
      BY <1>11 DEF DeleteEnds, Returned, Leave
    <2>2. CASE UNCHANGED <<stateId, dropped>>
      BY <2>1, <2>2
    <2>3. CASE Forget(r) /\ outcome[r] \in {"ok", "missing"}
      <3>1. server[stateId[r]] = Absent
        BY <1>11, <2>3 DEF DeleteEnds, Returned
      <3>2. dropped' = dropped /\ stateId' = [stateId EXCEPT ![r] = NoId]
        BY <2>3 DEF Forget
      <3> QED
        BY <2>1, <3>1, <3>2
    <2>4. CASE Forget(r) /\ outcome[r] = "notoken"
      <3>1. /\ stateId' = [stateId EXCEPT ![r] = NoId]
            /\ dropped \subseteq dropped'
            /\ server[stateId[r]] # Absent => stateId[r] \in dropped'
        BY <2>4 DEF Forget
      <3> QED
        BY <2>1, <3>1
    <2> QED
      BY <1>11, <2>2, <2>3, <2>4 DEF DeleteEnds
  <1>12. ASSUME NEW r \in Resources, ImportStart(r)
        PROVE  Accounted(i)'
    BY <1>12 DEF ImportStart, Enter, Managed, StartList, Begin, Ready
  <1>13. ASSUME NEW r \in Resources, ImportEnds(r)
        PROVE  Accounted(i)'
    <2>1. /\ UNCHANGED <<server, reported>> /\ making' = [making EXCEPT ![r] = NoId]
          /\ \/ UNCHANGED <<stateId, owned, dropped>>
             \/ /\ stateId' = [stateId EXCEPT ![r] = givenId[r]]
                /\ owned' = [owned EXCEPT ![r] = owned[r] \union {givenId[r]}]
                /\ dropped' = dropped \ {givenId[r]}
      BY <1>13 DEF ImportEnds, SetState, Leave
    <2>2. making[r] = NoId /\ stateId[r] = NoId
      BY <1>13 DEF ImportEnds, Returned
    <2> QED
      BY <2>1, <2>2
  <1>14. ASSUME NEW r \in Resources, ClientMoves(r), ServiceCreates(r)
        PROVE  Accounted(i)'
    <2>1. PICK j \in Ids : /\ server' = [server EXCEPT ![j] = body[r]]
                           /\ target' = [target EXCEPT ![r] = j]
      BY <1>14 DEF ServiceCreates
    <2>2. /\ pc[r] = "posting" /\ pc'[r] = "posted"
          /\ UNCHANGED <<stateId, owned, reported>>
      BY <1>14 DEF ClientMoves, Observe, ServiceCreates
    <2>3. /\ making' = [making EXCEPT ![r] = j]
          /\ dropped' = {k \in dropped : server'[k] # Absent}
      BY <1>14, <2>1, <2>2 DEF ClientMoves, Observe
    <2>4. making[r] = NoId
      <3>1. step[r] = "create"
        BY <2>2 DEF Step
      <3> QED
        BY <2>2, <3>1
    <2>5. CASE i = j
      BY <2>3, <2>5
    <2>6. CASE i # j
      BY <2>1, <2>2, <2>3, <2>4, <2>6
    <2> QED
      BY <2>5, <2>6
  <1>15. ASSUME NEW r \in Resources, ClientMoves(r), ServiceDeletes(r)
        PROVE  Accounted(i)'
    BY <1>15 DEF ClientMoves, Observe, ServiceDeletes
  <1>15t. ASSUME NEW r \in Resources, ClientMoves(r), TokenMisses(r)
        PROVE  Accounted(i)'
    BY <1>15t DEF ClientMoves, Observe, TokenMisses
  <1>16. ASSUME NEW r \in Resources, ClientMoves(r), RequestFails(r)
        PROVE  Accounted(i)'
    BY <1>16 DEF ClientMoves, Observe, RequestFails, Finish
  <1>17. ASSUME NEW r \in Resources, ClientMoves(r), AnswerLost(r)
        PROVE  Accounted(i)'
    BY <1>17 DEF ClientMoves, Observe, AnswerLost, Finish
  <1>18. ASSUME NEW r \in Resources, ClientMoves(r), AnswerArrives(r)
        PROVE  Accounted(i)'
    BY <1>18 DEF ClientMoves, Observe, AnswerArrives
  <1>19. ASSUME NEW r \in Resources, ClientMoves(r), Invalidate(r)
        PROVE  Accounted(i)'
    BY <1>19 DEF ClientMoves, Observe, Invalidate, Finish
  <1>20. ASSUME NEW r \in Resources, ClientMoves(r), ListFromSnapshot(r)
        PROVE  Accounted(i)'
    BY <1>20 DEF ClientMoves, Observe, ListFromSnapshot, Finish
  <1>21. ASSUME NEW r \in Resources, ClientMoves(r), ListFetches(r)
        PROVE  Accounted(i)'
    BY <1>21 DEF ClientMoves, Observe, ListFetches
  <1>22. ASSUME NEW r \in Resources, ClientMoves(r), FetchPage(r)
        PROVE  Accounted(i)'
    BY <1>22 DEF ClientMoves, Observe, FetchPage, Seen
  <1>23. ASSUME NEW r \in Resources, ClientMoves(r), FetchLastPage(r)
        PROVE  Accounted(i)'
    BY <1>23 DEF ClientMoves, Observe, FetchLastPage, Seen, ForgetPages, Finish
  <1>24. ASSUME NEW r \in Resources, ClientMoves(r), FetchFails(r)
        PROVE  Accounted(i)'
    BY <1>24 DEF ClientMoves, Observe, FetchFails, ForgetPages, Finish
  <1>25. ASSUME NEW r \in Resources, ClientMoves(r), FilterAnswers(r)
        PROVE  Accounted(i)'
    BY <1>25 DEF ClientMoves, Observe, FilterAnswers, Finish, Matching
  <1>26. CASE OthersMove /\ ElsewhereCreates
    BY <1>26 DEF OthersMove, Observe, ElsewhereCreates
  <1>27. CASE OthersMove /\ ElsewhereDeletes
    BY <1>27 DEF OthersMove, Observe, ElsewhereDeletes, Unpromise
  <1>28. CASE OthersMove /\ ElsewhereEdits
    BY <1>28 DEF OthersMove, Observe, ElsewhereEdits
  <1>29. CASE NewProcess
    BY <1>29 DEF NewProcess
  <1>30. CASE UNCHANGED allVars
    BY <1>30 DEF allVars, resourceVars, inventoryVars
  <1> QED
    BY <1>1, <1>2, <1>3, <1>4, <1>5, <1>6, <1>7, <1>8, <1>9, <1>10, <1>11, <1>12, <1>13, <1>14, <1>15, <1>15t, <1>16, <1>17, <1>18, <1>19, <1>20, <1>21, <1>22, <1>23, <1>24, <1>25, <1>26, <1>27, <1>28, <1>29, <1>30 DEF Next, Method, OthersMove, Elsewhere, ClientMoves, ClientStep

\* Only what is there is dropped, and what goes is no longer dropped.
LEMMA DroppedStep ==
  ASSUME TypeOK, DroppedInv, [Next]_allVars
  PROVE  DroppedInv'
  <1>1. ASSUME NEW r \in Resources, Method(r)
        PROVE  DroppedInv'
    <2>1. server' = server
      BY <1>1 DEF Method, CreateStart, CreateReadsBack, CreateFails, CreateEnds,
           ReadStart, ReadFromFilter, ReadFallsBack, ReadFromInventory, ReadFails,
           DeleteStart, DeleteEnds, ImportStart, ImportEnds, StartCreate, StartList,
           StartFilter, StartDelete, Leave
    <2>2. \A i \in dropped' : i \in dropped \/ server[i] # Absent
      BY <1>1 DEF Method, CreateStart, CreateReadsBack, CreateFails, CreateEnds,
           ReadStart, ReadFromFilter, ReadFallsBack, ReadFromInventory, ReadFails,
           DeleteStart, DeleteEnds, ImportStart, ImportEnds, historyVars, SetState,
           Refresh, Forget
    <2> QED
      BY <2>1, <2>2 DEF DroppedInv
  <1>2. CASE Observe
    BY <1>2 DEF Observe, DroppedInv
  <1>3. CASE NewProcess
    BY <1>3 DEF NewProcess, DroppedInv
  <1>4. CASE UNCHANGED allVars
    BY <1>4 DEF allVars, inventoryVars, resourceVars, DroppedInv
  <1> QED
    BY <1>1, <1>2, <1>3, <1>4 DEF Next, ClientMoves, OthersMove

\* Every step of the resources, their client, the service and the process
\* keeps the inductive invariant.
LEMMA ResourceStep ==
  ResourceInv /\ [Next]_allVars => ResourceInv'
  <1> SUFFICES ASSUME ResourceInv, [Next]_allVars PROVE ResourceInv'
    OBVIOUS
  <1> USE DEF ResourceInv
  <1>1. InventoryInv'
    BY InventoryKept
  <1>2. TypeOK'
    BY <1>1, ResourceTypeStep DEF InventoryInv
  <1>3. UsedInv'
    BY UsedStep
  <1>4. CallsInv'
    <2> SUFFICES ASSUME NEW q \in Resources
                 PROVE  (StepOf(q) /\ MakingOf(q) /\ OwnOf(q) /\ GoneOf(q) /\ ListedOf(q))'
      BY DEF CallsInv, Resources
    <2>1. (StepOf(q) /\ MakingOf(q))'
      BY MethodStep
    <2>2. (OwnOf(q) /\ GoneOf(q))'
      BY GoneStep
    <2>3. ListedOf(q)'
      BY ListedStep
    <2> QED
      BY <2>1, <2>2, <2>3
  <1>5. ShownInv'
    BY ShownStep
  <1>6. (ConfirmedInv /\ DriftDetected)' /\ DroppedInv'
    BY DriftStep, DroppedStep
  <1>7. NoSilentOrphan'
    <2> SUFFICES ASSUME NEW i \in Ids PROVE Accounted(i)'
      BY DEF NoSilentOrphan, Accounted, Tied, Kept
    <2>1. Accounted(i)
      BY DEF NoSilentOrphan, Accounted, Tied, Kept
    <2> QED
      BY <2>1, OrphanStep
  <1> QED
    BY <1>1, <1>2, <1>3, <1>4, <1>5, <1>6, <1>7

\* The conjunction behind the resource's properties holds in every state of
\* any number of resources, through any number of provider processes.
THEOREM ResourceInvHolds == Spec => []ResourceInv
  BY InitResourceInv, ResourceStep, PTL DEF Spec

\* Every variable of the resources and of their client keeps its type.
THEOREM ResourceTypeCorrect == Spec => []TypeOK
  <1>1. ResourceInv => TypeOK
    BY DEF ResourceInv
  <1> QED
    BY ResourceInvHolds, <1>1, PTL

\* What ManagedURLInventory promises of the snapshot still holds when the
\* resources filter as well, and when processes end in the middle of a call.
THEOREM SnapshotIsCurrentForResources == Spec => []SnapshotCurrent
  <1>1. ResourceInv => SnapshotCurrent
    BY DEF ResourceInv, InventoryInv
  <1> QED
    BY ResourceInvHolds, <1>1, PTL

\* A managed URL that Create or ImportState put in a resource's hands is in
\* the state, still being made, gone from the service, or was reported, or its
\* delete was answered with the token endpoint's 404.
THEOREM NothingIsOrphanedSilently == Spec => []NoSilentOrphan
  <1>1. ResourceInv => NoSilentOrphan
    BY DEF ResourceInv
  <1> QED
    BY ResourceInvHolds, <1>1, PTL

\* DeleteManagedURL is only called with an id the resource was given by its
\* create or its import, whatever records its reads were shown.
THEOREM OnlyItsOwnIsDeleted == Spec => []DeletesOnlyItsOwn
  <1>1. ResourceInv => DeletesOnlyItsOwn
    <2> SUFFICES ASSUME ResourceInv, NEW r \in Resources, pc[r] \in {"deleting", "deleted"}
                 PROVE  target[r] \in owned[r]
      BY DEF DeletesOnlyItsOwn
    <2>1. StepOf(r) /\ OwnOf(r) /\ step[r] \in Step
      BY DEF ResourceInv, CallsInv, Resources, TypeOK
    <2>2. step[r] = "delete"
      BY <2>1 DEF StepOf, Step
    <2> QED
      BY <2>1, <2>2 DEF StepOf, OwnOf
  <1> QED
    BY ResourceInvHolds, <1>1, PTL

\* A refresh that ends without a diagnostic, in a process during which no
\* record changed, left the state saying what the service has.
THEOREM DriftIsDetected == Spec => []DriftDetected
  <1>1. ResourceInv => DriftDetected
    BY DEF ResourceInv
  <1> QED
    BY ResourceInvHolds, <1>1, PTL

\* Read and Delete take a resource out of the state only when the service no
\* longer has its managed URL, or the token endpoint answered the delete 404: a
\* filtered answer that leaves it out, a stale snapshot, or a delete that failed
\* otherwise never does.
THEOREM StateIsLeftOnlyWhenGone == Spec => LeavesOnlyWhenGone
  <1>1. ResourceInv /\ [Next]_allVars =>
          [\A r \in Resources :
             Managed(r) /\ stateId'[r] = NoId =>
               \/ server[stateId[r]] = Absent
               \/ step[r] = "delete" /\ outcome[r] = "notoken"]_allVars
    <2> SUFFICES ASSUME ResourceInv, Next, NEW r \in Resources,
                        Managed(r), stateId'[r] = NoId,
                        ~(step[r] = "delete" /\ outcome[r] = "notoken")
                 PROVE  server[stateId[r]] = Absent
      OBVIOUS
    <2> USE DEF Managed, TypeOK, Resources
    <2>1. /\ TypeOK /\ StepOf(r) /\ GoneOf(r) /\ ListedOf(r) /\ stateId[r] \in Ids
      BY DEF ResourceInv, CallsInv
    <2>2. ASSUME NEW q \in Resources, Method(q), q # r
          PROVE  FALSE
      BY <2>1, <2>2 DEF Method, CreateStart, CreateReadsBack, CreateFails, CreateEnds,
           ReadStart, ReadFromFilter, ReadFallsBack, ReadFromInventory, ReadFails,
           DeleteStart, DeleteEnds, ImportStart, ImportEnds, stateVars, SetState, Refresh,
           Forget
    <2>3. CASE Method(r)
      <3>1. CASE ReadFromInventory(r)
        <4>1. ~FoundById(r, stateId[r]) /\ Returned(r, "inventory") /\ outcome[r] = "ok"
          BY <2>1, <3>1 DEF ReadFromInventory, Refresh
        <4> QED
          BY <2>1, <4>1 DEF ListedOf, FoundById, Returned
      <3>2. CASE DeleteEnds(r)
        <4>1. Returned(r, "delete") /\ outcome[r] \in {"ok", "missing"}
          BY <2>1, <3>2 DEF DeleteEnds, Returned, stateVars
        <4> QED
          BY <2>1, <4>1 DEF GoneOf, HasDeleted, Returned
      <3>3. CASE CreateEnds(r) \/ ImportEnds(r)
        BY <2>1, <3>3 DEF CreateEnds, ImportEnds, Returned, StepOf
      <3>4. CASE CreateStart(r) \/ CreateReadsBack(r) \/ CreateFails(r) \/ ReadStart(r)
                 \/ ReadFromFilter(r) \/ ReadFallsBack(r) \/ ReadFails(r) \/ DeleteStart(r)
                 \/ ImportStart(r)
        BY <2>1, <3>4 DEF CreateStart, CreateReadsBack, CreateFails, ReadStart,
             ReadFromFilter, ReadFallsBack, ReadFails, DeleteStart, ImportStart, stateVars,
             Refresh
      <3> QED
        BY <2>3, <3>1, <3>2, <3>3, <3>4 DEF Method
    <2>4. ASSUME NEW q \in Resources, ClientMoves(q)
          PROVE  FALSE
      BY <2>1, <2>4 DEF ClientMoves, Observe, stateVars
    <2>5. CASE OthersMove \/ NewProcess
      BY <2>1, <2>5 DEF OthersMove, Observe, NewProcess, stateVars
    <2> QED
      BY <2>2, <2>3, <2>4, <2>5 DEF Next
  <1> QED
    BY ResourceInvHolds, <1>1, PTL DEF Spec, LeavesOnlyWhenGone

----------------------------------------------------------------------------
(* The step simulation of StateContract.                                   *)

\* What StateContract speaks of stays as it is.
Unmoved ==
  UNCHANGED <<presentIds, used, stateId, making, ourIds, reported, dropped>>

\* What makes a record that is there one of ours.
Linked(i) == i \in reported \/ Tied(i)

LEMMA OursAreLinked ==
  /\ ourIds = {i \in presentIds : Linked(i)}
  /\ ourIds' = {i \in presentIds' : Linked(i)'}
<1>1. ourIds = {i \in presentIds : Linked(i)}
  BY DEF ourIds, Linked, Tied
<1>2. ourIds' = {i \in presentIds' : Linked(i)'}
  BY DEF ourIds, Linked, Tied
<1> QED
  BY <1>1, <1>2

\* Records come and go one at a time.
LEMMA PresentIdsMove ==
  ASSUME TypeOK, NEW i \in Ids, NEW b \in Bodies \union {Absent},
         server' = [server EXCEPT ![i] = b]
  PROVE  presentIds' = IF b = Absent THEN presentIds \ {i} ELSE presentIds \union {i}
  BY DEF TypeOK, InventoryTypeOK, Listing, presentIds

\* What goes is no longer dropped.
LEMMA DroppedMoves ==
  ASSUME TypeOK, DroppedInv, Observe, NEW i \in Ids, NEW b \in Bodies \union {Absent},
         server' = [server EXCEPT ![i] = b]
  PROVE  dropped' = IF b = Absent THEN dropped \ {i} ELSE dropped
<1>1. dropped' = {j \in dropped : server'[j] # Absent} /\ dropped \subseteq Ids
  BY DEF Observe, TypeOK
<1>2. \A j \in Ids : server'[j] = IF j = i THEN b ELSE server[j]
  BY DEF TypeOK, InventoryTypeOK, Listing
<1>3. \A j \in dropped : j \in Ids /\ server[j] # Absent
  BY <1>1 DEF DroppedInv
<1>4. CASE b = Absent
  BY <1>1, <1>2, <1>3, <1>4
<1>5. CASE b # Absent
  BY <1>1, <1>2, <1>3, <1>5
<1> QED
  BY <1>4, <1>5

LEMMA DroppedStays ==
  ASSUME DroppedInv, Observe, server' = server
  PROVE  dropped' = dropped
  BY DEF DroppedInv, Observe

LEMMA StateContractInitial == Init => Contract!Init
<1> SUFFICES ASSUME Init PROVE Contract!Init
  OBVIOUS
<1>1. presentIds = used /\ used \in SUBSET Ids
  BY DEF Init, InventoryInit, presentIds
<1>2. ourIds = {}
  <2>1. \A r \in Resources : owned[r] = {} /\ making[r] = NoId
    BY DEF Init
  <2>2. reported = {} /\ presentIds \subseteq Ids
    BY DEF Init, presentIds
  <2> QED
    BY <2>1, <2>2, InventoryAssumption DEF ourIds
<1>3. FALSE \in BOOLEAN /\ dropped = {}
  BY DEF Init
<1> QED
  BY <1>1, <1>2, <1>3 DEF Init, Contract!Init

\* Between the start of a method and its end Terraform sees nothing of it.
LEMMA CallSimulates ==
  ASSUME ResourceInv, NEW r \in Resources,
         \/ CreateStart(r) \/ CreateReadsBack(r)
         \/ ReadStart(r) \/ ReadFallsBack(r) \/ ReadFails(r)
         \/ DeleteStart(r) \/ ImportStart(r)
  PROVE  Unmoved
<1>1. UNCHANGED <<server, used, stateId, owned, reported, dropped>>
  BY DEF CreateStart, CreateReadsBack, ReadStart, ReadFallsBack,
         ReadFails, DeleteStart, ImportStart, StartCreate, StartList, StartFilter,
         StartDelete, Leave, stateVars, historyVars
<1>2. making' = making
  <2>1. CASE ReadFails(r)
    <3>1. making' = [making EXCEPT ![r] = NoId] /\ step[r] \in {"filter", "inventory"}
      BY <2>1 DEF ReadFails, Leave, Returned
    <3>2. making[r] = NoId
      BY <3>1 DEF ResourceInv, CallsInv, MakingOf
    <3> QED
      BY <3>1, <3>2 DEF ResourceInv, TypeOK
  <2>2. CASE ~ReadFails(r)
    BY <2>2 DEF CreateStart, CreateReadsBack, ReadStart, ReadFallsBack, DeleteStart,
           ImportStart, historyVars
  <2> QED
    BY <2>1, <2>2
<1> QED
  BY <1>1, <1>2 DEF Unmoved, presentIds, ourIds

\* A read that keeps the resource in the state finds its record again.
LEMMA RefreshSimulates ==
  ASSUME NEW r \in Resources, stateId[r] # NoId,
         UNCHANGED <<server, used, stateId, making, owned, reported>>,
         dropped' = dropped \/ dropped' = dropped \ {stateId[r]}
  PROVE  Contract!Refreshes(r)
<1>1. presentIds' = presentIds /\ ourIds' = ourIds
  BY DEF presentIds, ourIds
<1> QED
  BY <1>1 DEF Contract!Refreshes, Contract!Finds

LEMMA FilterReadSimulates ==
  ASSUME ResourceInv, NEW r \in Resources, ReadFromFilter(r)
  PROVE  Contract!Refreshes(r)
<1>1. /\ UNCHANGED <<server, used, stateId, owned, reported>>
      /\ dropped' = dropped \/ dropped' = dropped \ {stateId[r]}
      /\ making' = [making EXCEPT ![r] = NoId] /\ step[r] = "filter"
  BY DEF ReadFromFilter, Refresh, Leave, stateVars, Returned
<1>2. making[r] = NoId /\ stateId[r] # NoId
  BY <1>1 DEF ResourceInv, CallsInv, MakingOf, StepOf
<1>3. making' = making
  BY <1>1, <1>2 DEF ResourceInv, TypeOK
<1> QED
  BY <1>1, <1>2, <1>3, RefreshSimulates

\* A create that fails has been told the id it leaves behind.
LEMMA CreateFailureSimulates ==
  ASSUME ResourceInv, NEW r \in Resources, CreateFails(r)
  PROVE  Contract!Fails({r})
<1>1. /\ UNCHANGED <<server, used, stateId, owned, dropped>>
      /\ making' = [making EXCEPT ![r] = NoId]
      /\ reported' = reported \union ({making[r]} \ {NoId})
  BY DEF CreateFails, Leave, stateVars
<1>2. making \in [Resources -> Ids \union {NoId}]
  BY DEF ResourceInv, TypeOK
<1>3. \A i \in Ids : Linked(i)' <=> Linked(i)
  BY <1>1, <1>2, InventoryAssumption DEF Linked, Tied
<1>4. presentIds' = presentIds /\ presentIds \subseteq Ids
  BY <1>1 DEF presentIds
<1>5. ourIds' = ourIds
  BY <1>3, <1>4, OursAreLinked
<1>6. making' = [q \in Resources |-> IF q \in {r} THEN NoId ELSE making[q]]
  BY <1>1, <1>2
<1>7. {making[q] : q \in {r}} = {making[r]}
  OBVIOUS
<1> QED
  BY <1>1, <1>4, <1>5, <1>6, <1>7 DEF Contract!Fails

\* A create that ends well keeps the id it was given.
LEMMA CreateEndSimulates ==
  ASSUME ResourceInv, NEW r \in Resources, CreateEnds(r)
  PROVE  Contract!Keeps(r)
<1>1. StepOf(r) /\ MakingOf(r) /\ UsedInv /\ TypeOK
  BY DEF ResourceInv, CallsInv
<1>2. stateId[r] = NoId /\ givenId[r] = making[r] /\ making[r] # NoId
  BY <1>1 DEF CreateEnds, Returned, StepOf, MakingOf
<1>3. making[r] \in used
  BY <1>1, <1>2 DEF UsedInv, TypeOK
<1>4. /\ UNCHANGED <<server, used, reported>>
      /\ stateId' = [stateId EXCEPT ![r] = making[r]]
      /\ making' = [making EXCEPT ![r] = NoId]
      /\ owned' = [owned EXCEPT ![r] = owned[r] \union {making[r]}]
      /\ dropped' = dropped \ {making[r]}
  BY <1>2 DEF CreateEnds, SetState, Leave
<1>5. \A i \in Ids : Linked(i)' <=> Linked(i)
  BY <1>1, <1>4, InventoryAssumption DEF Linked, Tied, TypeOK
<1>6. presentIds' = presentIds /\ presentIds \subseteq Ids
  BY <1>4 DEF presentIds
<1>7. ourIds' = ourIds
  BY <1>5, <1>6, OursAreLinked
<1> QED
  BY <1>2, <1>3, <1>4, <1>6, <1>7 DEF Contract!Keeps, Contract!Finds

\* An import takes over a record that a list has shown.
LEMMA ImportEndSimulates ==
  ASSUME ResourceInv, NEW r \in Resources, ImportEnds(r)
  PROVE  Unmoved \/ \E i \in Ids : Contract!Adopts(r, i)
<1>1. StepOf(r) /\ MakingOf(r) /\ UsedInv /\ TypeOK
  BY DEF ResourceInv, CallsInv
<1>2. /\ stateId[r] = NoId /\ making[r] = NoId
      /\ UNCHANGED <<server, used, reported>>
      /\ making' = [making EXCEPT ![r] = NoId]
  BY <1>1 DEF ImportEnds, Returned, StepOf, MakingOf, Leave
<1>3. making' = making /\ presentIds' = presentIds
  BY <1>1, <1>2 DEF TypeOK, presentIds
<1>4. CASE UNCHANGED <<stateVars, owned, dropped>>
  BY <1>2, <1>3, <1>4 DEF Unmoved, ourIds, stateVars
<1>5. CASE Hydrates(r, givenId[r]) /\ SetState(r, givenId[r])
  <2> DEFINE i == givenId[r]
  <2>1. i \in Ids
    BY <1>1 DEF ImportEnds, Returned, StepOf, TypeOK
  <2>2. i \in used
    BY <1>1, <1>5, <2>1 DEF Hydrates, FoundById, UsedInv
  <2>3. /\ stateId' = [stateId EXCEPT ![r] = i]
        /\ owned' = [owned EXCEPT ![r] = owned[r] \union {i}]
        /\ dropped' = dropped \ {i}
    BY <1>5 DEF SetState
  <2> HIDE DEF i
  <2>4. \A j \in Ids : Linked(j)' <=> Linked(j) \/ j = i
    BY <1>1, <1>2, <1>3, <2>1, <2>3 DEF Linked, Tied, TypeOK
  <2>5. ourIds' = ourIds \union ({i} \intersect presentIds)
    <3>1. presentIds \subseteq Ids
      BY DEF presentIds
    <3> QED
      BY <1>3, <2>4, <3>1, OursAreLinked
  <2>6. Contract!Adopts(r, i)
    BY <1>2, <1>3, <2>2, <2>3, <2>5 DEF Contract!Adopts, Contract!Finds
  <2> QED
    BY <2>1, <2>6
<1> QED
  BY <1>4, <1>5 DEF ImportEnds, stateVars

\* A resource leaves the state after its record has left the service, or on a
\* 404 that was not about it.
LEMMA LeavingSimulates ==
  ASSUME ResourceInv, NEW r \in Resources, ReadFromInventory(r) \/ DeleteEnds(r)
  PROVE  \/ Unmoved \/ Contract!Refreshes(r)
         \/ Contract!Forgets(r) \/ Contract!Drops(r)
<1>1. /\ StepOf(r) /\ MakingOf(r) /\ OwnOf(r) /\ GoneOf(r) /\ ListedOf(r)
      /\ TypeOK
  BY DEF ResourceInv, CallsInv
<1>2. /\ stateId[r] # NoId /\ making[r] = NoId
      /\ UNCHANGED <<server, used, owned, reported>>
      /\ making' = [making EXCEPT ![r] = NoId]
  BY <1>1 DEF ReadFromInventory, DeleteEnds, Returned, StepOf, MakingOf, Leave
<1>3. making' = making /\ presentIds' = presentIds /\ ourIds' = ourIds
  BY <1>1, <1>2 DEF TypeOK, presentIds, ourIds
<1>4. stateId[r] \in Ids
  BY <1>1, <1>2 DEF TypeOK
<1>5. CASE UNCHANGED <<stateVars, dropped>>
  BY <1>2, <1>3, <1>5 DEF Unmoved, stateVars
<1>6. CASE Refresh(r)
  <2>1. stateId' = stateId /\ dropped' = dropped \ {stateId[r]}
    BY <1>6 DEF Refresh
  <2>2. Contract!Refreshes(r)
    BY <1>2, <1>3, <2>1, RefreshSimulates
  <2> QED
    BY <2>2
<1>7. CASE Forget(r) /\ outcome[r] # "notoken"
  <2>1. server[stateId[r]] = Absent
    <3>1. CASE ReadFromInventory(r)
      <4>1. ~FoundById(r, stateId[r]) \/ Refresh(r)
        BY <3>1 DEF ReadFromInventory
      <4>2. stateId'[r] = NoId
        BY <1>1, <1>7 DEF Forget, TypeOK
      <4>3. ~FoundById(r, stateId[r])
        BY <1>2, <4>1, <4>2 DEF Refresh
      <4> QED
        BY <1>1, <1>4, <3>1, <4>3 DEF ReadFromInventory, Returned, ListedOf, FoundById
    <3>2. CASE DeleteEnds(r)
      <4>1. stateId'[r] = NoId
        BY <1>1, <1>7 DEF Forget, TypeOK
      <4>2. outcome[r] \in {"ok", "missing"}
        BY <1>2, <1>7, <3>2, <4>1 DEF DeleteEnds, stateVars
      <4> QED
        BY <1>1, <3>2, <4>2 DEF DeleteEnds, Returned, GoneOf, HasDeleted
    <3> QED
      BY <3>1, <3>2
  <2>2. stateId[r] \notin presentIds /\ stateId[r] \notin ourIds
    BY <2>1 DEF presentIds, ourIds
  <2>3. stateId' = [stateId EXCEPT ![r] = NoId] /\ dropped' = dropped
    BY <1>7 DEF Forget
  <2>4. Contract!Forgets(r)
    BY <1>2, <1>3, <2>2, <2>3 DEF Contract!Forgets
  <2> QED
    BY <2>4
<1>8. CASE Forget(r) /\ outcome[r] = "notoken"
  <2>1. stateId' = [stateId EXCEPT ![r] = NoId]
    BY <1>8 DEF Forget
  <2>2. {stateId[r]} \intersect ourIds =
          IF server[stateId[r]] # Absent THEN {stateId[r]} ELSE {}
    <3>1. stateId[r] \in owned[r]
      BY <1>1, <1>2 DEF OwnOf
    <3>2. stateId[r] \in ourIds <=> server[stateId[r]] # Absent
      BY <1>4, <3>1 DEF ourIds, presentIds
    <3> QED
      BY <3>2
  <2>3. dropped' = dropped \union ({stateId[r]} \intersect ourIds)
    BY <1>8, <2>2 DEF Forget
  <2>4. Contract!Drops(r)
    BY <1>2, <1>3, <2>1, <2>3 DEF Contract!Drops
  <2> QED
    BY <2>4
<1> QED
  <2>1. UNCHANGED <<stateVars, dropped>> \/ Refresh(r) \/ Forget(r)
    BY Zenon DEF ReadFromInventory, DeleteEnds
  <2> QED
    BY <1>5, <1>6, <1>7, <1>8, <2>1

\* Of the client's steps, only a create and a delete that reach the service
\* matter to Terraform.
LEMMA ClientSimulates ==
  ASSUME ResourceInv, NEW r \in Resources, ClientMoves(r)
  PROVE  Unmoved \/ \E i \in Ids : Contract!Makes(r, i) \/ Contract!Removes(i)
<1>1. /\ StepOf(r) /\ MakingOf(r) /\ UsedInv /\ DroppedInv /\ TypeOK
      /\ InventoryTypeOK /\ step[r] \in Step
  BY DEF ResourceInv, CallsInv, TypeOK
<1>2. UNCHANGED <<stateId, owned, reported>> /\ Observe
  BY DEF ClientMoves, stateVars
<1>3. CASE ServiceCreates(r)
  <2>1. PICK i \in Ids \ used : /\ server' = [server EXCEPT ![i] = body[r]]
                                /\ used' = used \union {i}
                                /\ target' = [target EXCEPT ![r] = i]
    BY <1>3 DEF ServiceCreates
  <2>2. pc[r] = "posting" /\ pc'[r] = "posted"
    BY <1>1, <1>3 DEF ServiceCreates, InventoryTypeOK, Resources
  <2>3. making' = [making EXCEPT ![r] = i]
    BY <1>1, <2>1, <2>2 DEF ClientMoves, InventoryTypeOK, Resources
  <2>4. step[r] = "create"
    BY <1>1, <2>2 DEF StepOf, Step
  <2>5. making[r] = NoId /\ stateId[r] = NoId
    BY <1>1, <2>2, <2>4 DEF StepOf, MakingOf
  <2>6. body[r] \in Bodies
    BY <1>1, <2>2 DEF ResourceInv, InventoryInv, CallInv, CallOf, Resources
  <2>7. presentIds' = presentIds \union {i}
    BY <1>1, <2>1, <2>6, PresentIdsMove, InventoryAssumption
  <2>8. \A j \in Ids : Linked(j)' <=> Linked(j) \/ j = i
    BY <1>1, <1>2, <2>3, <2>5, InventoryAssumption DEF Linked, Tied, TypeOK
  <2>9. ourIds' = ourIds \union {i}
    <3>1. ~Linked(i) /\ presentIds \subseteq Ids
      BY <1>1, <2>1 DEF UsedInv, Linked, Tied, presentIds
    <3> QED
      BY <2>7, <2>8, <3>1, OursAreLinked
  <2>10. dropped' = dropped \ {i}
    <3>1. dropped' = dropped
      BY <1>1, <1>2, <2>1, <2>6, DroppedMoves, InventoryAssumption
    <3>2. i \notin dropped
      BY <1>1, <2>1 DEF UsedInv, DroppedInv
    <3> QED
      BY <3>1, <3>2
  <2>11. Contract!Makes(r, i)
    BY <1>2, <2>1, <2>3, <2>5, <2>7, <2>9, <2>10 DEF Contract!Makes
  <2> QED
    BY <2>11
<1>4. CASE ServiceDeletes(r)
  <2>1. /\ pc[r] = "deleting" /\ pc' = [pc EXCEPT ![r] = "deleted"]
        /\ server' = [server EXCEPT ![target[r]] = Absent] /\ used' = used
    BY <1>4 DEF ServiceDeletes
  <2>2. step[r] = "delete"
    BY <1>1, <2>1 DEF StepOf, Step
  <2>3. target[r] \in Ids
    BY <1>1, <2>2 DEF StepOf, TypeOK
  <2>4. making' = making
    BY <2>1 DEF ClientMoves
  <2>5. presentIds' = presentIds \ {target[r]}
    BY <1>1, <2>1, <2>3, PresentIdsMove
  <2>6. ourIds' = ourIds \ {target[r]}
    BY <1>2, <2>4, <2>5 DEF ourIds
  <2>7. dropped' = dropped \ {target[r]}
    BY <1>1, <1>2, <2>1, <2>3, DroppedMoves
  <2>8. Contract!Removes(target[r])
    BY <1>2, <2>1, <2>4, <2>5, <2>6, <2>7 DEF Contract!Removes
  <2> QED
    BY <2>3, <2>8
<1>5. CASE ~ServiceCreates(r) /\ ~ServiceDeletes(r)
  <2>1. /\ UNCHANGED <<server, used>>
        /\ ~(pc[r] = "posting" /\ pc'[r] = "posted")
    BY <1>1, <1>5 DEF ClientMoves, ClientStep, TokenMisses, RequestFails, AnswerLost, AnswerArrives,
           Invalidate, ListFromSnapshot, ListFetches, FetchPage, FetchLastPage, FetchFails,
           FilterAnswers, Finish, callVars, InventoryTypeOK, Resources
  <2>2. making' = making
    BY <2>1 DEF ClientMoves
  <2>3. dropped' = dropped
    BY <1>1, <1>2, <2>1, DroppedStays
  <2> QED
    BY <1>2, <2>1, <2>2, <2>3 DEF Unmoved, presentIds, ourIds
<1> QED
  BY <1>3, <1>4, <1>5

\* What others make is not ours.
LEMMA OthersSimulate ==
  ASSUME ResourceInv, OthersMove
  PROVE  Unmoved \/ \E i \in Ids : Contract!Appears(i) \/ Contract!Removes(i)
<1>1. UsedInv /\ DroppedInv /\ TypeOK
  BY DEF ResourceInv
<1>2. UNCHANGED <<stateId, making, owned, reported>> /\ Observe
  BY DEF OthersMove, stateVars
<1>3. CASE ElsewhereCreates
  <2>1. PICK i \in Ids \ used, b \in Bodies : /\ server' = [server EXCEPT ![i] = b]
                                              /\ used' = used \union {i}
    BY <1>3 DEF ElsewhereCreates
  <2>2. presentIds' = presentIds \union {i}
    BY <1>1, <2>1, PresentIdsMove, InventoryAssumption
  <2>3. ~Linked(i)
    BY <1>1, <2>1 DEF UsedInv, Linked, Tied
  <2>4. \A j : Linked(j)' <=> Linked(j)
    BY <1>2 DEF Linked, Tied
  <2>5. ourIds' = ourIds
    BY <2>2, <2>3, <2>4, OursAreLinked
  <2>6. dropped' = dropped
    BY <1>1, <1>2, <2>1, DroppedMoves, InventoryAssumption
  <2>7. Contract!Appears(i)
    BY <1>2, <2>1, <2>2, <2>5, <2>6 DEF Contract!Appears
  <2> QED
    BY <2>7
<1>4. CASE ElsewhereDeletes
  <2>1. PICK i \in Ids : server' = [server EXCEPT ![i] = Absent] /\ used' = used
    BY <1>4 DEF ElsewhereDeletes
  <2>2. presentIds' = presentIds \ {i}
    BY <1>1, <2>1, PresentIdsMove
  <2>3. ourIds' = ourIds \ {i}
    BY <1>2, <2>2 DEF ourIds
  <2>4. dropped' = dropped \ {i}
    BY <1>1, <1>2, <2>1, DroppedMoves
  <2>5. Contract!Removes(i)
    BY <1>2, <2>1, <2>2, <2>3, <2>4 DEF Contract!Removes
  <2> QED
    BY <2>5
<1>5. CASE ElsewhereEdits
  <2>1. PICK i \in Ids, b \in Bodies : /\ server[i] # Absent
                                       /\ server' = [server EXCEPT ![i] = b]
                                       /\ used' = used
    BY <1>5 DEF ElsewhereEdits
  <2>2. presentIds' = presentIds
    <3>1. presentIds' = presentIds \union {i}
      BY <1>1, <2>1, PresentIdsMove, InventoryAssumption
    <3> QED
      BY <2>1, <3>1 DEF presentIds
  <2>3. dropped' = dropped
    BY <1>1, <1>2, <2>1, DroppedMoves, InventoryAssumption
  <2> QED
    BY <1>2, <2>1, <2>2, <2>3 DEF Unmoved, ourIds
<1> QED
  BY <1>3, <1>4, <1>5 DEF OthersMove, Elsewhere

\* At the end of a process Terraform names what was being made.
LEMMA NewProcessSimulates ==
  ASSUME ResourceInv, NewProcess
  PROVE  Contract!Fails(Resources)
<1>1. /\ UNCHANGED <<server, used, stateId, owned, dropped>>
      /\ making' = [r \in Resources |-> NoId]
      /\ reported' = reported \union ({making[r] : r \in Resources} \ {NoId})
  BY DEF NewProcess, stateVars
<1>2. \A i \in Ids : Linked(i)' <=> Linked(i)
  BY <1>1, InventoryAssumption DEF Linked, Tied
<1>3. presentIds' = presentIds /\ presentIds \subseteq Ids
  BY <1>1 DEF presentIds
<1>4. ourIds' = ourIds
  BY <1>2, <1>3, OursAreLinked
<1> QED
  BY <1>1, <1>3, <1>4 DEF Contract!Fails

LEMMA StateContractSimulation ==
  ResourceInv /\ [Next]_allVars => [Contract!Next]_(Contract!contractVars)
<1> SUFFICES ASSUME ResourceInv, [Next]_allVars
             PROVE  [Contract!Next]_(Contract!contractVars)
  OBVIOUS
<1>1. Unmoved => UNCHANGED Contract!contractVars
  BY DEF Unmoved, Contract!contractVars
<1>2. ASSUME NEW r \in Resources, Method(r)
      PROVE  [Contract!Next]_(Contract!contractVars)
  <2>1. CASE \/ CreateStart(r) \/ CreateReadsBack(r)
             \/ ReadStart(r) \/ ReadFallsBack(r) \/ ReadFails(r)
             \/ DeleteStart(r) \/ ImportStart(r)
    BY <1>1, <2>1, CallSimulates
  <2>6. CASE ReadFromFilter(r)
    BY <2>6, FilterReadSimulates DEF Contract!Next
  <2>2. CASE CreateFails(r)
    BY <2>2, CreateFailureSimulates DEF Contract!Next
  <2>3. CASE CreateEnds(r)
    BY <2>3, CreateEndSimulates DEF Contract!Next
  <2>4. CASE ImportEnds(r)
    BY <1>1, <2>4, ImportEndSimulates DEF Contract!Next
  <2>5. CASE ReadFromInventory(r) \/ DeleteEnds(r)
    BY <1>1, <2>5, LeavingSimulates DEF Contract!Next
  <2> QED
    BY <1>2, <2>1, <2>2, <2>3, <2>4, <2>5, <2>6 DEF Method
<1>3. ASSUME NEW r \in Resources, ClientMoves(r)
      PROVE  [Contract!Next]_(Contract!contractVars)
  BY <1>1, <1>3, ClientSimulates DEF Contract!Next
<1>4. CASE OthersMove
  BY <1>1, <1>4, OthersSimulate DEF Contract!Next
<1>5. CASE NewProcess
  BY <1>5, NewProcessSimulates DEF Contract!Next
<1>6. CASE UNCHANGED allVars
  <2>1. Unmoved
    BY <1>6 DEF allVars, inventoryVars, resourceVars, Unmoved, presentIds, ourIds
  <2> QED
    BY <1>1, <2>1
<1> QED
  BY <1>2, <1>3, <1>4, <1>5, <1>6 DEF Next

\* The managed URL resource behaves towards Terraform as StateContract says,
\* through snapshots, incomplete filters, duplicates and ends of processes; a
\* Delete on a 404 of the token endpoint is a step Drops.
THEOREM ManagedURLImplementsStateContract == Spec => ImplementsStateContract
  BY StateContractInitial, StateContractSimulation, ResourceInvHolds, PTL
     DEF Spec, ImplementsStateContract, Contract!Spec
===============================================================================
