------------------------- MODULE ManagedURLInventory -------------------------
(***************************************************************************)
(* The managed URL operations of internal/client/resources.go: the create  *)
(* and delete calls, and the unfiltered inventory snapshot one Client      *)
(* keeps for all resources, guarded by managedURLInventoryMu.              *)
(*                                                                         *)
(* The actors are the goroutines Terraform runs provider operations in.    *)
(* Each request is a call of RequestLoop, seen as CallContract promises    *)
(* it: a success took effect, a failure may or may not have.  A list is    *)
(* fetched page by page, and the service changes between pages.  A 404 is  *)
(* that of the service, for an id it does not have, or that of the token   *)
(* endpoint, for any.                                                      *)
(***************************************************************************)
EXTENDS Naturals, FiniteSets

CONSTANTS
  Actors,   \* the goroutines
  Ids,      \* the ids the service may give a managed URL; none is given twice
  Bodies,   \* what a managed URL may say (its URL, action, comment, ...)
  UrlOf,    \* UrlOf[b]: the URL of body b
  Absent,   \* no managed URL under this id
  NoId,
  NoActor

ASSUME InventoryAssumption ==
  /\ IsFiniteSet(Ids) /\ NoId \notin Ids
  /\ Absent \notin Bodies
  /\ NoActor \notin Actors

VARIABLES
  pc,        \* pc[a]: where a's client call is
  op,        \* op[a]: the client method a called last
  target,    \* target[a]: the id created or deleted, NoId when unknown
  body,      \* body[a]: the body to create, or to take the URL filter from
  outcome,   \* outcome[a]: how the last call of a ended
  got,       \* got[a]: the list a's last list call returned
  aliases,   \* aliases[a]: the bodies it showed under ids nobody knows
  scanned,   \* scanned[a]: the ids the pages fetched so far have gone past
  found,     \* found[a]: the items on those pages
  inventory, \* Client.managedURLInventory
  valid,     \* Client.managedURLInventoryValid
  mu,        \* the actor holding managedURLInventoryMu, or NoActor
  server,    \* server[i]: the managed URL under id i, on the service
  used,      \* the ids the service has given so far
  \* history
  drift,     \* ids changed unacknowledged since the last fetch began
  created,   \* ids whose create was acknowledged, no removal begun since
  deleted,   \* ids whose delete the service acknowledged
  mustSee,   \* mustSee[a]: what was in created throughout a's list call
  mustMiss   \* mustMiss[a]: what was in deleted when a's list call began

callVars  == <<pc, op, target, body, outcome, got, aliases>>
fetchVars == <<scanned, found>>
cacheVars == <<inventory, valid, mu>>
ackVars   == <<created, deleted, mustSee, mustMiss>>
inventoryVars == <<pc, op, target, body, outcome, got, aliases, scanned,
                   found, inventory, valid, mu, server, used, drift,
                   created, deleted, mustSee, mustMiss>>

Listing == [Ids -> Bodies \union {Absent}]
Nothing == [i \in Ids |-> Absent]

PC == {"idle", "posting", "posted", "deleting", "deleted", "invalidate",
       "list", "fetch", "filter", "return"}

InventoryTypeOK ==
  /\ pc \in [Actors -> PC]
  /\ op \in [Actors -> {"none", "create", "delete", "list", "filter"}]
  /\ target \in [Actors -> Ids \union {NoId}]
  /\ body \in [Actors -> Bodies \union {Absent}]
  /\ outcome \in [Actors -> {"none", "ok", "noid", "missing", "notoken", "error"}]
  /\ got \in [Actors -> Listing]
  /\ aliases \in [Actors -> SUBSET Bodies]
  /\ scanned \in [Actors -> SUBSET Ids]
  /\ found \in [Actors -> Listing]
  /\ inventory \in Listing
  /\ valid \in BOOLEAN
  /\ mu \in Actors \union {NoActor}
  /\ server \in Listing
  /\ used \in SUBSET Ids
  /\ drift \in SUBSET Ids
  /\ created \in SUBSET Ids
  /\ deleted \in SUBSET Ids
  /\ mustSee \in [Actors -> SUBSET Ids]
  /\ mustMiss \in [Actors -> SUBSET Ids]

\* A fresh client, in front of a service that already has some managed URLs.
InventoryInit ==
  /\ pc = [a \in Actors |-> "idle"]
  /\ op = [a \in Actors |-> "none"]
  /\ target = [a \in Actors |-> NoId]
  /\ body = [a \in Actors |-> Absent]
  /\ outcome = [a \in Actors |-> "none"]
  /\ got = [a \in Actors |-> Nothing]
  /\ aliases = [a \in Actors |-> {}]
  /\ scanned = [a \in Actors |-> {}]
  /\ found = [a \in Actors |-> Nothing]
  /\ inventory = Nothing
  /\ valid = FALSE
  /\ mu = NoActor
  /\ server \in Listing
  /\ used = {i \in Ids : server[i] # Absent}
  /\ drift = {}
  /\ created = {}
  /\ deleted = {}
  /\ mustSee = [a \in Actors |-> {}]
  /\ mustMiss = [a \in Actors |-> {}]

Ready(a) == pc[a] \in {"idle", "return"}

\* The managed URLs whose removal begins are no longer promised to any list.
Unpromise(i) ==
  /\ created' = created \ {i}
  /\ mustSee' = [a \in Actors |-> mustSee[a] \ {i}]

\* What a caller gets from its last call is gone when it makes the next.
Begin(a, where, method, i, b) ==
  /\ Ready(a)
  /\ pc' = [pc EXCEPT ![a] = where]
  /\ op' = [op EXCEPT ![a] = method]
  /\ target' = [target EXCEPT ![a] = i]
  /\ body' = [body EXCEPT ![a] = b]
  /\ outcome' = [outcome EXCEPT ![a] = "none"]
  /\ got' = [got EXCEPT ![a] = Nothing]
  /\ aliases' = [aliases EXCEPT ![a] = {}]

BeingRemoved(i) ==
  \/ server[i] = Absent
  \/ \E a \in Actors : pc[a] = "deleting" /\ target[a] = i

Finish(a, result) ==
  /\ pc' = [pc EXCEPT ![a] = "return"]
  /\ outcome' = [outcome EXCEPT ![a] = result]

-----------------------------------------------------------------------------
(* CreateManagedURL                                                        *)

StartCreate(a, b) ==
  /\ Begin(a, "posting", "create", NoId, b)
  /\ UNCHANGED <<fetchVars, cacheVars, server, used, drift, ackVars>>

ServiceCreates(a) ==
  /\ pc[a] = "posting"
  /\ \E i \in Ids \ used :
        /\ server' = [server EXCEPT ![i] = body[a]]
        /\ used' = used \union {i}
        /\ target' = [target EXCEPT ![a] = i]
  /\ pc' = [pc EXCEPT ![a] = "posted"]
  /\ UNCHANGED <<op, body, outcome, got, aliases, fetchVars, cacheVars, drift,
                 ackVars>>

\* Do fails and the service has not acted: read-only mode, a rejection, or a
\* request still on its way (its late effect is ElsewhereCreates).
RequestFails(a) ==
  /\ pc[a] \in {"posting", "deleting"}
  /\ Finish(a, "error")
  /\ UNCHANGED <<op, target, body, got, aliases, fetchVars, cacheVars, server,
                 used, drift, ackVars>>

\* Do fails although the service acted: CreateManagedURL and DeleteManagedURL
\* return without touching the snapshot.
AnswerLost(a) ==
  /\ pc[a] \in {"posted", "deleted"}
  /\ drift' = drift \union {target[a]}
  /\ target' = [target EXCEPT ![a] = IF op[a] = "create" THEN NoId ELSE @]
  /\ Finish(a, "error")
  /\ UNCHANGED <<op, body, got, aliases, fetchVars, cacheVars, server, used,
                 ackVars>>

\* (bug) The snapshot is not invalidated.
AcknowledgesOnly(a) ==
  /\ pc[a] \in {"posted", "deleted"}
  /\ Finish(a, IF op[a] = "create" THEN "ok" ELSE outcome[a])
  /\ UNCHANGED <<op, target, body, got, aliases, fetchVars, cacheVars, server,
                 used, drift, ackVars>>

\* Do succeeds, or the service answers a delete 404.
AnswerArrives(a) ==
  /\ pc[a] \in {"posted", "deleted"}
  /\ pc' = [pc EXCEPT ![a] = "invalidate"]
  /\ UNCHANGED <<op, target, body, outcome, got, aliases, fetchVars, cacheVars,
                 server, used, drift, ackVars>>

\* (bug) A delete answered 404 leaves the snapshot alone.
InvalidatesUnlessMissing(a) ==
  /\ pc[a] = "invalidate" /\ mu = NoActor
  /\ IF outcome[a] = "missing" THEN UNCHANGED <<inventory, valid>>
                               ELSE inventory' = Nothing /\ valid' = FALSE
  /\ Finish(a, IF op[a] = "create" THEN "ok" ELSE outcome[a])
  /\ created' = IF op[a] = "delete" \/ BeingRemoved(target[a])
                THEN created ELSE created \union {target[a]}
  /\ deleted' = IF op[a] = "delete" THEN deleted \union {target[a]}
                                    ELSE deleted
  /\ UNCHANGED <<op, target, body, got, aliases, fetchVars, mu, server, used,
                 drift, mustSee, mustMiss>>

\* invalidateManagedURLInventory, once the mutex is free; then the call
\* returns.  A create answered without data returns no id and no error.
Invalidate(a) ==
  /\ pc[a] = "invalidate" /\ mu = NoActor
  /\ inventory' = Nothing
  /\ valid' = FALSE
  /\ \/ /\ op[a] = "create"
        /\ \E result \in {"ok", "noid"} : Finish(a, result)
        /\ created' = IF BeingRemoved(target[a])
                      THEN created ELSE created \union {target[a]}
        /\ UNCHANGED deleted
     \/ /\ op[a] = "delete"
        /\ Finish(a, outcome[a])
        /\ deleted' = IF outcome[a] = "notoken"
                      THEN deleted ELSE deleted \union {target[a]}
        /\ UNCHANGED created
  /\ UNCHANGED <<op, target, body, got, aliases, fetchVars, mu, server, used,
                 drift, mustSee, mustMiss>>

-----------------------------------------------------------------------------
(* DeleteManagedURL                                                        *)

StartDelete(a, i) ==
  /\ Begin(a, "deleting", "delete", i, Absent)
  /\ Unpromise(i)
  /\ UNCHANGED <<fetchVars, cacheVars, server, used, drift, deleted, mustMiss>>

ServiceDeletes(a) ==
  /\ pc[a] = "deleting"
  /\ server' = [server EXCEPT ![target[a]] = Absent]
  /\ outcome' = [outcome EXCEPT ![a] =
                   IF server[target[a]] = Absent THEN "missing" ELSE "ok"]
  /\ pc' = [pc EXCEPT ![a] = "deleted"]
  /\ UNCHANGED <<op, target, body, got, aliases, fetchVars, cacheVars, used,
                 drift, ackVars>>

\* The token endpoint answers 404, so nothing was sent.  IsNotFound cannot
\* tell: the snapshot is invalidated and the caller gets the 404.
TokenMisses(a) ==
  /\ pc[a] = "deleting"
  /\ outcome' = [outcome EXCEPT ![a] = "notoken"]
  /\ pc' = [pc EXCEPT ![a] = "invalidate"]
  /\ UNCHANGED <<op, target, body, got, aliases, fetchVars, cacheVars, server,
                 used, drift, ackVars>>

-----------------------------------------------------------------------------
(* ListManagedURLs                                                         *)

StartList(a) ==
  /\ Begin(a, "list", "list", NoId, Absent)
  /\ mustSee' = [mustSee EXCEPT ![a] = created]
  /\ mustMiss' = [mustMiss EXCEPT ![a] = deleted]
  /\ UNCHANGED <<fetchVars, cacheVars, server, used, drift, created, deleted>>

ListFromSnapshot(a) ==
  /\ pc[a] = "list" /\ mu = NoActor /\ valid
  /\ got' = [got EXCEPT ![a] = inventory]
  /\ Finish(a, "ok")
  /\ UNCHANGED <<op, target, body, aliases, fetchVars, cacheVars, server, used,
                 drift, ackVars>>

\* (bug) The mutex is let go while the pages are fetched.
FetchesUnlocked(a) ==
  /\ pc[a] = "list" /\ mu = NoActor /\ ~valid
  /\ pc' = [pc EXCEPT ![a] = "fetch"]
  /\ drift' = {}
  /\ UNCHANGED <<op, target, body, outcome, got, aliases, fetchVars, cacheVars,
                 server, used, ackVars>>

\* No snapshot: the mutex is kept until the last page is in.
ListFetches(a) ==
  /\ pc[a] = "list" /\ mu = NoActor /\ ~valid
  /\ mu' = a
  /\ pc' = [pc EXCEPT ![a] = "fetch"]
  /\ drift' = {}
  /\ UNCHANGED <<op, target, body, outcome, got, aliases, fetchVars, inventory,
                 valid, server, used, ackVars>>

\* The items a page that goes past the ids in P adds to what was found.
Seen(a, P) ==
  [i \in Ids |-> IF i \in P THEN server[i] ELSE found[a][i]]

ForgetPages(a) ==
  /\ scanned' = [scanned EXCEPT ![a] = {}]
  /\ found' = [found EXCEPT ![a] = Nothing]

\* One page, with a token for the next one.
FetchPage(a) ==
  /\ pc[a] = "fetch"
  /\ \E P \in (SUBSET (Ids \ scanned[a])) \ {{}} :
        /\ scanned[a] \union P # Ids
        /\ scanned' = [scanned EXCEPT ![a] = @ \union P]
        /\ found' = [found EXCEPT ![a] = Seen(a, P)]
  /\ UNCHANGED <<callVars, cacheVars, server, used, drift, ackVars>>

\* The last page: the snapshot is stored and the mutex released.
FetchLastPage(a) ==
  /\ pc[a] = "fetch"
  /\ LET listing == Seen(a, Ids \ scanned[a]) IN
        /\ inventory' = listing
        /\ got' = [got EXCEPT ![a] = listing]
  /\ valid' = TRUE
  /\ mu' = NoActor
  /\ ForgetPages(a)
  /\ Finish(a, "ok")
  /\ UNCHANGED <<op, target, body, aliases, server, used, drift, ackVars>>

\* (bug) The error path does not unlock.
FetchFailsLocked(a) ==
  /\ pc[a] = "fetch"
  /\ ForgetPages(a)
  /\ Finish(a, "error")
  /\ UNCHANGED <<op, target, body, got, aliases, cacheVars, server, used, drift,
                 ackVars>>

\* DoRead fails, or a page token comes twice: nothing is stored.
FetchFails(a) ==
  /\ pc[a] = "fetch"
  /\ mu' = NoActor
  /\ ForgetPages(a)
  /\ Finish(a, "error")
  /\ UNCHANGED <<op, target, body, got, aliases, inventory, valid, server, used,
                 drift, ackVars>>

\* The filtered list takes neither the mutex nor the snapshot.
StartFilter(a, b) ==
  /\ Begin(a, "filter", "filter", NoId, b)
  /\ UNCHANGED <<fetchVars, cacheVars, server, used, drift, ackVars>>

\* What the service filters for: the managed URLs with b's URL.
Matching(b) ==
  {i \in Ids : server[i] # Absent /\ UrlOf[server[i]] = UrlOf[b]}

\* The answer may leave out a record that matches, or show it under another
\* opaque id; the records with one URL fit one page.
FilterAnswers(a) ==
  /\ pc[a] = "filter"
  /\ \/ \E shown, renamed \in SUBSET Matching(body[a]) :
           /\ shown \intersect renamed = {}
           /\ got' = [got EXCEPT ![a] = [i \in Ids |->
                        IF i \in shown THEN server[i] ELSE Absent]]
           /\ aliases' = [aliases EXCEPT ![a] = {server[i] : i \in renamed}]
           /\ Finish(a, "ok")
     \/ Finish(a, "error") /\ UNCHANGED <<got, aliases>>
  /\ UNCHANGED <<op, target, body, fetchVars, cacheVars, server, used, drift,
                 ackVars>>

-----------------------------------------------------------------------------
(* Other clients of the service, and requests that act after their answer  *)
(* was given up.                                                           *)

ElsewhereCreates ==
  /\ \E i \in Ids \ used, b \in Bodies :
        /\ server' = [server EXCEPT ![i] = b]
        /\ used' = used \union {i}
        /\ drift' = drift \union {i}
  /\ UNCHANGED <<callVars, fetchVars, cacheVars, ackVars>>

ElsewhereDeletes ==
  /\ \E i \in Ids :
        /\ server[i] # Absent
        /\ server' = [server EXCEPT ![i] = Absent]
        /\ drift' = drift \union {i}
        /\ Unpromise(i)
  /\ UNCHANGED <<callVars, fetchVars, cacheVars, used, deleted, mustMiss>>

ElsewhereEdits ==
  /\ \E i \in Ids, b \in Bodies :
        /\ server[i] \notin {Absent, b}
        /\ server' = [server EXCEPT ![i] = b]
        /\ drift' = drift \union {i}
  /\ UNCHANGED <<callVars, fetchVars, cacheVars, used, ackVars>>

-----------------------------------------------------------------------------

\* A step of the call a is in, as far as the snapshot is concerned.
ClientStep(a) ==
  \/ ServiceCreates(a) \/ ServiceDeletes(a) \/ TokenMisses(a)
  \/ RequestFails(a) \/ AnswerLost(a) \/ AnswerArrives(a) \/ Invalidate(a)
  \/ ListFromSnapshot(a) \/ ListFetches(a)
  \/ FetchPage(a) \/ FetchLastPage(a) \/ FetchFails(a)

Elsewhere == ElsewhereCreates \/ ElsewhereDeletes \/ ElsewhereEdits

\* The calls the snapshot matters to; ManagedURLResource filters as well.
StartCall(a) ==
  \/ \E b \in Bodies : StartCreate(a, b)
  \/ \E i \in used : StartDelete(a, i)
  \/ StartList(a)

InventoryNext ==
  \/ \E a \in Actors : StartCall(a) \/ ClientStep(a)
  \/ Elsewhere

InventorySpec == InventoryInit /\ [][InventoryNext]_inventoryVars

\* Every request ends (RequestLoop's CallsReturn), so the actor inside a call
\* goes on.  Its step can be disabled again and again only where it waits for
\* managedURLInventoryMu: Go's mutex serves waiters in turn once one has
\* waited for a millisecond, hence strong fairness.
InventoryFairness == \A a \in Actors : SF_inventoryVars(ClientStep(a))

-----------------------------------------------------------------------------
(* Properties                                                              *)

\* The change of i has reached the service and its caller has not yet
\* invalidated the snapshot.
BeingAcknowledged(i) ==
  \E a \in Actors :
     target[a] = i /\ pc[a] \in {"posted", "deleted", "invalidate"}

\* A valid snapshot differs from the service only where the service changed
\* behind the client's back, or where the goroutine that made the change is
\* about to invalidate: one fetched while a create or delete was under way
\* does not outlive it ("Successful mutations invalidate the snapshot").
SnapshotCurrent ==
  valid => \A i \in Ids :
     inventory[i] = server[i] \/ i \in drift \/ BeingAcknowledged(i)

\* A list reflects every create and delete that returned before the list was
\* asked for, whichever goroutine made it and whichever fetched the snapshot.
ListsReflectAcknowledged ==
  \A a \in Actors :
     pc[a] = "return" /\ op[a] = "list" /\ outcome[a] = "ok" =>
        /\ \A i \in mustSee[a] : got[a][i] # Absent
        /\ \A i \in mustMiss[a] : got[a][i] = Absent

\* Every call returns: neither a failed fetch nor a lost answer leaves
\* managedURLInventoryMu locked, and no list starves an invalidation.
InventoryCallsReturn == \A a \in Actors : pc[a] # "idle" ~> pc[a] = "return"

-----------------------------------------------------------------------------
(* The inductive invariant behind the properties                           *)

\* managedURLInventoryMu is held exactly while the pages are fetched.
MuInv == \A a \in Actors : mu = a <=> pc[a] = "fetch"

\* What a call knows at each of its places.
CallOf(a) ==
  /\ pc[a] = "posting" => op[a] = "create" /\ body[a] \in Bodies
  /\ pc[a] = "posted" => op[a] = "create"
  /\ pc[a] \in {"deleting", "deleted"} => op[a] = "delete"
  /\ pc[a] = "invalidate" => op[a] \in {"create", "delete"}
  /\ pc[a] = "filter" => op[a] = "filter"
  /\ pc[a] \in {"posted", "deleting", "deleted", "invalidate"} =>
        target[a] \in used
  /\ pc[a] = "deleted" => server[target[a]] = Absent
  /\ pc[a] = "invalidate" /\ op[a] = "delete" /\ outcome[a] # "notoken" =>
        server[target[a]] = Absent
  /\ pc[a] # "fetch" => scanned[a] = {}

CallInv == \A a \in Actors : CallOf(a)

\* The pages fetched so far are as current as a snapshot has to be.
PagesCurrent ==
  \A a \in Actors : pc[a] = "fetch" =>
     \A i \in scanned[a] :
        found[a][i] = server[i] \/ i \in drift \/ BeingAcknowledged(i)

\* No listing that is stored, or half fetched, has lost an acknowledged
\* create or kept an acknowledged delete.
CreatedInv ==
  \A i \in created :
     /\ ~BeingRemoved(i)
     /\ valid => inventory[i] # Absent
     /\ \A a \in Actors :
           pc[a] = "fetch" /\ i \in scanned[a] => found[a][i] # Absent

DeletedInv ==
  \A i \in deleted :
     /\ i \in used /\ server[i] = Absent
     /\ valid => inventory[i] = Absent
     /\ \A a \in Actors :
           pc[a] = "fetch" /\ i \in scanned[a] => found[a][i] = Absent

PromiseInv ==
  \A a \in Actors :
     mustSee[a] \subseteq created /\ mustMiss[a] \subseteq deleted

\* Each step keeps the conjunction; SnapshotCurrent alone is not kept,
\* because it says nothing of the pages a fetch has already taken in.
InventoryInv ==
  /\ InventoryTypeOK
  /\ MuInv
  /\ CallInv
  /\ PagesCurrent
  /\ SnapshotCurrent
  /\ CreatedInv
  /\ DeletedInv
  /\ PromiseInv
  /\ ListsReflectAcknowledged
==============================================================================
