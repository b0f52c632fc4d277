------------------------- MODULE ManagedURLResource -------------------------
(***************************************************************************)
(* The mimecast_managed_url resource of                                    *)
(* internal/provider/managed_url_resource.go on top of the client calls of *)
(* ManagedURLInventory: Create, Read, Delete and ImportState of several    *)
(* resource instances at once, the Terraform state they keep, and provider *)
(* processes that end, orderly or not, and start afresh on that state.     *)
(*                                                                         *)
(* The goroutine that works for an instance is an actor of the client.     *)
(***************************************************************************)
EXTENDS ManagedURLInventory

CONSTANT
  Unreadable  \* bodies hydrateManagedURLModel refuses: no URL, a token in it

Resources == Actors

ASSUME UnreadableAssumption == Unreadable \subseteq Bodies

VARIABLES
  step,       \* step[r]: the place in the CRUD method that runs for r
  givenId,    \* givenId[r]: the id of the create or the import under way
  stateId,    \* stateId[r]: the id in the Terraform state, NoId if not in it
  stateBody,  \* stateBody[r]: the other attributes there
  \* history
  making,     \* making[r]: the id the service gave the create under way
  owned,      \* owned[r]: the ids r was given by a create or an import
  reported,   \* ids a create made before it ended with a diagnostic
  dropped,    \* ids there that a Delete forgot on a 404 of the token endpoint
  quiet,      \* no record changed or went since this process began
  confirmed   \* what this process read without a diagnostic while it was quiet

stateVars    == <<stateId, stateBody>>
historyVars  == <<making, owned, reported, dropped, quiet, confirmed>>
resourceVars == <<step, givenId, stateId, stateBody,
                  making, owned, reported, dropped, quiet, confirmed>>
allVars      == <<inventoryVars, resourceVars>>

Step ==
  {"idle", "create", "readback", "filter", "inventory", "delete", "import"}

TypeOK ==
  /\ InventoryTypeOK
  /\ step \in [Resources -> Step]
  /\ givenId \in [Resources -> Ids \union {NoId}]
  /\ stateId \in [Resources -> Ids \union {NoId}]
  /\ stateBody \in [Resources -> (Bodies \ Unreadable) \union {Absent}]
  /\ making \in [Resources -> Ids \union {NoId}]
  /\ owned \in [Resources -> SUBSET Ids]
  /\ reported \in SUBSET Ids
  /\ dropped \in SUBSET Ids
  /\ quiet \in BOOLEAN
  /\ confirmed \in SUBSET Resources
  /\ \A r \in Resources : stateId[r] = NoId <=> stateBody[r] = Absent

Init ==
  /\ InventoryInit
  /\ step = [r \in Resources |-> "idle"]
  /\ givenId = [r \in Resources |-> NoId]
  /\ stateId = [r \in Resources |-> NoId]
  /\ stateBody = [r \in Resources |-> Absent]
  /\ making = [r \in Resources |-> NoId]
  /\ owned = [r \in Resources |-> {}]
  /\ reported = {}
  /\ dropped = {}
  /\ quiet = TRUE
  /\ confirmed = {}

-----------------------------------------------------------------------------

Managed(r) == stateId[r] # NoId

Enter(r, s) == step' = [step EXCEPT ![r] = s]

Returned(r, s) == step[r] = s /\ pc[r] = "return"

\* managedURLByID finds the id in a list, and hydrateManagedURLModel takes it.
FoundById(r, i) == outcome[r] = "ok" /\ got[r][i] # Absent
Hydrates(r, i)  == FoundById(r, i) /\ got[r][i] \notin Unreadable

Confirm(r) == confirmed' = IF quiet THEN confirmed \union {r} ELSE confirmed

\* resp.State.Set with a given id and the item the list has for it.
SetState(r, i) ==
  /\ stateId' = [stateId EXCEPT ![r] = i]
  /\ stateBody' = [stateBody EXCEPT ![r] = got[r][i]]
  /\ owned' = [owned EXCEPT ![r] = @ \union {i}]
  /\ dropped' = dropped \ {i}
  /\ Confirm(r)

\* (bug) The state is kept as it is.
RefreshesNothing(r) ==
  /\ Confirm(r)
  /\ UNCHANGED <<stateVars, dropped>>

\* The read hydrates the model it has: fromAPI keeps the stored id.
Refresh(r) ==
  /\ stateBody' = [stateBody EXCEPT ![r] = got[r][stateId[r]]]
  /\ dropped' = dropped \ {stateId[r]}
  /\ Confirm(r)
  /\ UNCHANGED stateId

\* resp.State.RemoveResource, or a Delete without diagnostics.
Forget(r) ==
  /\ stateId' = [stateId EXCEPT ![r] = NoId]
  /\ stateBody' = [stateBody EXCEPT ![r] = Absent]
  /\ dropped' = IF outcome[r] = "notoken" /\ server[stateId[r]] # Absent
                THEN dropped \union {stateId[r]} ELSE dropped
  /\ confirmed' = confirmed \ {r}

\* The method ends, and what its last call returned is gone with it.
Leave(r) ==
  /\ Enter(r, "idle")
  /\ givenId' = [givenId EXCEPT ![r] = NoId]
  /\ making' = [making EXCEPT ![r] = NoId]
  /\ pc' = [pc EXCEPT ![r] = "idle"]
  /\ op' = [op EXCEPT ![r] = "none"]
  /\ target' = [target EXCEPT ![r] = NoId]
  /\ body' = [body EXCEPT ![r] = Absent]
  /\ outcome' = [outcome EXCEPT ![r] = "none"]
  /\ got' = [got EXCEPT ![r] = Nothing]
  /\ aliases' = [aliases EXCEPT ![r] = {}]
  /\ mustSee' = [mustSee EXCEPT ![r] = {}]
  /\ mustMiss' = [mustMiss EXCEPT ![r] = {}]
  /\ UNCHANGED <<fetchVars, cacheVars, server, used, drift, created, deleted>>

-----------------------------------------------------------------------------
(* Create                                                                  *)

CreateStart(r) ==
  /\ step[r] = "idle" /\ ~Managed(r)
  /\ \E b \in Bodies \ Unreadable : StartCreate(r, b)
  /\ Enter(r, "create")
  /\ UNCHANGED <<givenId, stateVars, historyVars>>

\* An id came back: the whole inventory is read to find it.
CreateReadsBack(r) ==
  /\ Returned(r, "create") /\ outcome[r] = "ok"
  /\ givenId' = [givenId EXCEPT ![r] = target[r]]
  /\ StartList(r)
  /\ Enter(r, "readback")
  /\ UNCHANGED <<stateVars, historyVars>>

\* A diagnostic and no state: the call failed, no id came back, the read-back
\* failed, or it does not have the id or cannot be hydrated.
CreateFails(r) ==
  /\ \/ Returned(r, "create") /\ outcome[r] # "ok"
     \/ Returned(r, "readback") /\ ~Hydrates(r, givenId[r])
  /\ reported' = reported \union ({making[r]} \ {NoId})
  /\ Leave(r)
  /\ UNCHANGED <<stateVars, owned, dropped, quiet, confirmed>>

CreateEnds(r) ==
  /\ Returned(r, "readback") /\ Hydrates(r, givenId[r])
  /\ SetState(r, givenId[r])
  /\ Leave(r)
  /\ UNCHANGED <<reported, quiet>>

-----------------------------------------------------------------------------
(* Read                                                                    *)

ReadStart(r) ==
  /\ step[r] = "idle" /\ Managed(r)
  /\ StartFilter(r, stateBody[r])
  /\ Enter(r, "filter")
  /\ UNCHANGED <<givenId, stateVars, historyVars>>

\* managedURLSemanticMatch: an item that says what the state says, under
\* whatever id; an unreadable item matches nothing.
SemanticMatch(r) ==
  /\ outcome[r] = "ok"
  /\ \/ \E i \in Ids : got[r][i] = stateBody[r]
     \/ stateBody[r] \in aliases[r]

\* (bug) A match takes over the id it was found under.
ReadAdoptsMatch(r) ==
  /\ Returned(r, "filter")
  /\ \/ Hydrates(r, stateId[r]) /\ Refresh(r)
     \/ /\ ~FoundById(r, stateId[r]) /\ outcome[r] = "ok"
        /\ \E i \in Ids :
              /\ got[r][i] = stateBody[r]
              /\ stateId' = [stateId EXCEPT ![r] = i]
        /\ Confirm(r)
        /\ UNCHANGED <<stateBody, dropped>>
  /\ Leave(r)
  /\ UNCHANGED <<owned, reported, quiet>>

\* Found by id or by what it says.  A match leaves the stored id alone.
ReadFromFilter(r) ==
  /\ Returned(r, "filter")
  /\ \/ Hydrates(r, stateId[r]) /\ Refresh(r)
     \/ /\ ~FoundById(r, stateId[r]) /\ SemanticMatch(r)
        /\ Confirm(r)
        /\ UNCHANGED <<stateVars, dropped>>
  /\ Leave(r)
  /\ UNCHANGED <<owned, reported, quiet>>

\* (bug) A filtered answer without the record counts as its absence.
ReadTrustsFilter(r) ==
  /\ Returned(r, "filter") /\ outcome[r] = "ok"
  /\ ~FoundById(r, stateId[r]) /\ ~SemanticMatch(r)
  /\ Forget(r)
  /\ Leave(r)
  /\ UNCHANGED <<owned, reported, quiet>>

\* "Filtering is only an optimisation": a failure or a miss falls through to
\* the full inventory.
ReadFallsBack(r) ==
  /\ Returned(r, "filter")
  /\ ~FoundById(r, stateId[r]) /\ ~SemanticMatch(r)
  /\ StartList(r)
  /\ Enter(r, "inventory")
  /\ UNCHANGED <<givenId, stateVars, historyVars>>

ReadFromInventory(r) ==
  /\ Returned(r, "inventory") /\ outcome[r] = "ok"
  /\ \/ Hydrates(r, stateId[r]) /\ Refresh(r)
     \/ ~FoundById(r, stateId[r]) /\ Forget(r)
  /\ Leave(r)
  /\ UNCHANGED <<owned, reported, quiet>>

\* A diagnostic, and the state stays: the inventory cannot be read, or the
\* item cannot be hydrated.
ReadFails(r) ==
  /\ \/ Returned(r, "inventory") /\ outcome[r] # "ok"
     \/ /\ Returned(r, "filter") \/ Returned(r, "inventory")
        /\ FoundById(r, stateId[r]) /\ ~Hydrates(r, stateId[r])
  /\ Leave(r)
  /\ UNCHANGED <<stateVars, owned, reported, dropped, quiet, confirmed>>

-----------------------------------------------------------------------------
(* Delete and ImportState                                                  *)

DeleteStart(r) ==
  /\ step[r] = "idle" /\ Managed(r)
  /\ StartDelete(r, stateId[r])
  /\ Enter(r, "delete")
  /\ UNCHANGED <<givenId, stateVars, historyVars>>

\* (bug) A failed delete drops the resource as well.
DeleteAlwaysForgets(r) ==
  /\ Returned(r, "delete")
  /\ Forget(r)
  /\ Leave(r)
  /\ UNCHANGED <<owned, reported, quiet>>

\* A 404, whatever it is about, is as good as a success.
DeleteEnds(r) ==
  /\ Returned(r, "delete")
  /\ \/ outcome[r] \in {"ok", "missing", "notoken"} /\ Forget(r)
     \/ outcome[r] = "error" /\ UNCHANGED <<stateVars, dropped, confirmed>>
  /\ Leave(r)
  /\ UNCHANGED <<owned, reported, quiet>>

ImportStart(r) ==
  /\ step[r] = "idle" /\ ~Managed(r)
  /\ \E i \in Ids : givenId' = [givenId EXCEPT ![r] = i]
  /\ StartList(r)
  /\ Enter(r, "import")
  /\ UNCHANGED <<stateVars, historyVars>>

ImportEnds(r) ==
  /\ Returned(r, "import")
  /\ \/ Hydrates(r, givenId[r]) /\ SetState(r, givenId[r])
     \/ ~Hydrates(r, givenId[r]) /\ UNCHANGED <<stateVars, owned, dropped, confirmed>>
  /\ Leave(r)
  /\ UNCHANGED <<reported, quiet>>

-----------------------------------------------------------------------------
(* The client's steps, the outside world, and the process                  *)

\* What happens to the records, as the histories note it.
Observe ==
  /\ quiet' = (quiet /\ \A i \in used : server'[i] = server[i])
  /\ confirmed' = IF quiet' THEN confirmed ELSE {}
  /\ dropped' = {i \in dropped : server'[i] # Absent}

\* The id the service gives is noted.
ClientMoves(r) ==
  /\ ClientStep(r) \/ FilterAnswers(r)
  /\ making' = IF pc[r] = "posting" /\ pc'[r] = "posted"
               THEN [making EXCEPT ![r] = target'[r]] ELSE making
  /\ Observe
  /\ UNCHANGED <<step, givenId, stateVars, owned, reported>>

OthersMove ==
  /\ Elsewhere
  /\ Observe
  /\ UNCHANGED <<step, givenId, stateVars, making, owned, reported>>

\* The process ends, in the middle of anything, and a later command starts
\* another: the state is kept, the client is new, and Terraform has reported
\* the methods that were cut off.  A request still on its way acts as
\* ElsewhereCreates or ElsewhereDeletes.
NewProcess ==
  /\ pc' = [a \in Actors |-> "idle"]
  /\ op' = [a \in Actors |-> "none"]
  /\ target' = [a \in Actors |-> NoId]
  /\ body' = [a \in Actors |-> Absent]
  /\ outcome' = [a \in Actors |-> "none"]
  /\ got' = [a \in Actors |-> Nothing]
  /\ aliases' = [a \in Actors |-> {}]
  /\ scanned' = [a \in Actors |-> {}]
  /\ found' = [a \in Actors |-> Nothing]
  /\ inventory' = Nothing
  /\ valid' = FALSE
  /\ mu' = NoActor
  /\ drift' = {}
  /\ created' = {}
  /\ deleted' = {}
  /\ mustSee' = [a \in Actors |-> {}]
  /\ mustMiss' = [a \in Actors |-> {}]
  /\ step' = [r \in Resources |-> "idle"]
  /\ givenId' = [r \in Resources |-> NoId]
  /\ making' = [r \in Resources |-> NoId]
  /\ reported' = reported \union ({making[r] : r \in Resources} \ {NoId})
  /\ quiet' = TRUE
  /\ confirmed' = {}
  /\ UNCHANGED <<server, used, stateVars, owned, dropped>>

Method(r) ==
  \/ CreateStart(r) \/ CreateReadsBack(r) \/ CreateFails(r) \/ CreateEnds(r)
  \/ ReadStart(r) \/ ReadFromFilter(r) \/ ReadFallsBack(r)
  \/ ReadFromInventory(r) \/ ReadFails(r)
  \/ DeleteStart(r) \/ DeleteEnds(r)
  \/ ImportStart(r) \/ ImportEnds(r)

Next ==
  \/ \E r \in Resources : Method(r) \/ ClientMoves(r)
  \/ OthersMove
  \/ NewProcess

Spec == Init /\ [][Next]_allVars

-----------------------------------------------------------------------------
(* Properties                                                              *)

\* Nothing the provider made on the service is lost track of without a word:
\* it is in the state of some resource, its create is still under way, or the
\* create ended with a diagnostic (or with the process).  One case is silent:
\* a Delete that the token endpoint answered 404 (managed_url_resource.go:153).
NoSilentOrphan ==
  \A i \in Ids :
     /\ server[i] # Absent
     /\ \E r \in Resources : i \in owned[r] \/ i = making[r]
     => \/ \E r \in Resources : stateId[r] = i \/ making[r] = i
        \/ i \in reported \union dropped

\* A resource leaves the state only when its managed URL is gone from the
\* service: a Read "confirms drift or deletion against one process-scoped
\* unfiltered inventory snapshot" (README.md:126), however stale that
\* snapshot is and whatever the filter leaves out, and a Delete that removes
\* it has seen it go.  Only a Delete that the token endpoint answered 404
\* leaves a state while the managed URL lives.
LeavesOnlyWhenGone ==
  [][\A r \in Resources :
        Managed(r) /\ stateId'[r] = NoId =>
           \/ server[stateId[r]] = Absent
           \/ step[r] = "delete" /\ outcome[r] = "notoken"]_allVars

\* The methods, towards Terraform, behave as StateContract says.  Ids are not
\* given twice.
presentIds == {i \in Ids : server[i] # Absent}
ourIds ==
  {i \in presentIds :
     i \in reported \/ \E r \in Resources : i \in owned[r] \/ i = making[r]}

Contract ==
  INSTANCE StateContract WITH
    Instances <- Resources, Names <- Ids, None <- NoId,
    renewable <- FALSE, present <- presentIds, given <- used,
    kept <- stateId, pending <- making, ours <- ourIds, told <- reported,
    misled <- dropped

ImplementsStateContract == Contract!Spec

\* A resource deletes only what it created or imported: "The provider retains
\* the ID returned by create or used for import" although a Read may be
\* answered with another record that says the same (README.md:126).
DeletesOnlyItsOwn ==
  \A r \in Resources :
     pc[r] \in {"deleting", "deleted"} => target[r] \in owned[r]

\* While nothing changes on the service but by creates, what this process has
\* read is true: the record is there as the state says, or it is gone or
\* changed and another record says the same ("Fully identical duplicate
\* records are indistinguishable", README.md:130).
DriftDetected ==
  quiet => \A r \in confirmed : \E i \in Ids : server[i] = stateBody[r]

-----------------------------------------------------------------------------
(* The inductive invariant behind the properties                           *)

\* Nobody knows an id the service has not given.
UsedInv ==
  \A i \in Ids \ used :
    /\ server[i] = Absent /\ inventory[i] = Absent /\ i \notin reported
    /\ \A r \in Resources :
         /\ found[r][i] = Absent /\ got[r][i] = Absent
         /\ stateId[r] # i /\ making[r] # i /\ i \notin owned[r]

\* The client call of each step, and what it is about.
StepOf(r) ==
  /\ step[r] = "idle" => pc[r] = "idle"
  /\ step[r] = "create" =>
       op[r] = "create" /\ pc[r] \in {"posting", "posted", "invalidate", "return"}
  /\ step[r] \in {"readback", "inventory", "import"} =>
       op[r] = "list" /\ pc[r] \in {"list", "fetch", "return"}
  /\ step[r] = "import" => givenId[r] # NoId
  /\ step[r] = "filter" => op[r] = "filter" /\ pc[r] \in {"filter", "return"}
  /\ step[r] = "delete" =>
       /\ op[r] = "delete" /\ pc[r] \in {"deleting", "deleted", "invalidate", "return"}
       /\ target[r] = stateId[r]
  /\ step[r] \in {"create", "readback", "import"} => stateId[r] = NoId
  /\ step[r] \in {"filter", "inventory", "delete"} => stateId[r] # NoId

HasMade(r) ==
  pc[r] \in {"posted", "invalidate"} \/ (pc[r] = "return" /\ outcome[r] = "ok")

HasDeleted(r) ==
  \/ pc[r] = "deleted"
  \/ pc[r] \in {"invalidate", "return"} /\ outcome[r] \in {"ok", "missing"}

\* The id the service gave is the one the create returns and reads back.
MakingOf(r) ==
  /\ step[r] \notin {"create", "readback"} => making[r] = NoId
  /\ step[r] = "create" /\ pc[r] = "posting" => making[r] = NoId
  /\ step[r] = "create" /\ HasMade(r) => making[r] = target[r] /\ target[r] # NoId
  /\ step[r] = "readback" => givenId[r] = making[r] /\ making[r] # NoId

OwnOf(r) == stateId[r] # NoId => stateId[r] \in owned[r]

\* A delete the service has answered has removed the managed URL for good.
GoneOf(r) ==
  step[r] = "delete" /\ HasDeleted(r) => server[stateId[r]] = Absent

\* No snapshot, stored or half fetched, lacks i while the service has it.
Listed(i) ==
  server[i] # Absent =>
    /\ valid => inventory[i] # Absent
    /\ \A a \in Actors : pc[a] = "fetch" /\ i \in scanned[a] => found[a][i] # Absent

\* Whatever a list has shown once, later snapshots show as well.
ListedOf(r) ==
  /\ stateId[r] # NoId => Listed(stateId[r])
  /\ op[r] = "list" /\ pc[r] = "return" /\ outcome[r] = "ok" =>
       \A i \in Ids : got[r][i] # Absent => Listed(i)
  /\ /\ step[r] = "inventory" /\ pc[r] = "return" /\ outcome[r] = "ok"
     /\ server[stateId[r]] # Absent
     => got[r][stateId[r]] # Absent

CallsInv ==
  \A r \in Resources :
    StepOf(r) /\ MakingOf(r) /\ OwnOf(r) /\ GoneOf(r) /\ ListedOf(r)

\* While the service is quiet, whatever anybody has been shown is still so.
ShownInv ==
  quiet =>
    /\ \A i \in Ids : inventory[i] \in {Absent, server[i]}
    /\ \A r \in Resources, i \in Ids :
         found[r][i] \in {Absent, server[i]} /\ got[r][i] \in {Absent, server[i]}
    /\ \A r \in Resources : \A b \in aliases[r] : \E i \in Ids : server[i] = b

ConfirmedInv == \A r \in confirmed : stateId[r] # NoId

DroppedInv == \A i \in dropped : server[i] # Absent

ResourceInv ==
  /\ TypeOK /\ InventoryInv /\ UsedInv /\ CallsInv
  /\ ShownInv /\ ConfirmedInv /\ DroppedInv /\ DriftDetected /\ NoSilentOrphan
==============================================================================
