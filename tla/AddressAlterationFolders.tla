---------------------- MODULE AddressAlterationFolders ----------------------
(***************************************************************************)
(* mimecast_address_alteration_definition (internal/provider/              *)
(* legacy_resources.go) and the inventory it is read back from             *)
(* (internal/client/legacy_resources.go).  The service cannot be asked for *)
(* a definition by id: the client reads the definitions it gets by         *)
(* routing, walks the tree of address alteration sets (folders) from the   *)
(* root, and reads the definitions of every set.  Meanwhile other          *)
(* administrators move, add and remove sets.                               *)
(***************************************************************************)
EXTENDS Naturals, FiniteSets

CONSTANTS
  Folders,      \* the ids of sets
  Definitions,  \* the ids of definitions; the service gives none twice
  Root,         \* the top of the tree, and folder_id of what is directly there
  Gone,         \* the parent of a set that does not exist
  NoDefinition,
  MaxMoves      \* bounds the changes other administrators make to the tree

ASSUME FoldersAssumption ==
  /\ IsFiniteSet(Folders)
  /\ Root # Gone /\ {Root, Gone} \intersect Folders = {}
  /\ NoDefinition \notin Definitions
  /\ MaxMoves \in Nat

VARIABLES
  parent,     \* parent[f]: the set that contains set f
  home,       \* home[d]: the set definition d was created in, for good
  live,       \* the definitions there are
  used,       \* the ids the service has given
  routed,     \* what a read by routing shows: what is at the root, or all
  moves,      \* changes of other administrators so far
  stored,     \* the resource in the Terraform state
  folder,     \* its folder_id there, Root when null
  model,      \* folder_id in the plan or state the running method fills in
  wanted,     \* the definition that method looks for
  step,       \* the request the running method waits for
  pending,    \* sets whose children are still to be read
  queued,     \* sets that ever were pending in this walk
  sets,       \* sets seen in this walk (byID)
  todo,       \* those of them whose definitions are still to be read
  listed,     \* listed[d]: the folder_id under which d was seen, Gone if not
  outcome,    \* how the last method ended
  \* history
  asked,      \* sets whose children this walk has read
  disturbed   \* the wanted definition or a set above it was not in its place
              \* all through the last walk

treeVars == <<parent, home, live, used, routed, moves>>
walkVars == <<pending, queued, sets, todo, listed, asked>>
altVars == <<treeVars, stored, folder, model, wanted, step, walkVars, outcome,
             disturbed>>

----------------------------------------------------------------------------
(* The service.                                                            *)

\* No set is below itself or below one that does not exist.
IsTree(above) ==
  /\ \A f \in Folders : above[f] \in Folders => above[above[f]] # Gone
  /\ \A F \in SUBSET {f \in Folders : above[f] # Gone} :
    F # {} => {f \in F : above[f] \notin F} # {}

Existing == {f \in Folders : parent[f] # Gone}
Children(p) == {f \in Folders : parent[f] = p}

\* The sets above d, the smallest such set of sets.
IsUpClosed(F) == \A f \in F : parent[f] \in F \union {Root, Gone}
Above(d) ==
  {f \in Folders : \A F \in SUBSET Folders :
                     home[d] \in F \union {Root} /\ IsUpClosed(F) => f \in F}

\* An answer about p: its children and, inline, any part of what is below.
IsAnswer(A, p) ==
  /\ Children(p) \subseteq A
  /\ \A f \in A : parent[f] \in A \union {p}

\* Children that folderCount counts and the answer does not hold.
NeverHasMore(f, A) == FALSE  \* (bug) Inline folders are taken for complete.
HasMore(f, A) == Cardinality(Children(f)) > Cardinality(Children(f) \intersect A)

----------------------------------------------------------------------------
(* ListAddressAlterationSets.                                              *)

AnyFolder(f) == f \in Folders  \* (bug) The same set is queued again.
NotQueued(f) == f \notin queued

Queued(F) == queued \union F

ReadsChildren(p) ==
  \E A \in SUBSET Existing :
    LET more == {f \in A : HasMore(f, A) /\ NotQueued(f)}
    IN  /\ IsAnswer(A, p)
        /\ sets' = sets \union A
        /\ queued' = Queued(more)
        /\ pending' = (pending \ {p}) \union more

\* The walk is over when nothing is pending; the sets are then read one by
\* one.  Definitions already listed keep what is known of them.
AskForRoot ==
  /\ step = "root"
  /\ ReadsChildren(Root)
  /\ step' = "walk"
  /\ UNCHANGED <<treeVars, stored, folder, model, wanted, todo, listed, asked,
                 outcome, disturbed>>

AskForChildren ==
  /\ step = "walk"
  /\ \E p \in pending :
       /\ ReadsChildren(p)
       /\ asked' = asked \union {p}
  /\ UNCHANGED <<treeVars, stored, folder, model, wanted, step, todo, listed,
                 outcome, disturbed>>

WalkEnds ==
  /\ step = "walk" /\ pending = {}
  /\ todo' = sets
  /\ step' = "items"
  /\ UNCHANGED <<treeVars, stored, folder, model, wanted, pending, queued, sets,
                 listed, outcome, asked, disturbed>>

----------------------------------------------------------------------------
(* ListAddressAlterationDefinitions.                                       *)

NoFolderID(f) == Root  \* (bug) The set's id is not filled in.
FolderID(f) == f

Lists(ds, f) ==
  listed' = [d \in Definitions |->
               IF d \notin ds THEN listed[d]
               ELSE IF f = Root /\ listed[d] # Gone THEN listed[d]
               ELSE f]

\* The reads by routing "all", "inbound" and "outbound": a definition is on
\* the answer to one of them.  No answer names its folder.
AskByRouting ==
  /\ step = "routing"
  /\ Lists({d \in live : routed = "all" \/ home[d] = Root}, Root)
  /\ step' = "root"
  /\ UNCHANGED <<treeVars, stored, folder, model, wanted, pending, queued, sets,
                 todo, outcome, asked, disturbed>>

AskForItems ==
  /\ step = "items"
  /\ \E f \in todo :
       /\ Lists({d \in live : home[d] = f}, FolderID(f))
       /\ todo' = todo \ {f}
  /\ UNCHANGED <<treeVars, stored, folder, model, wanted, step, pending, queued,
                 sets, outcome, asked, disturbed>>

----------------------------------------------------------------------------
(* The resource.                                                           *)

Returns(report) ==
  /\ step' = "idle"
  /\ wanted' = NoDefinition /\ model' = Root
  /\ outcome' = report
  /\ pending' = {} /\ queued' = {} /\ sets' = {} /\ todo' = {} /\ asked' = {}
  /\ listed' = [d \in Definitions |-> Gone]

LooksFor(d, f, ds) ==
  /\ wanted' = d /\ model' = f
  /\ step' = "routing"
  /\ outcome' = "running"
  /\ disturbed' = (d \notin ds)
  /\ UNCHANGED walkVars

\* GetAddressAlterationDefinition has the whole inventory; fromAPI leaves a
\* folder_id the inventory does not know as it is.  A Create or an import
\* that finds nothing sets no state, which Terraform refuses.
InventoryRead ==
  /\ step = "items" /\ todo = {}
  /\ IF listed[wanted] # Gone
       THEN /\ stored' = wanted
            /\ folder' = IF listed[wanted] = Root THEN model
                                                 ELSE listed[wanted]
            /\ Returns("done")
       ELSE /\ stored' = NoDefinition /\ folder' = Root
            /\ Returns("missing")
  /\ UNCHANGED <<treeVars, disturbed>>

CreateDefinition ==
  /\ step = "idle" /\ stored = NoDefinition
  /\ \E f \in Existing \union {Root} : model' = f
  /\ step' = "create"
  /\ outcome' = "running"
  /\ UNCHANGED <<treeVars, stored, folder, wanted, walkVars, disturbed>>

\* One result with an id and the success flag, or it is an error.  The set it
\* was planned for may be gone.
CreateAddressAlterationDefinition ==
  /\ step = "create"
  /\ model \in Existing \union {Root}
  /\ \E d \in Definitions \ used :
       /\ used' = used \union {d}
       /\ live' = live \union {d}
       /\ home' = [home EXCEPT ![d] = model]
       /\ \/ LooksFor(d, model, live \union {d})
          \/ Returns("error") /\ UNCHANGED disturbed
  /\ UNCHANGED <<parent, routed, moves, stored, folder>>

ReadDefinition ==
  /\ step = "idle" /\ stored # NoDefinition
  /\ LooksFor(stored, folder, live)
  /\ UNCHANGED <<treeVars, stored, folder>>

ImportDefinition(d) ==
  /\ step = "idle" /\ stored = NoDefinition
  /\ LooksFor(d, Root, live)
  /\ UNCHANGED <<treeVars, stored, folder>>

DeleteDefinition ==
  /\ step = "idle" /\ stored # NoDefinition
  /\ step' = "delete"
  /\ outcome' = "running"
  /\ UNCHANGED <<treeVars, stored, folder, model, wanted, walkVars, disturbed>>

\* Success and 404 both pass for gone; a 404 may be one of the token endpoint,
\* and the definition still there.
DeleteAddressAlterationDefinition ==
  /\ step = "delete"
  /\ live' \in {live, live \ {stored}}
  /\ stored' = NoDefinition /\ folder' = Root
  /\ Returns("done")
  /\ UNCHANGED <<parent, home, used, routed, moves, disturbed>>

\* A 404 of any request of the inventory passes for that of the definition,
\* be it for a set that was just removed or by the token endpoint.  A Create
\* adds a diagnostic, an import sets no state.
RequestNotFound ==
  /\ \/ step \in {"routing", "root"}
     \/ step = "walk" /\ pending # {}
     \/ step = "items" /\ todo # {}
  /\ stored' = NoDefinition /\ folder' = Root
  /\ Returns("404")
  /\ UNCHANGED <<treeVars, disturbed>>

\* A diagnostic leaves the state as it was; a delete may have acted.
DefinitionRequestFails ==
  /\ step # "idle"
  /\ live' \in (IF step = "delete" THEN {live, live \ {stored}} ELSE {live})
  /\ Returns("error")
  /\ UNCHANGED <<parent, home, used, routed, moves, stored, folder, disturbed>>

----------------------------------------------------------------------------
(* Other administrators.                                                   *)

\* The tree becomes above, the definitions there are become ds.
Changes(above, ds) ==
  /\ moves < MaxMoves /\ moves' = moves + 1
  /\ parent' = above /\ live' = ds
  /\ disturbed' =
       (\/ disturbed
        \/ wanted # NoDefinition /\
             \/ wanted \notin ds
             \/ \E f \in Above(wanted) : above[f] # parent[f])
  /\ UNCHANGED <<home, used, routed, stored, folder, model, wanted, step,
                 walkVars, outcome>>

MovesOrAddsSet ==
  \E f \in Folders, p \in Folders \union {Root} :
    LET above == [parent EXCEPT ![f] = p]
    IN  /\ above # parent
        /\ IsTree(above)
        /\ Changes(above, live)

RemovesSet ==
  \E f \in {g \in Existing : Children(g) = {}} :
    Changes([parent EXCEPT ![f] = Gone], {d \in live : home[d] # f})

RemovesDefinition ==
  \E d \in live : Changes(parent, live \ {d})

----------------------------------------------------------------------------
FoldersInit ==
  /\ parent \in [Folders -> Folders \union {Root, Gone}] /\ IsTree(parent)
  /\ live \in SUBSET Definitions /\ used = live
  /\ home \in [Definitions -> Folders \union {Root}]
  /\ \A d \in Definitions :
       home[d] \in (IF d \in live THEN Existing \union {Root} ELSE {Root})
  /\ routed \in {"root", "all"}
  /\ moves = 0
  /\ stored = NoDefinition /\ folder = Root
  /\ model = Root /\ wanted = NoDefinition
  /\ step = "idle" /\ outcome = "nothing"
  /\ pending = {} /\ queued = {} /\ sets = {} /\ todo = {} /\ asked = {}
  /\ listed = [d \in Definitions |-> Gone]
  /\ disturbed = FALSE

FoldersNext ==
  \/ CreateDefinition \/ CreateAddressAlterationDefinition
  \/ ReadDefinition \/ \E d \in used : ImportDefinition(d)
  \/ DeleteDefinition \/ DeleteAddressAlterationDefinition
  \/ AskByRouting \/ AskForRoot \/ AskForChildren \/ WalkEnds \/ AskForItems
  \/ InventoryRead \/ RequestNotFound \/ DefinitionRequestFails
  \/ MovesOrAddsSet \/ RemovesSet \/ RemovesDefinition

FoldersSpec == FoldersInit /\ [][FoldersNext]_altVars

----------------------------------------------------------------------------
(* Properties.                                                             *)

FoldersTypeOK ==
  /\ parent \in [Folders -> Folders \union {Root, Gone}] /\ IsTree(parent)
  /\ home \in [Definitions -> Folders \union {Root}]
  /\ live \subseteq used /\ used \subseteq Definitions
  /\ routed \in {"root", "all"} /\ moves \in 0..MaxMoves
  /\ {stored, wanted} \subseteq Definitions \union {NoDefinition}
  /\ {folder, model} \subseteq Folders \union {Root}
  /\ step \in {"idle", "create", "delete", "routing", "root", "walk", "items"}
  /\ sets \subseteq Folders /\ queued \subseteq sets
  /\ pending \subseteq queued /\ asked \subseteq queued /\ todo \subseteq sets
  /\ listed \in [Definitions -> Folders \union {Root, Gone}]
  /\ outcome \in {"nothing", "running", "done", "error", "missing", "404"}
  /\ disturbed \in BOOLEAN

\* A definition counts as not found, and its Read drops it from the state, when
\* any request of the inventory is answered 404, wherever the definition is.
\* An inventory that is read to its end misses it only when, at some moment
\* since it was begun, the definition was not there or a set above it was not
\* in its place: the walk misses no set that stays put, however the service
\* splits the tree into inline folders and however the rest of it moves.
\* (GetAddressAlterationDefinition client/legacy_resources.go:161-172, Read
\* provider/legacy_resources.go:150-168)
MissedOnlyWhenDisturbed == outcome = "missing" => disturbed

\* After an undisturbed inventory the folder_id in the state is the set the
\* definition is in, whichever of its answers names the set.
\* (add client/legacy_resources.go:180-193, fromAPI
\* provider/legacy_resources.go:192-204)
FolderIDIsHome ==
  stored # NoDefinition /\ outcome = "done" /\ ~disturbed
    => folder = home[stored]

\* A walk asks for the children of a set at most once, so it ends even when
\* sets move and come up again below another set.
\* (queued, client/legacy_resources.go:72-77)
FolderAskedOnce == pending \intersect asked = {}

=============================================================================
