# Verification of the Mimecast Terraform provider

`terraform-provider-mimecast` is a Go plugin. Terraform starts it as a process,
calls its resources and data sources from several goroutines at once, and keeps
the state they return. Everything the provider knows of the service it learns
through one shared HTTP client. This directory holds TLA+ models of the parts
of the provider in which order, concurrency and failure matter, the TLC
configurations that check them on small instances, and TLAPS proofs of the
central invariants for instances of any size.

Line numbers in the text and in `PROJECT.json` refer to files below `src/`.

## 1. The system

| Component | State | Operations | What is hard | What makes it correct |
|---|---|---|---|---|
| Request path (`internal/client/client.go`) | `accessToken`, `tokenExpiry` under `tokenMu`; per call the loop variable of `do` | `Do`, `DoRead`, `doOnce`, `bearerToken`, `clearToken` | calls share a token and drop it on 401; retries; lost answers; a mutex held across HTTP | a write acts at most once; attempts are bounded; no rejected token twice; no token without a cause; every call returns |
| Managed URL calls (`internal/client/resources.go`) | `managedURLInventory`, `managedURLInventoryValid` under `managedURLInventoryMu` | create, delete, unfiltered list (snapshot), filtered list | the snapshot is fetched page by page while other goroutines change the service and invalidate it | the snapshot never hides an acknowledged change |
| `mimecast_managed_url` (`internal/provider/managed_url_resource.go`) | Terraform state of every instance | Create, Read, Delete, ImportState (Update only reports an error) | absence is concluded from a snapshot; filters are incomplete; duplicates; processes end anywhere | no silent orphan; only own records deleted; nothing forgotten while it lives, but on a misleading 404; drift seen |
| Paged lists, retry delays, token life (`client.go`) | loop locals; `tokenExpiry` | `DoAllPages`, `parseRateLimitDelay`, `boundedRetryDelay`, the expiry in `bearerToken` | page tokens that repeat while the list changes; Go durations that wrap; two clocks | the loop ends and finds what was there throughout; the service's advice is kept, with the exceptions named below; no token after its life |
| Configuration (`provider.go`, `client.New`, `serviceTransport`) | one client | `Configure`, `New`, the transport's check of every request | three sources of each setting, some without validators; redirects and proxies | writes only on request; usable limits; plain HTTP stays local |
| Policies, definitions, groups, directory, journaling, Cloud Integrated, DMARC resources (`internal/provider`, `internal/client`) | Terraform state | Create = write + read-back, Read, Update = write + read-back, Delete, Import | a write that took effect but whose read-back failed; creates of several calls; updates that send only differences; secrets nobody can read back | no silent orphan, but on a misleading 404; one apply converges; the state is what was read, where the answer told it; the version trigger tells the secret |
| Members of shared objects (`misc_resources.go`, `dmarc_resources.go`, `dmarc_extended_resources.go`) | Terraform state of each member resource | add, find in a paged list or in the parent, remove; replace the whole list | several resources write one group, unlocked; a 200 that says nothing of a member; page tokens that count | a member there throughout is found by keys; the two ways to lose one in silence are the only ones |
| Address alteration sets and definitions (`internal/client/legacy_resources.go`) | Terraform state | the walk over the tree of sets, the merge of the definitions found | sets move while the tree is read; answers leave out in which set a definition is; any request may be answered 404 | an inventory read to its end misses a definition only when it moved; `folder_id` is its set |
| Web security URL policies (`internal/provider/legacy_resources.go`) | Terraform state, a list in the order of the configuration | matching of targets and URL actions by id and content, ids taken over by place | the service renumbers; contents repeat; comments are kept | the state shows what is there, comments aside; an apply leaves what was planned; a refresh keeps the order |
| Data sources | none | one read | nothing of their own | |
| `tools/capabilitycheck` | the manifest file and the generated documents | `check`, `-release`, `-doc`, `-refresh` | the portal and the file change during a run; a refresh writes before it validates | nothing passes that nobody has looked at |

One fault reaches every resource. A token request that is refused is an `APIError`
with the status of the token endpoint (client.go:286-288), and `IsNotFound`
(client.go:127-131) asks only for the status 404. A 404 of the token endpoint, or of
any request a method makes on the way to its object, therefore passes for the
object's absence. The models have it as an answer of its own (`notoken`,
`RequestNotFound`), kept apart from the 404 of an object that is gone
(`missing`); it is the fourth finding of section 3, and the exception that several
properties name.

Interaction: a resource method is a sequence of client calls; each client call
is one run of `do`; concurrent runs meet at `tokenMu`; concurrent managed URL
calls also meet at `managedURLInventoryMu`. Terraform never runs two operations
for one instance at once, and runs operations of different instances in
parallel. A process that ends loses the client's token and snapshot and keeps
only what Terraform wrote to the state.

## 2. Modules

| Module | Models |
|---|---|
| `CallContract` | what a call of the client promises its caller (abstract specification) |
| `StateContract` | what Terraform may rely on from the methods of a resource (abstract specification) |
| `RequestLoop` | `do`, `doOnce`, `bearerToken`, `clearToken`; refines `CallContract` |
| `ManagedURLInventory` | the managed URL calls and the snapshot |
| `ManagedURLResource` | the resource on top of `ManagedURLInventory`, with processes that end; refines `StateContract` |
| `ResourceFamilies` | how the CRUD methods of 25 kinds of resources differ, one record each |
| `ResourceLifecycle` | the CRUD methods of those resources against the service; refines `StateContract` |
| `ProfileGroupMembers` | several member resources of one profile group and its paged list (`DoAllPages`) |
| `DMARCDomainGroupMembers` | a DMARC domain group and its associations, which write the same list |
| `AddressAlterationFolders` | the walk over the sets, the inventory of definitions, and the resource that is read back from it |
| `WebSecurityURLPolicy` | a list of targets or URL actions between configuration, state and service |
| `Duration` | Go's `time.Duration`: integers that wrap |
| `RetryDelay` | the sleeps between the attempts of a read |
| `TokenLifetime` | the cached token on the clocks of the service and the client |
| `ClientConfig` | from the provider block and the environment to a client, and what its transport lets through |
| `CapabilityCheck` | the ledger of API operations, the portal, the maintainers and the make targets |
| `RequestLoopProofs`, `ResourceLifecycleProofs`, `StateContractProofs` | theorems and proofs about the module of that name (section 5) |
| `ManagedURLProofs` | theorems and proofs about `ManagedURLInventory` and `ManagedURLResource` |
| `MembershipProofs`, `LegacyProofs`, `UtilitiesProofs` | theorems and proofs about the modules that `MCMembership`, `MCLegacy` and `MCUtilities` put together |
| `NaturalRecursion` | recursive functions over the natural numbers, for the proof about back-offs |
| `MCRequestLoop`, `MCManagedURLInventory`, `MCManagedURLResource`, `MCResourceLifecycle` | constants for TLC |
| `MCMembership`, `MCLegacy`, `MCUtilities` | instances of several small modules that no other waits for; a behaviour is about one of them |

Operators commented `(bug)` are never part of a specification. Each is a
plausible fault of the code (a dropped guard, a forgotten unlock, a missing
invalidation); substituted for the definition that follows it, it must make TLC
refute a property (`"mutants"` in `PROJECT.json`), which shows that the property
depends on that line of the code.

### RequestLoop

A process is one call of `Do` or `DoRead`. `pc` follows `do` (client.go:330-373)
and `doOnce`: `idle`, `doOnce` (build the request, then `bearerToken`), `token`
(waiting for the token endpoint with `tokenMu` held), `send`, `wait`, `clear`
(`clearToken` is about to take the mutex), `backoff`, `done`. The variable
`attempt` is the loop variable; that the 401 refresh is paid from it is why
`AttemptsBounded` has the bound it has. `bearerToken` with a usable token takes and
releases the mutex without blocking and is one step; without one it is two,
`RequestToken` and `TokenGranted` or `TokenFails`, with the mutex held between.
Errors are kept as the four classes `do` tells apart. Time is abstract: a token
is before or past its expiry minus 60 seconds (`tokenExpiry`), it ages at any
moment, and a backoff takes any time.

The environment answers anything, or nothing. The API answers 401 exactly for
tokens it no longer honours; a 5xx may hide an effect; a write whose answer was
given up may still act (`ServiceActsLate`). `history` variables count requests,
effects, tokens and clears for the properties; no guard of the client reads
them.

`CallContract` is the promise the callers rely on: refused without effect, or
running and then a success (the effect took place) or a failure (anything may
have happened or still happen), with at most one effect for a write.
`ManagedURLInventory` uses exactly this promise for its requests.

### ManagedURLInventory

An actor is a goroutine that performs one client call after another. A create or
delete acts on the service (`ServiceCreates`, `ServiceDeletes`), its answer is lost
(`AnswerLost`: the method returns before it invalidates) or arrives, or the token
endpoint answers 404 and nothing was sent (`TokenMisses`: the snapshot is invalidated
all the same), and `Invalidate` waits for the mutex. A list takes the mutex, uses the
snapshot or fetches pages while holding it; each `FetchPage` sees the service as it is
at that moment, so a listing can mix several moments. Ids never used again and bodies
are model values. `Elsewhere` is everybody else: other administrators, and requests of
this client that act after their answer was given up. `drift` notes what they did
since the last fetch began; `created`, `deleted`, `mustSee`, `mustMiss` note what was
acknowledged to whom, before which list.

### ManagedURLResource

`step` is the place in the CRUD method that runs for an instance, and the `pc` of
`ManagedURLInventory` is where its client call is. Create writes, reads the whole
inventory back and sets the state last; Read asks the filtered list by URL, accepts
the stored id or a semantic match, and falls back to the snapshot; Delete treats any
404 as success; ImportState looks the id up. `dropped` notes the ids that are there
and were forgotten on a 404 of the token endpoint; a Read falls back to a list, so no
404 takes a managed URL from the state but that of Delete. `hydrateManagedURLModel`
refuses some bodies (`Unreadable`). `NewProcess` ends the process at any point: the
client state is lost, the Terraform state stays.

The service is assumed as README.md:126-131 of the provider describes it: a filter
may leave out a record or show it under another id, the unfiltered inventory is
complete for records that exist throughout the listing, and ids are not reused.

### ResourceFamilies and ResourceLifecycle

The resources other than managed URLs repeat one pattern, written out by hand in each
file: write, read back, set the state. `ResourceLifecycle` has that pattern once; a
record of `ResourceFamilies` says where a resource departs from it: who names the
object, whether Update sends everything, what is set, or the difference to the state,
which secret goes with it, whether 404 counts as done, whether a second request
completes a read, and what becomes of attributes an answer leaves out, computed ones
(`settles`) and others (`keeps`). The run-time value `family` is chosen once.

`method` is the CRUD method that runs for a resource and `call` the client call it
waits in; a call has been answered (`reply`) or not. As `CallContract` allows, a
write may act and be answered with an error, or be given up and act later
(`LateActs`). `CutOff` ends a method anywhere. A method that ends with a diagnostic
leaves the Terraform state as it was; `reported` and `unsettled` remember what
such a method may have left behind, `dropped` what Read or Delete left on a 404 of the
token endpoint (`TokenMisses`), `calm` that nobody else acted since a
resource was refreshed. `Elsewhere` is other administrators, who edit, remove
and create objects but do not touch secrets.

An answer has what the object has set, and may leave out more (`shown`, `Omissions`).
`Model` is what `fromAPI` then makes of the attributes: where the family `keeps`, the
planned or stored value stays (setTarget policy_resource.go:242, setDirectoryString
directory_integration_resources.go:783-823, legacy_resources.go:370, 611, 999), and
elsewhere it becomes null. `unread` notes which attributes of a state the last
answer did not tell: `StateTrueWhenCalm` and, for updates that send only
differences, `RefreshedApplyConverges` say nothing of those, since there the code
can be wrong, against CONTRIBUTING.md:57. Where a resource keeps only some of its
attributes, its record says that it keeps them; the others behave as in the
families that keep none.

Of the data, one attribute with two values is kept for the properties about
attributes, one version trigger with the secret that goes with it, and one
computed attribute (`extra`: a value, null or unknown). A secret is identified
with the version it is configured under: who changes one changes the other, as
the attribute descriptions ask for. Attributes of nested objects, validation of
plans and the conversion of lists are left out.

### StateContract

What is left of a resource when requests, answers, processes and attributes are
taken away: an object is on the service or not, the Terraform state of a resource
names one object or none (`kept`), a Create is about an object (`pending`), and a
diagnostic may have been about it (`told`), or a resource may have left it on an
answer that was not about it (`misled`). A state names one object until the
resource leaves it; a resource leaves it only when its object is gone or, where a
name can be given again, when nobody loses sight of an object of the configuration, or
it was misled (`Drops`, `misled`); a Create makes at most one object under a name the
service gives. `ResourceLifecycle` and
`ManagedURLResource` are two ways to implement it, one with a get by id, the other
with a filter and a snapshot; the mappings stand at their ends (`Contract`). In
`ResourceLifecycle` the first step of a Create whose name is in the configuration
is `Begins`, every other start of a method and every answer to a read is a stutter.

### ProfileGroupMembers

Each resource manages one member and learns of it only from the list of the whole
group: Create adds and reads back, Read and Import read, Delete removes and believes
the answer (misc_resources.go:195-204). A step of `DoAllPages` is one iteration of its
loop, between two of which other resources and administrators add and remove members.
What a page token stands for is the service's secret, so `cursor` is chosen once: a
key (the page continues behind a member) or a number of entries, which shifts when an
earlier member leaves. `seen` is the set of tokens received; one that comes back ends
the call with an error, as does a failed request. The answer to a write may say of the
member that it was not added or removed, or have no results, which `validate` takes
for success whatever the service has done (client/misc.go:258-260). A member is thus
lost in silence in two ways, and `NoSilentMember` says that there is no third: a
Delete answered without results by a service that did nothing, and a Read that misses
a member because entries before it left a list that is counted.

### DMARCDomainGroupMembers

An association adds or removes its domain and reads the group back; the group's
own Update sends the whole list of its plan. The plan is made before the run and
repeats the state (`UseStateForUnknown`), so an Update can undo an
association that the same run has just added: Terraform orders the two only if
one refers to the other. `unseen` notes what came and went since the group was
read, `unconfirmed` which domains others removed.

### AddressAlterationFolders and WebSecurityURLPolicy

The sets form a tree that other administrators change between the requests of a
walk. `AskForChildren` is one iteration of the walk: an answer shows the children of a
set and any part of what is below, and a set is queued when its count exceeds
what came inline. `AskForItems` reads a set's definitions. `listed` is under which
`folder_id` the merge has seen a definition, `disturbed` whether the wanted one
moved meanwhile. A 404 of any request, for a set that was just removed or by the token
endpoint, ends the inventory as if the definition were not there (`RequestNotFound`,
outcome `404`); `missing` is the outcome of an inventory that was read to its end.

A web security list has an order in the configuration and ids on the service.
`MatchedThenRest` and `Find` are the matching of the code, by id first and else by
content; an answer is any of `Answers`, the lists that `canonicalizeWebSecurityPolicy`
has sorted (`SortsBefore`: targets by id, actions by content; which of two contents is
`Earlier` is a constant, the string order of the code), and `Takes` is which entry of
the answer goes to a place of the state, of which `FromAPI` makes the new list. A
target that is answered without a comment keeps the one of the entry it is taken for
(`EntryFromAPI`), so `StateShowsService` compares ids and what an entry applies to,
and its comment only where the answer has one. The plan takes ids from the state by
place, so a request may carry the id of another entry. The documents say actions match
by type, value and action; the code looks for the id first. The service is assumed to
keep an entry that is sent with its id, and may renumber at any time. Two equal
actions are not planned; two targets that are alike are.

### Duration, RetryDelay, TokenLifetime, ClientConfig

`Duration` wraps where Go's does. `RetryDelay` keeps the order of the code: seconds
are multiplied into a Duration before they are bounded, the reset headers count
only when `Retry-After` does not, and of the two the first that holds a number not
below zero decides, even if that is 0 or wraps and the second asks for a delay. A
refused token request carries no `RetryAfter` (client.go:287), yet is retried, after the
back-off. `AdviceFollowed` says all of this. The back-off `250*(1<<attempt)` is not
bounded by `maxRetryDelay` at all and wraps for a large `max_retries`, for which
there is no upper limit; `SleepBounded` therefore speaks of back-offs that fit. The
5-minute bound applies to advice only.

`TokenLifetime` has one clock and the time an answer travels, at most the HTTP
timeout. The client counts a token's life from the arrival of the answer and
leaves a margin of 60 seconds; `SentWhileValid` holds as long as the timeout is not
longer than the margin. A larger `timeout_seconds` is accepted by the code and can
make a call present an expired token, whose 401 is then refreshed as any other.

`ClientConfig` is `Configure` and `New` over every combination of block, environment
and default. Only the block has validators: a negative
`MIMECAST_TIMEOUT_SECONDS`, or seconds that wrap, reach `http.Client` as they are
(a negative timeout means none); `LimitsUsable` names these two exceptions.

### CapabilityCheck

A run of `tools/capabilitycheck` reads the manifest when it starts and the portal
product by product while both may change. `verdict` is kept until something changes,
so that the properties compare a verdict with the world it was about.
Classifications are the five the checks tell apart; documents are the entries
they were written from. A refresh writes the copy it started from, with what it
found, over an edit made meanwhile; `NothingPassesUnseen` says that what is then
unclassified again passes no run.

## 3. Runs

| Run | Instance | Shows |
|---|---|---|
| `RequestLoop_calls` | a read, a write and a POST off the allowlist, `max_retries` 2, fair | attempts bounded, rejected tokens not reused, tokens accounted for, writes act once, every call returns, refinement of `CallContract` |
| `RequestLoop_doc401` | one read | the first finding below |
| `Inventory` | two goroutines, two ids with one body or one id with two bodies, fair | snapshot current, lists reflect acknowledged changes, every call returns |
| `Resource` | two instances with one body between them, or one with three bodies, one unreadable; two ids | what was read in a quiet process is true, own records only, no silent orphan and refinement of `StateContract`, but for the token endpoint's 404 |
| `Lifecycle_fields` | one resource of each family without a secret, two names, one attribute, two values, answers that leave attributes out | one apply on a refreshed state converges, the state is what was read where it was told, no silent orphan but for that 404 |
| `Lifecycle_secrets` | one resource of each family with a secret, two names, two versions | the version trigger tells the secret; refinement of `StateContract` |
| `Lifecycle_notfound` | a policy | the fourth finding |
| `Lifecycle_trigger` | a delivery route definition | the second finding |
| `Lifecycle_unknown` | a journaling service, answers that leave attributes out | the third finding |
| `Membership` | two member resources among three members, pages of one, two edits, fair; two domains | members there throughout are found, unless entries that are counted shift; none is lost in silence but in the two ways named; every call returns; associations hold |
| `Legacy` | four sets in every shape of tree, one definition, one move; lists of two entries, three ids, one target without a comment, one outside change | a walk that ends finds what does not move and asks for a set once; lists show and become what they should |
| `Utilities` | Durations of 22 bits at 4 units a millisecond, so that 524 s fit and 525 s wrap; three headers, from the service or the token endpoint; nine seconds; all combinations of the chosen numbers; two products, two operations, three changes | delays, token life, configuration, capability check |

Runs of small modules that no other waits for are one run: its initial states
choose the part, and the other parts keep still.

Why the bounds are enough. Two calls are needed for one to clear the token another
fetched. `max_retries` 2 is the least value for which a 401 refresh and two transient
retries can follow each other. Two goroutines let one fetch while another creates; two
ids make two pages. Two instances with identical bodies are what a duplicate needs;
three bodies give an edit, a restored value and an unreadable one, which one instance
shows as well as two: `Smaller` keeps the `Resource` run to either two instances or
three bodies, and its `View` leaves out the histories of `ManagedURLInventory` that no
property of that run reads. The theorems of section 5 hold for any number of each, and
for read-only mode, of which no run has an instance; the id supply and the retry
budget end every behaviour's growth.

In `ResourceLifecycle`, two names let a resource create an object, lose it and
create another; two values, one of them unset, are what a stale, forgotten or
omitted attribute needs, and `Omissions` lets answers leave out what is set; two
versions let a trigger appear, change, vanish and come back. At most one given-up
write per resource is pending (`late`): a later one takes the place of an earlier
one that then never acts. Names that the service assigns are used once, which
ends the growth.

`MaxEdits`, `MaxGroupEdits`, `MaxMoves` and `MaxChanges` bound what others do. Two
edits shift a numbered page token over an unread entry, which is what
`MissingWasAway` is about, also for keys. One move is what takes a set from a
place that is not read yet to one that is. Four sets give a chain of three with a
branch. Three capability changes are one of the portal, a refresh and an edit.

`SecretView` leaves `calm` out of `Lifecycle_secrets`: no guard reads it, and neither
property of that run does.

Symmetry is used where only safety is checked and nothing tells the values
apart: instances, ids, products, names and versions. (Of a family with one object
per account, any name may be the given one, so the names are alike there too; the
modules compare versions only with each other and with 0.) `NumberedTrees` keeps one
numbering of each shape of a tree, for the same reason.

`CHECK_DEADLOCK FALSE` stands in the `RequestLoop` configurations because every
call returns once and the model then has nothing left to do, and in `Utilities`
because a call gives up, the clock ends and changes are used up.

Findings.

1. CHANGELOG.md:118 announces "one-time OAuth token refresh on 401
responses". The code refreshes only when the first attempt is answered 401
(client.go:345, `attempt == 0`). `RequestLoop_doc401` shows a read answered 429
or 5xx first and 401 on the retry: the caller is handed the 401 without a
refresh.

2. definition_resources.go:158 says `password_wo must be configured when
password_wo_version changes`, and Update treats a trigger that appears as a
change. Create stores the trigger without asking for a password
(definition_resources.go:64), so a password that is configured later under the
same version is never sent (`Lifecycle_trigger`).

3. CONTRIBUTING.md:57 asks resources to `Read after create and update instead of
copying planned values to state`. `fromAPI` of the journaling service sets the
attributes of a connection only when the answer has that connection, so the
optional and computed attributes of the other protocol stay unknown in the state
that Create sets, which Terraform refuses (`Lifecycle_unknown`). The delegation
details of DKIM and SPF definitions behave alike when they are answered 404.

4. CONTRIBUTING.md:58 asks resources to `Implement import and remove state only for a
confirmed not-found response`. A token request that is answered 404 (client.go:287) is
an error that `IsNotFound` accepts, so a Read (policy_resource.go:134) or a Delete (:176)
that had to fetch a token takes a live object out of the state without a diagnostic
(`Lifecycle_notfound`). `NoSilentOrphan`, `ImplementsStateContract` and
`LeavesOnlyWhenGone` name this case as their exception and show that it is the only
one. `AddressAlterationFolders` has the wider form: a 404 of any request of an inventory,
as for a set that was removed meanwhile, drops the definition
(provider/legacy_resources.go:157).

## 4. Fairness

`RequestLoop` assumes weak fairness of each call's own steps: the Go scheduler runs
goroutines that can run, a mutex that is free is given to a waiter, and
`http.Client.Timeout` (never zero, `New` replaces it) turns every silent request into
`AnswerLost`. Nothing is assumed of the service, of token ageing or of revocation.
`ManagedURLInventory` assumes strong fairness of each goroutine's call: by
`CallsReturn` every request ends, so a step that can be taken is, and a step can be
disabled again and again only where it waits for the mutex, which Go's `sync.Mutex`
hands to a waiter that has waited for a millisecond. `ProfileGroupMembers` assumes
weak fairness of each resource's next request (`MemberStep`), for the same reason as
`ManagedURLInventory`: that a paged read ends is then the work of the check for
repeated tokens alone.

## 5. Proofs

All theorems hold for any values of the constants that satisfy the `ASSUME`s of
the modules (distinctness and finiteness of sets, natural numbers; every such
assumption is evaluated by a run).

`RequestLoopProofs`. `IndInv` strengthens the properties by: the mutex is held
exactly during a token request (`LockInv`); there is no usable token meanwhile
(`SingleFlightInv`), so tokens are granted one at a time; the loop variable pays
for every request (`BudgetInv`); what the service did agrees with what is on its
way and with what callers were told (`EffectInv`); refused calls never start
(`RefusalInv`); tokens are numbered in the order of grants and those cached after
a call's `clearToken` are newer than the one it was refused with
(`TokenOrderInv`). `WriteAppliedOnce` alone is not inductive: it needs to know
that a write never reaches `clear` or `backoff`. `RejectedTokenNotReused` needs
the order of tokens because other calls may clear and fetch in between. The
refinement is proved by mapping every step to a step of `CallContract` or to a
stutter (`ContractSimulation`).

`ManagedURLProofs`. `InventoryInv` adds to `SnapshotCurrent` and
`ListsReflectAcknowledged` the same claims for the pages of a fetch under way
(`PagesCurrent`, `CreatedInv`, `DeletedInv`), since the last page turns them into
the snapshot, and that the mutex is held exactly while pages are fetched
(`MuInv`), which is what keeps an invalidation from falling between a stale page
and the snapshot it would end up in.

`ResourceInv`, in the same module, adds to `InventoryInv`, which the
resources keep because each of their steps is one of `ManagedURLInventory` or
leaves it alone, where each method is in its client call (`StepOf`, `CallsInv`),
whose the ids are that are being made, held and given up (`MakingOf`, `OwnOf`,
`GoneOf`), and what a list that a method holds says of the service (`ListedOf`,
`ShownInv`, `ConfirmedInv`). An absent id in the listing of an idle client is an
absent record only because the snapshot is current, so `LeavesOnlyWhenGone` and
`DriftDetected` rest on the theorems about the inventory. A delete that was answered
with the token endpoint's 404 acknowledges nothing (`deleted`), and what it makes the
resource forget is there (`DroppedInv`).

`StateContractProofs`, and the last parts of `ManagedURLProofs` and
`ResourceLifecycleProofs`. `ContractLosesNothing` proves that StateContract alone
keeps every object of the configuration in sight (`NoneLost`); that the two modules
implement it is proved by a step simulation each (`StateContractSimulation`), one
lemma per action, under `ResourceInv` and `LifecycleInv`. The guard of `Forgets` is
where they differ: a managed URL is gone because the snapshot is current, any
other object because of a 404 or because `HeldInv` knows who else holds it. A 404 of
the token endpoint is `Drops` instead, in both. That no
diagnostic was about an id the service has not given yet (`UsedInv`) was missing
from `ResourceInv`: the mapping told which objects are ours, and needed it.

`ResourceLifecycleProofs`. `LifecycleInv`, for every record in `Family`, not only
those of the 25 resources: where a method is (`PlaceOf`), that its request is what
the plan says against the state it was given (`RequestOf`), that what was made is
held by somebody who will not let go of it (`HeldInv`), that a calm resource has
seen the object as it is (`CalmOf`), but for attributes its answer did not tell
(`unread`), and that what it has written is on the service
(`WrittenOf`). `RefreshedApplyConverges` is not inductive: between the write and
the read-back it is `WrittenOf` that carries what was sent, through an Update that
sends only differences from a state that is true by `CalmOf`, and through the
separate request for the activity status. `NoSilentOrphan` needs to know who is
about to drop an object (`Losing`). A lemma per conjunct goes through the actions
once for the resource that moves; `OthersStay` and `OthersKeep` do all others.
`SecretInv` does the same for `SecretFollowsVersion`: a method sends the secret its
version stands for (`SecretPlanOf`), the secret of an update that may still act is
reported or about to be (`LateOf`), and a resource knows the secret of an object
that nobody else has (`SecretOn`). It rests on `SecretsAssumption`, that every family
with a write-only attribute has names the service gives: no name is given twice, so
nobody can change the secret of an object and then leave it to somebody who does
not know (`SecretChange`). Every record in the source satisfies it.

`MembershipProofs`. `MissingWasAway`, `NoSilentMember`: for a token that is a key,
what lies between two pages is what joined or left; for a token that is a number,
the invariant counts the entries before a member, which only a departure lowers, so a
read without a departure before the member finds it. Both exceptions of
`NoSilentMember` are in its formula.
`AssociationsHold`, and that a put of the domain group undoes only what happened
since the group was read.

`LegacyProofs`. `FoldersInv` says what the walk over the sets still has ahead of it. As
long as nothing above the wanted definition has moved (`UndisturbedInv`), the walk has
seen every set above it that is at the root and, of each it has seen, the one inside,
or has still to ask for that one (`FrontierPending`); once the walk has ended, the
definition is listed or its set still to be read (`HomeToBeListed`). That nothing is
pending then means that all sets above the definition have been seen, whatever the
shape of the tree (`UpClosure`). `ListedAtHome` is what `FolderIDIsHome` rests on.

`WebSecurityInv` adds to `StateShowsService` that the ids on the service are distinct
(`EntriesInv`), that a plan takes its ids from what the service gave (`PlanIDs`), and
that after a write which nobody disturbed the service has the plan's entries, each
under its planned id or a new one (`WrittenInv`). Of the merge `FromAPI` two lemmas
are proved by going through the places of the list: nothing is lost and nothing comes
twice (`FromAPIKeeps`), and if every entry of the answer belongs in one place of the
list before, by its id or else by its content (`Belongs`), the answer comes out in
that order (`FromAPIFollows`). Both are about the entries of the answer; what a place
keeps of the comment before is `Filled`, and `Shows` is all that is claimed of it.
Whoever writes a list whose contents are distinct, or reads one in which only ids have
changed (`RenumberedOnce`, by counting), is in that case: `ApplyAsPlanned` and
`RefreshKeepsOrder`. `LegacyParts` splits a behaviour of the run's specification into
one of each module.

`UtilitiesProofs`. Advice of three headers, token life, transport, read-only mode and
limits, for every width of a Duration and every timeout up to the margin; what a pass
of the capability check means, and that documents come from a manifest that was valid.
`SleepBounded` needs what `250*(1<<attempt)` is for every attempt: `Shifted` is the
shift as a recursive function, of which `ShiftedDoubles` proves the recursion, and
`WrappingScales` that a product of wrapped integers is the wrapped product, so that a
back-off is no longer than the delay it stands for and equals it where that fits.
`NaturalRecursion` is a library for that: a function defined by recursion over the
numbers exists and obeys its equation. It uses induction as a statement about sets of
numbers (`SetInduction`, from the least number outside of the set), since the
library's theorems take an operator as a parameter.

Every safety invariant and action property that a passing run checks is stated by a
theorem. Model-checked only are the three liveness properties (`CallsReturn` of the
request path, of the inventory and of the members), since fairness and `ENABLED` are
out of the prover's reach. No theorem is assumed.

Two definitions were rewritten because a proof about them failed for a good reason:
`Extra` (`ResourceLifecycle`) and `Find` (`WebSecurityURLPolicy`) had CASEs whose arms
overlapped. TLC takes the first arm that holds, as the code does; TLA+ leaves open
which, so nothing could be proved of them. They are IF/ELSE now.

## 6. Not modelled

`PROJECT.json` lists every component with its status. Left out on purpose:

- schemas and attribute declarations, payload types and the conversion of nested
  attributes, including the validators that refuse a plan before any request;
- data sources: each is one read without state, by a get, by the paged list of
  `ProfileGroupMembers` or from the snapshot of `ManagedURLInventory`; what remains
  is sorting and copying of fields;
- the wording and redaction of errors, logging, the start of the plugin server;
- the two connections of a journaling service, which have one write-only
  attribute each and are treated as one.

`RefreshedApplyConverges` says nothing of optional attributes that a PATCH leaves
out because they are no longer configured: what the service then does is not said
in the repository.

## 7. Plan

What is left:

1. The two connections of a journaling service kept apart, with an authentication
   secret each.
