-------------------------- MODULE CapabilityCheck ---------------------------
(* tools/capabilitycheck: the ledger of API operations the repository keeps *)
(* (the manifest), the developer portal it is compared with, the maintainers *)
(* who classify what a refresh brings in, and the make targets: "check"      *)
(* (live), "release" and "doc" (offline), "refresh".  A run reads the        *)
(* manifest when it starts and the portal request by request, while both may *)
(* change under it.                                                          *)
EXTENDS FiniteSets, Naturals

CONSTANTS
  Products, Ops,   \* API products; method and path pairs
  ConfigLike,      \* the operations of a configuration category
  Titles,          \* what a product may be called
  Absent, NoRun,   \* a product the portal does not list; no run, no verdict
  MaxChanges       \* bound: changes of the portal and edits of the manifest

ASSUME CapabilityAssumption == ConfigLike \subseteq Ops /\ MaxChanges \in Nat

VARIABLES
  portal,     \* Products -> [title, operations] or Absent
  manifest,   \* the file: titles, count, entries, digest
  run,        \* the run in progress, or NoRun
  verdict,    \* how the last run ended, while nothing has changed since
  docs,       \* the entries the documents were last written from
  classified, \* the operations a maintainer has classified
  changes

capVars == <<portal, manifest, run, verdict, docs, classified, changes>>

(* How an entry is classified: served by a typed surface with or without its *)
(* generated page, excluded with one of the four approved limitations or for *)
(* another stable reason, or a gap that blocks the release.                  *)
Classes == {"terraform", "undocumented", "limited", "excluded", "gap"}
Modes   == {"check", "release", "doc", "refresh"}

NoEntries == [o \in {} |-> {}]

\* manifest{}, what a refresh starts from when there is no file
EmptyManifest == [titles |-> [p \in {} |-> {}], count |-> 0,
                  entries |-> NoEntries, digest |-> NoEntries]

-----------------------------------------------------------------------------
(* What fetchCatalogue makes of the titles and of each product's operations. *)
ProductOperations(specs) == UNION {{<<p, o>> : o \in specs[p]} : p \in DOMAIN specs}

Catalogue(titles, specs) ==
  [titles     |-> titles,
   count      |-> Cardinality(ProductOperations(specs)),
   operations |-> [o \in {q[2] : q \in ProductOperations(specs)} |->
                     {p \in DOMAIN specs : o \in specs[p]}]]

\* operationSetDigest: the products of every operation
Digest(entries) == [o \in DOMAIN entries |-> entries[o].products]

\* (bug) A configuration operation may be excluded for any reason.
EntryReviewed(m, o) ==
  LET e == m.entries[o]
  IN  e.products # {} /\ e.products \subseteq DOMAIN m.titles /\ e.class \in Classes

EntryValid(m, o) ==
  LET e == m.entries[o]
  IN  /\ e.products # {} /\ e.products \subseteq DOMAIN m.titles
      /\ e.class \in Classes
      /\ ~(e.class = "excluded" /\ o \in ConfigLike)

ValidateManifest(m) ==
  m.digest = Digest(m.entries) /\ \A o \in DOMAIN m.entries : EntryValid(m, o)

ValidateSurfaceEvidence(m) == \A o \in DOMAIN m.entries : m.entries[o].class # "undocumented"

BlockingGaps(m) == {o \in DOMAIN m.entries : m.entries[o].class = "gap"}

\* (bug) What the portal no longer has is not looked for.
ComparesListed(m, live) ==
  LET Differs(f, g) == {x \in DOMAIN g : x \notin DOMAIN f \/ f[x] # g[x]}
  IN  Differs(m.titles, live.titles) \union Differs(Digest(m.entries), live.operations)

\* The products, the operations and the count that differ.
CompareLive(m, live) ==
  LET checked == m.titles
      ops     == Digest(m.entries)
      Differs(f, g) == {x \in DOMAIN f \union DOMAIN g :
                          x \notin DOMAIN f \/ x \notin DOMAIN g \/ f[x] # g[x]}
  IN  Differs(checked, live.titles) \union Differs(ops, live.operations)
        \union (IF m.count # live.count THEN {"count"} ELSE {})

\* (bug) Excluded until somebody objects.
ExcludedEntry(products) == [products |-> products, class |-> "excluded"]

NewEntry(products) == [products |-> products, class |-> "unclassified"]

RefreshManifest(previous, live) ==
  LET entries == [o \in DOMAIN live.operations |->
                    IF o \in DOMAIN previous.entries
                      THEN [previous.entries[o] EXCEPT !.products = live.operations[o]]
                      ELSE NewEntry(live.operations[o])]
  IN  [titles |-> live.titles, count |-> live.count,
       entries |-> entries, digest |-> Digest(entries)]

-----------------------------------------------------------------------------
(* The portal and the maintainers.                                           *)
Listings == {Absent} \union [title : Titles, operations : SUBSET Ops]

CapabilityInit ==
  /\ portal \in [Products -> Listings]
  /\ manifest = EmptyManifest
  /\ run = NoRun /\ verdict = NoRun /\ docs = NoEntries
  /\ classified = {} /\ changes = 0

Changes ==
  /\ changes < MaxChanges
  /\ changes' = changes + 1
  /\ verdict' = NoRun
  /\ run' = IF run = NoRun THEN run ELSE [run EXCEPT !.quiet = FALSE]
  /\ UNCHANGED docs

PortalChanges(p) ==
  /\ Changes
  /\ \E listing \in Listings \ {portal[p]} : portal' = [portal EXCEPT ![p] = listing]
  /\ UNCHANGED <<manifest, classified>>

Classifies(o) ==
  /\ Changes
  /\ o \in DOMAIN manifest.entries
  /\ \E c \in Classes \ {manifest.entries[o].class} :
       manifest' = [manifest EXCEPT !.entries[o].class = c]
  /\ classified' = classified \union {o}
  /\ UNCHANGED portal

\* An entry that is deleted by hand: the digest in the file stays.
DropsEntry(o) ==
  /\ Changes
  /\ o \in DOMAIN manifest.entries
  /\ manifest' = [manifest EXCEPT !.entries =
                    [q \in DOMAIN manifest.entries \ {o} |-> manifest.entries[q]]]
  /\ UNCHANGED <<portal, classified>>

-----------------------------------------------------------------------------
(* A run.                                                                    *)
Start(mode) ==
  /\ run = NoRun
  /\ run' = [mode |-> mode, current |-> manifest, titles |-> Absent,
             specs |-> NoEntries, quiet |-> TRUE]
  /\ verdict' = NoRun
  /\ UNCHANGED <<portal, manifest, docs, classified, changes>>

Valid(m) == ValidateManifest(m) /\ ValidateSurfaceEvidence(m)

\* A check validates the manifest before it asks the portal, a refresh after.
ContactsPortal ==
  /\ run # NoRun
  /\ run.mode = "refresh" \/ (run.mode = "check" /\ Valid(run.current))

FetchList ==
  /\ ContactsPortal /\ run.titles = Absent
  /\ LET listed == {p \in Products : portal[p] # Absent}
     IN  run' = [run EXCEPT !.titles = [p \in listed |-> portal[p].title]]
  /\ UNCHANGED <<portal, manifest, verdict, docs, classified, changes>>

FetchSpec(p) ==
  /\ ContactsPortal /\ run.titles # Absent
  /\ p \in DOMAIN run.titles \ DOMAIN run.specs /\ portal[p] # Absent
  /\ run' = [run EXCEPT !.specs =
               [q \in DOMAIN run.specs \union {p} |->
                  IF q = p THEN portal[p].operations ELSE run.specs[q]]]
  /\ UNCHANGED <<portal, manifest, verdict, docs, classified, changes>>

Ends(m, passes, wrote) ==
  /\ verdict' = [mode |-> run.mode, passed |-> passes, wrote |-> wrote, quiet |-> run.quiet]
  /\ docs' = IF passes /\ run.mode \in {"doc", "refresh"} THEN m.entries ELSE docs
  /\ run' = NoRun
  /\ UNCHANGED <<portal, classified, changes>>

\* A product that is gone by the time its specification is asked for, or any
\* other error of the portal, ends the run before it writes anything.
FetchFails ==
  /\ ContactsPortal
  /\ Ends(run.current, FALSE, FALSE)
  /\ UNCHANGED manifest

Fetched == run.titles # Absent /\ DOMAIN run.specs = DOMAIN run.titles

EndsCheck ==
  /\ ContactsPortal /\ run.mode = "check" /\ Fetched
  /\ LET live == Catalogue(run.titles, run.specs)
     IN  Ends(run.current, CompareLive(run.current, live) = {}, FALSE)
  /\ UNCHANGED manifest

RejectsManifest ==
  /\ run # NoRun /\ run.mode = "check" /\ ~Valid(run.current)
  /\ Ends(run.current, FALSE, FALSE)
  /\ UNCHANGED manifest

EndsOffline ==
  /\ run # NoRun /\ run.mode \in {"release", "doc"}
  /\ Ends(run.current,
          Valid(run.current) /\ (run.mode = "release" => BlockingGaps(run.current) = {}), FALSE)
  /\ UNCHANGED manifest

\* The file is written before it is validated, over whatever it holds by then.
EndsRefresh ==
  /\ ContactsPortal /\ run.mode = "refresh" /\ Fetched
  /\ LET refreshed == RefreshManifest(run.current, Catalogue(run.titles, run.specs))
     IN  manifest' = refreshed /\ Ends(refreshed, Valid(refreshed), TRUE)

CapabilityNext ==
  \/ \E p \in Products : PortalChanges(p) \/ FetchSpec(p)
  \/ \E o \in Ops : Classifies(o) \/ DropsEntry(o)
  \/ \E mode \in Modes : Start(mode)
  \/ FetchList \/ FetchFails \/ RejectsManifest
  \/ EndsCheck \/ EndsOffline \/ EndsRefresh

CapabilitySpec == CapabilityInit /\ [][CapabilityNext]_capVars
-----------------------------------------------------------------------------
Passed(mode) == verdict # NoRun /\ verdict.mode = mode /\ verdict.passed /\ verdict.quiet

\* The portal as it stands.
Published(o) == {p \in Products : portal[p] # Absent /\ o \in portal[p].operations}

\* A live check that passes while nothing changes means what its document says:
\* no product or operation is new, removed, moved or renamed
\* (main.go:373-422, 476).
PassMeansCurrent ==
  Passed("check") =>
    /\ DOMAIN manifest.entries = {o \in Ops : Published(o) # {}}
    /\ \A o \in DOMAIN manifest.entries : manifest.entries[o].products = Published(o)
    /\ DOMAIN manifest.titles = {p \in Products : portal[p] # Absent}
    /\ \A p \in DOMAIN manifest.titles : manifest.titles[p] = portal[p].title

\* A release check that passes leaves no configuration operation without a
\* documented surface or one of the approved limitations, through any number
\* of refreshes and edits (main.go:151-153, 261-276, 510-518).
PassMeansCovered ==
  Passed("release") =>
    \A o \in DOMAIN manifest.entries \intersect ConfigLike :
      manifest.entries[o].class \in {"terraform", "limited"}

\* Nothing a refresh brings in passes any run before a maintainer has
\* classified it: also when a refresh overwrites an edit, or reads the portal
\* while an operation moves between products (main.go:274-276, 424-441).
NothingPassesUnseen ==
  \A mode \in Modes : Passed(mode) => DOMAIN manifest.entries \subseteq classified

\* The documents are written from manifests that validate only, although the
\* refreshed manifest is on disk by then (main.go:120-150).
DocsFromValidManifest ==
  \A o \in DOMAIN docs : docs[o].class \in Classes \ {"undocumented"}

Listed == {p \in Products : portal[p] # Absent}
PortalCatalogue == Catalogue([p \in Listed |-> portal[p].title],
                             [p \in Listed |-> portal[p].operations])

\* After a refresh that nothing disturbed a live check finds no difference,
\* whatever the manifest was before (main.go:373-441).
RefreshIsCurrent ==
  (verdict # NoRun /\ verdict.wrote /\ verdict.quiet) =>
    /\ DOMAIN manifest.entries = {o \in Ops : Published(o) # {}}
    /\ CompareLive(manifest, PortalCatalogue) = {}
=============================================================================
