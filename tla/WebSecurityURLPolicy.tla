------------------------ MODULE WebSecurityURLPolicy ------------------------
(***************************************************************************)
(* One list of a mimecast_web_security_url_policy: its targets or its URL  *)
(* actions (internal/provider/legacy_resources.go and                      *)
(* internal/client/legacy_resources.go).  Terraform keeps a list in the    *)
(* order of the configuration; the service keeps entries under ids of its  *)
(* own.  A read puts the entries it gets into the order of the list the    *)
(* model holds, by id and else by content, and an Update sends ids that    *)
(* the plan took from the state by place in the list.                      *)
(*                                                                         *)
(* The service is external.  It replaces the whole list, keeps an entry    *)
(* that is sent with the id it has, gives new ids to others, and may give  *)
(* entries new ids at any time.  No id is used twice.                      *)
(***************************************************************************)
EXTENDS Naturals, FiniteSets, Sequences, SequencesExt

CONSTANTS
  Ids,          \* numbers, in the order of the service's ids
  Contents,     \* pairs of what an entry applies to and what else it says; of
                \* a target that is its comment, NoComment for none
  NoComment,
  Earlier,      \* pairs of contents, in the order webSecurityURLIdentity gives
  MaxLength,    \* bounds the configured lists
  MaxChanges    \* bounds the changes of other administrators

ASSUME WebSecurityAssumption ==
  /\ Ids \subseteq Nat \ {0} /\ MaxLength \in Nat /\ MaxChanges \in Nat
  /\ \A c \in Contents : c = <<c[1], c[2]>>
  /\ \A c, d \in Contents :
       c # d => (<<c, d>> \in Earlier <=> <<d, c>> \notin Earlier)
  /\ \A b, c, d \in Contents :
       <<b, c>> \in Earlier /\ <<c, d>> \in Earlier => <<b, d>> \in Earlier

VARIABLES
  kind,      \* which list it is
  entries,   \* the entries on the service, as records of an id and a content
  ids,       \* ids the service has given
  changes,   \* changes of other administrators so far
  state,     \* the list in the Terraform state, <<>> when there is none
  plan,     \* the list in the plan that is being applied
  request,   \* the request the running method waits for
  \* history
  shown,     \* entries when the state was last set
  quiet      \* nothing has changed since the running Update was written

webVars == <<kind, entries, ids, changes, state, plan, request, shown,
             quiet>>

NoId == 0
Entry(i, c) == [id |-> i, content |-> c]
ContentsOf(list) == [k \in 1..Len(list) |-> list[k].content]

\* legacyPolicyModelIdentity leaves flags, dates and conditions out; of a URL
\* action everything counts.
Identity(e) == IF kind = "targets" THEN e.content[1] ELSE e.content

Distinct(list) ==
  \A j, k \in 1..Len(list) :
    j # k => Identity(list[j]) # Identity(list[k])

----------------------------------------------------------------------------
(* Reading.                                                                *)

\* canonicalizeWebSecurityPolicy sorts targets by id and URL actions by
\* content; actions that are alike stay in the order the service has them in.
SortsBefore(d, e) ==
  IF kind = "targets" THEN d.id < e.id ELSE <<d.content, e.content>> \in Earlier

Answers ==
  {list \in [1..Cardinality(entries) -> entries] :
     /\ Range(list) = entries
     /\ \A j, k \in DOMAIN list :
          SortsBefore(list[j], list[k]) /\ list[j] # list[k] => j < k}

\* (bug) Entries are matched by id only.
FindById(e, values) ==
  LET byId == {k \in 1..Len(values) : e.id # NoId /\ values[k].id = e.id}
  IN  IF byId = {} THEN 0 ELSE CHOOSE k \in byId : TRUE

\* findWebTarget, findWebURLAction: the place of e among values, 0 for none.
Find(e, values) ==
  LET byId == {k \in 1..Len(values) : e.id # NoId /\ values[k].id = e.id}
      alike == {k \in 1..Len(values) : Identity(values[k]) = Identity(e)}
      First(S) == CHOOSE k \in S : \A j \in S : k <= j
  IN  IF byId # {} THEN First(byId)
      ELSE IF alike # {} THEN First(alike) ELSE 0

KeepsMatched(values, k) == values  \* (bug)
WithoutMatched(values, k) == RemoveAt(values, k)

\* What entry old of the model becomes: a target keeps its comment when the
\* answer has none.
EntryFromAPI(old, e) ==
  IF kind = "targets" /\ e.content[2] = NoComment
  THEN Entry(e.id, <<e.content[1], old.content[2]>>) ELSE e

Filled(list) ==
  [k \in 1..Len(list.matched) |-> EntryFromAPI(list.old[k], list.matched[k])]

MatchesOnly(list) == Filled(list)  \* (bug) Unknown entries are left out.
MatchedThenRest(list) == Filled(list) \o list.rest

\* An entry of the model takes its place, if it is in the rest of the answer.
Takes(list, e) ==
  LET k == Find(e, list.rest)
  IN  IF k = 0 THEN list
      ELSE [matched |-> Append(list.matched, list.rest[k]),
            old |-> Append(list.old, e),
            rest |-> WithoutMatched(list.rest, k)]

\* fromAPI, for a model that holds the list before.
FromAPI(before, answer) ==
  LET list[n \in 0..Len(before)] ==
        IF n = 0 THEN [matched |-> <<>>, old |-> <<>>, rest |-> answer]
                 ELSE Takes(list[n - 1], before[n])
  IN  MatchedThenRest(list[Len(before)])

----------------------------------------------------------------------------
(* The methods.                                                            *)

\* (bug) More places take the id of the last one.
PlannedFromLast(config) ==
  [k \in 1..Len(config) |->
     Entry(IF state = <<>> THEN NoId
           ELSE IF k <= Len(state) THEN state[k].id ELSE Last(state).id,
           config[k])]

\* idAttr keeps the id that the state has at the same place of the list.
Planned(config) ==
  [k \in 1..Len(config) |->
     Entry(IF k <= Len(state) THEN state[k].id ELSE NoId, config[k])]

\* A Create is the Update of an empty list: no id is known yet.  A URL is
\* configured once.
PlanApply ==
  /\ request = "idle"
  /\ \E n \in 0..MaxLength : \E config \in [1..n -> Contents] :
       /\ plan' = Planned(config)
       /\ kind = "actions" => Distinct(plan')
  /\ request' = "write"
  /\ UNCHANGED <<kind, entries, ids, changes, state, shown, quiet>>

\* The service takes the list: ids it has stay, the rest is given new ones.
Known(e) == \E old \in entries : old.id = e.id

Stores(list) ==
  \E new \in [1..Len(list) -> Ids] :
    /\ \A k \in 1..Len(list) :
         IF Known(list[k]) THEN new[k] = list[k].id ELSE new[k] \notin ids
    /\ IsInjective(new)
    /\ entries' = {Entry(new[k], list[k].content) : k \in 1..Len(list)}
    /\ ids' = ids \union {new[k] : k \in 1..Len(list)}

UpdateWebSecurityURLPolicy ==
  /\ request = "write"
  /\ Stores(plan)
  /\ quiet' = TRUE
  /\ request' = "read"
  /\ UNCHANGED <<kind, changes, state, plan, shown>>

\* The Read that ends a Create or Update.
ReadBack ==
  /\ request = "read"
  /\ \E answer \in Answers : state' = FromAPI(plan, answer)
  /\ shown' = entries
  /\ request' = "idle" /\ plan' = <<>> /\ quiet' = FALSE
  /\ UNCHANGED <<kind, entries, ids, changes>>

Refresh ==
  /\ request = "idle"
  /\ \E answer \in Answers : state' = FromAPI(state, answer)
  /\ shown' = entries
  /\ UNCHANGED <<kind, entries, ids, changes, plan, request, quiet>>

\* A diagnostic leaves the state as it was; a write may have acted.
RequestFails ==
  /\ request # "idle"
  /\ \/ request = "write" /\ Stores(plan)
     \/ UNCHANGED <<entries, ids>>
  /\ request' = "idle" /\ plan' = <<>> /\ quiet' = FALSE
  /\ UNCHANGED <<kind, changes, state, shown>>

----------------------------------------------------------------------------
(* Other administrators, and the service's ids.                            *)

ChangesEntries(S) ==
  /\ changes < MaxChanges /\ changes' = changes + 1
  /\ entries' = S
  /\ ids' = ids \union {e.id : e \in S}
  /\ quiet' = FALSE
  /\ UNCHANGED <<kind, state, plan, request, shown>>

AddsEntry ==
  \E i \in Ids \ ids, c \in Contents : ChangesEntries(entries \union {Entry(i, c)})

RemovesEntry == \E e \in entries : ChangesEntries(entries \ {e})

EditsEntry ==
  \E e \in entries, c \in Contents :
    /\ c # e.content
    /\ ChangesEntries((entries \ {e}) \union {Entry(e.id, c)})

RenumbersEntry ==
  \E e \in entries, i \in Ids \ ids :
    ChangesEntries((entries \ {e}) \union {Entry(i, e.content)})

----------------------------------------------------------------------------
WebSecurityInit ==
  /\ kind \in {"targets", "actions"}
  /\ entries = {} /\ ids = {} /\ changes = 0
  /\ state = <<>> /\ plan = <<>>
  /\ request = "idle"
  /\ shown = {} /\ quiet = FALSE

WebSecurityNext ==
  \/ PlanApply \/ UpdateWebSecurityURLPolicy \/ ReadBack \/ Refresh
  \/ RequestFails
  \/ AddsEntry \/ RemovesEntry \/ EditsEntry \/ RenumbersEntry

WebSecuritySpec == WebSecurityInit /\ [][WebSecurityNext]_webVars

----------------------------------------------------------------------------
(* Properties.                                                             *)

\* A kept comment may stand beside what another entry applied to.
PlannedLists ==
  Seq([id : Ids \union {NoId}, content : {<<c[1], d[2]>> : c, d \in Contents}])

\* The types, and that a request never names one id twice.
WebSecurityTypeOK ==
  /\ kind \in {"targets", "actions"}
  /\ entries \union shown \subseteq [id : ids, content : Contents]
  /\ ids \subseteq Ids /\ changes \in 0..MaxChanges
  /\ state \in PlannedLists /\ plan \in PlannedLists
  /\ request \in {"idle", "write", "read"} /\ quiet \in BOOLEAN
  /\ \A j, k \in 1..Len(plan) :
       j # k /\ plan[j].id = plan[k].id => plan[j].id = NoId

\* What a read sets is what the service showed, each entry once: matching by
\* id here and by content there neither loses an entry nor takes one twice.
\* One thing may be out of date: a target shown without a comment has the
\* comment of the entry of the model it was taken for.
\* (fromAPI provider/legacy_resources.go:775-813, comment :370-373)
Shows(s, e) ==
  /\ s.id = e.id /\ Identity(s) = Identity(e)
  /\ s.content = e.content \/ (kind = "targets" /\ e.content[2] = NoComment)
StateShowsService ==
  /\ {state[k].id : k \in 1..Len(state)} = {e.id : e \in shown}
  /\ \A k \in 1..Len(state) : \E e \in shown : Shows(state[k], e)
  /\ Len(state) = Cardinality(shown)

\* When nobody interferes between the write and its read-back, the list comes
\* back in the order and with the ids that were planned, or Terraform refuses
\* the apply.  Entries that tell themselves apart only by what their identity
\* leaves out are an exception until they have ids.
\* (idAttr and fromAPI; provider/legacy_resources_test.go:271-310)
ApplyAsPlanned ==
  [][ReadBack /\ quiet /\ Distinct(plan) =>
       /\ ContentsOf(state') = ContentsOf(plan)
       /\ \A k \in 1..Len(plan) :
            Known(plan[k]) => state'[k].id = plan[k].id]_webVars

\* A refresh of an unchanged list changes nothing, and one that finds new ids
\* on the same contents keeps the order of the configuration.
\* (docs/resources/web_security_url_policy.md: "so returned IDs do not
\* reorder configured items")
OnlyRenumbered ==
  /\ {e.content : e \in entries} = {e.content : e \in shown}
  /\ Cardinality(entries) = Cardinality(shown)
  /\ \A d \in entries, e \in shown : d.id = e.id => d = e
RefreshKeepsOrder ==
  [][Refresh =>
       /\ entries = shown => state' = state
       /\ OnlyRenumbered /\ Distinct(state) =>
            ContentsOf(state') = ContentsOf(state)]_webVars

=============================================================================
