------------------------ MODULE ProfileGroupMembers ------------------------
(***************************************************************************)
(* mimecast_profile_group_member (internal/provider/misc_resources.go) and *)
(* the paged member list it reads back (DoAllPages of                      *)
(* internal/client/client.go).  Every resource manages one member of the   *)
(* same group and learns of it only by reading the whole list, page by     *)
(* page, while the other resources and other administrators add and        *)
(* remove members.  Nothing locks the group.                               *)
(*                                                                         *)
(* Each request is a call of CallContract: it is answered as the service   *)
(* is at one moment, or it fails and may have acted.  The process may end  *)
(* at any request, which Terraform reports like a failed one.              *)
(***************************************************************************)
EXTENDS Naturals, FiniteSets

CONSTANTS
  Members,    \* the members there may be, numbered in the order of the list
  Resources,  \* the members a resource manages, each its own
  PageSize,
  MaxEdits    \* bounds the edits of other administrators

ASSUME MembersAssumption ==
  /\ Members \subseteq Nat \ {0} /\ IsFiniteSet(Members)
  /\ Resources \subseteq Members
  /\ PageSize \in Nat \ {0}
  /\ MaxEdits \in Nat

VARIABLES
  cursor,   \* what a page token stands for, at this service
  group,    \* the members of the group
  edits,    \* edits of other administrators so far
  state,    \* the resources in the Terraform state
  method,   \* method[r]: the provider method that runs for r
  pc,       \* pc[r]: the request it waits for
  token,    \* token[r]: pageQuery's pageToken, 0 before the first page
  seen,     \* seen[r]: the tokens received so far
  items,    \* items[r]: the members on the pages received so far
  reported, \* reported[r]: how r's last method ended
  \* history
  added,    \* members that are in the group because a resource added them
  away,     \* resources whose member was not in the group at some moment
            \* of their last list call
  shifted   \* those an entry before theirs left during it

callVars == <<method, pc, reported>>
pageVars == <<token, seen, items>>
membersVars == <<cursor, group, edits, state, method, pc, token, seen, items,
          reported, added, away, shifted>>

Methods == {"create", "read", "import", "delete"}
\* "trusted": done as far as the client knows, but the answer said nothing of
\* the member and the service had done nothing.
Reports == {"nothing", "running", "done", "trusted", "error", "missing"}

----------------------------------------------------------------------------
(* The service's list.  A token continues behind a member, or behind a     *)
(* number of members; the client cannot tell which.                        *)

Rank(m) == Cardinality({x \in group : x <= m})

After(t) ==
  {m \in group : IF cursor = "key" THEN m > t ELSE Rank(m) > t}

\* p is what the service shows behind token t.
IsPage(p, t) ==
  /\ p \subseteq After(t)
  /\ Cardinality(p) <= PageSize
  /\ After(t) # {} => p # {}
  /\ \A x \in p, y \in After(t) \ p : x < y

\* The token that continues behind p, the page answered to t.
IsNext(n, p, t) ==
  IF cursor = "key"
    THEN n \in p /\ \A x \in p : x <= n
    ELSE n = t + Cardinality(p)

----------------------------------------------------------------------------
(* The end of a method.  A diagnostic leaves the Terraform state as it was. *)

Ends(r, report) ==
  /\ method' = [method EXCEPT ![r] = "idle"]
  /\ pc' = [pc EXCEPT ![r] = "idle"]
  /\ reported' = [reported EXCEPT ![r] = report]
  /\ token' = [token EXCEPT ![r] = 0]
  /\ seen' = [seen EXCEPT ![r] = {}]
  /\ items' = [items EXCEPT ![r] = {}]

Calls(r, m, c) ==
  /\ method' = [method EXCEPT ![r] = m]
  /\ pc' = [pc EXCEPT ![r] = c]
  /\ reported' = [reported EXCEPT ![r] = "running"]
  /\ UNCHANGED pageVars

\* The group changes, with mine added by a resource.  Lists that are being
\* read may suffer from it.
GroupBecomes(g, mine) ==
  /\ group' = g
  /\ added' = (added \intersect g) \union mine
  /\ away' = away \union {r \in Resources : pc[r] = "list" /\ r \notin g}
  /\ shifted' = shifted \union
       {r \in Resources : pc[r] = "list" /\ \E m \in group \ g : m < r}

KeepsGroup == UNCHANGED <<group, added, away, shifted>>

\* readMember begins, with group g.
BeginsList(r, g) ==
  /\ away' = IF r \in g THEN away \ {r} ELSE away \union {r}
  /\ shifted' = shifted \ {r}

----------------------------------------------------------------------------
(* The methods.                                                            *)

CreateMember(r) ==
  /\ method[r] = "idle" /\ r \notin state
  /\ Calls(r, "create", "add")
  /\ KeepsGroup
  /\ UNCHANGED <<cursor, edits, state>>

RefreshMember(r) ==
  /\ method[r] = "idle" /\ r \in state
  /\ Calls(r, "read", "list")
  /\ BeginsList(r, group)
  /\ UNCHANGED <<cursor, group, added, edits, state>>

\* ImportState names the member, the read that follows is this one.
ImportMember(r) ==
  /\ method[r] = "idle" /\ r \notin state
  /\ Calls(r, "import", "list")
  /\ BeginsList(r, group)
  /\ UNCHANGED <<cursor, group, added, edits, state>>

DeleteMember(r) ==
  /\ method[r] = "idle" /\ r \in state
  /\ Calls(r, "delete", "remove")
  /\ KeepsGroup
  /\ UNCHANGED <<cursor, edits, state>>

\* A 200 may still say, member by member, that nothing was done.  An answer
\* without results passes for success, whatever the service has done.
Results == {"none", "success", "failure", "unsaid", "too_many"}

AcceptsAnyItem(results) == results # "too_many"  \* (bug)
Validate(results) == results \in {"none", "success"}

StateAfterAdd(r) == state

\* The service does not lie where it speaks: it may leave out what it has done.
MayAnswer(results, acted) == results # IF acted THEN "failure" ELSE "success"

AddProfileGroupMembers(r) ==
  /\ pc[r] = "add"
  /\ \E acted \in BOOLEAN, results \in Results :
       /\ MayAnswer(results, acted)
       /\ group' = IF acted THEN group \union {r} ELSE group
       /\ added' = added \union (group' \ group)
       /\ IF Validate(results)
            THEN /\ Calls(r, "create", "list") /\ BeginsList(r, group')
                 /\ state' = StateAfterAdd(r)
            ELSE Ends(r, "error") /\ UNCHANGED <<state, away, shifted>>
  /\ UNCHANGED <<cursor, edits>>

RemoveProfileGroupMembers(r) ==
  /\ pc[r] = "remove"
  /\ \E acted \in BOOLEAN, results \in Results :
       /\ MayAnswer(results, acted)
       /\ GroupBecomes(IF acted THEN group \ {r} ELSE group, {})
       /\ IF Validate(results)
            THEN /\ Ends(r, IF results = "none" /\ ~acted THEN "trusted" ELSE "done")
                 /\ state' = state \ {r}
            ELSE Ends(r, "error") /\ state' = state
  /\ UNCHANGED <<cursor, edits>>

\* The complete list is here: the member is on it, or it counts as gone.  A
\* Create that does not find it sets no state, which Terraform refuses.
ReadMember(r, list) ==
  IF r \in list
    THEN Ends(r, "done") /\ state' = state \union {r}
    ELSE Ends(r, "missing") /\ state' = state \ {r}

NeverRepeated(r, n) == FALSE  \* (bug) Tokens are not remembered.
Repeated(r, n) == n \in seen[r]

FollowsToken(r, p, n) ==
  /\ token' = [token EXCEPT ![r] = n]
  /\ seen' = [seen EXCEPT ![r] = @ \union {n}]
  /\ items' = [items EXCEPT ![r] = @ \union p]
  /\ UNCHANGED <<callVars, state>>

\* The tokens an answer with page p may carry.  A service that has lost its
\* place may hand out a token it has handed out before.
NextTokens(r, p) ==
  seen[r] \union
    IF p = After(token[r]) THEN {}
    ELSE {n \in Members \union 1..Cardinality(Members) : IsNext(n, p, token[r])}

\* One round of DoAllPages for ListProfileGroupMembers.
DoAllPages(r) ==
  /\ pc[r] = "list"
  /\ \E p \in SUBSET group :
       /\ IsPage(p, token[r])
       /\ \/ p = After(token[r]) /\ ReadMember(r, items[r] \union p)
          \/ \E n \in NextTokens(r, p) :
               IF Repeated(r, n)
                 THEN Ends(r, "error") /\ state' = state
                 ELSE FollowsToken(r, p, n)
  /\ KeepsGroup
  /\ UNCHANGED <<cursor, edits>>

\* What a write that failed has made of the group.
MayHaveActed(r) ==
  CASE pc[r] = "add"    -> {group, group \union {r}}
    [] pc[r] = "remove" -> {group, group \ {r}}
    [] OTHER            -> {group}

FailureEndsList(r) ==  \* (bug) A page that fails ends the list.
  /\ pc[r] # "idle"
  /\ \E g \in MayHaveActed(r) :
       /\ GroupBecomes(g, g \ group)
       /\ IF pc[r] = "list" THEN ReadMember(r, items[r])
                            ELSE Ends(r, "error") /\ state' = state
  /\ UNCHANGED <<cursor, edits>>

MemberRequestFails(r) ==
  /\ pc[r] # "idle"
  /\ \E g \in MayHaveActed(r) : GroupBecomes(g, g \ group)
  /\ Ends(r, "error")
  /\ UNCHANGED <<cursor, edits, state>>

\* Other administrators.
EditsMembers ==
  /\ edits < MaxEdits /\ edits' = edits + 1
  /\ \E m \in Members : \E g \in {group \union {m}, group \ {m}} :
       g # group /\ GroupBecomes(g, {})
  /\ UNCHANGED <<cursor, state, callVars, pageVars>>

----------------------------------------------------------------------------
MembersInit ==
  /\ cursor \in {"key", "offset"}
  /\ group \in SUBSET Members
  /\ edits = 0
  /\ state = {}
  /\ method = [r \in Resources |-> "idle"]
  /\ pc = [r \in Resources |-> "idle"]
  /\ token = [r \in Resources |-> 0]
  /\ seen = [r \in Resources |-> {}]
  /\ items = [r \in Resources |-> {}]
  /\ reported = [r \in Resources |-> "nothing"]
  /\ added = {} /\ away = {} /\ shifted = {}

MemberStep(r) ==
  \/ AddProfileGroupMembers(r) \/ RemoveProfileGroupMembers(r)
  \/ DoAllPages(r) \/ MemberRequestFails(r)

MembersNext ==
  \/ \E r \in Resources :
       \/ CreateMember(r) \/ RefreshMember(r) \/ ImportMember(r) \/ DeleteMember(r)
       \/ MemberStep(r)
  \/ EditsMembers

MembersSpec == MembersInit /\ [][MembersNext]_membersVars

\* Every request is answered or given up (RequestLoop: CallsReturn).
MembersFairSpec ==
  MembersSpec /\ \A r \in Resources : WF_membersVars(MemberStep(r))

----------------------------------------------------------------------------
(* Properties.                                                             *)

MembersTypeOK ==
  /\ cursor \in {"key", "offset"}
  /\ group \subseteq Members
  /\ edits \in 0..MaxEdits
  /\ state \subseteq Resources
  /\ method \in [Resources -> Methods \union {"idle"}]
  /\ pc \in [Resources -> {"idle", "add", "list", "remove"}]
  /\ \A r \in Resources :
       /\ method[r] = "idle" <=> pc[r] = "idle"
       /\ pc[r] = "add" => method[r] = "create"
       /\ method[r] \in {"create", "import"} => r \notin state
       /\ method[r] \in {"read", "delete"} => r \in state
  /\ token \in [Resources -> Nat]
  /\ seen \in [Resources -> SUBSET Nat]
  /\ items \in [Resources -> SUBSET Members]
  /\ reported \in [Resources -> Reports]
  /\ added \subseteq group
  /\ away \subseteq Resources /\ shifted \subseteq Resources

\* A member counts as missing (a Read drops it from the state, a Create or an
\* import refuses it) only when it was out of the group at some moment of the
\* list call that missed it.  A service that counts its entries gives one
\* other cause: an entry before it left while the pages were read.  Nothing
\* the client does, and no failed or repeated page, is a cause.
\* (readMember misc_resources.go:229-261, DoAllPages client.go:444-471)
MissingWasAway ==
  \A r \in Resources : reported[r] = "missing" =>
    r \in away \/ (cursor = "offset" /\ r \in shifted)

\* A member that a resource added does not stay in the group, with the
\* resource out of the Terraform state, unless its last method ended with an
\* error.  The code has two exceptions, and this says there is no other: a
\* Delete whose answer had no results is taken for done though the service did
\* nothing, and a Read drops a member that is there when the service counts
\* its entries and one before it left while the pages were read.
\* (Create misc_resources.go:159-178, Read :179-192, Delete :195-204,
\* validate client/misc.go:257-270)
NoSilentMember ==
  \A r \in Resources :
    r \in added \ state /\ method[r] = "idle" =>
      \/ reported[r] \in {"error", "trusted"}
      \/ reported[r] = "missing" /\ cursor = "offset" /\ r \in shifted

\* Every method ends, even when the service hands out the same page tokens
\* again and again.  (DoAllPages client.go:465-468)
MembersCallsReturn ==
  \A r \in Resources : pc[r] # "idle" ~> pc[r] = "idle"

=============================================================================
