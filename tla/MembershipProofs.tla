------------------------- MODULE MembershipProofs ---------------------------
(***************************************************************************)
(* Theorems about the resources that own one member of an object they      *)
(* share, for any members and any number of edits.                         *)
(*                                                                         *)
(* Profile groups: a member that stays in the group while the list is read *)
(* is found however large the pages are, except where a page token counts  *)
(* entries and one before it leaves; and none that a resource added is     *)
(* forgotten without an error, except that way or by an answer to a Delete *)
(* that had no results.                                                    *)
(*                                                                         *)
(* Domain groups: what a PUT of the whole list undoes is what happened     *)
(* since the group was read, and an association in the Terraform state is  *)
(* in the group unless something the provider cannot know of took it out.  *)
(***************************************************************************)
EXTENDS ProfileGroupMembers, DMARCDomainGroupMembers, FiniteSetTheorems, TLAPS

----------------------------------------------------------------------------
(* Ranks.                                                                  *)

\* A finite set of numbers has a least one.
LEMMA LeastMember ==
  ASSUME NEW S \in SUBSET Nat, IsFiniteSet(S), S # {}
  PROVE  \E x \in S : \A y \in S : x <= y
  <1> DEFINE UpTo(x) == {y \in S : y <= x}
             T == {UpTo(x) : x \in S}
             R == StrictSubsetOrdering(S)
             F == FiniteSubsetsOf(S)
  <1>1. IsWellFoundedOn(R, F)
    BY FS_StrictSubsetOrderingWellFounded
  <1>2. F = SUBSET S
    BY FS_FiniteSubsetsOfFinite
  <1>3. T \subseteq SUBSET S /\ T # {}
    OBVIOUS
  <1>4. PICK A \in T : \A B \in T : ~ (<<B, A>> \in R)
    <2> HIDE DEF T, R, F
    <2> QED
      BY <1>1, <1>2, <1>3, WFMin
  <1>5. PICK x \in S : A = UpTo(x)
    OBVIOUS
  <1>6. ASSUME NEW y \in S, y < x
        PROVE  FALSE
    <2>1. UpTo(y) \in SUBSET S /\ UpTo(x) \in SUBSET S /\ UpTo(y) \in T
      OBVIOUS
    <2>2. x \in UpTo(x) /\ x \notin UpTo(y)
      BY <1>6
    <2>3. UpTo(y) \subseteq UpTo(x)
      <3>1. \A z \in S : z <= y => z <= x
        BY <1>6
      <3> QED
        BY <3>1
    <2>4. <<UpTo(y), UpTo(x)>> \in R
      <3> HIDE DEF UpTo
      <3> QED
        BY <2>1, <2>2, <2>3 DEF StrictSubsetOrdering
    <2> QED
      BY <1>4, <1>5, <2>1, <2>4
  <1> QED
    BY <1>6

\* The members up to r, in a group g; Rank counts those of the group.
Upto(g, r) == {x \in g : x <= r}

LEMMA UptoFinite ==
  ASSUME NEW g \in SUBSET Members, NEW r
  PROVE  /\ IsFiniteSet(Upto(g, r))
         /\ Cardinality(Upto(g, r)) \in Nat
  BY MembersAssumption, FS_Subset, FS_CardinalityType DEF Upto

LEMMA MembersAreNumbers == Members \subseteq Nat /\ \A m \in Members : m > 0
  BY MembersAssumption

\* A member of the group has a rank of at least one.
LEMMA RankPositive ==
  ASSUME NEW g \in SUBSET Members, NEW r \in g
  PROVE  Cardinality(Upto(g, r)) > 0
  <1>1. r \in Upto(g, r)
    BY MembersAreNumbers DEF Upto
  <1> QED
    BY <1>1, UptoFinite, FS_EmptySet

\* No member loses rank unless one before it leaves.
LEMMA RankKept ==
  ASSUME NEW g \in SUBSET Members, NEW h \in SUBSET Members, NEW r \in h,
         \A m \in g \ h : ~ (m < r)
  PROVE  Cardinality(Upto(g, r)) <= Cardinality(Upto(h, r))
  <1>1. Upto(g, r) \subseteq Upto(h, r)
    <2>1. ASSUME NEW x \in g, x <= r
          PROVE  x \in h
      <3>1. x \in Nat /\ r \in Nat
        BY MembersAreNumbers
      <3> QED
        BY <2>1, <3>1
    <2> QED
      BY <2>1 DEF Upto
  <1> QED
    BY <1>1, UptoFinite, FS_Subset

\* Counting past a page: a member behind the page has a rank that exceeds the
\* entries before the page and on it.
LEMMA RankBehindPage ==
  ASSUME NEW g \in SUBSET Members, NEW t \in Nat, NEW p \in SUBSET g,
         NEW r \in g \ p, p # {},
         \A x \in p : Cardinality(Upto(g, x)) > t /\ x < r
  PROVE  Cardinality(Upto(g, r)) > t + Cardinality(p)
  <1>1. IsFiniteSet(p) /\ p \subseteq Nat
    BY MembersAssumption, FS_Subset, MembersAreNumbers
  <1>2. PICK x \in p : \A y \in p : x <= y
    BY <1>1, LeastMember
  <1> DEFINE before == Upto(g, x) \ {x}
  <1>3. /\ IsFiniteSet(before)
        /\ Cardinality(before) = Cardinality(Upto(g, x)) - 1
    <2>1. x \in Upto(g, x)
      BY MembersAreNumbers DEF Upto
    <2> QED
      BY <2>1, UptoFinite, FS_RemoveElement
  <1>4. before \intersect p = {} /\ r \notin before /\ before \union p \subseteq Upto(g, r)
    <2>1. g \subseteq Nat /\ p \subseteq Nat
      BY MembersAreNumbers
    <2>2. x < r
      OBVIOUS
    <2>3. \A y \in before : y \in g /\ y < x /\ y < r
      BY <2>1, <2>2 DEF Upto
    <2>4. \A y \in p : y >= x /\ y < r
      BY <1>2, <2>1
    <2> HIDE DEF before
    <2>5. before \union p \subseteq Upto(g, r)
      <3>1. ASSUME NEW y \in before \union p
            PROVE  y \in g /\ y <= r
        <4>1. y \in g /\ y < r
          BY <2>3, <2>4
        <4> QED
          BY <2>1, <4>1
      <3> QED
        BY <3>1 DEF Upto
    <2>6. before \intersect p = {} /\ r \notin before
      <3>1. ASSUME NEW y \in before, y \in p
            PROVE  FALSE
        <4>1. y < x /\ x <= y /\ y \in Nat /\ x \in Nat
          BY <1>2, <2>1, <2>3, <3>1
        <4> QED
          BY <4>1
      <3>2. r \notin before
        BY <2>1, <2>3
      <3> QED
        BY <3>1, <3>2
    <2> QED
      BY <2>5, <2>6
  <1>5. r \in Upto(g, r)
    BY MembersAreNumbers DEF Upto
  <1> DEFINE all == before \union p
  <1>6. IsFiniteSet(all) /\ Cardinality(all) = Cardinality(before) + Cardinality(p)
    <2> HIDE DEF before
    <2>1. Cardinality(before \intersect p) = 0
      BY <1>4, FS_EmptySet
    <2>2. Cardinality(before) \in Nat /\ Cardinality(p) \in Nat
      BY <1>1, <1>3, FS_CardinalityType
    <2>3. /\ IsFiniteSet(before \union p)
          /\ Cardinality(before \union p)
               = Cardinality(before) + Cardinality(p) - Cardinality(before \intersect p)
      BY <1>1, <1>3, FS_Union
    <2> QED
      BY <2>1, <2>2, <2>3
  <1>7. Cardinality(Upto(g, r)) >= Cardinality(all) + 1
    <2> r \notin all /\ all \subseteq Upto(g, r)
      BY <1>4
    <2> HIDE DEF all
    <2>1. /\ IsFiniteSet(all \union {r})
          /\ Cardinality(all \union {r}) = Cardinality(all) + 1
      BY <1>6, FS_AddElement
    <2>2. all \union {r} \subseteq Upto(g, r)
      BY <1>5
    <2>3. Cardinality(all \union {r}) <= Cardinality(Upto(g, r))
      BY <2>2, UptoFinite, FS_Subset
    <2> QED
      BY <2>1, <2>3, <1>6, UptoFinite, FS_CardinalityType
  <1>8. /\ Cardinality(Upto(g, x)) \in Nat /\ Cardinality(Upto(g, x)) > t
        /\ Cardinality(p) \in Nat /\ Cardinality(Upto(g, r)) \in Nat
    BY <1>1, UptoFinite, FS_CardinalityType
  <1> HIDE DEF before, all
  <1> QED
    BY <1>3, <1>6, <1>7, <1>8

----------------------------------------------------------------------------
(* The list that a resource reads.                                         *)

\* r is on a page that has come, or will be shown behind the token.
Covered(r) == r \in items[r] \/ r \in After(token[r])

\* What holds of the calls of r; NoSilentMember and MissingWasAway of r are
\* its last two conjuncts.
ResourceInv(r) ==
  /\ pc[r] # "list" => token[r] = 0
  /\ pc[r] = "list" /\ r \notin away => r \in group
  /\ pc[r] = "list" /\ r \notin away /\ (cursor = "key" \/ r \notin shifted)
       => Covered(r)
  /\ pc[r] = "list" /\ r \in added /\ (cursor = "key" \/ r \notin shifted)
       => Covered(r)
  /\ r \in added \ state /\ method[r] = "idle" =>
       \/ reported[r] \in {"error", "trusted"}
       \/ reported[r] = "missing" /\ cursor = "offset" /\ r \in shifted
  /\ reported[r] = "missing" => r \in away \/ (cursor = "offset" /\ r \in shifted)

\* Neither property is inductive without what the pages so far have shown.
MembersInv == MembersTypeOK /\ \A r \in Resources : ResourceInv(r)

\* Everybody in the group is behind the token that stands for the beginning.
LEMMA AllBehindBeginning ==
  ASSUME group \subseteq Members, NEW r \in group
  PROVE  r \in After(0)
  <1>1. CASE cursor = "key"
    BY <1>1, MembersAreNumbers DEF After
  <1>2. CASE cursor # "key"
    BY <1>2, RankPositive DEF After, Rank, Upto
  <1> QED
    BY <1>1, <1>2

\* Who is behind a token stays there unless a member before it leaves a
\* service that counts.
LEMMA StaysBehind ==
  ASSUME group \subseteq Members, group' \subseteq Members, cursor' = cursor,
         NEW t \in Nat, NEW r \in group \intersect group', r \in After(t),
         cursor = "key" \/ \A m \in group \ group' : ~ (m < r)
  PROVE  r \in After(t)'
  <1>1. CASE cursor = "key"
    BY <1>1 DEF After
  <1>2. CASE cursor # "key"
    <2>1. Cardinality(Upto(group, r)) > t
      BY <1>2 DEF After, Rank, Upto
    <2>2. Cardinality(Upto(group, r)) <= Cardinality(Upto(group', r))
      BY <1>2, RankKept
    <2>3. Cardinality(Upto(group', r)) > t
      BY <2>1, <2>2, UptoFinite
    <2> QED
      BY <1>2, <2>3 DEF After, Rank, Upto
  <1> QED
    BY <1>1, <1>2

\* Who is behind a token and not on the page it brings is behind the next.
LEMMA BehindNext ==
  ASSUME group \subseteq Members, cursor \in {"key", "offset"},
         NEW t \in Nat, NEW p \in SUBSET group, IsPage(p, t),
         NEW n \in Nat, IsNext(n, p, t),
         NEW r \in group, r \in After(t), r \notin p
  PROVE  r \in After(n)
  <1>1. \A x \in p : x < r
    BY DEF IsPage
  <1>2. CASE cursor = "key"
    BY <1>1, <1>2 DEF IsNext, After
  <1>3. CASE cursor # "key"
    <2>1. p # {} /\ \A x \in p : Cardinality(Upto(group, x)) > t
      BY <1>3 DEF IsPage, After, Rank, Upto
    <2>2. Cardinality(Upto(group, r)) > t + Cardinality(p)
      BY <1>1, <2>1, RankBehindPage
    <2> QED
      BY <1>3, <2>2 DEF IsNext, After, Rank, Upto
  <1> QED
    BY <1>2, <1>3

----------------------------------------------------------------------------
(* MembersInv.                                                             *)

LEMMA InitMembersInv == MembersInit => MembersInv
  <1> SUFFICES ASSUME MembersInit PROVE MembersInv
    OBVIOUS
  <1>1. MembersTypeOK
    BY MembersAssumption DEF MembersInit, MembersTypeOK, Methods, Reports
  <1>2. \A r \in Resources : ResourceInv(r)
    BY DEF MembersInit, ResourceInv
  <1> QED
    BY <1>1, <1>2 DEF MembersInv

\* No step leaves the types.
LEMMA MembersTypeStep ==
  ASSUME MembersTypeOK, [MembersNext]_membersVars
  PROVE  MembersTypeOK'
  <1> USE MembersAssumption DEF MembersTypeOK, callVars, pageVars
  <1>1. CASE UNCHANGED membersVars
    BY <1>1 DEF membersVars
  <1>2. CASE EditsMembers
    <2>1. PICK g \in SUBSET Members : GroupBecomes(g, {})
      BY <1>2 DEF EditsMembers
    <2>2. group' \subseteq Members /\ added' \subseteq group'
      BY <2>1 DEF GroupBecomes
    <2>3. away' \subseteq Resources /\ shifted' \subseteq Resources
      BY <2>1 DEF GroupBecomes
    <2>4. edits' \in 0..MaxEdits /\ UNCHANGED <<cursor, state, callVars, pageVars>>
      BY <1>2 DEF EditsMembers
    <2> QED
      BY <2>2, <2>3, <2>4
  <1>3. ASSUME NEW r \in Resources, CreateMember(r)
        PROVE  MembersTypeOK'
    BY <1>3 DEF CreateMember, Calls, KeepsGroup, Methods, Reports
  <1>4. ASSUME NEW r \in Resources, RefreshMember(r)
        PROVE  MembersTypeOK'
    BY <1>4 DEF RefreshMember, Calls, BeginsList, Methods, Reports
  <1>5. ASSUME NEW r \in Resources, ImportMember(r)
        PROVE  MembersTypeOK'
    BY <1>5 DEF ImportMember, Calls, BeginsList, Methods, Reports
  <1>6. ASSUME NEW r \in Resources, DeleteMember(r)
        PROVE  MembersTypeOK'
    BY <1>6 DEF DeleteMember, Calls, KeepsGroup, Methods, Reports
  <1>7. ASSUME NEW r \in Resources, AddProfileGroupMembers(r)
        PROVE  MembersTypeOK'
    <2>1. method[r] # "idle" /\ (group' = group \/ group' = group \union {r})
      BY <1>7 DEF AddProfileGroupMembers
    <2>2. CASE Calls(r, "create", "list") /\ BeginsList(r, group') /\ state' = state
      BY <1>7, <2>2 DEF AddProfileGroupMembers, Calls, BeginsList, Methods, Reports
    <2>3. CASE Ends(r, "error") /\ UNCHANGED <<state, away, shifted>>
      BY <1>7, <2>3 DEF AddProfileGroupMembers, Ends, Methods, Reports
    <2> QED
      BY <1>7, <2>2, <2>3 DEF AddProfileGroupMembers, StateAfterAdd
  <1>8. ASSUME NEW r \in Resources, RemoveProfileGroupMembers(r)
        PROVE  MembersTypeOK'
    <2>1. PICK g \in SUBSET Members : GroupBecomes(g, {})
      BY <1>8 DEF RemoveProfileGroupMembers
    <2>2. group' \subseteq Members /\ added' \subseteq group'
      BY <2>1 DEF GroupBecomes
    <2>3. away' \subseteq Resources /\ shifted' \subseteq Resources
      BY <2>1 DEF GroupBecomes
    <2>4. UNCHANGED <<cursor, edits>> /\ state' \in {state, state \ {r}}
      BY <1>8 DEF RemoveProfileGroupMembers
    <2>5. Ends(r, "done") \/ Ends(r, "trusted") \/ Ends(r, "error")
      BY <1>8 DEF RemoveProfileGroupMembers
    <2> QED
      BY <2>2, <2>3, <2>4, <2>5 DEF Ends, Reports
  <1>9. ASSUME NEW r \in Resources, DoAllPages(r)
        PROVE  MembersTypeOK'
    <2>1. UNCHANGED <<group, added, away, shifted, cursor, edits>>
      BY <1>9 DEF DoAllPages, KeepsGroup
    <2>2. PICK p \in SUBSET group :
            \/ ReadMember(r, items[r] \union p)
            \/ \E n \in NextTokens(r, p) :
                 IF Repeated(r, n) THEN Ends(r, "error") /\ state' = state
                                   ELSE FollowsToken(r, p, n)
      BY <1>9 DEF DoAllPages
    <2>3. CASE ReadMember(r, items[r] \union p)
      <3>1. state' \in {state \union {r}, state \ {r}}
        BY <2>3 DEF ReadMember
      <3>2. Ends(r, "done") \/ Ends(r, "missing")
        BY <2>3 DEF ReadMember
      <3> QED
        BY <2>1, <3>1, <3>2 DEF Ends, Reports
    <2>4. CASE Ends(r, "error") /\ state' = state
      BY <2>1, <2>4 DEF Ends, Reports
    <2>5. ASSUME NEW n \in NextTokens(r, p), FollowsToken(r, p, n)
          PROVE  MembersTypeOK'
      <3>1. n \in Nat
        BY DEF NextTokens
      <3> QED
        BY <2>1, <2>5, <3>1 DEF FollowsToken
    <2> QED
      BY <2>2, <2>3, <2>4, <2>5
  <1>10. ASSUME NEW r \in Resources, MemberRequestFails(r)
         PROVE  MembersTypeOK'
    BY <1>10 DEF MemberRequestFails, MayHaveActed, GroupBecomes, Ends, Reports
  <1> QED
    BY <1>1, <1>2, <1>3, <1>4, <1>5, <1>6, <1>7, <1>8, <1>9, <1>10
       DEF MembersNext, MemberStep

\* What holds of q's calls holds after a step of somebody else.
LEMMA Bystander ==
  ASSUME MembersTypeOK, MembersTypeOK', NEW q \in Resources, ResourceInv(q),
         cursor' = cursor,
         method'[q] = method[q], pc'[q] = pc[q], token'[q] = token[q],
         items'[q] = items[q], reported'[q] = reported[q],
         q \in state' <=> q \in state,
         q \in added' => q \in added,
         q \in away => q \in away', q \in shifted => q \in shifted',
         pc[q] = "list" /\ q \in group \ group' => q \in away',
         pc[q] = "list" /\ (\E m \in group \ group' : m < q) => q \in shifted'
  PROVE  ResourceInv(q)'
  <1>1. /\ group \subseteq Members /\ group' \subseteq Members /\ token[q] \in Nat
        /\ added \subseteq group /\ added' \subseteq group'
    BY DEF MembersTypeOK
  <1>2. ASSUME q \in group, q \in group', Covered(q),
               cursor = "key" \/ \A m \in group \ group' : ~ (m < q)
        PROVE  Covered(q)'
    <2>1. q \in items[q] \/ q \in After(token[q])
      BY <1>2 DEF Covered
    <2>2. CASE q \in items[q]
      BY <2>2 DEF Covered
    <2>3. CASE q \in After(token[q])
      <3>1. q \in group \intersect group' /\ token[q] \in Nat
        BY <1>1, <1>2
      <3>2. PICK t \in Nat : t = token[q]
        BY <3>1
      <3>3. q \in After(t)'
        BY <1>1, <1>2, <2>3, <3>1, <3>2, StaysBehind
      <3>4. token'[q] = t
        BY <3>2
      <3> QED
        BY <3>3, <3>4 DEF Covered, After, Rank
    <2> QED
      BY <2>1, <2>2, <2>3
  <1> HIDE DEF MembersTypeOK
  <1>3. pc'[q] # "list" => token'[q] = 0
    BY DEF ResourceInv
  <1>4. pc'[q] = "list" /\ q \notin away' => q \in group'
    BY DEF ResourceInv
  <1>7. pc'[q] = "list" /\ q \notin away' /\ (cursor' = "key" \/ q \notin shifted')
          => Covered(q)'
    BY <1>2, <1>4 DEF ResourceInv
  <1>5. pc'[q] = "list" /\ q \in added' /\ (cursor' = "key" \/ q \notin shifted')
          => Covered(q)'
    BY <1>1, <1>2 DEF ResourceInv
  <1>6. /\ q \in added' \ state' /\ method'[q] = "idle" =>
             \/ reported'[q] \in {"error", "trusted"}
             \/ reported'[q] = "missing" /\ cursor' = "offset" /\ q \in shifted'
        /\ reported'[q] = "missing" => q \in away' \/ (cursor' = "offset" /\ q \in shifted')
    BY DEF ResourceInv
  <1> QED
    BY <1>3, <1>4, <1>5, <1>6, <1>7 DEF ResourceInv

\* The method of r ends with an error: it has promised nothing.
LEMMA EndsWithError ==
  ASSUME MembersTypeOK, NEW r \in Resources, Ends(r, "error")
  PROVE  ResourceInv(r)'
  <1>1. pc'[r] = "idle" /\ token'[r] = 0 /\ reported'[r] = "error"
    BY DEF MembersTypeOK, Ends
  <1> QED
    BY <1>1 DEF ResourceInv

\* A list that begins has everybody in the group still to come.
LEMMA BeginsCovered ==
  ASSUME MembersTypeOK, MembersTypeOK', NEW r \in Resources, NEW m,
         ResourceInv(r), pc[r] # "list", Calls(r, m, "list"), m # "idle",
         BeginsList(r, group')
  PROVE  ResourceInv(r)'
  <1>1. /\ pc'[r] = "list" /\ token'[r] = 0 /\ reported'[r] = "running"
        /\ method'[r] = m
    BY DEF MembersTypeOK, Calls, pageVars, ResourceInv
  <1>2. group' \subseteq Members /\ added' \subseteq group'
    BY DEF MembersTypeOK
  <1>3. r \in group' => Covered(r)'
    <2>1. (group \subseteq Members)' /\ (r \in group)' => (r \in After(0))'
      BY AllBehindBeginning, PTL
    <2> QED
      BY <1>1, <1>2, <2>1 DEF Covered, After, Rank
  <1>4. r \notin away' => r \in group'
    BY DEF BeginsList
  <1> QED
    BY <1>1, <1>2, <1>3, <1>4 DEF ResourceInv

\* What does not change the group or r's page leaves the others alone.
LEMMA OthersKept ==
  ASSUME MembersInv, MembersTypeOK', NEW r \in Resources, cursor' = cursor,
         \A q \in Resources \ {r} :
           /\ method'[q] = method[q] /\ pc'[q] = pc[q] /\ token'[q] = token[q]
           /\ items'[q] = items[q] /\ reported'[q] = reported[q]
           /\ q \in state' <=> q \in state
           /\ q \in added' => q \in added
           /\ q \in away => q \in away'
           /\ q \in shifted => q \in shifted'
           /\ pc[q] = "list" /\ q \in group \ group' => q \in away'
           /\ pc[q] = "list" /\ (\E m \in group \ group' : m < q) => q \in shifted'
  PROVE  \A q \in Resources \ {r} : ResourceInv(q)'
  <1> SUFFICES ASSUME NEW q \in Resources \ {r} PROVE ResourceInv(q)'
    OBVIOUS
  <1>1. ResourceInv(q) /\ MembersTypeOK
    BY DEF MembersInv
  <1> QED
    BY <1>1, Bystander

LEMMA MembersInvStep == MembersInv /\ [MembersNext]_membersVars => MembersInv'
  <1> SUFFICES ASSUME MembersInv, [MembersNext]_membersVars PROVE MembersInv'
    OBVIOUS
  <1>0. MembersTypeOK /\ MembersTypeOK' /\ \A r \in Resources : ResourceInv(r)
    BY MembersTypeStep DEF MembersInv
  <1> SUFFICES \A r \in Resources : ResourceInv(r)'
    BY <1>0 DEF MembersInv
  <1>c. cursor' = cursor
    BY DEF MembersNext, MemberStep, CreateMember, RefreshMember, ImportMember,
           DeleteMember, AddProfileGroupMembers, RemoveProfileGroupMembers,
           DoAllPages, MemberRequestFails, EditsMembers, membersVars
  <1>m. group \subseteq Members /\ method \in [Resources -> Methods \union {"idle"}]
        /\ pc \in [Resources -> {"idle", "add", "list", "remove"}]
        /\ \A r \in Resources : method[r] = "idle" <=> pc[r] = "idle"
    BY <1>0 DEF MembersTypeOK
  <1>1. CASE UNCHANGED membersVars
    BY <1>0, <1>1 DEF membersVars, ResourceInv, Covered, After, Rank
  <1>2. CASE EditsMembers
    <2>1. PICK g \in SUBSET Members : GroupBecomes(g, {})
      BY <1>m, <1>2 DEF EditsMembers
    <2>2. ASSUME NEW q \in Resources PROVE ResourceInv(q)'
      BY <1>0, <1>c, <1>2, <2>1, Bystander DEF EditsMembers, GroupBecomes, callVars, pageVars
    <2> QED
      BY <2>2
  <1>3. ASSUME NEW r \in Resources, CreateMember(r)
        PROVE  \A q \in Resources : ResourceInv(q)'
    <2>1. \A q \in Resources \ {r} : ResourceInv(q)'
      BY <1>0, <1>c, <1>m, <1>3, OthersKept DEF CreateMember, Calls, KeepsGroup, callVars, pageVars
    <2>2. ResourceInv(r)'
      <3>1. pc'[r] = "add" /\ token'[r] = 0 /\ reported'[r] = "running" /\ method'[r] = "create"
        BY <1>0, <1>3 DEF CreateMember, Calls, pageVars, ResourceInv, MembersTypeOK
      <3> QED
        BY <3>1 DEF ResourceInv
    <2> QED
      BY <2>1, <2>2
  <1>4. ASSUME NEW r \in Resources, RefreshMember(r) \/ ImportMember(r)
        PROVE  \A q \in Resources : ResourceInv(q)'
    <2>1. \A q \in Resources \ {r} : ResourceInv(q)'
      <3>1. /\ UNCHANGED <<group, added, state>>
            /\ \E m \in {"read", "import"} : Calls(r, m, "list")
            /\ BeginsList(r, group)
        BY <1>4 DEF RefreshMember, ImportMember
      <3> QED
        BY <1>0, <1>c, <1>m, <3>1, OthersKept DEF Calls, BeginsList, pageVars
    <2>2. /\ \E m \in {"read", "import"} : Calls(r, m, "list")
          /\ BeginsList(r, group')
          /\ pc[r] # "list"
      BY <1>m, <1>4 DEF RefreshMember, ImportMember, BeginsList
    <2>3. ResourceInv(r)'
      BY <1>0, <2>2, BeginsCovered
    <2> QED
      BY <2>1, <2>3
  <1>5. ASSUME NEW r \in Resources, DeleteMember(r)
        PROVE  \A q \in Resources : ResourceInv(q)'
    <2>1. \A q \in Resources \ {r} : ResourceInv(q)'
      BY <1>0, <1>c, <1>m, <1>5, OthersKept DEF DeleteMember, Calls, KeepsGroup, callVars, pageVars
    <2>2. ResourceInv(r)'
      <3>1. pc'[r] = "remove" /\ token'[r] = 0 /\ reported'[r] = "running" /\ method'[r] = "delete"
        BY <1>0, <1>5 DEF DeleteMember, Calls, pageVars, ResourceInv, MembersTypeOK
      <3> QED
        BY <3>1 DEF ResourceInv
    <2> QED
      BY <2>1, <2>2
  <1>6. ASSUME NEW r \in Resources, AddProfileGroupMembers(r)
        PROVE  \A q \in Resources : ResourceInv(q)'
    <2>1. /\ group' \in {group, group \union {r}}
          /\ added' = added \union (group' \ group)
          /\ pc[r] = "add" /\ state' = state
          /\ \/ Calls(r, "create", "list") /\ BeginsList(r, group')
             \/ Ends(r, "error") /\ UNCHANGED <<away, shifted>>
      BY <1>6 DEF AddProfileGroupMembers, StateAfterAdd
    <2>2. CASE Calls(r, "create", "list") /\ BeginsList(r, group')
      <3>1. \A q \in Resources \ {r} : ResourceInv(q)'
        BY <1>0, <1>c, <1>m, <2>1, <2>2, OthersKept DEF Calls, BeginsList, callVars, pageVars
      <3>2. ResourceInv(r)'
        BY <1>0, <2>1, <2>2, BeginsCovered
      <3> QED
        BY <3>1, <3>2
    <2>3. CASE Ends(r, "error") /\ UNCHANGED <<away, shifted>>
      <3>1. \A q \in Resources \ {r} : ResourceInv(q)'
        BY <1>0, <1>c, <1>m, <2>1, <2>3, OthersKept DEF Ends
      <3>2. ResourceInv(r)'
        BY <1>0, <2>3, EndsWithError
      <3> QED
        BY <3>1, <3>2
    <2> QED
      BY <2>1, <2>2, <2>3
  <1>7. ASSUME NEW r \in Resources, RemoveProfileGroupMembers(r)
        PROVE  \A q \in Resources : ResourceInv(q)'
    <2>1. PICK acted \in BOOLEAN, results \in Results :
            /\ MayAnswer(results, acted)
            /\ GroupBecomes(IF acted THEN group \ {r} ELSE group, {})
            /\ IF Validate(results)
                 THEN /\ Ends(r, IF results = "none" /\ ~acted THEN "trusted"
                                                              ELSE "done")
                      /\ state' = state \ {r}
                 ELSE Ends(r, "error") /\ state' = state
      BY <1>7 DEF RemoveProfileGroupMembers
    <2>2. \A q \in Resources \ {r} : ResourceInv(q)'
      <3>1. PICK report \in Reports : Ends(r, report)
        BY <2>1 DEF Reports
      <3>2. PICK g \in {group, group \ {r}} : GroupBecomes(g, {})
        BY <2>1
      <3>3. \A q \in Resources \ {r} : q \in state' <=> q \in state
        BY <2>1
      <3> QED
        BY <1>0, <1>c, <1>m, <3>1, <3>2, <3>3, OthersKept DEF Ends, GroupBecomes
    <2>3. CASE Validate(results)
      <3>1. acted \/ results = "none"
        BY <2>1, <2>3 DEF Validate, MayAnswer
      <3>2. acted => r \notin added'
        BY <2>1 DEF GroupBecomes
      <3>3. /\ pc'[r] = "idle" /\ token'[r] = 0
            /\ reported'[r] \in {"done", "trusted"}
            /\ ~acted => reported'[r] = "trusted"
        BY <1>0, <2>1, <2>3, <3>1 DEF Ends, MembersTypeOK
      <3>4. ResourceInv(r)'
        BY <3>2, <3>3 DEF ResourceInv
      <3> QED
        BY <2>2, <3>4
    <2>4. CASE ~Validate(results)
      BY <1>0, <2>1, <2>2, <2>4, EndsWithError
    <2> QED
      BY <2>3, <2>4
  <1>8. ASSUME NEW r \in Resources, DoAllPages(r)
        PROVE  \A q \in Resources : ResourceInv(q)'
    <2>0. /\ UNCHANGED <<group, added, away, shifted>> /\ pc[r] = "list"
          /\ ResourceInv(r) /\ token[r] \in Nat
      BY <1>0, <1>8 DEF DoAllPages, KeepsGroup, MembersTypeOK
    <2>1. PICK p \in SUBSET group :
            /\ IsPage(p, token[r])
            /\ \/ p = After(token[r]) /\ ReadMember(r, items[r] \union p)
               \/ \E n \in NextTokens(r, p) :
                    IF Repeated(r, n) THEN Ends(r, "error") /\ state' = state
                                      ELSE FollowsToken(r, p, n)
      BY <1>8 DEF DoAllPages
    <2>2. CASE p = After(token[r]) /\ ReadMember(r, items[r] \union p)
      <3>1. \A q \in Resources \ {r} : ResourceInv(q)'
        <4>1. PICK report \in Reports : Ends(r, report)
          BY <2>2 DEF ReadMember, Reports
        <4>2. \A q \in Resources \ {r} : q \in state' <=> q \in state
          BY <2>2 DEF ReadMember
        <4> QED
          BY <1>0, <1>c, <1>m, <2>0, <4>1, <4>2, OthersKept DEF Ends
      <3>2. Covered(r) => r \in items[r] \union p
        BY <2>2 DEF Covered
      <3>3. CASE r \in items[r] \union p
        <4>1. pc'[r] = "idle" /\ token'[r] = 0 /\ reported'[r] = "done" /\ r \in state'
          BY <1>0, <2>2, <3>3 DEF ReadMember, Ends, MembersTypeOK
        <4> QED
          BY <3>1, <4>1 DEF ResourceInv
      <3>4. CASE r \notin items[r] \union p
        <4>1. pc'[r] = "idle" /\ token'[r] = 0 /\ reported'[r] = "missing"
          BY <1>0, <2>2, <3>4 DEF ReadMember, Ends, MembersTypeOK
        <4>2. r \in added => cursor = "offset" /\ r \in shifted
          BY <1>0, <2>0, <3>2, <3>4 DEF ResourceInv, MembersTypeOK
        <4>3. r \in away \/ (cursor = "offset" /\ r \in shifted)
          BY <1>0, <2>0, <3>2, <3>4 DEF ResourceInv, MembersTypeOK
        <4>4. ResourceInv(r)'
          BY <1>c, <2>0, <4>1, <4>2, <4>3 DEF ResourceInv
        <4> QED
          BY <3>1, <4>4
      <3> QED
        BY <3>3, <3>4
    <2>3. ASSUME NEW n \in NextTokens(r, p), Repeated(r, n), Ends(r, "error"),
                 state' = state
          PROVE  \A q \in Resources : ResourceInv(q)'
      <3>1. \A q \in Resources \ {r} : ResourceInv(q)'
        BY <1>0, <1>c, <1>m, <2>0, <2>3, OthersKept DEF Ends
      <3>2. ResourceInv(r)'
        BY <1>0, <2>3, EndsWithError
      <3> QED
        BY <3>1, <3>2
    <2>4. ASSUME NEW n \in NextTokens(r, p), ~Repeated(r, n), FollowsToken(r, p, n)
          PROVE  \A q \in Resources : ResourceInv(q)'
      <3>1. \A q \in Resources \ {r} : ResourceInv(q)'
        BY <1>0, <1>c, <1>m, <2>0, <2>4, OthersKept DEF FollowsToken, callVars, MembersTypeOK
      <3>2. n \in Nat /\ IsNext(n, p, token[r])
        <4>1. n \in {k \in Members \union 1..Cardinality(Members) :
                        IsNext(k, p, token[r])}
          BY <2>4 DEF NextTokens, Repeated
        <4>2. n \in Members \/ n \in 1..Cardinality(Members)
          BY <4>1
        <4>3. n \in Nat
          <5>1. Cardinality(Members) \in Nat
            BY MembersAssumption, FS_CardinalityType
          <5>2. CASE n \in Members
            BY <5>2, MembersAreNumbers
          <5>3. CASE n \in 1..Cardinality(Members)
            BY <5>1, <5>3
          <5> QED
            BY <4>2, <5>2, <5>3
        <4> QED
          BY <4>1, <4>3
      <3>3. /\ token'[r] = n /\ items'[r] = items[r] \union p
            /\ UNCHANGED <<callVars, state>>
        BY <1>0, <2>4 DEF FollowsToken, MembersTypeOK
      <3>4. ASSUME r \in group, Covered(r)
            PROVE  Covered(r)'
        <4>1. CASE r \in items[r] \union p
          BY <3>3, <4>1 DEF Covered
        <4>2. CASE r \notin items[r] \union p
          <5>1. r \in After(token[r])
            BY <3>4, <4>2 DEF Covered
          <5>2. cursor \in {"key", "offset"}
            BY <1>0 DEF MembersTypeOK
          <5>3. r \in After(n)
            BY <1>m, <2>0, <2>1, <3>2, <3>4, <4>2, <5>1, <5>2, BehindNext
          <5>4. r \in After(n)'
            BY <1>c, <2>0, <5>3 DEF After, Rank
          <5> QED
            BY <3>3, <5>4 DEF Covered, After, Rank
        <4> QED
          BY <4>1, <4>2
      <3>5. added \subseteq group
        BY <1>0 DEF MembersTypeOK
      <3>6. ResourceInv(r)'
        BY <1>c, <2>0, <3>3, <3>4, <3>5 DEF ResourceInv, callVars
      <3> QED
        BY <3>1, <3>6
    <2> QED
      BY <2>1, <2>2, <2>3, <2>4
  <1>9. ASSUME NEW r \in Resources, MemberRequestFails(r)
        PROVE  \A q \in Resources : ResourceInv(q)'
    <2>1. PICK g \in MayHaveActed(r) : GroupBecomes(g, g \ group)
      BY <1>9 DEF MemberRequestFails
    <2>2. g \in {group, group \union {r}, group \ {r}}
      BY <2>1 DEF MayHaveActed
    <2>3. Ends(r, "error") /\ state' = state
      BY <1>9 DEF MemberRequestFails
    <2>4. \A q \in Resources \ {r} : ResourceInv(q)'
      BY <1>0, <1>c, <1>m, <2>1, <2>2, <2>3, OthersKept DEF Ends, GroupBecomes
    <2>5. ResourceInv(r)'
      BY <1>0, <2>3, EndsWithError
    <2> QED
      BY <2>4, <2>5
  <1> QED
    BY <1>1, <1>2, <1>3, <1>4, <1>5, <1>6, <1>7, <1>8, <1>9 DEF MembersNext, MemberStep

THEOREM MembersInvHolds == MembersSpec => []MembersInv
  BY InitMembersInv, MembersInvStep, PTL DEF MembersSpec

THEOREM MembersTypeCorrect == MembersSpec => []MembersTypeOK
  BY MembersInvHolds, PTL DEF MembersInv

\* A member counts as missing only when it was out of the group at some moment
\* of the list call that missed it, or, where a service counts its entries,
\* when one before it left.
THEOREM MissingWereAway == MembersSpec => []MissingWasAway
  <1>1. MembersInv => MissingWasAway
    BY DEF MembersInv, ResourceInv, MissingWasAway
  <1> QED
    BY <1>1, MembersInvHolds, PTL

\* A member that a resource added is in the Terraform state when the resource
\* is idle, or its last method ended with an error, or the answer to its Delete
\* had no results, or entries before it left a list that counts them.
THEOREM NoMemberIsSilent == MembersSpec => []NoSilentMember
  <1>1. MembersInv => NoSilentMember
    BY DEF MembersInv, ResourceInv, NoSilentMember
  <1> QED
    BY <1>1, MembersInvHolds, PTL

----------------------------------------------------------------------------
(* DMARCDomainGroupMembers.                                                *)

\* The plan of an Update repeats the state, which no Read replaces meanwhile.
PlanInv == groupPlan # Nothing => groupPlan = groupState

\* State and service differ by what came or went since the group was read.
SeenInv ==
  (Exists /\ groupState # Nothing) =>
    (included \ groupState) \union (groupState \ included) \subseteq unseen

\* AssociationsHold without the exception for a Delete under way.
HeldInv == \A d \in associations : Holds(d) \/ d \in unconfirmed

DomainsInv == DomainsTypeOK /\ PlanInv /\ SeenInv /\ HeldInv

----------------------------------------------------------------------------
\* DomainsInv holds when the provider starts.
LEMMA InitDomainsInv == DomainsInit => DomainsInv
  <1> SUFFICES ASSUME DomainsInit PROVE DomainsInv
    OBVIOUS
  <1> USE DomainsAssumption DEF DomainsInit
  <1>1. DomainsTypeOK
    BY DEF DomainsTypeOK
  <1>2. PlanInv /\ SeenInv /\ HeldInv
    BY DEF PlanInv, SeenInv, HeldInv
  <1> QED
    BY <1>1, <1>2 DEF DomainsInv

\* No step leaves the types.
LEMMA DomainsTypeStep ==
  ASSUME DomainsTypeOK, [DomainsNext]_domainVars
  PROVE  DomainsTypeOK'
  <1> USE DomainsAssumption DEF DomainsTypeOK, domainVars, groupVars, Exists
  <1>1. CASE ReadGroup
    BY <1>1 DEF ReadGroup, SetsGroupState, FromAPI
  <1>2. CASE PlanUpdateGroup
    BY <1>2 DEF PlanUpdateGroup
  <1>3. CASE UpdateManagedDMARCDomainGroup
    BY <1>3 DEF UpdateManagedDMARCDomainGroup, Puts
  <1>4. CASE GetManagedDMARCDomainGroup
    BY <1>4 DEF GetManagedDMARCDomainGroup, SetsGroupState, FromAPI
  <1>5. CASE UpdateGroupFails
    BY <1>5 DEF UpdateGroupFails, Puts
  <1>6. ASSUME NEW d \in Domains, CreateAssociation(d)
        PROVE  DomainsTypeOK'
    BY <1>6 DEF CreateAssociation, Awaits
  <1>7. ASSUME NEW d \in Domains, AddManagedDMARCDomainGroupAssociation(d)
        PROVE  DomainsTypeOK'
    BY <1>7 DEF AddManagedDMARCDomainGroupAssociation, BecomesByOthers, Awaits,
                AssociationsAfterAdd
  <1>8. ASSUME NEW d \in Domains, GetManagedDMARCDomainGroupAssociation(d)
        PROVE  DomainsTypeOK'
    BY <1>8 DEF GetManagedDMARCDomainGroupAssociation, Awaits
  <1>9. ASSUME NEW d \in Domains, ReadAssociation(d)
        PROVE  DomainsTypeOK'
    BY <1>9 DEF ReadAssociation
  <1>10. ASSUME NEW d \in Domains, DeleteAssociation(d)
         PROVE  DomainsTypeOK'
    BY <1>10 DEF DeleteAssociation, Awaits
  <1>11. ASSUME NEW d \in Domains, RemoveManagedDMARCDomainGroupAssociation(d)
         PROVE  DomainsTypeOK'
    BY <1>11 DEF RemoveManagedDMARCDomainGroupAssociation, BecomesByOthers, Awaits
  <1>12. ASSUME NEW d \in Domains, AssociationFails(d)
         PROVE  DomainsTypeOK'
    BY <1>12 DEF AssociationFails, BecomesByOthers, Awaits, StateAfterFailure
  <1>13. CASE EditsGroup
    BY <1>13 DEF EditsGroup, BecomesByOthers
  <1>14. CASE UNCHANGED domainVars
    BY <1>14
  <1> QED
    BY <1>1, <1>2, <1>3, <1>4, <1>5, <1>6, <1>7, <1>8, <1>9, <1>10, <1>11,
       <1>12, <1>13, <1>14 DEF DomainsNext

\* A PUT writes what the state says, and so undoes only what is unseen.
LEMMA PutsWhatIsSeen ==
  ASSUME DomainsInv, Puts
  PROVE  /\ included' = groupState
         /\ (included \ included') \union (included' \ included) \subseteq unseen
  BY DEF DomainsInv, DomainsTypeOK, PlanInv, SeenInv, Puts, Exists

\* The rest of DomainsInv is kept by the steps of the group.
LEMMA GroupStep ==
  ASSUME DomainsInv,
         \/ ReadGroup \/ PlanUpdateGroup \/ UpdateManagedDMARCDomainGroup
         \/ GetManagedDMARCDomainGroup \/ UpdateGroupFails
  PROVE  PlanInv' /\ SeenInv' /\ HeldInv'
  <1> USE DomainsAssumption DEF groupVars, Exists, PlanInv, SeenInv, HeldInv, Holds
  <1>0. DomainsTypeOK /\ PlanInv /\ SeenInv /\ HeldInv
    BY DEF DomainsInv
  <1>1. CASE ReadGroup
    BY <1>0, <1>1 DEF ReadGroup, SetsGroupState, FromAPI
  <1>2. CASE PlanUpdateGroup
    BY <1>0, <1>2 DEF PlanUpdateGroup
  <1>3. ASSUME Puts, UNCHANGED <<groupState, associations, unseen>>
        PROVE  SeenInv' /\ HeldInv'
    <2>1. included' = groupState /\ groupState # Nothing /\ included # Nothing
      BY <1>0, <1>3, PutsWhatIsSeen DEF Puts, DomainsTypeOK
    <2>2. SeenInv'
      BY <1>3, <2>1
    <2>3. \A d \in included \ groupState : d \in unseen
      BY <1>0, <2>1
    <2>4. unconfirmed' = unconfirmed \union ((included \ groupState) \intersect unseen)
      BY <1>0, <1>3, <2>1 DEF Puts
    <2>5. HeldInv'
      BY <1>0, <1>3, <2>1, <2>3, <2>4
    <2> QED
      BY <2>2, <2>5
  <1>4. CASE UpdateManagedDMARCDomainGroup
    BY <1>0, <1>3, <1>4 DEF UpdateManagedDMARCDomainGroup
  <1>5. CASE GetManagedDMARCDomainGroup
    BY <1>0, <1>5 DEF GetManagedDMARCDomainGroup, SetsGroupState, FromAPI
  <1>6. CASE UpdateGroupFails
    BY <1>0, <1>3, <1>6 DEF UpdateGroupFails
  <1> QED
    BY <1>1, <1>2, <1>4, <1>5, <1>6

\* It is kept by the steps of an association.
LEMMA AssociationStep ==
  ASSUME DomainsInv, NEW d \in Domains,
         \/ CreateAssociation(d) \/ AddManagedDMARCDomainGroupAssociation(d)
         \/ GetManagedDMARCDomainGroupAssociation(d) \/ ReadAssociation(d)
         \/ DeleteAssociation(d) \/ RemoveManagedDMARCDomainGroupAssociation(d)
         \/ AssociationFails(d)
  PROVE  PlanInv' /\ SeenInv' /\ HeldInv'
  <1> USE DEF groupVars, Exists, PlanInv, SeenInv, HeldInv, Holds
  <1>0. DomainsTypeOK /\ PlanInv /\ SeenInv /\ HeldInv
    BY DEF DomainsInv
  <1>a. Exists => included \union {d} # Nothing /\ included \ {d} # Nothing
    <2>1. Exists => /\ included \union {d} \in SUBSET Domains
                    /\ included \ {d} \in SUBSET Domains
      BY <1>0 DEF DomainsTypeOK
    <2> QED
      BY <2>1, DomainsAssumption
  <1>1. CASE CreateAssociation(d)
    BY <1>0, <1>1 DEF CreateAssociation
  <1>2. CASE AddManagedDMARCDomainGroupAssociation(d)
    BY <1>0, <1>a, <1>2 DEF AddManagedDMARCDomainGroupAssociation, BecomesByOthers,
                      AssociationsAfterAdd, DomainsTypeOK
  <1>3. CASE GetManagedDMARCDomainGroupAssociation(d)
    BY <1>0, <1>3 DEF GetManagedDMARCDomainGroupAssociation
  <1>4. CASE ReadAssociation(d)
    BY <1>0, <1>4 DEF ReadAssociation
  <1>5. CASE DeleteAssociation(d)
    BY <1>0, <1>5 DEF DeleteAssociation
  <1>6. CASE RemoveManagedDMARCDomainGroupAssociation(d)
    BY <1>0, <1>a, <1>6 DEF RemoveManagedDMARCDomainGroupAssociation, BecomesByOthers
  <1>7. CASE AssociationFails(d)
    <2>1. CASE UNCHANGED <<included, unseen, unconfirmed>>
      BY <1>0, <1>7, <2>1 DEF AssociationFails, StateAfterFailure
    <2>2. CASE /\ call[d] = "add" /\ Exists
               /\ BecomesByOthers(included \union {d})
               /\ UNCHANGED unconfirmed
      BY <1>0, <1>a, <1>7, <2>2 DEF AssociationFails, BecomesByOthers,
                                   StateAfterFailure
    <2>3. CASE /\ call[d] = "remove" /\ Exists
               /\ BecomesByOthers(included \ {d})
               /\ unconfirmed' = unconfirmed \union {d}
      BY <1>0, <1>a, <1>7, <2>3 DEF AssociationFails, BecomesByOthers,
                                   StateAfterFailure
    <2> QED
      BY <1>7, <2>1, <2>2, <2>3 DEF AssociationFails
  <1> QED
    BY <1>1, <1>2, <1>3, <1>4, <1>5, <1>6, <1>7

\* It is kept by other administrators.
LEMMA EditStep ==
  ASSUME DomainsInv, EditsGroup
  PROVE  PlanInv' /\ SeenInv' /\ HeldInv'
  <1> USE DEF groupVars, Exists, PlanInv, SeenInv, HeldInv, Holds
  <1>0. DomainsTypeOK /\ PlanInv /\ SeenInv /\ HeldInv
    BY DEF DomainsInv
  <1>1. ASSUME NEW s, BecomesByOthers(s), s # Nothing, Exists,
               unconfirmed' = unconfirmed \union (included \ s),
               UNCHANGED <<groupVars, associations, call>>
        PROVE  PlanInv' /\ SeenInv' /\ HeldInv'
    BY <1>0, <1>1 DEF BecomesByOthers
  <1>2. ASSUME included' = Nothing, unconfirmed' = Domains,
               UNCHANGED <<groupVars, associations, call>>
        PROVE  PlanInv' /\ SeenInv' /\ HeldInv'
    BY <1>0, <1>2 DEF DomainsTypeOK
  <1> QED
    <2>1. \A d \in Domains : \A s \in {included \union {d}, included \ {d}} :
            Exists => s \in SUBSET Domains
      BY <1>0 DEF DomainsTypeOK
    <2> QED
      BY <1>1, <1>2, <2>1, DomainsAssumption DEF EditsGroup

\* DomainsInv is inductive.
LEMMA DomainsInvStep == DomainsInv /\ [DomainsNext]_domainVars => DomainsInv'
  <1> SUFFICES ASSUME DomainsInv, [DomainsNext]_domainVars
               PROVE  DomainsInv'
    OBVIOUS
  <1>1. DomainsTypeOK'
    BY DomainsTypeStep DEF DomainsInv
  <1>2. PlanInv' /\ SeenInv' /\ HeldInv'
    <2>1. CASE UNCHANGED domainVars
      BY <2>1 DEF DomainsInv, domainVars, groupVars, PlanInv, SeenInv, HeldInv,
                  Exists, Holds
    <2>2. CASE DomainsNext
      BY <2>2, GroupStep, AssociationStep, EditStep DEF DomainsNext
    <2> QED
      BY <2>1, <2>2
  <1> QED
    BY <1>1, <1>2 DEF DomainsInv

----------------------------------------------------------------------------
\* The inductive invariant of a group and its associations.
THEOREM DomainsInvHolds == DomainsSpec => []DomainsInv
  BY InitDomainsInv, DomainsInvStep, PTL DEF DomainsSpec

\* Every variable keeps its type, and no association is in the state while
\* its Create runs.
THEOREM DomainsTypeCorrect == DomainsSpec => []DomainsTypeOK
  <1>1. DomainsInv => DomainsTypeOK
    BY DEF DomainsInv
  <1> QED
    BY <1>1, DomainsInvHolds, PTL

\* Associations in the state are in the group, unless something the provider
\* cannot know of took them out.
THEOREM AssociationsAreHeld == DomainsSpec => []AssociationsHold
  <1>1. DomainsInv => AssociationsHold
    BY DEF DomainsInv, HeldInv, AssociationsHold
  <1> QED
    BY <1>1, DomainsInvHolds, PTL

\* An Update of the group undoes only what happened since the group was read.
THEOREM PutsKeepWhatTheySaw == DomainsSpec => PutKeepsWhatItSaw
  <1> DEFINE Keeps ==
        groupCall = "put" /\ groupCall' = "get" =>
          (included \ included') \union (included' \ included) \subseteq unseen
  <1>1. DomainsInv /\ [DomainsNext]_domainVars => [Keeps]_domainVars
    <2> SUFFICES ASSUME DomainsInv, DomainsNext, groupCall = "put",
                        groupCall' = "get"
                 PROVE  Puts
      BY PutsWhatIsSeen
    <2>1. \A d \in Domains :
            ~(\/ CreateAssociation(d) \/ AddManagedDMARCDomainGroupAssociation(d)
              \/ GetManagedDMARCDomainGroupAssociation(d) \/ ReadAssociation(d)
              \/ DeleteAssociation(d) \/ RemoveManagedDMARCDomainGroupAssociation(d)
              \/ AssociationFails(d))
      BY DEF groupVars, CreateAssociation, AddManagedDMARCDomainGroupAssociation,
             GetManagedDMARCDomainGroupAssociation, ReadAssociation,
             DeleteAssociation, RemoveManagedDMARCDomainGroupAssociation,
             AssociationFails
    <2> QED
      BY <2>1 DEF DomainsNext, groupVars, ReadGroup, PlanUpdateGroup,
                  UpdateManagedDMARCDomainGroup, GetManagedDMARCDomainGroup,
                  UpdateGroupFails, EditsGroup
  <1> QED
    BY <1>1, DomainsInvHolds, PTL DEF DomainsSpec, PutKeepsWhatItSaw

=============================================================================
