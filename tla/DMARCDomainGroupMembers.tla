---------------------- MODULE DMARCDomainGroupMembers ----------------------
(***************************************************************************)
(* One DMARC domain group that two kinds of resources write:               *)
(* mimecast_dmarc_domain_group replaces the whole list of included domains *)
(* with the one in its plan, mimecast_dmarc_domain_group_association adds  *)
(* and removes a single domain (internal/provider/dmarc_resources.go and   *)
(* dmarc_extended_resources.go).  The configuration of the group leaves    *)
(* included_domain_ids out: the plan then repeats what the state says      *)
(* (UseStateForUnknown), as it was when the group was last read.           *)
(*                                                                         *)
(* Terraform orders the methods of one run by references only.  Each       *)
(* request acts at one moment; when it fails it may have acted.            *)
(*                                                                         *)
(* The group exists at first; its other methods are in ResourceLifecycle.  *)
(***************************************************************************)
EXTENDS Naturals, FiniteSets

CONSTANTS
  Domains,        \* the managed domains
  Nothing,        \* no group, no state, no plan
  MaxGroupEdits   \* bounds the edits of other administrators

ASSUME DomainsAssumption == 
  /\ MaxGroupEdits \in Nat
  /\ \A s \in SUBSET Domains : s # Nothing

VARIABLES
  included,     \* the domains in the group on the service, or Nothing
  groupState,   \* included_domain_ids in the group's Terraform state
  groupPlan,    \* included_domain_ids in the plan of its Update
  groupCall,    \* the request the group's Update waits for
  associations, \* the association resources in the Terraform state
  call,         \* call[d]: the request d's association waits for
  groupEdits,   \* edits of other administrators so far
  \* history
  unseen,       \* domains that came or went since groupState was read
  unconfirmed   \* domains whose association may be gone: others removed
                \* them, or a Delete failed

groupVars == <<groupState, groupPlan, groupCall>>
domainVars == <<included, groupVars, associations, call, groupEdits, unseen,
                unconfirmed>>

Exists == included # Nothing
Holds(d) == Exists /\ d \in included

\* The service's list becomes s by a request or edit that is not the group's.
BecomesByOthers(s) ==
  /\ included' = s
  /\ unseen' = unseen \union (included \ s) \union (s \ included)

----------------------------------------------------------------------------
(* The group.                                                              *)

\* fromAPI: the domains of the answer, whatever plan and state said.
FromAPI(answer) == answer

SetsGroupState ==
  /\ groupState' = FromAPI(included)
  /\ unseen' = {}

\* Read, when no plan is being applied.
ReadGroup ==
  /\ groupState # Nothing /\ groupPlan = Nothing
  /\ IF Exists THEN SetsGroupState
               ELSE groupState' = Nothing /\ unseen' = {}
  /\ UNCHANGED <<included, groupPlan, groupCall, associations, call,
                 groupEdits, unconfirmed>>

\* A plan that changes the name or the like, and repeats the rest.
PlanUpdateGroup ==
  /\ groupState # Nothing /\ groupPlan = Nothing
  /\ groupPlan' = groupState
  /\ groupCall' = "put"
  /\ UNCHANGED <<included, groupState, associations, call, groupEdits, unseen,
                 unconfirmed>>

\* A PUT of everything.  It may undo what the plan has not seen.
Puts ==
  /\ groupCall = "put" /\ Exists
  /\ included' = groupPlan
  /\ unconfirmed' = unconfirmed \union ((included \ groupPlan) \intersect unseen)

UpdateManagedDMARCDomainGroup ==
  /\ Puts
  /\ groupCall' = "get"
  /\ UNCHANGED <<groupState, groupPlan, associations, call, groupEdits, unseen>>

GetManagedDMARCDomainGroup ==
  /\ groupCall = "get" /\ Exists
  /\ SetsGroupState
  /\ groupPlan' = Nothing /\ groupCall' = "idle"
  /\ UNCHANGED <<included, associations, call, groupEdits, unconfirmed>>

\* The state stays; the PUT may have acted.
UpdateGroupFails ==
  /\ groupCall # "idle"
  /\ \/ UNCHANGED <<included, unconfirmed>>
     \/ Puts
  /\ groupPlan' = Nothing /\ groupCall' = "idle"
  /\ UNCHANGED <<groupState, associations, call, groupEdits, unseen>>

----------------------------------------------------------------------------
(* The associations.                                                       *)

Awaits(d, c) == call' = [call EXCEPT ![d] = c]

CreateAssociation(d) ==
  /\ call[d] = "idle" /\ d \notin associations
  /\ Awaits(d, "add")
  /\ UNCHANGED <<included, groupVars, associations, groupEdits, unseen,
                 unconfirmed>>

AssociationsAfterAdd(d) == associations

AddManagedDMARCDomainGroupAssociation(d) ==
  /\ call[d] = "add" /\ Exists
  /\ BecomesByOthers(included \union {d})
  /\ Awaits(d, "get")
  /\ associations' = AssociationsAfterAdd(d)
  /\ unconfirmed' = unconfirmed \ {d}
  /\ UNCHANGED <<groupVars, groupEdits>>

\* Membership is read through the parent; a domain the group does not hold is
\* a 404, which ends a Create with an error.
GetManagedDMARCDomainGroupAssociation(d) ==
  /\ call[d] = "get" /\ Exists
  /\ associations' =
       IF Holds(d) THEN associations \union {d} ELSE associations
  /\ Awaits(d, "idle")
  /\ UNCHANGED <<included, groupVars, groupEdits, unseen, unconfirmed>>

\* Read: 404 of the group and of the domain both drop the association.
ReadAssociation(d) ==
  /\ call[d] = "idle" /\ d \in associations
  /\ associations' =
       IF Holds(d) THEN associations ELSE associations \ {d}
  /\ UNCHANGED <<included, groupVars, call, groupEdits, unseen, unconfirmed>>

DeleteAssociation(d) ==
  /\ call[d] = "idle" /\ d \in associations
  /\ Awaits(d, "remove")
  /\ UNCHANGED <<included, groupVars, associations, groupEdits, unseen,
                 unconfirmed>>

\* 404 counts as removed.
RemoveManagedDMARCDomainGroupAssociation(d) ==
  /\ call[d] = "remove"
  /\ IF Exists THEN BecomesByOthers(included \ {d})
               ELSE UNCHANGED <<included, unseen>>
  /\ associations' = associations \ {d}
  /\ Awaits(d, "idle")
  /\ UNCHANGED <<groupVars, groupEdits, unconfirmed>>

IgnoresFailure(d) == associations \union {d}  \* (bug)
StateAfterFailure(d) == associations

AssociationFails(d) ==
  /\ call[d] # "idle"
  /\ \/ UNCHANGED <<included, unseen, unconfirmed>>
     \/ /\ call[d] = "add" /\ Exists
        /\ BecomesByOthers(included \union {d})
        /\ UNCHANGED unconfirmed
     \/ /\ call[d] = "remove" /\ Exists
        /\ BecomesByOthers(included \ {d})
        /\ unconfirmed' = unconfirmed \union {d}
  /\ associations' = StateAfterFailure(d)
  /\ Awaits(d, "idle")
  /\ UNCHANGED <<groupVars, groupEdits>>

----------------------------------------------------------------------------
\* Other administrators; they may remove the group with everything in it.
EditsGroup ==
  /\ groupEdits < MaxGroupEdits /\ groupEdits' = groupEdits + 1
  /\ Exists
  /\ \/ \E d \in Domains : \E s \in {included \union {d}, included \ {d}} :
          /\ s # included
          /\ BecomesByOthers(s)
          /\ unconfirmed' = unconfirmed \union (included \ s)
     \/ /\ included' = Nothing
        /\ unseen' = Domains /\ unconfirmed' = Domains
  /\ UNCHANGED <<groupVars, associations, call>>

----------------------------------------------------------------------------
DomainsInit ==
  /\ included \in SUBSET Domains
  /\ groupState = included
  /\ groupPlan = Nothing /\ groupCall = "idle"
  /\ associations = {}
  /\ call = [d \in Domains |-> "idle"]
  /\ groupEdits = 0
  /\ unseen = {} /\ unconfirmed = {}

DomainsNext ==
  \/ ReadGroup \/ PlanUpdateGroup \/ UpdateManagedDMARCDomainGroup
  \/ GetManagedDMARCDomainGroup \/ UpdateGroupFails
  \/ \E d \in Domains :
       \/ CreateAssociation(d) \/ AddManagedDMARCDomainGroupAssociation(d)
       \/ GetManagedDMARCDomainGroupAssociation(d)
       \/ ReadAssociation(d)
       \/ DeleteAssociation(d) \/ RemoveManagedDMARCDomainGroupAssociation(d)
       \/ AssociationFails(d)
  \/ EditsGroup

DomainsSpec == DomainsInit /\ [][DomainsNext]_domainVars

----------------------------------------------------------------------------
(* Properties.                                                             *)

DomainsTypeOK ==
  /\ included = Nothing \/ included \subseteq Domains
  /\ groupState = Nothing \/ groupState \subseteq Domains
  /\ groupPlan = Nothing \/ groupPlan \subseteq Domains
  /\ groupCall \in {"idle", "put", "get"}
  /\ groupPlan = Nothing <=> groupCall = "idle"
  /\ associations \subseteq Domains
  /\ call \in [Domains -> {"idle", "add", "get", "remove"}]
  /\ \A d \in Domains : call[d] \in {"add", "get"} => d \notin associations
  /\ groupEdits \in 0..MaxGroupEdits
  /\ unseen \subseteq Domains /\ unconfirmed \subseteq Domains

\* An association in the Terraform state is in the group, unless another
\* administrator removed it, its Delete failed half way, or an Update of the
\* group was planned from a list that did not have it yet.  An Update planned
\* later keeps it, although it sends the whole list.
\* (toAPI dmarc_resources.go:435-448, fromAPI :450-469)
AssociationsHold ==
  \A d \in associations : call[d] = "idle" => Holds(d) \/ d \in unconfirmed

\* An Update of the group whose configuration leaves the list out undoes only
\* what happened since the group was read.
\* (UseStateForUnknown dmarc_resources.go:344, UpdateManagedDMARCDomainGroup
\* client/dmarc_resources.go:202-206)
PutKeepsWhatItSaw ==
  [][groupCall = "put" /\ groupCall' = "get" =>
       (included \ included') \union (included' \ included) \subseteq unseen
    ]_domainVars

=============================================================================
