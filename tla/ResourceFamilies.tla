-------------------------- MODULE ResourceFamilies --------------------------
(***************************************************************************)
(* How the CRUD methods of the provider's resources differ, one definition *)
(* per resource.  Everything they have in common is in ResourceLifecycle.  *)
(*                                                                         *)
(*   key      who names the object: the service when it is created         *)
(*            ("assigned"), the configuration ("natural"), or nobody, as   *)
(*            there is one per account ("singleton")                       *)
(*   update   what Update sends: PATCH of every attribute that is set      *)
(*            ("patch"), PUT of the whole object ("replace"), PATCH of     *)
(*            what differs from the Terraform state ("diff"), PATCH of the *)
(*            one attribute that Create cannot send ("status"); or nothing, *)
(*            as every change replaces the object ("none")                 *)
(*   secret   the write-only attribute: "no", "optional" or "required" at  *)
(*            creation; "enabled": optional, and also sent by an update    *)
(*            that starts to use it; "rotated": required, and every update *)
(*            names the secret it replaces                                 *)
(*   vanish   a Read answered 404 removes the resource from the state      *)
(*   gone     a Delete answered 404 counts as done                         *)
(*   details  a second request completes every read: "none"; its failure   *)
(*            keeps a write out of the state ("strict"), or does not       *)
(*            ("lax")                                                      *)
(*   keeps    an attribute that an answer leaves out stays as planned, or    *)
(*            as it was in the state; otherwise it becomes null.  Where only *)
(*            some attributes stay, TRUE: the others are as in the family of *)
(*            the same kind with FALSE                                       *)
(*   settles  computed attributes that an answer, or missing details,      *)
(*            leave out become null; otherwise they stay as planned        *)
(***************************************************************************)

Family ==
  [ key     : {"assigned", "natural", "singleton"},
    update  : {"patch", "replace", "diff", "status", "none"},
    secret  : {"no", "optional", "enabled", "required", "rotated"},
    vanish  : BOOLEAN,
    gone    : BOOLEAN,
    details : {"none", "strict", "lax"},
    keeps   : BOOLEAN,
    settles : BOOLEAN ]

\* The policies of policy_resource.go: greylisting, delivery route,
\* anti-spoofing and its bypass, blocked sender, DNS authentication outbound.
\* The attribute of a target stays (setTarget).
Policy ==
  [ key |-> "assigned", update |-> "patch", secret |-> "no", vanish |-> TRUE,
    gone |-> TRUE, details |-> "none", keeps |-> TRUE, settles |-> TRUE ]

DNSAuthenticationOutboundDefinition == [Policy EXCEPT !.keeps = FALSE]

\* The password travels with the authentication block, if there is one.
DeliveryRouteDefinition ==
  [DNSAuthenticationOutboundDefinition EXCEPT !.secret = "optional"]

ProfileGroup == DNSAuthenticationOutboundDefinition

\* group_id/member; removing a member that is not there is an error.
ProfileGroupMember ==
  [ProfileGroup EXCEPT !.key = "natural", !.update = "none", !.gone = FALSE]

\* The account's list: put and read back; a Read never removes it.
OutboundIPAddresses ==
  [ProfileGroup EXCEPT !.key = "singleton", !.update = "replace", !.vanish = FALSE]

\* setDirectoryString and its like skip what the answer does not have.
ActiveDirectoryIntegration ==
  [Policy EXCEPT !.update = "diff", !.secret = "required"]

GoogleDirectoryIntegration ==
  [Policy EXCEPT !.update = "diff", !.secret = "required"]

M365DirectoryIntegration == [Policy EXCEPT !.update = "diff"]

\* The attributes of the connection the answer does not have stay as planned.
JournalingService ==
  [Policy EXCEPT !.update = "diff", !.secret = "enabled", !.settles = FALSE]

CloudIntegratedPolicy == ProfileGroup

\* Created by its domain alone; the activity status needs an update.
DMARCManagedDomain == [ProfileGroup EXCEPT !.update = "status"]

DMARCDomainGroup == [ProfileGroup EXCEPT !.update = "replace"]

DMARCNotification == [ProfileGroup EXCEPT !.update = "replace"]

DMARCPolicyPreset == [ProfileGroup EXCEPT !.update = "replace"]

DMARCDelegatedDomain == [ProfileGroup EXCEPT !.key = "natural", !.update = "none"]

DMARCDomainGroupAssociation ==
  [ProfileGroup EXCEPT !.key = "natural", !.update = "none"]

DMARCDefinition == [ProfileGroup EXCEPT !.key = "natural", !.update = "none"]

DMARCDKIMDefinition ==
  [ProfileGroup EXCEPT !.key = "natural", !.update = "replace", !.details = "strict",
                  !.settles = FALSE]

DMARCSPFDefinition ==
  [ProfileGroup EXCEPT !.key = "natural", !.update = "replace", !.details = "lax",
                  !.settles = FALSE]

DMARCUser == [ProfileGroup EXCEPT !.update = "replace"]

\* The folder of its set stays whatever the answer says.
AddressAlterationDefinition == [Policy EXCEPT !.update = "none"]

\* The id of the set stays whatever the answer says, the comments of its
\* targets if the answer has none.
AddressAlterationPolicy == Policy

\* The comments of its targets stay.  The order of its lists, and the ids in
\* them, are WebSecurityURLPolicy's.
WebSecurityPolicy == [Policy EXCEPT !.update = "replace"]

\* Only client_state_wo can be renewed; the URL to notify stays.
ThreatReportingSubscription == [Policy EXCEPT !.secret = "rotated"]
=============================================================================
