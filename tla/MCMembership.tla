---------------------------- MODULE MCMembership ----------------------------
(* Resources that own one member of an object they share: profile group     *)
(* members, found in a paged list, and domain-group associations, found in  *)
(* the parent.  A behaviour is about one of the two; the other keeps still.  *)
EXTENDS ProfileGroupMembers, DMARCDomainGroupMembers

VARIABLE object

MembershipInit ==
  /\ \/ object = "profile group" /\ included = {}
     \/ object = "domain group" /\ cursor = "key" /\ group = {}
  /\ MembersInit /\ DomainsInit

MembershipNext ==
  /\ \/ object = "profile group" /\ MembersNext /\ UNCHANGED domainVars
     \/ object = "domain group" /\ DomainsNext /\ UNCHANGED membersVars
  /\ UNCHANGED object

MembershipSpec ==
  /\ MembershipInit
  /\ [][MembershipNext]_<<membersVars, domainVars, object>>
  /\ \A r \in Resources :
       WF_membersVars(MemberStep(r) /\ UNCHANGED <<domainVars, object>>)
=============================================================================
