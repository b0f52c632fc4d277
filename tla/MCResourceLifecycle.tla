------------------------ MODULE MCResourceLifecycle ------------------------
(* Sets of families for the instances of ResourceLifecycle that TLC checks. *)
EXTENDS ResourceLifecycle, TLC

CONSTANTS key1, key2, a, b, unset, ver1, ver2, res1, res2

\* Every resource without a write-only attribute; equal ones are one.
PlainFamilies ==
  { Policy, DNSAuthenticationOutboundDefinition, ProfileGroup,
    ProfileGroupMember, OutboundIPAddresses, M365DirectoryIntegration,
    CloudIntegratedPolicy, DMARCManagedDomain, DMARCDomainGroup,
    DMARCNotification, DMARCPolicyPreset, DMARCDelegatedDomain,
    DMARCDomainGroupAssociation, DMARCDefinition, DMARCDKIMDefinition,
    DMARCSPFDefinition, DMARCUser, AddressAlterationDefinition,
    AddressAlterationPolicy, WebSecurityPolicy }

SecretFamilies ==
  { DeliveryRouteDefinition, ActiveDirectoryIntegration,
    GoogleDirectoryIntegration, JournalingService, ThreatReportingSubscription }

Policies == {Policy}

DeliveryRoute == {DeliveryRouteDefinition}

Journaling == {JournalingService}

\* Nothing tells the names apart, nor the versions.
NameSymmetry == Permutations({key1, key2})
SecretSymmetry == NameSymmetry \union Permutations({ver1, ver2})

\* All that the actions, and what is checked of secrets, depend on: not calm.
SecretView ==
  <<serverVars, callVars, stored, made, reported, dropped, unsettled>>
=============================================================================
