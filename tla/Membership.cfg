\* Two member resources among three members, pages of one; two domains.
SPECIFICATION MembershipSpec
CONSTANTS
  Members = {1, 2, 3}
  Resources = {2, 3}
  PageSize = 1
  MaxEdits = 2
  Domains = {a, b}
  Nothing = Nothing
  MaxGroupEdits = 1
INVARIANTS MissingWasAway NoSilentMember AssociationsHold
PROPERTY MembersCallsReturn
