SPECIFICATION Spec
CONSTANTS
  Reviewers = {r1, r2}
  Principals = {p1, p2}
  Invitations = {i1, i2}
  Versions = {v0, v1}
  CurrentVersion = v1
  Instants = {0, 1, 2}
  InvitationTtl = 2
  MaxConsents = 3
  MaxEvents = 3
  NoRow = NoRow
  External = External
SYMMETRY Symmetry
INVARIANTS
  IdentitiesMatchAccounts
  ConsumedInvitationsMadeAccounts
  ConsentIsConsistent
  AuditTellsTheStory
PROPERTIES
  KeepsItsPromise
  ClosedAccountsStayClosed
CHECK_DEADLOCK FALSE
