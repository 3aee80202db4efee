SPECIFICATION Spec
CONSTANTS
  Reviewers = {r1}
  Principals = {p1}
  Invitations = {i1}
  Versions = {v1}
  CurrentVersion = v1
  Instants = {1, 2}
  InvitationTtl = 1
  MaxConsents = 2
  MaxEvents = 2
  NoRow = NoRow
  External = External
INVARIANT RevocationIsAuthoritative
CHECK_DEADLOCK FALSE
