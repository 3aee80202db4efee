SPECIFICATION Spec
CONSTANTS
  Reviewers = {r1, r2}
  Pools = {p1}
  Attempts = {a1, a2, a3}
  Keys = {k1, k2}
  Forms = {f1, f2}
  ServiceForm = f1
  MaxAttempts = 2
  NoRow = NoRow
INVARIANTS
  EvaluatedByCommittedKey
  QualifiedMayCollect
  AuditTellsTheStory
  ReceiptsAreEarned
PROPERTIES
  KeepsItsPromise
