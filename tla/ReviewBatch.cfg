SPECIFICATION Spec
CONSTANTS
  r1 = r1
  r2 = r2
  r3 = r3
  poolA = poolA
  poolB = poolB
  Reviewers = {r1, r2}
  Atoms = {a1}
  Statuses = {"SATISFIED", "EXPLICIT_CONFLICT"}
  NoSubmission = NoSubmission
  Batches = {1, 2}
  Pools = {poolA, poolB}
  Times = {0, 1}
  Policies <- JustEverything
  Dates = {"d1"}
  PurposeOf <- Mixed
  RequiredOf <- MixedRequired
  PoolOf <- TwoPools
  NoHint = NoHint
  NoRow = NoRow
SYMMETRY ReviewerSymmetry
INVARIANTS
  CloseSnapshotIsExact
  CoveredBatchCanClose
  InterpretablePoolIsIndependent
  PublishedEvidenceIsLiveEvidence
  DecisionsAreRecordedOnce
PROPERTIES
  EvidencePoolSpec
  AuthorityGatesNewActions
