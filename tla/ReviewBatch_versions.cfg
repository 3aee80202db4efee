SPECIFICATION Spec
CONSTANTS
  r1 = r1
  r2 = r2
  r3 = r3
  poolA = poolA
  poolB = poolB
  Reviewers = {r1, r2}
  Atoms = {a1}
  Statuses = {"SATISFIED"}
  NoSubmission = NoSubmission
  Batches = {1}
  Pools = {poolA}
  Times = {0}
  Policies <- TwoPolicies
  Dates = {"d1"}
  PurposeOf <- Pilot
  RequiredOf <- PairRequired
  PoolOf <- OnePool
  NoHint = NoHint
  NoRow = NoRow
INVARIANT LastDecisionIsServed
