SPECIFICATION Spec
CONSTANTS
  p1 = p1
  p2 = p2
  p3 = p3
  People = {p1, p2, p3}
  Panels <- OnePanel
  Fixtures = {1, 2}
  DomainOf <- OneDomain
  Suites <- TwoSuites
  Answers <- LeftOrRight
  Unreadable = Unreadable
  Limits <- JustExporting
CHECK_DEADLOCK FALSE
INVARIANT EvidenceIsOnItsPackets
