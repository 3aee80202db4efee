SPECIFICATION Spec
CONSTANTS
  p1 = p1
  p2 = p2
  p3 = p3
  People = {p1, p2, p3}
  Panels <- TwoPanels
  Fixtures = {1, 2}
  DomainOf <- OneDomain
  Suites <- ThreeSuites
  Answers <- FewAnswers
  Unreadable = Unreadable
  Limits <- ReviewingOrExporting
CHECK_DEADLOCK FALSE
INVARIANTS
  AgreementIsMeant
  ReadyIsWhatWasMeant
  NothingCompleteIsRefused
PROPERTY CandidatesAreCurrent
