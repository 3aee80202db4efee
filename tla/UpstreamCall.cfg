SPECIFICATION FairSpec
CONSTANTS
  Chunks = {0, 1, 2}
  MaxResponse = 3
  MaxError = 1
  MaxAttempts = 3
INVARIANTS
  OnlyWholeBodiesAreUsed
  NothingOutlivesAnAttempt
  OutcomeNamesItsCause
PROPERTIES
  EveryCallEnds
CHECK_DEADLOCK FALSE
