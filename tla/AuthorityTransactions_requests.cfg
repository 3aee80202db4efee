SPECIFICATION FairSpec
CONSTANTS
  Applications = {1}
  Keys = {k1}
  Bodies = {q1}
  Instants = {0, 1}
  PendingRetention = 1
  DecisionRetention = 1
  NoRow = NoRow
  Services = {s1, s2}
  Withdrawals = {w1}
  PoolSize = 2
  None = None
INVARIANTS
  NoInsertRace
  ConfirmedIsDurable
  WaitingGoesForward
PROPERTIES
  TransactionsAreSerial
  EveryRequestEnds
