SPECIFICATION Spec
CONSTANTS
  Applications = {1, 2}
  Keys = {k1, k2}
  Bodies = {q1, q2}
  Instants = {0, 1, 2}
  PendingRetention = 2
  DecisionRetention = 1
  NoRow = NoRow
INVARIANTS
  ContactOnlyWhileActive
  OneApplicationPerKey
  AuditTellsTheStory
PROPERTY DecisionsAndTombstonesAreFinal
