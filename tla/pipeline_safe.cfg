SPECIFICATION Spec
CHECK_DEADLOCK FALSE
CONSTANTS
  None = None
  Calls = {c1}
  Providers = {p1, p2}
  Workers = {w1, w2}
  RetryLimit = 0
  TransientRetries = 0
  Results = {"other", "match"}
  Connects = {TRUE}
  Notifiers = {n1, n2}
  MaxDeliveries = 2
  ReceivedTexts = {"", "match"}
  Eligible = {c1}
  Operations = {"requeue", "edit", "retry", "cli retry", "rule"}
  MaxUpsets = 2
SYMMETRY Symmetry
INVARIANTS
  TypeOK
  MatchIsQueued
  AlertOnce
PROPERTIES
  FailedStays
  EditIsKept
