SPECIFICATION FairSpec
CHECK_DEADLOCK FALSE
CONSTANTS
  None = None
  Calls = {c1, c2, c3}
  Providers = {p1}
  Workers = {w1}
  RetryLimit = 0
  TransientRetries = 1
  Results = {"other"}
  Connects = {TRUE, FALSE}
  Notifiers = {}
  MaxDeliveries = 2
  ReceivedTexts = {""}
  Eligible = {c1, c2, c3}
  Operations = {}
  MaxUpsets = 1
PROPERTIES
  JobEnds
  RunComesToAnEnd
