SPECIFICATION FairSpec
CONSTANTS
  None = None
  Recordings = {r1, r2}
  Matches <- OnlyItself
  SameKey <- OnlyItself
  SourceIDs = {r2}
  Legacy = {}
  Handlers = {h1, h2}
  Uploads = {u1, u2}
  Tokens = {t1, t2, t3, t4, t5}
  Calls = {c1, c2, c3, c4}
  Digests = {}
  QuarantineFailures = 2
  SerialSenders = TRUE
  HandlersOutliveLease = FALSE
  MaxCrashes = 1
  MaxErrors = 1
PROPERTIES
  RetriedIsAcknowledged
