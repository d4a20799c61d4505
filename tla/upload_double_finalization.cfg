SPECIFICATION Spec
CONSTANTS
  None = None
  Recordings = {r1}
  Matches <- OnlyItself
  SameKey <- OnlyItself
  SourceIDs = {}
  Legacy = {r1}
  Handlers = {h1, h2, h3}
  Uploads = {u1}
  Tokens = {t1, t2, t3}
  Calls = {c1, c2}
  Digests = {}
  QuarantineFailures = 2
  SerialSenders = FALSE
  HandlersOutliveLease = FALSE
  MaxCrashes = 0
  MaxErrors = 0
INVARIANT NoDoubleFinalization
