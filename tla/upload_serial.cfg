SPECIFICATION Spec
CONSTANTS
  None = None
  Recordings = {r1, r2}
  Matches <- AllMatch
  SameKey <- LegacyKeyed
  SourceIDs = {}
  Legacy = {r1}
  Handlers = {h1, h2}
  Uploads = {u1, u2}
  Tokens = {t1, t2, t3, t4, t5}
  Calls = {c1, c2, c3}
  Digests = {d1, d2}
  QuarantineFailures = 2
  SerialSenders = TRUE
  HandlersOutliveLease = FALSE
  MaxCrashes = 1
  MaxErrors = 1
SYMMETRY Symmetry
INVARIANTS
  TypeOK
  AcknowledgedIsKept
  NoDoubleFinalization
  QuarantinedIsKept
  LeaseHeldWhileWorking
PROPERTIES
  FinishedRowIsFinal
  ImplementsArchive
