SPECIFICATION Spec
CONSTANTS
  None = None
  Recordings = {r1, r2}
  Matches <- OnlyItself
  SameKey <- AllMatch
  SourceIDs = {r1}
  Legacy = {}
  Handlers = {h1, h2}
  Uploads = {u1}
  Tokens = {t1, t2, t3}
  Calls = {c1, c2, c3}
  Digests = {}
  QuarantineFailures = 2
  SerialSenders = FALSE
  HandlersOutliveLease = TRUE
  MaxCrashes = 1
  MaxErrors = 2
SYMMETRY Symmetry
INVARIANTS
  StoredCallHasAudio
  AnswerIsStored
  SourceCallStoredOnce
  OrphanNeedsCrash
