SPECIFICATION FairSpec
CHECK_DEADLOCK FALSE
CONSTANTS
  None = None
  f1 = f1
  f2 = f2
  f3 = f3
  r1 = r1
  r2 = r2
  n1 = n1
  Files = {f1, f2}
  Recordings = {r1, r2}
  Names = {n1}
  ContentOf <- Contents
  PathOf <- Paths
  NameOf <- OneName
  Matches <- OnlyItself
  Workers = {w1, w2}
  Modes = {"copy"}
  IncludeExisting = {TRUE}
  Faults = {"request", "ledger"}
  MaxCrashes = 1
  MaxErrors = 2
INVARIANTS
  ProcessedIsCopied
PROPERTIES
  SpooledIsProcessed
