SPECIFICATION Spec
CHECK_DEADLOCK FALSE
CONSTANTS
  None = None
  f1 = f1
  f2 = f2
  f3 = f3
  r1 = r1
  r2 = r2
  n1 = n1
  Files = {f1, f2, f3}
  Recordings = {r1, r2}
  Names = {f1, f2}
  ContentOf <- Contents
  PathOf <- Paths
  NameOf <- OwnNames
  Matches <- SameCall
  Workers = {w1, w2}
  Modes = {"copy", "delete"}
  IncludeExisting = {FALSE}
  Faults = {"request", "copy", "removal"}
  MaxCrashes = 1
  MaxErrors = 1
SYMMETRY Symmetry
INVARIANTS
  TypeOK
  IgnoredIsSafe
PROPERTIES
  ImplementsStoreAndForward
