SPECIFICATION FairSpec
CHECK_DEADLOCK FALSE
CONSTANTS
  None = None
  c1 = c1
  Calls = {c1, c2}
  Exports = {e1}
  Reviewed = {c1}
  Builders = {b1, b2}
  Protection = {"none", "until"}
  MaxUpsets = 1
INVARIANTS
  TypeOK
  MediaFollowsRow
  SnapshotIsKept
  DownloadIsWhole
  ZipIsOwned
PROPERTIES
  FinishedStays
  ExportEnds
