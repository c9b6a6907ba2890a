SPECIFICATION Spec
CONSTANTS
  Primaries = {p1}
  Keys = {asset, quote}
  CacheKeys = {quote}
  Values = {v1}
  Absent = Absent
  MaxSeq = 4
  MaxSources = 2
  Targets = {t1}
  ForeignTargets = {}
  NoMarker = NoMarker
  NoRow = NoRow
  BatchLimit = 2
  FaultsEnd = FALSE
INVARIANT TypeOK IInv ReplicaIsCapturedState CaptureIsComplete NoEventLost
PROPERTY ImplementsMirror CheckpointOnlyAdvances
CHECK_DEADLOCK FALSE
