SPECIFICATION Spec
CONSTANTS
  Primaries = {p1, p2}
  Keys = {asset}
  CacheKeys = {}
  Values = {v1}
  Absent = Absent
  MaxSeq = 1
  MaxSources = 1
  Targets = {t1, t2}
  ForeignTargets = {t2}
  NoMarker = NoMarker
  NoRow = NoRow
  BatchLimit = 2
  FaultsEnd = FALSE
INVARIANT ReadyTargetsAreComplete ReplicaIsCapturedState
PROPERTY OwnershipIsFinal
CHECK_DEADLOCK FALSE
