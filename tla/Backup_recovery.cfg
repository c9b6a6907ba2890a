SPECIFICATION FairSpec
CONSTANTS
  Primaries = {p1}
  Keys = {asset, quote}
  CacheKeys = {quote}
  Values = {v1}
  Absent = Absent
  MaxSeq = 2
  MaxSources = 2
  Targets = {t1, t2}
  ForeignTargets = {t2}
  NoMarker = NoMarker
  NoRow = NoRow
  BatchLimit = 1
  FaultsEnd = TRUE
PROPERTY CatchesUpOrReports HealsWithoutOperator
CHECK_DEADLOCK FALSE
