SPECIFICATION CacheSpec
CONSTANTS
  Securities = {aapl}
  Dollar = {aapl}
  FX = FX
  Flights = {f1, f2}
  Nobody = Nobody
  Readers = {r1}
  SlotCap = 1
  Attempts = 2
  MaxRevision = 2
  RowsGetLost = FALSE
  FaultsEnd = FALSE
INVARIANT FreshFollowsRates
CHECK_DEADLOCK FALSE
