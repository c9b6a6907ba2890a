SPECIFICATION JobsSpec
CONSTANTS
  Securities = {aapl}
  Dollar = {}
  FX = FX
  Flights = {f1, f2}
  Nobody = Nobody
  Readers = {}
  SlotCap = 1
  Attempts = 1
  MaxRevision = 1
  RowsGetLost = TRUE
  FaultsEnd = FALSE
  SlotCount = 1
INVARIANT GapsAreRefetched
CHECK_DEADLOCK FALSE
