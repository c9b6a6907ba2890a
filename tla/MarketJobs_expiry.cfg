SPECIFICATION JobsSpec
CONSTANTS
  Securities = {aapl, spy}
  Dollar = {}
  FX = FX
  Flights = {f1, f2}
  Nobody = Nobody
  Readers = {}
  SlotCap = 1
  Attempts = 1
  MaxRevision = 1
  RowsGetLost = FALSE
  FaultsEnd = FALSE
  SlotCount = 1
INVARIANT CompleteMeansRefreshed
CHECK_DEADLOCK FALSE
