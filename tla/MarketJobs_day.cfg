SPECIFICATION FairJobsSpec
CONSTANTS
  Securities = {aapl}
  Dollar = {aapl}
  FX = FX
  Flights = {f1, f2}
  Nobody = Nobody
  Readers = {}
  SlotCap = 2
  Attempts = 2
  MaxRevision = 1
  RowsGetLost = FALSE
  FaultsEnd = TRUE
  SlotCount = 1
INVARIANT JobsTypeOK OneFlightPerKey
PROPERTY CompleteSlotsStay SlotsRecover FlightsEnd
CHECK_DEADLOCK FALSE
