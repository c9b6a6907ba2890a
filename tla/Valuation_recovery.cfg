SPECIFICATION ValuationSpec
CONSTANTS
  Assets = {a1}
  Securities = {a1}
  Dollar = {a1}
  CreateKeys = {c1}
  EditKeys = {e1}
  ArchiveKeys = {}
  RecordKeys = {}
  RefreshKeys = {}
  Handlers = {}
  Quantities = {1, 2}
  Amounts = {1}
  Prices = {2}
  Rates = {2}
  Jobs = {"daily"}
  MaxVersion = 3
  NoRow = NoRow
PROPERTIES RecoveryFillsOnly
CHECK_DEADLOCK FALSE
