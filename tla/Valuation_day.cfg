SPECIFICATION ValuationSpec
CONSTANTS
  Assets = {a1, a2}
  Securities = {a1}
  Dollar = {a1}
  CreateKeys = {c1, c2}
  EditKeys = {e1}
  ArchiveKeys = {x1}
  RecordKeys = {q1}
  RefreshKeys = {r1}
  Handlers = {h1, h2}
  Quantities = {1, 2}
  Amounts = {1}
  Prices = {2}
  Rates = {2}
  Jobs = {"daily"}
  MaxVersion = 3
  NoRow = NoRow
INVARIANTS ValuationTypeOK AppliedOnce TodayFollowsAssets
PROPERTIES CommittedIsNeverRefused NoBlindOverwrite
CHECK_DEADLOCK FALSE
SYMMETRY Symmetry
