SPECIFICATION PlansSpec
CONSTANTS
  Sessions = {web}
  Conns = {c1, c2}
  MaxTokens = 2
  Requests = {r1, r2, r3, r4}
  Keys = {k1, k2}
  MaxItems = 2
  Work = 4
  Idle = Idle
  NoBearer = NoBearer
  Blank = Blank
  NoWish = NoWish
  NoRow = NoRow
  Nobody = Nobody
INVARIANT PlansTypeOK
PROPERTY ImplementsEdits ChangesAreEntitled RevocationHolds RevokesWhatWasListed
SYMMETRY Symmetry
CHECK_DEADLOCK FALSE
