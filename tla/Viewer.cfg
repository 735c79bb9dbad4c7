SPECIFICATION ViewerSpec
CONSTANTS
  Players = {p1}
  Contents = {c1, c2, c3}
  Following <- Series
  Refused = {c3}
  Duration = 3
  Gap = 2
  Completion = 80
  ContinueMax = 50
  Calls = {k1, k2}
  MaxRows = 2
  MaxSaves = 3
  c1 = c1
  c2 = c2
  c3 = c3
  k1 = k1
  k2 = k2
  Null = Null
INVARIANTS OneRowPerContent StartedIsListed
PROPERTIES KeptUntilRecorded
SYMMETRY CallSymmetry
CHECK_DEADLOCK FALSE
