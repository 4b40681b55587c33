SPECIFICATION Spec
CONSTANTS
  Record = {r1, r2}
  Noise = {r2}
  Levels = {0, 1, 5}
  MaxStart = 3
  r1 = r1
  r2 = r2
INVARIANTS
  LostOnlyWithItsProxy
  AboveLevelOnlyEarly
PROPERTIES
  RecordsArrive
CHECK_DEADLOCK FALSE
