SPECIFICATION Spec
CONSTANTS
  Query = {q1}
  Job = {j1}
  Creation = {}
  Guarded = {}
  MaxCall = 2
  q1 = q1
  j1 = j1
INVARIANTS
  ClosedOnlyWhenGone
CHECK_DEADLOCK FALSE
