SPECIFICATION Spec
CONSTANTS
  Caller = {c1}
  Ending = {"local", "remote"}
  c1 = c1
INVARIANTS
  OkCarriesPipe
CHECK_DEADLOCK FALSE
