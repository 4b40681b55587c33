SPECIFICATION Spec
CONSTANTS
  Caller = {c1, c2}
  Ending = {"local", "remote"}
  c1 = c1
  c2 = c2
INVARIANTS
  IInv
  OkIsWholeOrHollow
  UsedPairIsConnected
  CallsInARowShare
  UnstoredPairIsExplained
PROPERTIES
  ImplementsPipes
  PipeEndsWithTransports
  DeadPairIsForGood
CHECK_DEADLOCK FALSE
