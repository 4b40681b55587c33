SPECIFICATION Spec
CONSTANTS
  MaxToggle = 3
INVARIANTS
  AgreeAtRest
PROPERTIES
  ImplementsPipe
  PauseArrives
  PairEndsTogether
CHECK_DEADLOCK FALSE
