SPECIFICATION Spec
CONSTANTS
  MaxToggle = 1
INVARIANTS
  AgreeThoughEarly
CHECK_DEADLOCK FALSE
