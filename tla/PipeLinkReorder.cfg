SPECIFICATION Spec
CONSTANTS
  MaxToggle = 2
INVARIANTS
  AgreeThoughHasty
CHECK_DEADLOCK FALSE
