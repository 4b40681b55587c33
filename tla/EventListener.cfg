SPECIFICATION Spec
CONSTANTS
  Listener <- TwoListeners
  Choice <- SomeChoices
  Registered <- AllTypes
  MaxCall = 3
  MaxEvent = 2
  l1 = l1
  l2 = l2
INVARIANTS
  IInv
  CloseIsLast
PROPERTIES
  DeadListenersLeave
  CloseIsHeard
CHECK_DEADLOCK FALSE
