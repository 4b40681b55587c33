SPECIFICATION Spec
CONSTANTS
  Query = {q1}
  Job = {j1}
  Creation = {c1, c2}
  Guarded = {c2}
  MaxCall = 3
  q1 = q1
  j1 = j1
  c1 = c1
  c2 = c2
INVARIANTS
  IInv
  TerminatedIsExplained
  OrphanOnlyAfterTimeout
  ObjectsAreOwned
PROPERTIES
  ImplementsContract
  ChildrenFollowServer
  AnsweredWithoutTimer
CHECK_DEADLOCK FALSE
