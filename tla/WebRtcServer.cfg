SPECIFICATION Spec
CONSTANTS
  Server = {s1, s2}
  Foreign = {s2}
  Router = {r1, r2}
  Call = {c1, c2}
  Worker = Worker
  Nil = Nil
INVARIANTS
  ServerEndIsContained
  GoneServersRest
PROPERTIES
  ServerReleased
CHECK_DEADLOCK FALSE
