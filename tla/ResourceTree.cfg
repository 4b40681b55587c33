SPECIFICATION Spec
CONSTANTS
  worker = worker
  router = router
  transport = transport
  producer = producer
  consumer = consumer
  Node <- FullNode
  Root = worker
  Parent <- FullParent
  Source <- OneSource
  Observed <- FullObserved
  Faulty = {router}
  Killable = {worker}
INVARIANTS
  IInv
  ChildrenEndFirst
  SilentEndIsExternal
  RestIsRelease
PROPERTIES
  EndReleases
  ConsumerFollowsProducer
  DisposedWorkerEnds
CHECK_DEADLOCK FALSE
