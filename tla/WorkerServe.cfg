\* Two tasks enqueued before two worker threads start; two routes cancel them.
SPECIFICATION FairSpec
CONSTANTS
  t1 = t1
  t2 = t2
  None = None
  Tasks = {t1, t2}
  Workers = {w1, w2}
  Clients = {c1, c2}
  Submitters = {}
  Resumers = {}
  Cancellers = {c1, c2}
  Detached = {}
  Heartbeating = {}
  ThrowsForeign = {}
  Preloaded <- AllPreloaded
  MaxResumes = 0
  MaxCrashes = 0
INVARIANTS
  SingleExecution
  StatusIsBacked
PROPERTIES
  CancelHonoured
  ImplementsLifecycle
  EveryTaskSettles
CHECK_DEADLOCK FALSE
