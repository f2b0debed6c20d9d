\* One task, two worker threads over a file store, two routes, one of which
\* cancels without a worker; heartbeats, any exception, one crash.
SPECIFICATION FairSpec
CONSTANTS
  t1 = t1
  t2 = t2
  None = None
  Tasks = {t1}
  Workers = {w1, w2}
  Clients = {c1, c2}
  Submitters = {c1}
  Resumers = {c1}
  Cancellers = {c1, c2}
  Detached = {c2}
  Heartbeating = {w1}
  ThrowsForeign = {w2}
  Preloaded <- NonePreloaded
  MaxResumes = 1
  MaxCrashes = 1
INVARIANTS
  TypeOK
  TokensSound
  CompletedIsBacked
  DequeSound
PROPERTIES
  SettledRunFinal
  QueuedIsServed
CHECK_DEADLOCK FALSE
