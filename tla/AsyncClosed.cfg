\* One run that is queued beforehand, one worker thread, and a controller thread
\* that only cancels.
SPECIFICATION Spec
CONSTANTS
  root = root
  child1 = child1
  child2 = child2
  other = other
  None = None
  Tasks = {root}
  Parent <- Family
  Foreign = {}
  Workers = {w1}
  Controllers = {c1}
  Starters = {}
  Resumers = {}
  Cancellers = {c1}
  Detached = {}
  ForeignExceptions = FALSE
  Preloaded <- RootPreloaded
  MaxGlobal = 1
  MaxActive = 1
  MaxTotal = 1
  MaxResumes = 0
  MaxForeignClaims = 1
PROPERTIES
  CancelledIsFinal
CHECK_DEADLOCK FALSE
