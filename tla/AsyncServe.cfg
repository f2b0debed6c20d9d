\* One run, two worker threads; one controller starts and resumes it, another
\* cancels it.
SPECIFICATION FairSpec
CONSTANTS
  root = root
  child1 = child1
  child2 = child2
  other = other
  None = None
  Tasks = {root}
  Parent <- Family
  Foreign = {}
  Workers = {w1, w2}
  Controllers = {c1, c2}
  Starters = {c1}
  Resumers = {c1}
  Cancellers = {c2}
  Detached = {}
  ForeignExceptions = FALSE
  Preloaded <- NonePreloaded
  MaxGlobal = 1
  MaxActive = 1
  MaxTotal = 1
  MaxResumes = 1
  MaxForeignClaims = 1
INVARIANTS
  TypeOK
  TokensSound
  RestIsConsistent
PROPERTIES
  EveryRunSettles
CHECK_DEADLOCK FALSE
