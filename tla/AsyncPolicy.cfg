\* A root run, two children under a limit of one active child, a task of
\* another type, one worker thread; one controller starts and resumes, one
\* without a worker cancels.
SPECIFICATION Spec
CONSTANTS
  root = root
  child1 = child1
  child2 = child2
  other = other
  None = None
  Tasks = {root, child1, child2, other}
  Parent <- Family
  Foreign = {other}
  Workers = {w1}
  Controllers = {c1, c2}
  Starters = {c1}
  Resumers = {c1}
  Cancellers = {c2}
  Detached = {c2}
  ForeignExceptions = TRUE
  Preloaded <- OtherAndRoot
  MaxGlobal = 1
  MaxActive = 1
  MaxTotal = 2
  MaxResumes = 1
  MaxForeignClaims = 1
PROPERTIES
  AdmissionWithinLimits
CHECK_DEADLOCK FALSE
