\* Two server threads over a run with two waits, branches and two joins; one
\* needless resume or early answer, one crash.
SPECIFICATION FairSpec
CONSTANTS
  start = start
  approve = approve
  hook = hook
  both = both
  first = first
  None = None
  Threads = {t1, t2}
  Definition <- Review
  Edges <- ReviewEdges
  WaitAny = {first}
  Waits = {approve, hook}
  MayFail = {first}
  MayNotStart = {both}
  MaxUnneeded = 1
  MaxCrashes = 1
INVARIANTS
  TypeOK
  JoinsInTime
  CompletedIsDone
PROPERTIES
  EveryRunEnds
CHECK_DEADLOCK FALSE
