\* One thread that creates and resumes the run, one that cancels it or answers
\* it; two exceptions, two waits, two cancels, two crashes.
SPECIFICATION FairSpec
CONSTANTS
  inspect = inspect
  edit = edit
  verify = verify
  None = None
  Drivers = {d1}
  Operators = {o1}
  Steps = {inspect, edit, verify}
  DependsOn <- Chain
  Plan <- InspectAndEdit
  NextSteps <- InspectAppends
  MaxStepsPerRun = 2
  MaxFailures = 2
  MaxWaits = 2
  MaxCancels = 2
  MaxCrashes = 2
INVARIANTS
  TypeOK
  EachStepOnce
  DependenciesFirst
  CompletedIsExhausted
PROPERTIES
  EveryRunCloses
CHECK_DEADLOCK FALSE
