\* A call and a second one with its key, which joins or repeats it, over a
\* runtime that is started twice and remembers one answer.
SPECIFICATION FairSpec
CONSTANTS
  c1 = c1
  c2 = c2
  k1 = k1
  None = None
  Calls = {c1, c2}
  Keys = {k1}
  Key <- OneKey
  After <- Repeated
  MaxCache = 1
  MaxStarts = 2
INVARIANTS
  TypeOK
  PendingAgree
  EffectOnce
  RetrySame
PROPERTIES
  EveryCallReturns
CHECK_DEADLOCK FALSE
