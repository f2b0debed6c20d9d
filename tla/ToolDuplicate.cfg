\* Two calls with one key that begin independently.
SPECIFICATION Spec
CONSTANTS
  c1 = c1
  c2 = c2
  k1 = k1
  None = None
  Calls = {c1, c2}
  Keys = {k1}
  Key <- OneKey
  After <- Unordered
  MaxCache = 1
  MaxStarts = 1
INVARIANTS
  PendingDeduplicated
CHECK_DEADLOCK FALSE
