\* Two readers, a canceller and the owner over a queue of two, up to three
\* events before the run's last.
SPECIFICATION FairSpec
CONSTANTS
  Readers = {r1, r2}
  Cancellers = {c1}
  Owner = owner
  Capacity = 2
  MaxEvents = 3
INVARIANTS
  TypeOK
  BufferIsGap
  NoLostWakeup
  CloseIsQuiet
PROPERTIES
  EndIsFinal
  CallsReturn
CHECK_DEADLOCK FALSE
