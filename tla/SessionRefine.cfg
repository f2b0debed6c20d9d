\* Two hosts, two refiner threads, every combination of options, a window of
\* one message.
SPECIFICATION FairSpec
CONSTANTS
  None = None
  Hosts = {h1, h2}
  Refiners = {r1, r2}
  Options <- AnyOptions
  Window = 1
  MaxAdds = 3
  MaxCalls = 4
  MayFail = TRUE
INVARIANTS
  TypeOK
  OneRefinement
  NothingLost
PROPERTIES
  EveryCallReturns
CHECK_DEADLOCK FALSE
