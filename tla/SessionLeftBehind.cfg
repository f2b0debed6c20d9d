\* Two hosts that compact in the background; nothing fails.
SPECIFICATION Spec
CONSTANTS
  None = None
  Hosts = {h1, h2}
  Refiners = {r1}
  Options <- BackgroundOnly
  Window = 1
  MaxAdds = 3
  MaxCalls = 2
  MayFail = FALSE
INVARIANTS
  NothingLeftBehind
CHECK_DEADLOCK FALSE
