\* As in JsonRpc.cfg.
CHECK_DEADLOCK FALSE
CONSTANTS
  Calls = {p1, j1}
  JobCalls = {j1}
  Timed = {p1}
  Pings = {p1}
  Closers = {}
  WS = WS
SPECIFICATION FairSpec
INVARIANTS
  CallsAreInProgress
PROPERTIES
  CallsReturn
  JobsReturn
