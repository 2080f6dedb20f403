CONSTANTS
  Calls = {j1}
  JobCalls = {j1}
  Timed = {}
  Pings = {}
  Closers = {}
  WS = WS
SPECIFICATION Spec
CHECK_DEADLOCK FALSE
INVARIANTS
  OnCloseEndsAllJobs
