CONSTANTS
  Openers = {o1}
  Calls = {c1}
  JobCalls = {}
  Pings = {}
  Closers = {k1}
  NoJob = NoJob
SPECIFICATION Spec
INVARIANT ClosedClientStaysClosed
