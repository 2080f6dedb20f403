CONSTANTS
  Openers = {}
  Calls = {c1}
  JobCalls = {}
  Pings = {}
  Closers = {}
  NoJob = NoJob
SPECIFICATION ClientFairSpec
PROPERTY CallsEnd
