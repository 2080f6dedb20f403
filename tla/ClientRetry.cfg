CONSTANTS
  Openers = {}
  Calls = {c1}
  JobCalls = {}
  Pings = {}
  Closers = {}
  NoJob = NoJob
SPECIFICATION Spec
PROPERTY RetryOnlyOnTransportFailure
