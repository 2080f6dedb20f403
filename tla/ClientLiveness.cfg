CONSTANTS
  Openers = {}
  Calls = {j1}
  JobCalls = {j1}
  Pings = {p1}
  Closers = {k1}
  NoJob = NoJob
SPECIFICATION FairSpec
PROPERTY EveryJobEnds
