CONSTANTS
  Openers = {o1}
  Calls = {c1, c2}
  JobCalls = {c1}
  Pings = {}
  Closers = {k1}
  NoJob = NoJob
SPECIFICATION Spec
INVARIANTS
  TypeOK
  LockDiscipline
  OneRequestAtATime
  InstallNeverOverwrites
  RetryLeavesFailedConnection
PROPERTIES
  LeaksOnlyByKnownPaths
  ImplementsSharedRpc
