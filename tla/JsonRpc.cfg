\* The client stops for good when every call is over, and also when a job=True
\* call is left waiting (OnCloseEndsAllJobs, JsonRpcDrop.cfg).
CHECK_DEADLOCK FALSE
CONSTANTS
  Calls = {c1, j1}
  JobCalls = {j1}
  Timed = {}
  Pings = {}
  Closers = {k1}
  WS = WS
SPECIFICATION Spec
INVARIANTS
  TypeOK
  NoLostWakeup
  JobIsNamedByItsId
  CallsAreInProgress
  EndedJobIsReady
PROPERTIES
  ImplementsTransport
