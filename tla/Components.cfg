SPECIFICATION ComponentsSpec
CONSTANTS
  e1 = e1
  e2 = e2
  Entries = {e1, e2}
  Clients = {c1, c2}
  NoClient = NoClient
  Coordinators <- TwoCoordinators
  Tolerant = {"apps"}
  Keys <- RotatingKeys
  Options = {o1}
  Sources = {e1, e2}
  Alerts = {a1}
  Source <- AlertSource
  Ids = {i1, i2}
  Machines = {m1, m2}
  Hosts = {h1, h2}
  ApiKeys = {k1, k2}
  Flows = {f1, f2}
  Secrets = {"x", "y"}
  ServerSecret = "x"
  Salts = {"s1", "s2"}
  MinIters = 2
  MaxIters = 3
  Iterations = {1, 2, 3, 4}
  Disks = {d1, d2}
  Serialled = {d1}
  Spares = {d1}
  DevNames = {sda, sdb}
  Nothing = Nothing
  MaxChanges = 2
  None = None
  Other = Other
  Error = Error
  Numbers = {0, 1, 3}
  Versions = {v1, v2}
  Millis <- AroundSeconds
  Datasets = {x1, x2, x3}
  MaxAlerts = 2
  MaxCores = 2
SYMMETRY Symmetry
INVARIANTS
  TypeOK
  ServicesLostOnlyInSetup
  ServicesHaveAnEntry
  OpenClientsAreOwned
  LoadedEntryKeepsItsClient
  StoredKeyIsUsed
  AlertTypeOK
  SettledStaysGone
  CfgTypeOK
  OneEntryPerMachine
  AuthTypeOK
  SuccessIsMutual
  RightKeyLogsIn
  FailureLeavesNoSession
  
  WholeSecondsAreExact
PROPERTIES
  IssuesGoForAReason
  StoredDataWereProbed
  SnapshotIsFaithful
\* Flows run out of ids, the NAS of changes, and a login ends.
CHECK_DEADLOCK FALSE
