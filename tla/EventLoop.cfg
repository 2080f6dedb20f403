SPECIFICATION LoopSpec
CONSTANTS
  e1 = e1
  e2 = e2
  Entries = {e1}
  Clients = {c1, c2}
  NoClient = NoClient
  Coordinators <- TwoCoordinators
  Tolerant = {"apps"}
  Keys <- RotatingKeys
  Options = {o1}
  Alerts = {a1}
  Sources = {e1}
  Source <- AlertSource
INVARIANT NoStaleState
PROPERTIES
  IssuesFollowAlerts
  RejectionLeadsToReauth
  StateIsShownInTheEnd
