SPECIFICATION Spec
CONSTANTS
  e1 = e1
  e2 = e2
  Entries = {e1}
  Clients = {c1, c2}
  NoClient = NoClient
  Coordinators <- TwoCoordinators
  Tolerant = {"apps"}
  Keys <- RotatingKeys
  Options = {o1, o2}
INVARIANT OptionsTakeEffect
