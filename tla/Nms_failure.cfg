SPECIFICATION PoliteSpec
CONSTANTS
  Networks = {n1, n2}
  Hubs = {h1, h2}
  Requests = {r1, r2}
  HubCounts = {0, 1}
  ApCounts = {0}
  MaxAps = 0
  WorkersMayCrash = FALSE
  NoNode = NoNode
SYMMETRY Symmetry
PROPERTIES
  NmsFailureIs502
CHECK_DEADLOCK FALSE
