SPECIFICATION PoliteSpec
CONSTANTS
  Networks = {n1, n2}
  Hubs = {h1, h2, h3}
  Requests = {r1, r2}
  HubCounts = {0, 1, 2}
  ApCounts = {1}
  MaxAps = 1
  WorkersMayCrash = TRUE
  NoNode = NoNode
SYMMETRY Symmetry
INVARIANTS
  ListenerSurvives
  WaitsForOwnWorker
  NoRequestStranded
  RollbackFindsHub
  PoliteInv
PROPERTIES
  BusyHubStays
  DeleteStopsWorker
  CreatedHubAtIndex
  ImplementsLifecycle
CHECK_DEADLOCK FALSE
