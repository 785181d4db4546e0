SPECIFICATION Spec
CONSTANTS
  Networks = {n1, n2}
  Hubs = {h1, h2, h3}
  Requests = {r1, r2, r3}
  HubCounts = {0, 2}
  ApCounts = {0}
  MaxAps = 0
  WorkersMayCrash = FALSE
  NoNode = NoNode
SYMMETRY Symmetry
INVARIANTS
  TypeOK
  TreeInv
  AddressResolves
  SettledHubRegistered
  QuiescentWorkersInTree
  HoldersInv
  NoWorkerStoppedEarly
PROPERTIES
  SlotsNotOverwritten
  RequestsAdvance
  ImplementsRegistry
CHECK_DEADLOCK FALSE
