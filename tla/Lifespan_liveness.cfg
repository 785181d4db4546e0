SPECIFICATION FairLifeSpec
CONSTANTS
  Networks = {n1, n2}
  Hubs = {h1, h2}
  Requests = {r1, r2}
  HubCounts = {0, 1, 2}
  ApCounts = {0}
  MaxAps = 0
  WorkersMayCrash = TRUE
  NoNode = NoNode
INVARIANTS NothingUnread NothingHalfMade
PROPERTIES
  EveryCreateAnswered
  StrayWorkerExits
  ShutdownCompletes
CHECK_DEADLOCK FALSE
