SPECIFICATION Spec
CONSTANTS
  ApCounts = {0, 2}
  RtCounts = {0, 2}
  Heartbeats = {1, 60}
  DefaultHeartbeat = 60
  MaxAps = 4
INVARIANTS TypeOK
PROPERTIES
  ImplementsApIndices
  ApsNotOverwritten
CHECK_DEADLOCK FALSE
