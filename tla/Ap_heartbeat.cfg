SPECIFICATION Spec
CONSTANTS
  ApCounts = {1}
  RtCounts = {1}
  Heartbeats = {1, 60}
  DefaultHeartbeat = 60
  MaxAps = 1
PROPERTIES RtHeartbeatRequested
CHECK_DEADLOCK FALSE
