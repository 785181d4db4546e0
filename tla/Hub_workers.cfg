SPECIFICATION FairSpec
CONSTANTS
  Nets = {0}
  HubIndices = {1, 16, 256}
  HighWater = 1
INVARIANTS
  TypeOK
  OwnCommandsOnly
PROPERTIES
  ReadLoopSurvives
  RoutedByTag
CHECK_DEADLOCK FALSE
