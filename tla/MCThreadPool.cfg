SPECIFICATION FairPoolSpec
CONSTANTS
  Threads = 4
  Workers = {w}
  Jobs = {j1}
  None = None
  Reserve = 1
  MaxSem = 2
CHECK_DEADLOCK FALSE
INVARIANTS
  PoolTypeOK
  SetsAlive
  EatenIsCovered
PROPERTIES
  TasksRun
  ShutdownEnds
