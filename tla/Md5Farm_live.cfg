\* Only fork may fail.  Five files in batches of two: slaves
\* are refilled, and stopped by distributeFiles or by stopSlaves.
CONSTANTS
  v1 = v1
  v2 = v2
  NumSlaves = 2
  BatchSize = 2
  MaxFiles = 5
  MsgLen = 1
  ShmSize = 12
  MapSize = 13
  Views = {v1}
  Faults = {"fork"}
SPECIFICATION FairSpec
INVARIANTS
  StopsCleanly
  NoBrokenPipe
  RemainingIsInFlight
PROPERTIES
  FarmEnds
  SlavesEnd
  ViewEnds
CHECK_DEADLOCK FALSE
