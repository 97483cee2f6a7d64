\* One view, no failure, room for every line: does the view show them all?
CONSTANTS
  v1 = v1
  v2 = v2
  NumSlaves = 2
  BatchSize = 2
  MaxFiles = 2
  MsgLen = 1
  ShmSize = 9
  MapSize = 10
  Views = {v1}
  Faults = {}
SPECIFICATION Spec
INVARIANT ViewShowsAll
CHECK_DEADLOCK FALSE
