\* Every failure of the environment, and a segment that holds two lines and a
\* half: two views, batches, EOF, SIGPIPE, truncation and late views all happen.
CONSTANTS
  v1 = v1
  v2 = v2
  NumSlaves = 2
  BatchSize = 2
  MaxFiles = 4
  MsgLen = 2
  ShmSize = 9
  MapSize = 11
  Views = {v1, v2}
  Faults = {"fork", "exec", "md5sum"}
SYMMETRY ViewSymmetry
SPECIFICATION Spec
INVARIANTS
  TypeOK
  EachFileOnce
  NoReadDuringWrite
  ViewFollowsOutput
CHECK_DEADLOCK FALSE
