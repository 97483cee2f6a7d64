\* init, the shell, two more slots, and two processes or threads to come, so
\* that the table fills up; and one loss of the processor in the middle of an
\* end, with everything that follows from it until the second.
CONSTANTS
  NULL = NULL
  MaxProcesses = 4
  MaxThreads = 3
  QUANTUM = 0
  MaxMade = 2
  MaxOvertaken = 1
SPECIFICATION FairSpec
INVARIANTS
  TypeOK
  RingsSound
  OneRunning
  ForegroundReturns
  JoinedIsAlive
PROPERTY ReadyRuns
CHECK_DEADLOCK FALSE
