SPECIFICATION Spec
CONSTANTS
  t1 = t1
  t2 = t2
  t3 = t3
  Threads = {t1, t2, t3}
  Kernel = Kernel
  NotUsed = NotUsed
  MaxMutexes = 7
  MaxBlocked = 2
  MaxName = 3
  Chars <- MCChars
  Names <- MCNames
  IdleReady = TRUE
  MaxSemaphores = 4
  SemHandles = {0}
  MutexHandles = {3}
  MaxSignals = 1
SYMMETRY ThreadSymmetry
INVARIANTS TypeOK ValueCountsWaiters PermitsConserved SleepersListed
PROPERTY SemaphoresCount
CHECK_DEADLOCK FALSE
