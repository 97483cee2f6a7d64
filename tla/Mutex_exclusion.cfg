SPECIFICATION Spec
CONSTANTS
  t1 = t1
  t2 = t2
  t3 = t3
  Threads = {t1, t2, t3}
  Kernel = Kernel
  NotUsed = NotUsed
  MaxMutexes = 6
  MaxBlocked = 2
  MaxName = 3
  Chars <- MCChars
  Names <- MCNames
  Handles = {0, 3}
  IdleReady = TRUE
SYMMETRY ThreadSymmetry
INVARIANTS MutualExclusion UniqueNames
PROPERTY AdminIsALock
CHECK_DEADLOCK FALSE
