SPECIFICATION Spec
CONSTANTS
  t1 = t1
  t2 = t2
  Threads = {t1, t2}
  Kernel = Kernel
  NotUsed = NotUsed
  MaxMutexes = 6
  MaxBlocked = 2
  MaxName = 3
  Chars <- MCChars
  Names <- MCNames
  Handles = {0, 3}
  IdleReady = FALSE
SYMMETRY ThreadSymmetry
INVARIANT CreatorKept
CHECK_DEADLOCK FALSE
