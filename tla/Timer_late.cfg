\* Two sleepers are enough: the one that came last leaves first.
CONSTANTS
  t1 = t1
  t2 = t2
  Threads = {t1, t2}
  NotUsed = NotUsed
  MaxSleeping = 3
  Word = 64
  MaxTicks = 2
SPECIFICATION Spec
INVARIANT SleepsItsTicks
SYMMETRY ThreadSymmetry
