CONSTANTS
  Threads = {t1, t2, t3}
  Mutexes = {m1, m2}
  Nobody = nobody
  NoMutex = nomutex
  MaxDepth = 2
SYMMETRY MCSymmetry
SPECIFICATION Spec
INVARIANTS TypeOK MutualExclusion HoldersOwn
PROPERTY ImplementsLocks
\* A thread that locks a second mutex, or loses the race to make the
\* library's own, may wait for ever.
CHECK_DEADLOCK FALSE
