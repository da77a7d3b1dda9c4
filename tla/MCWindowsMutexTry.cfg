CONSTANTS
  Threads = {t1, t2, t3}
  Mutexes = {m1}
  Nobody = nobody
  NoMutex = nomutex
  MaxDepth = 1
SPECIFICATION Spec
INVARIANT TryLockNeverBlocks
CHECK_DEADLOCK FALSE
