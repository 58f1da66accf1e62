CONSTANTS
  Futs = {f1, f2}
  Tokens = {k1}
  Threads = {t1, t2}
  Waiters = {w1}
  Handles <- MCHandles
  f1 = f1
  f2 = f2
  k1 = k1
  Nil = Nil
SPECIFICATION FairSpec
INVARIANTS RefCountExact ValueOwned WaiterOwnedOnce
PROPERTIES NoDestructorUnderTokenLock CancelSettles
CHECK_DEADLOCK FALSE
