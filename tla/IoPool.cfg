CONSTANTS
  Jobs = {j1, j2, j3}
  Threads = {t1, t2, t3}
  Desired = 2
  Capacity = 1
  Nil = Nil
SPECIFICATION FairSpec
INVARIANTS NoLostWakeup
PROPERTIES JobSettles PoolStops
CHECK_DEADLOCK FALSE
