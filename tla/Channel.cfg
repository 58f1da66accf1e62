CONSTANTS
  Threads = {t1, t2, t3}
  Handles = {h1, h2}
  Capacity = 1
  MaxCalls = 4
SPECIFICATION FairSpec
INVARIANTS RefCountExact ClosedNobodySleeps NoLostWakeup
PROPERTIES UnboundedReceiverServed ImplementsFifo
CHECK_DEADLOCK FALSE
