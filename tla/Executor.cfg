CONSTANTS
  Tasks = {a, b}
  Events = {e}
  Threads = {t1, t2}
  Nil = Nil
SPECIFICATION FairSpec
INVARIANTS FailurePropagates
PROPERTIES BlockOnEnds
CHECK_DEADLOCK FALSE
