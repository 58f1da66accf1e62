CONSTANTS
  Host = h
  Foreign = {f1}
  Workers = {timer, job}
  Joined = {timer}
  Ordered = TRUE
SPECIFICATION FairSpec
INVARIANTS ActiveExact SafeToUnload
PROPERTIES BusyResolves
