CONSTANTS
  Ops = {o1, o2}
  Handles = {h1, h2}
  MaxInput = 1
  Nil = Nil
SPECIFICATION FairSpec
INVARIANTS JobOwnsBoth
PROPERTIES ReadyIsServed CancelIsObserved
CHECK_DEADLOCK FALSE
