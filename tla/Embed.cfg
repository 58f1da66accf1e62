CONSTANTS
  e1 = e1
  e2 = e2
  Engines = {e1, e2}
  Workers = {w1}
  None = None
  Depth = 1
  MaxCode <- MCCode
  MaxIds <- MCIds
  MaxCalls <- MCCalls
  Cancelling = {e1}
SPECIFICATION Spec
INVARIANTS CallbackAlive NoCallbackLeak HandleRunsItsCode OutcomeExact HeldMeansRunning
CHECK_DEADLOCK FALSE
