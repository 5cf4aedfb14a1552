SPECIFICATION Spec
CONSTANTS
  MaxAttempts = 2
  MaxToolIterations = 0
  MaxTriggers = 0
  MaxRequests = 1
  MaxThrows = 0
  MaxCrashes = 1
INVARIANTS
  SummaryReachesSuccessor
CHECK_DEADLOCK FALSE
