SPECIFICATION FairSpec
CONSTANTS
  MaxAttempts = 2
  MaxToolIterations = 1
  MaxTriggers = 1
  MaxRequests = 1
  MaxThrows = 2
  MaxCrashes = 1
INVARIANTS
  TypeOK
  AckedIsTold
  SuccessorTakesNewest
PROPERTIES
  ImplementsChain
  HandoffEndsSession
CHECK_DEADLOCK FALSE
