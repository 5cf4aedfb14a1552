SPECIFICATION Spec
CONSTANTS
  Message <- MCMessage
  Group <- MCGroup
  Route <- MCRoute
  BatchSize <- MCBatchSize
  MaxAttempts = 2
  MaxRestarts = 1
INVARIANTS
  TypeOK
  NotifierMatchesLoops
PROPERTIES
  EverythingSettles
