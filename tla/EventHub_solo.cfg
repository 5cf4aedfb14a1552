SPECIFICATION Spec
CONSTANTS
  user = user
  userAgain = userAgain
  progress = progress
  key = key
  NoKey = NoKey
  NoMessage = NoMessage
  Message = {user, userAgain, progress}
  Group = {"projection_group", "supervisor_group"}
  Daemon = {d1}
  Route <- MCRoute
  Priority <- MCPriority
  DedupeKey <- MCDedupeKey
  Delay <- MCDelay
  BatchSize <- MCBatchSize
  Lease = 1
  RetryDelay = 1
  MaxAttempts = 2
  Retention = 1
  MaxNow = 2
INVARIANTS
  TypeOK
  HeldRowsAreRunning
  DeadLettersExact
PROPERTIES
  ImplementsPromise
CHECK_DEADLOCK FALSE
