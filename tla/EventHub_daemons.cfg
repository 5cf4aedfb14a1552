SPECIFICATION Spec
CONSTANTS
  user = user
  userAgain = userAgain
  progress = progress
  key = key
  NoKey = NoKey
  NoMessage = NoMessage
  Message = {user, progress}
  Group = {"projection_group"}
  Daemon = {d1, d2}
  Route <- MCRoute
  Priority <- MCPriority
  DedupeKey <- MCDedupeKey
  Delay <- MCDelay
  BatchSize <- MCBatchSize
  Lease = 1
  RetryDelay = 1
  MaxAttempts = 2
  Retention = 0
  MaxNow = 3
INVARIANTS
  NoDeliveryLost
CHECK_DEADLOCK FALSE
