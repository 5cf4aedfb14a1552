SPECIFICATION Spec
CONSTANTS
  Task = {t}
  NoTask = NoTask
  Group = {"worker_group", "projection_group"}
  CommandPriority = {1, 2, 3}
  EventPriority = 2
  Outcome = {"success", "error"}
  BatchSize <- MCBatchSize
  MaxAttempts = 2
  Budgets <- MCCalm
PROPERTIES
  CancelSparesTheCompleted
CHECK_DEADLOCK FALSE
