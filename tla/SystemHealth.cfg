SPECIFICATION FairSpec
CONSTANTS
  Group = {"monitor_group", "projection_group", "supervisor_group"}
  BatchSize <- MCBatchSize
  Priority <- MCPriority
  MaxAttempts = 2
  Budgets <- MCBudgets
INVARIANTS
  TypeOK
  AlertsNeedTicks
PROPERTY
  FailureIsTold
CHECK_DEADLOCK FALSE
