SPECIFICATION FairSpec
CONSTANTS
  Task = {t}
  NoTask = NoTask
  Group = {"worker_group", "projection_group"}
  CommandPriority = {1, 2, 3}
  EventPriority = 2
  Outcome = {"error", "needs_decision"}
  BatchSize <- MCBatchSize
  MaxAttempts = 2
  Budgets <- MCBudgets
INVARIANTS
  TypeOK
  AckedIsAnswered
  StaleRunsAreCutOff
  ViewCatchesUp
PROPERTIES
  RunningEnds
CHECK_DEADLOCK FALSE
