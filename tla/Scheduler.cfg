SPECIFICATION Spec
CONSTANTS
  monitor = monitor
  handoff = handoff
  reminder = reminder
  once = once
  SystemInterval = {monitor}
  SystemDaily = {handoff}
  UserInterval = {reminder}
  UserOnce = {once}
  Interval <- MCInterval
  RunAt <- MCRunAt
  Priority <- MCPriority
  HandoffTime = 1
  Day = 2
  Poll = 2
  Limit = 4
  MaxThrows = 1
  MaxRestarts = 1
  MaxNow = 5
INVARIANTS
  TypeOK
  EventsMoveOn
  RunsTellTheTruth
  NoDrift
  SweepLeavesNothingDue
  HandoffMissedOnlyWhenDown
PROPERTIES
  DisabledIsFinal
CHECK_DEADLOCK FALSE
