SPECIFICATION Spec
CONSTANTS
  first = first
  second = second
  scheduler = scheduler
  supervisor = supervisor
  right = right
  other = other
  Daemon = daemon
  Receiver = receiver
  Process = {daemon, cli}
  Message = {first, second}
  Loop = {scheduler, supervisor}
  Checksum = {right, other}
  Directory <- MCDirectory
  Reads <- MCReads
  BatchSize <- MCBatchSize
  MaxAttempts = 2
  MaxFaults = 2
  MaxStops = 1
INVARIANTS
  TypeOK
  EachMigrationOnce
  ReadyHasItsSchema
  WorkRepeatsNeedFaults
PROPERTY
  SentIsSettled
