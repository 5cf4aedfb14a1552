SPECIFICATION FairSpec
CONSTANTS
  Kind <- MCKind
  MaxAnswer = 2
  SenderBatch = 2
  MaxAttempts = 2
  MaxInbound = 2
  MaxCommands = 2
  MaxRepeats = 1
  MaxThrows = 1
  MaxCrashes = 1
  MaxStops = 1
INVARIANTS
  TypeOK
  IngestedOnce
  OneAnswerPerFault
  TokenIsNewest
  AckedIsReported
  RepeatsNeedFaults
PROPERTIES
  CommandsSettle
CHECK_DEADLOCK FALSE
