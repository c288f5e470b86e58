SPECIFICATION FairSpec
CONSTANTS
  MaxRows = 2
  MaxBytes = 4
  PreviewRows = 1
  Tables <- MCTables
INVARIANTS
  TypeOK
  AnswerIsFinal
  OutcomeTrue
  LimitsExact
  FileIsPrefix
  ReceivedNotLost
PROPERTIES
  InterruptedRunsEnd
CHECK_DEADLOCK FALSE
