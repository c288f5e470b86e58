SPECIFICATION Spec
CONSTANTS
  MaxRows = 2
  MaxBytes = 4
  PreviewRows = 1
  Tables <- MCTables
INVARIANT TimeoutTrue
CHECK_DEADLOCK FALSE
