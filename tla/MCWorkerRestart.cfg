SPECIFICATION FairSpec
CONSTANTS
  Services = {a, b}
  Copies = {k1, k2}
INVARIANTS
  TypeOK
  WorkersOwned
  AnsweredSurvives
  ServedWhole
PROPERTIES
  StartsEnd
  ImplementsEntry
CHECK_DEADLOCK FALSE
