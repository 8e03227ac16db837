SPECIFICATION Spec
CONSTANTS
  Drivers = 3
  Workers = 2
  Path <- MCPath
  Leavings <- MCLeavings
INVARIANTS
  TypeOK
  ReportRight
  OwnArtefacts
  PassEarned
  QuietWhenClosed
  ReportComplete
PROPERTIES
  Terminates
CHECK_DEADLOCK FALSE
