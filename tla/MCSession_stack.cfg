SPECIFICATION SessionSpec
CONSTANTS
  MaxRuns = 4
  MaxQueue = 1
  MaxRequests = 5
  RequestsInService = TRUE
  SavesInRun = FALSE
CHECK_DEADLOCK FALSE
INVARIANTS
  SessionsKept
  Lineage
PROPERTIES
  RollbackExact
  LoadRestores
