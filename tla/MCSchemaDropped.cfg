SPECIFICATION RelaySpec
CONSTANTS
  Workers = {w1, w2}
  NoWorker = NoWorker
  MaxScans = 1
  MaxLogs = 2
  Batch = 2
  MaxFaults = 0
  LeadersOutlive = FALSE
  SchemaDropped = TRUE
CHECK_DEADLOCK FALSE
INVARIANTS
  ReaderHasThisLog
