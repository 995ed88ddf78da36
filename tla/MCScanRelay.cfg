SPECIFICATION FairRelay
CONSTANTS
  Workers = {w1, w2}
  NoWorker = NoWorker
  MaxScans = 2
  MaxLogs = 2
  Batch = 2
  MaxFaults = 1
  LeadersOutlive = TRUE
  SchemaDropped = FALSE
CHECK_DEADLOCK FALSE
INVARIANTS
  SavedIsPublished
  ReaderHasThisLog
PROPERTIES
  ScansGoOutInOrder
  EveryScanIsPublished
