SPECIFICATION FairReaders
CONSTANTS
  CatalogSize = 3
  Chunk = 2
  Readers = {checkout}
  Batch = 3
  MaxFaults = 1
CHECK_DEADLOCK FALSE
INVARIANTS
  NoItemIsUnknown
  MarkerHasItsItems
PROPERTIES
  SnapshotsLoad
