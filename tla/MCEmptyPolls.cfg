SPECIFICATION WindowsSpec
CONSTANTS
  MaxScans = 4
  MaxLogs = 2
  Skus = {"milk", "bread"}
  SkuOf <- Alternating
  Window = 3
  Slide = 2
  Replay = 5
  Keep = 5
  TailBatch = 2
  RelayBatch = 2
  MaxNoise = 1
  MaxLag = 1
  MaxFaults = 1
  EmptyPollsLie = TRUE
CHECK_DEADLOCK FALSE
INVARIANTS
  PublishedIsComplete
