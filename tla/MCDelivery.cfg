SPECIFICATION FairPath
CONSTANTS
  MaxEvents = 1
  KeyOf <- OneEvent
  Sweepers = {s1, s2}
  SweepLimit = 2
  MaxCopies = 1
  Consumers = {c1, c2}
  Malformed = {}
  MaxPoll = 2
  MaxAttempts = 1
  Concurrency = 1
INVARIANTS
  MarkedIsPublished
  PurgedIsReachable
PROPERTIES
  ImplementsChannel
