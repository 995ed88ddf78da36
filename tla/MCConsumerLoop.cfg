SPECIFICATION FairLoop
CONSTANTS
  MaxEvents = 2
  KeyOf <- OneKey
  MaxCopies = 1
  Consumers = {c1, c2}
  Malformed = {1}
  MaxPoll = 2
  MaxAttempts = 2
  Concurrency = 1
INVARIANTS
  NothingSkipped
  KeysInOrder
PROPERTIES
  CommittedAdvances
  EveryRecordSettles
