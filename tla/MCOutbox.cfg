SPECIFICATION OutboxSpec
CONSTANTS
  MaxEvents = 3
  KeyOf <- TwoThenOne
  Sweepers = {s1, s2}
  SweepLimit = 2
  MaxCopies = 1
SYMMETRY SweepersAlike
INVARIANTS
  OutboxTypeOK
  MarkedIsPublished
  SweepsAreApart
  OutboxInv
