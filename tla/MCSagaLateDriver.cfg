CONSTANTS
  t1 = t1
  t2 = t2
  milk = milk
  h1 = h1
  h2 = h2
  r1 = r1
  NoTx = NoTx
  Tx = {t1}
  Skus = {milk}
  MaxEpoch = 2
  Opening <- MCTwoUnits
  Threshold = 0
  Baskets <- MCBaskets
  Handlers = {h1, h2}
  Loops = {r1}
  ClaimLimit = 2
  LeaseCoversDriver = FALSE
  LoneCompensator = TRUE
  TakeoverAlone = TRUE
  CommitAckKept = TRUE
SPECIFICATION Spec
PROPERTIES
  FinalizedOnReservation
CHECK_DEADLOCK FALSE
