CONSTANTS
  t1 = t1
  t2 = t2
  milk = milk
  bread = bread
  Tx = {t1, t2}
  Skus = {milk, bread}
  MaxEpoch = 2
  Opening <- MCOpening
  Threshold = 1
  Baskets <- MCBaskets
SPECIFICATION LedgerSpec
INVARIANTS
  LedgerTypeOK
  StockConserved
  OneVerdict
  LowStockAnnounced
PROPERTIES
  RecordsOnlyAdvance
SYMMETRY MCSymmetry
