CONSTANTS
  t1 = t1
  t2 = t2
  milk = milk
  bread = bread
  w1 = w1
  w2 = w2
  w3 = w3
  Tx = {t1, t2}
  Skus = {milk, bread}
  MaxEpoch = 1
  Opening <- MCOpening
  Threshold = 1
  Baskets <- MCBaskets
  Sessions = {w1, w2}
  SkuOrder <- MCSkuOrder
SPECIFICATION StatementsSpec
SYMMETRY MCSymmetry
INVARIANTS
  OneVerdict
