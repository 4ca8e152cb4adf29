SPECIFICATION Spec
CONSTANTS
  t1 = t1
  t2 = t2
  b1 = b1
  i1 = i1
  i2 = i2
  h1 = h1
  h2 = h2
  Tx = {t1, t2}
  Buyer = {b1}
  Invoice = {i1, i2}
  None = None
  Handler = {h1, h2}
INVARIANTS OneLivePrint FinancedOnce ChecksAreInHand
SYMMETRY Symmetry
CHECK_DEADLOCK FALSE
