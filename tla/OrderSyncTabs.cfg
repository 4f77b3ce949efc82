SPECIFICATION Spec
CONSTANTS
  t1 = t1
  t2 = t2
  Tabs <- TwoTabs
  Orders = {1, 2, 3}
  BatchSize = 2
  Malformed = {2}
  Unstorable = {}
SYMMETRY TabSymmetry
INVARIANTS
  TypeOK
  StockDeductedOnce
  SyncedIsStored
  LoopAlive
PROPERTY
  ImplementsLedger
