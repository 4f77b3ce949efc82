SPECIFICATION Spec
CONSTANTS
  p1 = p1
  p2 = p2
  s1 = s1
  s2 = s2
  Products <- OneProduct
  Sales <- OneSale
  MaxQty = 1
  MaxStock = 2
INVARIANT
  SoldStockTakenOnce
