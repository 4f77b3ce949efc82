SPECIFICATION FairSpec
CONSTANTS
  p1 = p1
  p2 = p2
  s1 = s1
  s2 = s2
  Products <- OneProduct
  Sales <- TwoSales
  MaxQty = 1
  MaxStock = 1
INVARIANTS
  TypeOK
  BalanceIsStock
  ServerStockExact
PROPERTY
  FiguresAgree
