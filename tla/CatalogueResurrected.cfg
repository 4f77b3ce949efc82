SPECIFICATION FairSpec
CONSTANTS
  t1 = t1
  t2 = t2
  p1 = p1
  p2 = p2
  Tabs <- OneTab
  Products <- OneProduct
  MaxVersion = 2
  MaxLate = 1
PROPERTY
  DeletedStaysGone
