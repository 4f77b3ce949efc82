SPECIFICATION FairSpec
CONSTANTS
  t1 = t1
  t2 = t2
  p1 = p1
  p2 = p2
  Tabs <- TwoTabs
  Products <- OneProduct
  MaxVersion = 3
  MaxLate = 2
INVARIANTS
  TypeOK
  FlaggedRowIsMine
  TombstoneHidden
  KnownToServer
PROPERTIES
  DeleteIsFinal
  Converges
