SPECIFICATION Spec
CONSTANTS
  d1 = d1
  d2 = d2
  p1 = p1
  p2 = p2
  o1 = o1
  o2 = o2
  Desks = {d1, d2}
  Products = {p1, p2}
  Orders = {o1, o2}
  Ordered <- TwoOrders
  Deliveries <- SomeDeliveries
  MaxUnits = 1
  MaxCalls = 3
INVARIANTS
  TypeOK
  NotOverstated
  ShownWhenDone
  StatusTellsLines
  LegsMatch
  ReferencesDistinct
SYMMETRY DeskSymmetry
