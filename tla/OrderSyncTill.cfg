SPECIFICATION FairSpec
CONSTANTS
  t1 = t1
  t2 = t2
  Tabs <- OneTab
  Orders = {1, 2, 3, 4}
  BatchSize = 2
  Malformed = {3}
  Unstorable = {1}
INVARIANT
  ClaimsOwned
PROPERTIES
  FinalStatus
  SalesSettle
  SalesDelivered
