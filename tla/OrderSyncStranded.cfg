SPECIFICATION Spec
CONSTANTS
  t1 = t1
  t2 = t2
  Tabs <- OneTab
  Orders = {1, 2}
  BatchSize = 2
  Malformed = {2}
  Unstorable = {}
INVARIANT
  ConflictIsPermanent
