SPECIFICATION Spec
CONSTANTS
  m1 = m1
  m2 = m2
  e1 = e1
  e2 = e2
  Managers = {m1, m2}
  Employees = {e1, e2}
  Basic <- Salaries
  RuleBooks <- TwoRuleBooks
  Books <- OneBook
  Adjustments <- BonusAndAdvance
  MaxFigure = 200
  MaxGenerations = 2
  MaxAdjustments = 2
INVARIANT NoneEditableBehindFrozenHeader
CHECK_DEADLOCK FALSE
