SPECIFICATION Spec
CONSTANTS
  m1 = m1
  m2 = m2
  e1 = e1
  e2 = e2
  Managers = {m1, m2}
  Employees = {e1, e2}
  Basic <- Salaries
  RuleBooks <- TwoRuleBooks
  Books <- OneBook
  Adjustments <- BonusAndAdvance
  MaxFigure = 200
  MaxGenerations = 3
  MaxAdjustments = 2
INVARIANTS
  TypeOK
  NoHalfRun
  LinesAddUp
  SlipsFollowRun
PROPERTIES
  FinalFiguresStand
  StatusGoesForward
  ImplementsMonth
SYMMETRY ManagerSymmetry
CHECK_DEADLOCK FALSE
