SPECIFICATION FairSpec
CONSTANTS
  s1 = s1
  s2 = s2
  r1 = r1
  r2 = r2
  DayLength = 2
  ShiftStart = 1
  ShiftEnd = 1
  BreakTime = 0
  Grace = 0
  FullDay = 2
  HalfDay = 1
  WeeklyOff = {}
  ExcludeWeeklyOff = TRUE
  Terminals = {s1}
  Applicants = {s1, s2}
  Reviewers = {s1, s2}
  Supervisors = {s2}
  Requests = {r1, r2}
  Application <- TwoRequests
  AnnualQuota = 5
  AllowNegative = FALSE
  MaxConsecutive = 0
  MinNotice = 0
  AllowFuture = FALSE
  ManualEntries <- ByHand
  Punches = {1, 2}
  MaxDay = 1
  MaxCorrections = 1
INVARIANTS
  TypeOK
  QuotaKept
  NoDoubleBooking
  LeaveOnRegister
  LateIffPastGrace
PROPERTIES
  ArrivalStands
  ClosesOpenDay
  LeaveGetsMarked
