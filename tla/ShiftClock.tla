------------------------------ MODULE ShiftClock ------------------------------
(***************************************************************************)
(* The roster arithmetic of the attendance register: when a punch is late, *)
(* what a worked day counts as, and how many days a leave request takes.   *)
(*                                                                         *)
(* Time is counted in units from the midnight that starts day 0; the code  *)
(* counts minutes.  The employee has one shift.  Leave is counted in half  *)
(* days.                                                                   *)
(***************************************************************************)
EXTENDS Integers, FiniteSets

CONSTANTS
  DayLength,        \* units in a day
  ShiftStart,       \* units after midnight at which the shift starts ...
  ShiftEnd,         \* ... and ends, on the next day if not later
  BreakTime,        \* unpaid break
  Grace,            \* how far after the start a punch is not late yet
  FullDay,          \* worked time from which a day is a full one ...
  HalfDay,          \* ... or half of one
  WeeklyOff,        \* rostered days off
  ExcludeWeeklyOff  \* whether leave skips them

ASSUME ShiftClockAssumption ==
  /\ DayLength \in Nat \ {0}
  /\ ShiftStart \in 0 .. DayLength - 1
  /\ ShiftEnd \in 0 .. DayLength - 1
  /\ {BreakTime, Grace, FullDay, HalfDay} \subseteq Nat
  /\ WeeklyOff \subseteq Nat
  /\ ExcludeWeeklyOff \in BOOLEAN

NoTime == -1

Day(t) == t \div DayLength

CrossesMidnight == ShiftEnd <= ShiftStart

\* Broken on purpose: a punch after midnight is compared as it is.
RolledForward_Never(arrival) == arrival

\* A punch before the start, if the shift crosses midnight, is taken for one
\* on the day after.
RolledForward(arrival) ==
  IF CrossesMidnight /\ arrival < ShiftStart THEN arrival + DayLength ELSE arrival

LateTime(workDate, at) ==
  LET arrival == RolledForward(at % DayLength)
      allowed == ShiftStart + Grace
  IN IF workDate \in WeeklyOff \/ arrival <= allowed THEN 0 ELSE arrival - allowed

WorkedTime(in, out) ==
  LET worked == out - in - BreakTime IN IF worked < 0 THEN 0 ELSE worked

\* What a day closed by a punch counts as.
DayStatus(workDate, in, out) ==
  LET worked == WorkedTime(in, out) IN
  IF worked >= FullDay
    THEN IF LateTime(workDate, in) > 0 THEN "late" ELSE "present"
    ELSE IF worked >= HalfDay THEN "half_day" ELSE "absent"

LeaveDays(from, to) ==
  {d \in from .. to : ~ (ExcludeWeeklyOff /\ d \in WeeklyOff)}

\* In half days.
CountLeave(from, to, halfDay) ==
  IF halfDay /\ from = to THEN 1 ELSE 2 * Cardinality(LeaveDays(from, to))
===============================================================================
