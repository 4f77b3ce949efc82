------------------------------- MODULE PayMath --------------------------------
(***************************************************************************)
(* The arithmetic of a payslip.  Money is whole cents; the code computes   *)
(* an amount in floating point and rounds it half away from zero, here it  *)
(* is the exact quotient that is rounded.  Days are counted in half days,  *)
(* the overtime multiplier in hundredths.  Employer contributions, which   *)
(* reach no total, are left out.                                           *)
(***************************************************************************)
EXTENDS Integers

PayRulesType(cap) ==
  [workingDays : 1 .. cap, hours : 0 .. cap, multiplier : 0 .. cap,
   deductAbsent : BOOLEAN, deductUnpaid : BOOLEAN, epf : 0 .. 100, tax : 0 .. 100]

\* What the register and the approved leave say of an employee's month.
BookType(cap) == [absent : 0 .. cap, unpaid : 0 .. cap, overtime : 0 .. cap]

Rounded(n, d) == (2 * n + d) \div (2 * d)

PercentOf(cents, percent) == Rounded(cents * percent, 100)

Overtime(basic, book, rules) ==
  IF rules.hours = 0 THEN 0
  ELSE Rounded(basic * book.overtime * rules.multiplier,
               rules.workingDays * rules.hours * 60 * 100)

UnpaidDays(book, rules) ==
  (IF rules.deductAbsent THEN book.absent ELSE 0) + (IF rules.deductUnpaid THEN book.unpaid ELSE 0)

AbsenceDeduction(basic, book, rules) ==
  Rounded(basic * UnpaidDays(book, rules), 2 * rules.workingDays)

Earned(basic, book, rules) == basic + Overtime(basic, book, rules)

Withheld(basic, book, rules) ==
  AbsenceDeduction(basic, book, rules) + PercentOf(basic, rules.epf) + PercentOf(basic, rules.tax)

\* Broken on purpose: a deduction beyond the salary is paid as a negative wage.
Net_NoFloor(earned, withheld) == earned - withheld

Net(earned, withheld) == IF earned < withheld THEN 0 ELSE earned - withheld
===============================================================================
