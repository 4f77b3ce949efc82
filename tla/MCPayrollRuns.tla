---------------------------- MODULE MCPayrollRuns -----------------------------
(* Instances of PayrollRuns for model checking. *)
EXTENDS PayrollRuns, TLC

CONSTANTS m1, m2, e1, e2

Salaries == e1 :> 100 @@ e2 :> 51

\* The second withholds more, and what it withholds is rounded.
TwoRuleBooks ==
  {[workingDays |-> 2, hours |-> 1, multiplier |-> 150, deductAbsent |-> TRUE,
    deductUnpaid |-> TRUE, epf |-> epf, tax |-> 5] : epf \in {0, 8}}

OneBook == {[absent |-> 1, unpaid |-> 0, overtime |-> 30]}

\* More than the second employee has left, and less than the first has.
BonusAndAdvance == {[earn |-> 10, deduct |-> 80]}

ManagerSymmetry == Permutations(Managers)
===============================================================================
