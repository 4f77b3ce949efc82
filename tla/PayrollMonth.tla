----------------------------- MODULE PayrollMonth -----------------------------
(***************************************************************************)
(* What the payroll of a month promises to those who are paid by it: each  *)
(* call that succeeds happens at one moment and as a whole.  A generation  *)
(* replaces drafts by drafts computed under one book of rules, an          *)
(* adjustment replaces what was adjusted before and nothing else, all      *)
(* payslips are finalised together and paid together, and nothing else     *)
(* ever happens to a payslip that is no draft.                             *)
(*                                                                         *)
(* The promise is given up for good once order is lost.                    *)
(***************************************************************************)
EXTENDS PayMath

CONSTANTS Employees, Basic, RuleBooks, Books, Adjustments

VARIABLES payslips,  \* the payslip of each employee who has one
          orderly    \* whether order has been kept so far

monthVars == <<payslips, orderly>>

NoPayslips == [e \in {} |-> 0]

Payslip(earned, withheld, bonus, other, status) ==
  [earned |-> earned, withheld |-> withheld, bonus |-> bonus, other |-> other,
   net |-> Net(earned + bonus, withheld + other), status |-> status]

All(status) == \A e \in DOMAIN payslips : payslips[e].status = status

Init == payslips = NoPayslips /\ orderly = TRUE

Generate(rules, book) ==
  /\ All("draft")
  /\ DOMAIN book # {}
  /\ payslips' = [e \in DOMAIN book |->
                    Payslip(Earned(Basic[e], book[e], rules), Withheld(Basic[e], book[e], rules),
                            0, 0, "draft")]

Adjust(e, a) ==
  LET p == payslips[e] IN
  /\ All("draft")
  /\ payslips' = [payslips EXCEPT ![e] = Payslip(p.earned, p.withheld, a.earn, a.deduct, "draft")]

Advance(from, to) ==
  /\ payslips # NoPayslips /\ All(from)
  /\ payslips' = [e \in DOMAIN payslips |-> [payslips[e] EXCEPT !.status = to]]

Discard ==
  /\ payslips # NoPayslips /\ All("draft")
  /\ payslips' = NoPayslips

InOrder ==
  \/ \E rules \in RuleBooks : \E ids \in SUBSET Employees : \E book \in [ids -> Books] :
       Generate(rules, book)
  \/ \E e \in DOMAIN payslips, a \in Adjustments : Adjust(e, a)
  \/ Advance("draft", "finalized") \/ Advance("finalized", "paid")
  \/ Discard

Next ==
  \/ orderly /\ orderly' /\ payslips' # payslips /\ InOrder
  \/ ~orderly'

Spec == Init /\ [][Next]_monthVars
===============================================================================
