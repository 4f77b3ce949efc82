----------------------------- MODULE PayrollRuns ------------------------------
(***************************************************************************)
(* The payroll of one month: generating a run and its payslips, adjusting  *)
(* a payslip, finalising the run, paying it, deleting it.                  *)
(*                                                                         *)
(* A call reads and checks first and writes later; what it has read is     *)
(* kept in it.  A transaction is one step where its statements cannot      *)
(* interleave with others to an effect, and more where they can: the       *)
(* header of a run is written outside the transaction that writes its      *)
(* payslips, and a transaction deletes the payslips of a run, or the lines *)
(* of a payslip, as it sees them then (read committed), not as they are    *)
(* when it commits.                                                        *)
(***************************************************************************)
EXTENDS PayMath, FiniteSets

CONSTANTS
  Managers,       \* sessions that run the payroll
  Employees,
  Basic,          \* basic salary of each, in cents
  RuleBooks,      \* the payroll settings there may be
  Books,          \* what register and leave may say of an employee's month
  Adjustments,    \* ad-hoc lines of one adjustment: what they add and take
  MaxFigure,      \* bound: on what rules, books and adjustments hold
  MaxGenerations, \* bound: how often the month is generated
  MaxAdjustments  \* bound: how often a payslip is adjusted

ASSUME PayrollRunsAssumption ==
  /\ MaxFigure \in Nat /\ MaxGenerations \in Nat /\ MaxAdjustments \in Nat
  /\ Basic \in [Employees -> Nat]
  /\ RuleBooks # {} /\ RuleBooks \subseteq PayRulesType(MaxFigure)
  /\ Books # {} /\ Books \subseteq BookType(MaxFigure)
  /\ Adjustments \subseteq [earn : 0 .. MaxFigure, deduct : 0 .. MaxFigure]

Statuses == {"draft", "finalized", "paid"}

VARIABLES
  run,         \* the month's run, if there is one
  slips,       \* the payslip of each employee, if there is one
  generations, \* how many generations have been written; the last one's number
  adjustments, \* how many adjustments have been begun
  call,        \* what each session is in the middle of
  overtaken,   \* sessions whose call has read what another has written since
  raced,       \* whether such a call has written
  cutShort     \* whether a transition was cut short after the run's header

vars == <<run, slips, generations, adjustments, call, overtaken, raced, cutShort>>

NoRun == [id |-> 0, status |-> "none"]

(* generation: tells the slip from those of another one; begun: the last   *)
(* generation written when its own began; run: whose it is; under: the     *)
(* rules it was computed with; lines: its ad-hoc lines, a batch per        *)
(* adjustment; bonus, other: their totals as the slip has them; mixed:     *)
(* whether an overtaken call saved it last.                                *)
Slip(generation, id, c, figures) ==
  [generation |-> generation, begun |-> c.begun, run |-> id, under |-> c.rules,
   earned |-> figures[1], withheld |-> figures[2], lines |-> {}, mixed |-> FALSE,
   bonus |-> 0, other |-> 0, net |-> Net(figures[1], figures[2]), status |-> "draft"]

NoSlip == [generation |-> 0]

Paid == {e \in Employees : slips[e] # NoSlip}

Idle == [op |-> "none", step |-> "none"]

Goes(s, c) == call' = [call EXCEPT ![s] = c]
Ends(s)    == Goes(s, Idle)
Free(s)    == call[s] = Idle
At(s, op, step) == call[s].op = op /\ call[s].step = step

Init ==
  /\ run = NoRun
  /\ slips = [e \in Employees |-> NoSlip]
  /\ generations = 0 /\ adjustments = 0
  /\ call = [s \in Managers |-> Idle]
  /\ overtaken = {} /\ raced = FALSE /\ cutShort = FALSE

counts == <<generations, adjustments>>

\* A call that has only read so far.
Reads(s, c) ==
  /\ Goes(s, c)
  /\ UNCHANGED <<run, slips, generations, overtaken, raced, cutShort>>

\* A call that writes run or slips: the others under way are overtaken by it.
Writes(s) ==
  /\ overtaken' = {t \in Managers \ {s} : t \in overtaken \/ ~Free(t)}
  /\ raced' = (raced \/ s \in overtaken)

\* A call that ends without writing.
GivesUp(s) ==
  /\ Ends(s)
  /\ overtaken' = overtaken \ {s}
  /\ UNCHANGED <<run, slips, counts, raced, cutShort>>

-------------------------------------------------------------------------------
(* Generate *)

\* The settings, whatever they are by now, and the run of the period, which
\* must be a draft if it exists.
ResolveRun(s, rules) ==
  /\ Free(s) /\ generations < MaxGenerations
  /\ run = NoRun \/ run.status = "draft"
  /\ Reads(s, [op |-> "generate", step |-> "books", begun |-> generations, run |-> run,
               rules |-> rules])
  /\ UNCHANGED adjustments

\* Register and leave of those to be paid, whatever they say by now, and the
\* payslips computed of them.
ReadBooks(s, book) ==
  LET c == call[s] IN
  /\ At(s, "generate", "books")
  /\ DOMAIN book # {}
  /\ Reads(s, [op |-> "generate", step |-> "clear", begun |-> c.begun, run |-> c.run,
               rules |-> c.rules,
               figures |-> [e \in DOMAIN book |-> <<Earned(Basic[e], book[e], c.rules),
                                            Withheld(Basic[e], book[e], c.rules)>>]])
  /\ UNCHANGED adjustments

\* The transaction begins: it deletes the payslips it sees of its run, all of
\* them, and none of a generation that is yet to commit.
ClearPayslips(s) ==
  LET c == call[s] IN
  /\ At(s, "generate", "clear")
  /\ Reads(s, [op |-> "generate", step |-> "write", begun |-> c.begun, run |-> c.run,
               rules |-> c.rules, figures |-> c.figures,
               cleared |-> {slips[e].generation : e \in {f \in Paid : slips[f].run = c.run.id}}])
  /\ UNCHANGED adjustments

\* Those that other generations have written since.
KeptSlips(c) == {e \in Paid : slips[e].generation \notin c.cleared}

ReplacePayslips(id, c) ==
  slips' = [e \in Employees |->
              IF e \in DOMAIN c.figures THEN Slip(generations', id, c, c.figures[e])
              ELSE IF e \in KeptSlips(c) THEN slips[e]
              ELSE NoSlip]

\* An employee has one payslip in a run.
Insertable(c) == KeptSlips(c) \cap DOMAIN c.figures = {}

\* Broken on purpose: the run is created in a transaction of its own, and the
\* payslips of a new run are left to the next generation.
WriteRun_HeaderFirst(s) ==
  LET c == call[s] IN
  /\ At(s, "generate", "write")
  /\ run.id = c.run.id /\ Insertable(c)
  /\ generations < MaxGenerations /\ generations' = generations + 1
  /\ IF c.run = NoRun
       THEN /\ run' = [id |-> generations', status |-> "draft", rules |-> c.rules]
            /\ UNCHANGED slips
       ELSE ReplacePayslips(run.id, c) /\ UNCHANGED run
  /\ Ends(s) /\ Writes(s)
  /\ UNCHANGED <<adjustments, cutShort>>

\* It commits.  The rules it was computed with are stored with a new run;
\* those of a run that exists stay as they were when it was created.
WriteRun(s) ==
  LET c == call[s] IN
  /\ At(s, "generate", "write")
  /\ run.id = c.run.id /\ Insertable(c)
  /\ generations < MaxGenerations /\ generations' = generations + 1
  /\ run' = IF c.run = NoRun
              THEN [id |-> generations', status |-> "draft", rules |-> c.rules]
              ELSE run
  /\ ReplacePayslips(run'.id, c)
  /\ Ends(s) /\ Writes(s)
  /\ UNCHANGED <<adjustments, cutShort>>

\* It fails, and leaves nothing behind, if somebody else has created the run of
\* this month (the period is unique), if the run it is for was deleted (no
\* payslip without its run), or if another generation has written a payslip of
\* the same employee since it cleared them.
RunIsTaken(s) ==
  /\ At(s, "generate", "write")
  /\ run.id # call[s].run.id \/ ~Insertable(call[s])
  /\ GivesUp(s)

-------------------------------------------------------------------------------
(* Finalize and MarkPaid *)

Precedes(status) == IF status = "finalized" THEN "draft" ELSE "finalized"

\* Broken on purpose: a run is paid whatever its status.
BeginTransition_AnyStatus(s, status) ==
  /\ Free(s)
  /\ run # NoRun
  /\ Paid # {}
  /\ Reads(s, [op |-> "transition", step |-> "header", run |-> run, status |-> status])
  /\ UNCHANGED adjustments

BeginTransition(s, status) ==
  /\ Free(s)
  /\ run # NoRun /\ run.status = Precedes(status)
  /\ status = "finalized" => Paid # {}
  /\ Reads(s, [op |-> "transition", step |-> "header", run |-> run, status |-> status])
  /\ UNCHANGED adjustments

\* The header goes first, and is not part of the transaction.
UpdateRunStatus(s) ==
  /\ At(s, "transition", "header")
  /\ run.id = call[s].run.id
  /\ run' = [id |-> run.id, status |-> call[s].status, rules |-> run.rules]
  /\ Goes(s, [op |-> "transition", step |-> "slips", run |-> call[s].run,
              status |-> call[s].status])
  /\ Writes(s)
  /\ UNCHANGED <<slips, counts, cutShort>>

\* Broken on purpose: payslips stay drafts behind the frozen header.
SetPayslipStatus_Never(s) ==
  /\ At(s, "transition", "slips")
  /\ Ends(s) /\ Writes(s)
  /\ UNCHANGED <<run, slips, counts, cutShort>>

SetPayslipStatus(s) ==
  /\ At(s, "transition", "slips")
  /\ slips' = [e \in Employees |->
                 IF e \in Paid /\ slips[e].run = call[s].run.id
                   THEN [slips[e] EXCEPT !.status = call[s].status]
                   ELSE slips[e]]
  /\ Ends(s) /\ Writes(s)
  /\ UNCHANGED <<run, counts, cutShort>>

-------------------------------------------------------------------------------
(* DeleteRun *)

\* Broken on purpose: a run is deleted whatever its status.
BeginDelete_AnyStatus(s) ==
  /\ Free(s)
  /\ run # NoRun
  /\ Reads(s, [op |-> "delete", step |-> "write", run |-> run])
  /\ UNCHANGED adjustments

BeginDelete(s) ==
  /\ Free(s)
  /\ run.status = "draft"
  /\ Reads(s, [op |-> "delete", step |-> "write", run |-> run])
  /\ UNCHANGED adjustments

\* Its payslips and their lines go with it.
DeleteRun(s) ==
  /\ At(s, "delete", "write")
  /\ run.id = call[s].run.id
  /\ run' = NoRun
  /\ slips' = [e \in Employees |-> NoSlip]
  /\ cutShort' = FALSE
  /\ Ends(s) /\ Writes(s)
  /\ UNCHANGED <<counts>>

RunIsGone(s) ==
  /\ At(s, "delete", "write") \/ At(s, "transition", "header")
  /\ run.id # call[s].run.id
  /\ GivesUp(s)

-------------------------------------------------------------------------------
(* AdjustPayslip *)

\* Broken on purpose: a payslip is adjusted whatever its status.
FindPayslip_AnyStatus(s, e, a) ==
  /\ Free(s)
  /\ e \in Paid
  /\ adjustments < MaxAdjustments /\ adjustments' = adjustments + 1
  /\ Reads(s, [op |-> "adjust", step |-> "clear", employee |-> e, seen |-> slips[e],
               batch |-> [no |-> adjustments', earn |-> a.earn, deduct |-> a.deduct]])

FindPayslip(s, e, a) ==
  /\ Free(s)
  /\ e \in Paid /\ slips[e].status = "draft"
  /\ adjustments < MaxAdjustments /\ adjustments' = adjustments + 1
  /\ Reads(s, [op |-> "adjust", step |-> "clear", employee |-> e, seen |-> slips[e],
               batch |-> [no |-> adjustments', earn |-> a.earn, deduct |-> a.deduct]])

SameSlip(s) == slips[call[s].employee].generation = call[s].seen.generation

\* The transaction begins: it deletes the lines it sees.
ClearLines(s) ==
  /\ At(s, "adjust", "clear")
  /\ Reads(s, [op |-> "adjust", step |-> "save", employee |-> call[s].employee,
               seen |-> call[s].seen, batch |-> call[s].batch,
               cleared |-> IF SameSlip(s) THEN slips[call[s].employee].lines ELSE {}])
  /\ UNCHANGED adjustments

\* Broken on purpose: the lines are added to those there are.
KeptLines_All(s) == slips[call[s].employee].lines

KeptLines(s) == slips[call[s].employee].lines \ call[s].cleared

\* retotal, with the totals of the new lines.
Adjusted(p, kept, b, status, late) ==
  [generation |-> p.generation, begun |-> p.begun, run |-> p.run, under |-> p.under,
   earned |-> p.earned, withheld |-> p.withheld, lines |-> kept \cup {b}, mixed |-> late,
   bonus |-> b.earn, other |-> b.deduct,
   net |-> Net(p.earned + b.earn, p.withheld + b.deduct), status |-> status]

\* It commits: the new lines, and the totals and the status of the slip as the
\* call has read and reckoned them.
SavePayslip(s) ==
  LET e == call[s].employee IN
  /\ At(s, "adjust", "save")
  /\ SameSlip(s)
  /\ slips' = [slips EXCEPT ![e] = Adjusted(@, KeptLines(s), call[s].batch, call[s].seen.status,
                                            s \in overtaken)]
  /\ Ends(s) /\ Writes(s)
  /\ UNCHANGED <<run, counts, cutShort>>

\* The payslip was replaced or deleted meanwhile: nothing is saved.
PayslipIsGone(s) ==
  /\ At(s, "adjust", "save")
  /\ ~SameSlip(s)
  /\ GivesUp(s)

-------------------------------------------------------------------------------

\* The server stops, or the database fails, between header and payslips.  (Cut
\* short elsewhere a call leaves nothing behind: it ends like GivesUp.)
Interrupt(s) ==
  /\ ~Free(s)
  /\ Ends(s)
  /\ overtaken' = overtaken \ {s}
  /\ cutShort' = (cutShort \/ At(s, "transition", "slips"))
  /\ UNCHANGED <<run, slips, counts, raced>>

Next ==
  \E s \in Managers :
    \/ \E rules \in RuleBooks : ResolveRun(s, rules)
    \/ \E ids \in SUBSET Employees : \E book \in [ids -> Books] : ReadBooks(s, book)
    \/ ClearPayslips(s) \/ WriteRun(s) \/ RunIsTaken(s)
    \/ \E status \in {"finalized", "paid"} : BeginTransition(s, status)
    \/ UpdateRunStatus(s) \/ SetPayslipStatus(s)
    \/ BeginDelete(s) \/ DeleteRun(s) \/ RunIsGone(s)
    \/ \E e \in Employees, a \in Adjustments : FindPayslip(s, e, a)
    \/ ClearLines(s) \/ SavePayslip(s) \/ PayslipIsGone(s)
    \/ Interrupt(s)

Spec == Init /\ [][Next]_vars

-------------------------------------------------------------------------------

Batch == [no : 1 .. MaxAdjustments, earn : 0 .. MaxFigure, deduct : 0 .. MaxFigure]

SlipType ==
  {NoSlip} \cup
  [generation : 1 .. MaxGenerations, begun : 0 .. MaxGenerations, run : 1 .. MaxGenerations,
   under : RuleBooks, earned : Nat, withheld : Nat, lines : SUBSET Batch, mixed : BOOLEAN,
   bonus : Nat, other : Nat, net : Nat, status : Statuses]

TypeOK ==
  /\ run \in {NoRun} \cup [id : 1 .. MaxGenerations, status : Statuses, rules : RuleBooks]
  /\ slips \in [Employees -> SlipType]
  /\ generations \in 0 .. MaxGenerations /\ adjustments \in 0 .. MaxAdjustments
  /\ overtaken \subseteq Managers
  /\ raced \in BOOLEAN /\ cutShort \in BOOLEAN

(* Generate writes a run and its payslips in one transaction, replaces     *)
(* them and deletes them together: however calls interleave, no report     *)
(* finds a run without payslips or a payslip without its run.  A payslip   *)
(* outlives a later generation of the run only if that one had begun when  *)
(* it was written (of two generations that run side by side, for different *)
(* employees, neither deletes what the other inserts); those of one        *)
(* generation have the same rules, and those of a run's first one the      *)
(* rules that are stored with it.                                          *)
NoHalfRun ==
  /\ run # NoRun => Paid # {}
  /\ \A e \in Paid : slips[e].run = run.id
  /\ \A e, f \in Paid :
       LET p == slips[e]
           q == slips[f] IN
       /\ p.generation = q.generation => p.under = q.under
       /\ p.generation < q.generation => q.begun < p.generation
  /\ \A e \in Paid : slips[e].generation = run.id => slips[e].under = run.rules

AddsUp(p) ==
  /\ p.lines = {} => p.bonus = 0 /\ p.other = 0
  /\ \A b \in p.lines : p.lines = {b} /\ p.bonus = b.earn /\ p.other = b.deduct
  /\ p.net = Net(p.earned + p.bonus, p.withheld + p.other)

(* AdjustPayslip and retotal: the totals of a payslip are those of the     *)
(* lines it prints, and the net is what they come to, unless the call that *)
(* saved it last had been overtaken: the next adjustment mends it.         *)
LinesAddUp == \A e \in Paid : slips[e].mixed \/ AddsUp(slips[e])

Turning == \E s \in Managers : At(s, "transition", "slips")

(* SetPayslipStatusForRun: the payslips move with the run, as long as no   *)
(* overtaken call has written and no transition was cut short or is under  *)
(* way.                                                                    *)
SlipsFollowRun ==
  ~raced /\ ~cutShort /\ ~Turning => \A e \in Paid : slips[e].status = run.status

\* This step is one of a call that has been overtaken.
IsLate == \E s \in overtaken : call'[s] # call[s]

(* What a member of staff has been shown does not change, whatever else    *)
(* has gone wrong before: a payslip that is finalised keeps its figures    *)
(* and is not taken away, except by a call that checked before another one *)
(* wrote.                                                                  *)
FinalFiguresStand ==
  [][\A e \in Paid :
       slips[e].status # "draft" /\ ~IsLate =>
         slips'[e] # NoSlip /\ [slips'[e] EXCEPT !.status = slips[e].status] = slips[e]]_vars

(* One way: draft, finalised, paid, except for a header that is written by *)
(* a call that checked before another one wrote.                           *)
StatusGoesForward ==
  [][run.status # run'.status /\ ~IsLate =>
       <<run.status, run'.status>> \in
         {<<"none", "draft">>, <<"draft", "none">>, <<"draft", "finalized">>, <<"finalized", "paid">>}]_vars

(* The month as those who are paid see it.  Order is kept until a call     *)
(* writes over what another has written since it checked, a transition is  *)
(* cut short after the run's header, or one that is about to turn the      *)
(* payslips has been overtaken.                                            *)
Seen(p) == [earned |-> p.earned, withheld |-> p.withheld, bonus |-> p.bonus, other |-> p.other,
            net |-> p.net, status |-> p.status]

Orderly == ~raced /\ ~cutShort /\ \A s \in overtaken : ~At(s, "transition", "slips")

Month == INSTANCE PayrollMonth WITH payslips <- [e \in Paid |-> Seen(slips[e])],
                                    orderly <- Orderly

(* The handlers, cut into their reads and writes, implement PayrollMonth,  *)
(* whose operations are atomic: while order is kept, each call that        *)
(* succeeds takes effect in one of its steps, on the month as it is then.  *)
ImplementsMonth == Month!Spec

(* What hrm_payroll_service.go says of transition: the payslips move with  *)
(* the run, so that finalising cannot leave slips editable behind a frozen *)
(* header.                                                                 *)
NoneEditableBehindFrozenHeader ==
  ~raced /\ ~Turning => \A e \in Paid : run.status # "draft" => slips[e].status # "draft"
===============================================================================
