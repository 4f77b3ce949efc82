-------------------------- MODULE PayrollMonth_proofs --------------------------
(***************************************************************************)
(* PayrollRuns implements PayrollMonth, for any managers, employees, rules *)
(* and books: as long as order is kept, each handler that succeeds takes   *)
(* effect in one of its steps, as an atomic operation on the month.        *)
(***************************************************************************)
EXTENDS PayrollRuns_proofs

USE PayrollRunsAssumption

-------------------------------------------------------------------------------
(* What the refinement needs to know *)

(* A generation about to write has computed what it writes from some books *)
(* under its rules; an adjustment is one that there may be.                *)
Meant(c) ==
  /\ c.op = "generate" /\ c.step # "books" =>
       \E book \in [DOMAIN c.figures -> Books] :
         c.figures = [e \in DOMAIN c.figures |-> <<Earned(Basic[e], book[e], c.rules),
                                                   Withheld(Basic[e], book[e], c.rules)>>]
  /\ c.op = "adjust" =>
       \E a \in Adjustments : c.batch.earn = a.earn /\ c.batch.deduct = a.deduct

AllMeant == \A s \in Managers : Meant(call[s])

(* A run that is being turned, or was left half turned, is no draft.       *)
Frozen == ~raced /\ (cutShort \/ Turning) => run.status \in {"finalized", "paid"}

(* Before the payslips are turned, they all are what they are turned from. *)
Due ==
  Orderly =>
    \A s \in Managers :
      At(s, "transition", "slips") => \A e \in Paid : slips[e].status = Precedes(call[s].status)

MonthInv == IInv /\ AllMeant /\ Frozen /\ Due

Shown == [e \in Paid |-> Seen(slips[e])]
-------------------------------------------------------------------------------
(* Steps that leave the month alone *)

(* A step of s that only reads or gives up: it goes to c.                  *)
Quiet(s, c) ==
  /\ Goes(s, c) /\ Meant(c)
  /\ ~At(s, "transition", "slips") /\ ~(c.op = "transition" /\ c.step = "slips")
  /\ UNCHANGED <<run, slips, raced, cutShort>>
  /\ overtaken' = overtaken \/ overtaken' = overtaken \ {s}

LEMMA IdleMeant == Meant(Idle)
BY DEF Meant, Idle

LEMMA StillMeant ==
  ASSUME CallsOK, AllMeant, NEW s \in Managers, NEW c, Goes(s, c), Meant(c)
  PROVE  AllMeant'
<1>1. call'[s] = c /\ \A t \in Managers : t # s => call'[t] = call[t]
  BY Went
<1>2. \A t \in Managers : Meant(call'[t])
  BY <1>1 DEF AllMeant
<1> QED BY <1>2 DEF AllMeant, Meant

LEMMA QuietKeeps ==
  ASSUME MonthInv, NEW s \in Managers, NEW c, Quiet(s, c)
  PROVE  /\ AllMeant' /\ Frozen' /\ Due'
         /\ Shown' = Shown /\ Orderly' = Orderly
<1>1. CallsOK /\ TypeOK
  BY DEF MonthInv, IInv, Types
<1>2. call'[s] = c /\ \A t \in Managers : t # s => call'[t] = call[t]
  BY <1>1, Went DEF Quiet
<1>3. AllMeant'
  BY <1>1, StillMeant DEF MonthInv, Quiet
<1>4. \A t \in Managers : At(t, "transition", "slips")' <=> At(t, "transition", "slips")
  BY <1>2 DEF Quiet, At
<1>5. \A t \in Managers : At(t, "transition", "slips") => call'[t] = call[t]
  BY <1>2 DEF Quiet
<1>6. /\ UNCHANGED <<run, slips, raced, cutShort>> /\ ~At(s, "transition", "slips")
      /\ overtaken' = overtaken \/ overtaken' = overtaken \ {s}
  BY DEF Quiet
<1>7. Paid' = Paid /\ Shown' = Shown
  BY <1>6 DEF Paid, Shown
<1>8. Turning' <=> Turning
  BY <1>4 DEF Turning
<1>9. Orderly' <=> Orderly
  BY <1>1, <1>4, <1>6 DEF Orderly, TypeOK
<1>10. Frozen'
  BY <1>6, <1>8 DEF MonthInv, Frozen
<1>11. Due'
  <2> SUFFICES ASSUME Orderly', NEW t \in Managers, At(t, "transition", "slips")', NEW e \in Paid
               PROVE  slips[e].status = Precedes(call'[t].status)
    BY <1>6, <1>7 DEF Due
  <2>1. Orderly /\ At(t, "transition", "slips") /\ call'[t] = call[t]
    BY <1>4, <1>5, <1>9
  <2> QED BY <2>1 DEF MonthInv, Due
<1>12. Orderly' = Orderly
  BY <1>9 DEF Orderly
<1> QED BY <1>3, <1>7, <1>10, <1>11, <1>12

(* A step that leaves everything as it is.                                 *)
LEMMA StutterKeeps ==
  ASSUME MonthInv, UNCHANGED vars
  PROVE  /\ AllMeant' /\ Frozen' /\ Due'
         /\ Shown' = Shown /\ Orderly' = Orderly
<1>1. UNCHANGED <<run, slips, call, overtaken, raced, cutShort>>
  BY DEF vars
<1>2. AllMeant'
  <2>1. \A s \in Managers : Meant(call'[s])
    BY <1>1 DEF MonthInv, AllMeant
  <2> QED BY <2>1 DEF AllMeant, Meant
<1>3. Paid' = Paid /\ Shown' = Shown /\ Turning' = Turning
  BY <1>1 DEF Paid, Shown, Turning, At
<1>4. Orderly' = Orderly
  BY <1>1 DEF Orderly, At
<1>5. Frozen' /\ Due'
  BY <1>1, <1>3, <1>4 DEF MonthInv, Frozen, Due, At
<1> QED BY <1>2, <1>3, <1>4, <1>5

-------------------------------------------------------------------------------
(* Steps that write *)

(* If a call writes and order is still kept, nobody had overtaken it and   *)
(* nobody else is about to turn the payslips.                              *)
LEMMA WritesInOrder ==
  ASSUME TypeOK, CallsOK, NEW s \in Managers, NEW c, Goes(s, c), Writes(s), Orderly'
  PROVE  /\ ~raced /\ ~raced' /\ s \notin overtaken /\ ~cutShort'
         /\ \A t \in Managers : t # s => ~At(t, "transition", "slips")
                                         /\ ~At(t, "transition", "slips")'
         /\ ~cutShort => Orderly
<1>1. call'[s] = c /\ \A t \in Managers : t # s => call'[t] = call[t]
  BY Went
<1>2. ~raced' /\ ~cutShort' /\ \A t \in overtaken' : ~At(t, "transition", "slips")'
  BY DEF Orderly
<1>3. ~raced /\ s \notin overtaken
  BY <1>2, WritesTypes
<1>4. ASSUME NEW t \in Managers, t # s
      PROVE  ~At(t, "transition", "slips") /\ ~At(t, "transition", "slips")'
  <2>1. At(t, "transition", "slips")' <=> At(t, "transition", "slips")
    BY <1>1, <1>4 DEF At
  <2>2. At(t, "transition", "slips") => ~Free(t)
    BY DEF At, Free, Idle
  <2>3. ~Free(t) => t \in overtaken'
    BY <1>4 DEF Writes
  <2> QED BY <1>2, <2>1, <2>2, <2>3
<1>5. ~cutShort => Orderly
  BY <1>3, <1>4 DEF Orderly, TypeOK
<1> QED BY <1>2, <1>3, <1>4, <1>5

(* A call that writes and is not about to turn the payslips itself.        *)
LEMMA WritesDue ==
  ASSUME TypeOK, CallsOK, NEW s \in Managers, NEW c, Goes(s, c), Writes(s),
         ~(c.op = "transition" /\ c.step = "slips")
  PROVE  Due' /\ (Orderly' => ~Turning')
<1> SUFFICES ASSUME Orderly'
             PROVE  ~Turning'
  BY DEF Due, Turning
<1>1. ~At(s, "transition", "slips")'
  BY Went DEF At
<1> QED BY <1>1, WritesInOrder DEF Turning
(* What a run writes when order is kept afterwards: it was a draft, or     *)
(* there was none, and nobody had begun to turn it.                        *)
LEMMA DraftWritten ==
  ASSUME MonthInv, NEW s \in Managers, WriteRun(s) \/ DeleteRun(s), Orderly'
  PROVE  /\ Orderly /\ ~cutShort /\ ~Turning
         /\ \A e \in Paid : slips[e].status = "draft"
<1> DEFINE c == call[s]
<1>1. TypeOK /\ CallsOK /\ IInv /\ CallOK(c)
  BY DEF MonthInv, IInv, Types, CallsOK
<1>2. Goes(s, Idle) /\ Writes(s) /\ (c.op = "generate" \/ c.op = "delete")
  BY DEF WriteRun, DeleteRun, Ends, At
<1>3. ~raced /\ ~raced' /\ s \notin overtaken /\ (~cutShort => Orderly)
  BY <1>1, <1>2, WritesInOrder
<1>4. c.run = run
  BY <1>1, <1>2, <1>3 DEF IInv, Fresh, FreshCall
<1>5. run.status \notin {"finalized", "paid"}
  BY <1>1, <1>2, <1>4 DEF CallOK, NoRun
<1>6. ~cutShort /\ ~Turning
  BY <1>3, <1>5 DEF MonthInv, Frozen
<1> QED BY <1>1, <1>3, <1>6, DraftsReplaced

LEMMA WriteRunMonth ==
  ASSUME MonthInv, NEW s \in Managers, WriteRun(s)
  PROVE  AllMeant' /\ Frozen' /\ Due'
<1>1. TypeOK /\ CallsOK /\ IInv /\ CallOK(call[s])
  BY DEF MonthInv, IInv, Types, CallsOK
<1>2. /\ Goes(s, Idle) /\ Writes(s) /\ cutShort' = cutShort
      /\ call[s].op = "generate" /\ call[s].step = "write"
  BY DEF WriteRun, Ends, At
<1>3. AllMeant'
  BY <1>1, <1>2, StillMeant, IdleMeant DEF MonthInv
<1>4. Due'
  BY <1>1, <1>2, WritesDue DEF Idle
<1>5. Frozen'
  <2> SUFFICES ASSUME ~raced'
               PROVE  ~cutShort' /\ ~Turning'
    BY DEF Frozen
  <2>1. ~raced /\ s \notin overtaken
    BY <1>1, <1>2, WritesTypes
  <2>2. call[s].run = run
    BY <1>2, <2>1 DEF MonthInv, IInv, Fresh, FreshCall
  <2>3. run.status \notin {"finalized", "paid"}
    BY <1>1, <1>2, <2>2 DEF CallOK, NoRun
  <2>4. ~cutShort /\ ~Turning
    BY <2>1, <2>3 DEF MonthInv, Frozen
  <2>5. \A t \in Managers : call'[t] = call[t] \/ call'[t] = Idle
    BY <1>1, <1>2, Went
  <2>6. ~Turning'
    BY <2>4, <2>5 DEF Turning, At, Idle
  <2> QED BY <1>2, <2>4, <2>6
<1> QED BY <1>3, <1>4, <1>5

LEMMA DeleteRunMonth ==
  ASSUME MonthInv, NEW s \in Managers, DeleteRun(s)
  PROVE  AllMeant' /\ Frozen' /\ Due'
<1>1. TypeOK /\ CallsOK /\ CallOK(call[s])
  BY DEF MonthInv, IInv, Types, CallsOK
<1>2. /\ Goes(s, Idle) /\ Writes(s) /\ cutShort' = FALSE
      /\ call[s].op = "delete"
  BY DEF DeleteRun, Ends, At
<1>3. AllMeant'
  BY <1>1, <1>2, StillMeant, IdleMeant DEF MonthInv
<1>4. Due'
  BY <1>1, <1>2, WritesDue DEF Idle
<1>5. Frozen'
  <2> SUFFICES ASSUME ~raced'
               PROVE  ~Turning'
    BY <1>2 DEF Frozen
  <2>1. ~raced /\ s \notin overtaken
    BY <1>1, <1>2, WritesTypes
  <2>2. call[s].run = run
    BY <1>2, <2>1 DEF MonthInv, IInv, Fresh, FreshCall
  <2>3. run.status \notin {"finalized", "paid"}
    BY <1>1, <1>2, <2>2 DEF CallOK
  <2>4. ~Turning
    BY <2>1, <2>3 DEF MonthInv, Frozen
  <2>5. \A t \in Managers : call'[t] = call[t] \/ call'[t] = Idle
    BY <1>1, <1>2, Went
  <2> QED BY <2>4, <2>5 DEF Turning, At, Idle
<1> QED BY <1>3, <1>4, <1>5

LEMMA SetPayslipStatusMonth ==
  ASSUME MonthInv, NEW s \in Managers, SetPayslipStatus(s)
  PROVE  AllMeant' /\ Frozen' /\ Due'
<1>1. TypeOK /\ CallsOK
  BY DEF MonthInv, IInv, Types
<1>2. /\ Goes(s, Idle) /\ Writes(s) /\ cutShort' = cutShort /\ run' = run
      /\ At(s, "transition", "slips")
  BY DEF SetPayslipStatus, Ends
<1>3. AllMeant'
  BY <1>1, <1>2, StillMeant, IdleMeant DEF MonthInv
<1>4. Due'
  BY <1>1, <1>2, WritesDue DEF Idle
<1>5. Frozen'
  <2> SUFFICES ASSUME ~raced'
               PROVE  run.status \in {"finalized", "paid"}
    BY <1>2 DEF Frozen
  <2>1. ~raced
    BY <1>1, <1>2, WritesTypes
  <2> QED BY <1>2, <2>1 DEF MonthInv, Frozen, Turning
<1> QED BY <1>3, <1>4, <1>5

LEMMA SavePayslipMonth ==
  ASSUME MonthInv, NEW s \in Managers, SavePayslip(s)
  PROVE  AllMeant' /\ Frozen' /\ Due'
<1>1. TypeOK /\ CallsOK
  BY DEF MonthInv, IInv, Types
<1>2. Goes(s, Idle) /\ Writes(s) /\ cutShort' = cutShort /\ run' = run
  BY DEF SavePayslip, Ends
<1>3. AllMeant'
  BY <1>1, <1>2, StillMeant, IdleMeant DEF MonthInv
<1>4. Due'
  BY <1>1, <1>2, WritesDue DEF Idle
<1>5. Frozen'
  <2> SUFFICES ASSUME ~raced', cutShort \/ Turning'
               PROVE  run.status \in {"finalized", "paid"}
    BY <1>2 DEF Frozen
  <2>1. ~raced
    BY <1>1, <1>2, WritesTypes
  <2>2. \A t \in Managers : call'[t] = call[t] \/ call'[t] = Idle
    BY <1>1, <1>2, Went
  <2>3. Turning' => Turning
    BY <2>2 DEF Turning, At, Idle
  <2> QED BY <2>1, <2>3 DEF MonthInv, Frozen
<1> QED BY <1>3, <1>4, <1>5

LEMMA UpdateRunStatusMonth ==
  ASSUME MonthInv, NEW s \in Managers, UpdateRunStatus(s)
  PROVE  AllMeant' /\ Frozen' /\ Due'
<1> DEFINE c == call[s]
           d == [op |-> "transition", step |-> "slips", run |-> c.run, status |-> c.status]
<1>1. TypeOK /\ CallsOK /\ CallOK(c)
  BY DEF MonthInv, IInv, Types, CallsOK
<1>2. /\ Goes(s, d) /\ Writes(s) /\ UNCHANGED <<slips, cutShort>>
      /\ c.op = "transition" /\ c.step = "header" /\ run'.status = c.status
  BY DEF UpdateRunStatus, At
<1>3. /\ c.run \in Run /\ c.status \in {"finalized", "paid"}
      /\ c.run.status = Precedes(c.status)
  BY <1>1, <1>2 DEF CallOK
<1>4. AllMeant'
  <2>1. Meant(d)
    BY DEF Meant
  <2> QED BY <1>1, <1>2, <2>1, StillMeant DEF MonthInv
<1>5. Frozen'
  BY <1>2, <1>3 DEF Frozen
<1>6. Due'
  <2> SUFFICES ASSUME Orderly', NEW t \in Managers, At(t, "transition", "slips")', NEW e \in Paid
               PROVE  slips[e].status = Precedes(call'[t].status)
    BY <1>2 DEF Due, Paid
  <2>1. /\ ~raced /\ s \notin overtaken /\ ~cutShort
        /\ \A u \in Managers : u # s => ~At(u, "transition", "slips")
                                        /\ ~At(u, "transition", "slips")'
    BY <1>1, <1>2, WritesInOrder
  <2>2. t = s /\ call'[t] = d
    BY <1>1, <1>2, <2>1, Went
  <2>3. ~Turning
    BY <1>2, <2>1 DEF Turning, At
  <2>4. c.run = run
    BY <1>2, <2>1 DEF MonthInv, IInv, Fresh, FreshCall
  <2>5. slips[e].status = run.status
    BY <2>1, <2>3 DEF MonthInv, IInv, SlipsFollowRun
  <2> QED BY <1>3, <2>2, <2>4, <2>5
<1> QED BY <1>4, <1>5, <1>6

(* A transition cut short before it turns the payslips.                    *)
LEMMA CutShortMonth ==
  ASSUME MonthInv, NEW s \in Managers, Interrupt(s), At(s, "transition", "slips")
  PROVE  AllMeant' /\ Frozen' /\ Due' /\ ~Orderly'
<1>1. CallsOK
  BY DEF MonthInv, IInv, Types
<1>2. Goes(s, Idle) /\ run' = run /\ raced' = raced /\ cutShort'
  BY DEF Interrupt, Ends
<1>3. AllMeant'
  BY <1>1, <1>2, StillMeant, IdleMeant DEF MonthInv
<1>4. Frozen'
  BY <1>2 DEF MonthInv, Frozen, Turning
<1>5. ~Orderly'
  BY <1>2 DEF Orderly
<1> QED BY <1>3, <1>4, <1>5 DEF Due
-------------------------------------------------------------------------------
(* Every step is one of these *)

LEMMA ReadsQuiet ==
  ASSUME NEW s \in Managers, NEW c, Reads(s, c), Meant(c),
         ~At(s, "transition", "slips"), ~(c.op = "transition" /\ c.step = "slips")
  PROVE  Quiet(s, c)
BY DEF Reads, Quiet

LEMMA GivesUpQuiet ==
  ASSUME NEW s \in Managers, Ends(s), ~At(s, "transition", "slips"),
         UNCHANGED <<run, slips, raced, cutShort>>, overtaken' = overtaken \ {s}
  PROVE  Quiet(s, Idle)
BY IdleMeant DEF Ends, Quiet, Idle

LEMMA ReadBooksQuiet ==
  ASSUME MonthInv, NEW s \in Managers, NEW ids \in SUBSET Employees, NEW book \in [ids -> Books],
         ReadBooks(s, book)
  PROVE  \E c : Quiet(s, c)
<1> DEFINE under == call[s].rules
           figures == [e \in DOMAIN book |-> <<Earned(Basic[e], book[e], under),
                                               Withheld(Basic[e], book[e], under)>>]
           c == [op |-> "generate", step |-> "clear", begun |-> call[s].begun,
                 run |-> call[s].run, rules |-> under, figures |-> figures]
<1>1. Reads(s, c) /\ ~At(s, "transition", "slips")
  BY DEF ReadBooks, At
<1>2. DOMAIN figures = ids /\ DOMAIN book = ids
  OBVIOUS
<1>3. figures = [e \in DOMAIN figures |-> <<Earned(Basic[e], book[e], under),
                                            Withheld(Basic[e], book[e], under)>>]
  BY <1>2
<1> HIDE DEF figures
<1>4. c.op = "generate" /\ c.figures = figures /\ c.rules = under /\ c.step = "clear"
  OBVIOUS
<1>5. Meant(c)
  BY <1>2, <1>3, <1>4 DEF Meant
<1> HIDE DEF c
<1> QED BY <1>1, <1>4, <1>5, ReadsQuiet

LEMMA ClearPayslipsQuiet ==
  ASSUME MonthInv, NEW s \in Managers, ClearPayslips(s)
  PROVE  \E c : Quiet(s, c)
<1> DEFINE b == call[s]
           cleared == {slips[e].generation : e \in {f \in Paid : slips[f].run = b.run.id}}
           c == [op |-> "generate", step |-> "write", begun |-> b.begun, run |-> b.run,
                 rules |-> b.rules, figures |-> b.figures, cleared |-> cleared]
<1>1. /\ Reads(s, c) /\ ~At(s, "transition", "slips")
      /\ b.op = "generate" /\ b.step = "clear" /\ Meant(b)
  BY DEF ClearPayslips, At, MonthInv, AllMeant
<1>2. /\ c.op = "generate" /\ c.step = "write"
      /\ c.figures = b.figures /\ c.rules = b.rules
  OBVIOUS
<1> HIDE DEF c, b
<1>3. Meant(c)
  <2>1. PICK book \in [DOMAIN b.figures -> Books] :
          b.figures = [e \in DOMAIN b.figures |-> <<Earned(Basic[e], book[e], b.rules),
                                                    Withheld(Basic[e], book[e], b.rules)>>]
    BY <1>1 DEF Meant
  <2> QED BY <1>2, <2>1 DEF Meant
<1> QED BY <1>1, <1>2, <1>3, ReadsQuiet

LEMMA FindPayslipQuiet ==
  ASSUME MonthInv, NEW s \in Managers, NEW e \in Employees, NEW a \in Adjustments,
         FindPayslip(s, e, a)
  PROVE  \E c : Quiet(s, c)
<1> DEFINE c == [op |-> "adjust", step |-> "clear", employee |-> e, seen |-> slips[e],
                 batch |-> [no |-> adjustments', earn |-> a.earn, deduct |-> a.deduct]]
<1>1. Reads(s, c) /\ ~At(s, "transition", "slips")
  BY DEF FindPayslip, Free, At, Idle
<1>2. Meant(c)
  BY DEF Meant
<1> QED BY <1>1, <1>2, ReadsQuiet

LEMMA ClearLinesQuiet ==
  ASSUME MonthInv, NEW s \in Managers, ClearLines(s)
  PROVE  \E c : Quiet(s, c)
<1> DEFINE cleared == IF SameSlip(s) THEN slips[call[s].employee].lines ELSE {}
           c == [op |-> "adjust", step |-> "save", employee |-> call[s].employee,
                 seen |-> call[s].seen, batch |-> call[s].batch, cleared |-> cleared]
<1>1. Reads(s, c) /\ ~At(s, "transition", "slips") /\ call[s].op = "adjust"
  BY DEF ClearLines, At
<1> HIDE DEF cleared
<1>2. Meant(call[s])
  BY DEF MonthInv, AllMeant
<1>3. Meant(c)
  BY <1>1, <1>2 DEF Meant
<1> QED BY <1>1, <1>3, ReadsQuiet

LEMMA ResolveRunQuiet ==
  ASSUME MonthInv, NEW s \in Managers, NEW rules \in RuleBooks, ResolveRun(s, rules)
  PROVE  \E c : Quiet(s, c)
<1> DEFINE c == [op |-> "generate", step |-> "books", begun |-> generations, run |-> run,
                 rules |-> rules]
<1>1. Reads(s, c) /\ ~At(s, "transition", "slips") /\ Meant(c)
  BY DEF ResolveRun, Free, At, Idle, Meant
<1> QED BY <1>1, ReadsQuiet

LEMMA BeginTransitionQuiet ==
  ASSUME MonthInv, NEW s \in Managers, NEW status \in {"finalized", "paid"},
         BeginTransition(s, status)
  PROVE  \E c : Quiet(s, c)
<1> DEFINE c == [op |-> "transition", step |-> "header", run |-> run, status |-> status]
<1>1. Reads(s, c) /\ ~At(s, "transition", "slips") /\ Meant(c)
  BY DEF BeginTransition, Free, At, Idle, Meant
<1> QED BY <1>1, ReadsQuiet

LEMMA BeginDeleteQuiet ==
  ASSUME MonthInv, NEW s \in Managers, BeginDelete(s)
  PROVE  \E c : Quiet(s, c)
<1> DEFINE c == [op |-> "delete", step |-> "write", run |-> run]
<1>1. Reads(s, c) /\ ~At(s, "transition", "slips") /\ Meant(c)
  BY DEF BeginDelete, Free, At, Idle, Meant
<1> QED BY <1>1, ReadsQuiet

LEMMA EndingQuiet ==
  ASSUME MonthInv, NEW s \in Managers,
         \/ RunIsTaken(s) \/ RunIsGone(s) \/ PayslipIsGone(s)
         \/ Interrupt(s) /\ ~At(s, "transition", "slips")
  PROVE  Quiet(s, Idle)
<1>1. CASE RunIsTaken(s) \/ RunIsGone(s) \/ PayslipIsGone(s)
  <2>1. GivesUp(s) /\ ~At(s, "transition", "slips")
    BY <1>1 DEF RunIsTaken, RunIsGone, PayslipIsGone, At
  <2> QED BY <2>1, GivesUpQuiet DEF GivesUp
<1>2. CASE Interrupt(s) /\ ~At(s, "transition", "slips")
  <2>1. cutShort' = cutShort
    BY <1>2 DEF Interrupt, MonthInv, IInv, Types, TypeOK
  <2> QED BY <1>2, <2>1, GivesUpQuiet DEF Interrupt
<1> QED BY <1>1, <1>2

(* A step leaves the month alone, or breaks a transition off, or writes.   *)
LEMMA StepIs ==
  ASSUME MonthInv, Next
  PROVE  \E s \in Managers :
           \/ \E c : Quiet(s, c)
           \/ Interrupt(s) /\ At(s, "transition", "slips")
           \/ WriteRun(s) \/ UpdateRunStatus(s) \/ SetPayslipStatus(s)
           \/ DeleteRun(s) \/ SavePayslip(s)
<1>1. PICK s \in Managers :
        \/ \E rules \in RuleBooks : ResolveRun(s, rules)
        \/ \E ids \in SUBSET Employees : \E book \in [ids -> Books] : ReadBooks(s, book)
        \/ ClearPayslips(s) \/ WriteRun(s) \/ RunIsTaken(s)
        \/ \E status \in {"finalized", "paid"} : BeginTransition(s, status)
        \/ UpdateRunStatus(s) \/ SetPayslipStatus(s)
        \/ BeginDelete(s) \/ DeleteRun(s) \/ RunIsGone(s)
        \/ \E e \in Employees, a \in Adjustments : FindPayslip(s, e, a)
        \/ ClearLines(s) \/ SavePayslip(s) \/ PayslipIsGone(s)
        \/ Interrupt(s)
  BY DEF Next
<1>2. CASE \E rules \in RuleBooks : ResolveRun(s, rules)
  BY <1>2, ResolveRunQuiet
<1>3. CASE \E ids \in SUBSET Employees : \E book \in [ids -> Books] : ReadBooks(s, book)
  BY <1>3, ReadBooksQuiet
<1>4. CASE \E status \in {"finalized", "paid"} : BeginTransition(s, status)
  BY <1>4, BeginTransitionQuiet
<1>5. CASE BeginDelete(s)
  BY <1>5, BeginDeleteQuiet
<1>6. CASE \E e \in Employees, a \in Adjustments : FindPayslip(s, e, a)
  BY <1>6, FindPayslipQuiet
<1>7. CASE ClearLines(s)
  BY <1>7, ClearLinesQuiet
<1>8. CASE \/ RunIsTaken(s) \/ RunIsGone(s) \/ PayslipIsGone(s)
           \/ Interrupt(s) /\ ~At(s, "transition", "slips")
  BY <1>8, EndingQuiet
<1>9. CASE ClearPayslips(s)
  BY <1>9, ClearPayslipsQuiet
<1> QED BY <1>1, <1>2, <1>3, <1>4, <1>5, <1>6, <1>7, <1>8, <1>9

LEMMA MonthStepKeeps == MonthInv /\ [Next]_vars => MonthInv'
<1> SUFFICES ASSUME MonthInv, [Next]_vars
             PROVE  AllMeant' /\ Frozen' /\ Due'
  BY StepKeeps DEF MonthInv
<1>1. CASE UNCHANGED vars
  BY <1>1, StutterKeeps
<1>2. ASSUME NEW s \in Managers, \E c : Quiet(s, c)
      PROVE  AllMeant' /\ Frozen' /\ Due'
  BY <1>2, QuietKeeps
<1>3. ASSUME NEW s \in Managers, Interrupt(s), At(s, "transition", "slips")
      PROVE  AllMeant' /\ Frozen' /\ Due'
  BY <1>3, CutShortMonth
<1>4. ASSUME NEW s \in Managers,
             \/ WriteRun(s) \/ UpdateRunStatus(s) \/ SetPayslipStatus(s)
             \/ DeleteRun(s) \/ SavePayslip(s)
      PROVE  AllMeant' /\ Frozen' /\ Due'
  BY <1>4, WriteRunMonth, UpdateRunStatusMonth, SetPayslipStatusMonth, DeleteRunMonth,
     SavePayslipMonth
<1> QED BY <1>1, <1>2, <1>3, <1>4, StepIs

LEMMA MonthInitHolds == Init => MonthInv
<1> SUFFICES ASSUME Init PROVE AllMeant /\ Frozen /\ Due
  BY InitHolds DEF MonthInv
<1>1. \A s \in Managers : call[s] = Idle
  BY DEF Init
<1>2. ~cutShort /\ \A s \in Managers : ~At(s, "transition", "slips")
  BY <1>1 DEF Init, At, Idle
<1>3. AllMeant
  BY <1>1, IdleMeant DEF AllMeant
<1> QED BY <1>2, <1>3 DEF Frozen, Due, Turning

LEMMA MonthAlways == Spec => []MonthInv
BY MonthInitHolds, MonthStepKeeps, PTL DEF Spec
-------------------------------------------------------------------------------
(* Writing steps are operations on the month *)

LEMMA ShownIs ==
  ASSUME TypeOK
  PROVE  /\ DOMAIN Shown = Paid
         /\ \A e \in Paid : /\ Shown[e].earned = slips[e].earned
                            /\ Shown[e].withheld = slips[e].withheld
                            /\ Shown[e].bonus = slips[e].bonus
                            /\ Shown[e].other = slips[e].other
                            /\ Shown[e].net = slips[e].net
                            /\ Shown[e].status = slips[e].status
                            /\ Shown[e] = Seen(slips[e])
BY DEF Shown, Seen

LEMMA ShownAll ==
  ASSUME NEW status
  PROVE  Month!All(status) <=> \A e \in Paid : slips[e].status = status
BY DEF Month!All, Seen

LEMMA ShownNone == Shown = Month!NoPayslips <=> Paid = {}
BY DEF Shown, Month!NoPayslips

(* The amounts of PayrollMonth are those of PayMath.                       *)
LEMMA SameAmounts ==
  /\ \A a, b : Month!Net(a, b) = Net(a, b)
  /\ \A a, b, c : Month!Earned(a, b, c) = Earned(a, b, c)
  /\ \A a, b, c : Month!Withheld(a, b, c) = Withheld(a, b, c)
<1>1. \A a, b : Month!Net(a, b) = Net(a, b)
  BY DEF Net, Month!Net
<1>2. \A n, d : Month!Rounded(n, d) = Rounded(n, d)
  BY DEF Rounded, Month!Rounded
<1>3. \A a, b : Month!PercentOf(a, b) = PercentOf(a, b)
  BY <1>2 DEF PercentOf, Month!PercentOf
<1>4. \A a, b, c : Month!Earned(a, b, c) = Earned(a, b, c)
  BY <1>2 DEF Earned, Overtime, Month!Earned, Month!Overtime
<1>5. \A a, b, c : Month!AbsenceDeduction(a, b, c) = AbsenceDeduction(a, b, c)
  BY <1>2 DEF AbsenceDeduction, UnpaidDays, Month!AbsenceDeduction, Month!UnpaidDays
<1>6. \A a, b, c : Month!Withheld(a, b, c) = Withheld(a, b, c)
  BY <1>3, <1>5 DEF Withheld, Month!Withheld
<1> QED BY <1>1, <1>4, <1>6

LEMMA SeenIs ==
  ASSUME NEW p, NEW earned, NEW withheld, NEW bonus, NEW other, NEW status,
         p.earned = earned, p.withheld = withheld, p.bonus = bonus, p.other = other,
         p.net = Net(earned + bonus, withheld + other), p.status = status
  PROVE  Seen(p) = Month!Payslip(earned, withheld, bonus, other, status)
BY SameAmounts DEF Seen, Month!Payslip

(* ReplacePayslips: the payslips of the employees there are figures for.   *)
LEMMA ReplacedFigures ==
  ASSUME NEW id, NEW c, FiguresOK(c.figures), ReplacePayslips(id, c)
  PROVE  \A e \in DOMAIN c.figures :
           Seen(slips'[e]) = Month!Payslip(c.figures[e][1], c.figures[e][2], 0, 0, "draft")
<1> SUFFICES ASSUME NEW e \in DOMAIN c.figures
             PROVE  Seen(slips'[e]) = Month!Payslip(c.figures[e][1], c.figures[e][2], 0, 0, "draft")
  OBVIOUS
<1>1. e \in Employees
  BY DEF FiguresOK
<1>2. slips'[e] = Slip(generations', id, c, c.figures[e])
  BY <1>1 DEF ReplacePayslips
<1>3. PICK earned \in Nat, withheld \in Nat : earned = c.figures[e][1] /\ withheld = c.figures[e][2]
  BY DEF FiguresOK
<1>4. PICK p : p = slips'[e]
  OBVIOUS
<1>5. p = [generation |-> generations', begun |-> c.begun, run |-> id, under |-> c.rules,
           earned |-> earned, withheld |-> withheld, lines |-> {}, mixed |-> FALSE,
           bonus |-> 0, other |-> 0, net |-> Net(earned, withheld), status |-> "draft"]
  BY <1>2, <1>3, <1>4 DEF Slip
<1>6. /\ p.earned = earned /\ p.withheld = withheld /\ p.bonus = 0 /\ p.other = 0
      /\ p.net = Net(earned, withheld) /\ p.status = "draft"
  BY <1>5
<1>7. earned + 0 = earned /\ withheld + 0 = withheld
  OBVIOUS
<1>8. p.net = Net(earned + 0, withheld + 0)
  BY <1>6, <1>7
<1>9. Seen(p) = Month!Payslip(earned, withheld, 0, 0, "draft")
  BY <1>6, <1>8, SeenIs
<1> QED BY <1>3, <1>4, <1>9

LEMMA WriteRunGenerates ==
  ASSUME MonthInv, NEW s \in Managers, WriteRun(s), Orderly'
  PROVE  Month!InOrder
<1> DEFINE c == call[s]
<1>1. /\ Meant(c) /\ CallOK(c) /\ c.op = "generate" /\ c.step = "write"
      /\ generations' \in 1 .. MaxGenerations /\ run' \in Run
      /\ s \notin overtaken => KeptSlips(c) = {}
  BY Committing DEF MonthInv, AllMeant
<1>2. c.rules \in RuleBooks /\ FiguresOK(c.figures)
  BY <1>1 DEF CallOK
<1>3. PICK book \in [DOMAIN c.figures -> Books] :
        c.figures = [e \in DOMAIN c.figures |-> <<Earned(Basic[e], book[e], c.rules),
                                                  Withheld(Basic[e], book[e], c.rules)>>]
  BY <1>1 DEF Meant
<1>4. ReplacePayslips(run'.id, c) /\ Insertable(c) /\ run'.id \in 1 .. MaxGenerations
  BY <1>1 DEF WriteRun, Run
<1>5. TypeOK /\ CallsOK /\ Goes(s, Idle) /\ Writes(s)
  BY DEF WriteRun, Ends, MonthInv, IInv, Types
<1>5a. KeptSlips(c) = {}
  BY <1>1, <1>5, WritesInOrder
<1>5b. Paid' = DOMAIN c.figures \cup KeptSlips(c)
  BY <1>1, <1>4, <1>5, Replaced
<1>6. /\ Paid' = DOMAIN c.figures
      /\ \A e \in DOMAIN c.figures :
           Seen(slips'[e]) = Month!Payslip(c.figures[e][1], c.figures[e][2], 0, 0, "draft")
  BY <1>2, <1>4, <1>5a, <1>5b, ReplacedFigures
<1>7. DOMAIN book = DOMAIN c.figures /\ DOMAIN book \in SUBSET Employees /\ DOMAIN book # {}
  BY <1>2 DEF FiguresOK
<1>8. \A e \in DOMAIN book :
        /\ c.figures[e][1] = Month!Earned(Basic[e], book[e], c.rules)
        /\ c.figures[e][2] = Month!Withheld(Basic[e], book[e], c.rules)
  BY <1>3, <1>7, SameAmounts
<1>9. \A e \in DOMAIN book :
        Seen(slips'[e]) = Month!Payslip(Month!Earned(Basic[e], book[e], c.rules),
                                        Month!Withheld(Basic[e], book[e], c.rules), 0, 0, "draft")
  BY <1>6, <1>7, <1>8
<1>10. Month!All("draft")
  BY DraftWritten, ShownAll
<1>11. Month!Generate(c.rules, book)
  BY <1>6, <1>7, <1>9, <1>10 DEF Month!Generate
<1>12. book \in [DOMAIN book -> Books]
  BY <1>7
<1> HIDE DEF c
<1> QED BY <1>2, <1>7, <1>11, <1>12 DEF Month!InOrder

LEMMA DeleteRunDiscards ==
  ASSUME MonthInv, NEW s \in Managers, DeleteRun(s), Orderly', Shown' # Shown
  PROVE  Month!InOrder
<1>1. Month!All("draft")
  BY DraftWritten, ShownAll
<1>2. Paid' = {}
  BY DEF DeleteRun, Paid
<1>3. Shown' = Month!NoPayslips
  BY <1>2 DEF Shown, Month!NoPayslips
<1>4. Shown # Month!NoPayslips
  BY <1>3
<1>5. Month!Discard
  BY <1>1, <1>3, <1>4 DEF Month!Discard, Shown
<1> QED BY <1>5 DEF Month!InOrder
LEMMA SetPayslipStatusAdvances ==
  ASSUME MonthInv, NEW s \in Managers, SetPayslipStatus(s), Orderly'
  PROVE  Orderly /\ Month!InOrder
<1> DEFINE c == call[s]
<1>1. TypeOK /\ CallsOK /\ CallOK(c) /\ IInv
  BY DEF MonthInv, IInv, Types, CallsOK
<1>2. /\ Goes(s, Idle) /\ Writes(s) /\ cutShort' = cutShort
      /\ At(s, "transition", "slips") /\ c.op = "transition" /\ c.step = "slips"
  BY DEF SetPayslipStatus, Ends, At
<1>3. s \notin overtaken /\ Orderly
  BY <1>1, <1>2, WritesInOrder
<1>4. c.run \in Run /\ c.status \in {"finalized", "paid"}
  BY <1>1, <1>2 DEF CallOK
<1>5. c.run.id = run.id
  BY <1>2, <1>3 DEF MonthInv, IInv, Fresh, FreshCall
<1>6. run # NoRun
  BY <1>4, <1>5 DEF Run, NoRun
<1>7. Paid # {} /\ \A e \in Paid : slips[e].run = c.run.id
  BY <1>5, <1>6 DEF MonthInv, IInv, Whole, NoHalfRun
<1>8. Month!All(Precedes(c.status))
  BY <1>2, <1>3, ShownAll DEF MonthInv, Due
<1>9. Paid' = Paid
  BY <1>1, SetPayslipStatusIs, SlipsStayWhole DEF SetPayslipStatus, counts, IInv
<1>10. \A e \in Paid : Seen(slips'[e]) = [Seen(slips[e]) EXCEPT !.status = c.status]
  BY <1>1, <1>7, SetPayslipStatusIs DEF Seen
<1>11. Month!Advance(Precedes(c.status), c.status)
  <2>1. Shown # Month!NoPayslips
    BY <1>7, ShownNone
  <2>2. Shown' = [e \in DOMAIN Shown |-> [Shown[e] EXCEPT !.status = c.status]]
    BY <1>9, <1>10 DEF Shown
  <2> QED BY <1>8, <2>1, <2>2 DEF Month!Advance, Shown
<1> HIDE DEF c
<1>12. Month!Advance("draft", "finalized") \/ Month!Advance("finalized", "paid")
  BY <1>4, <1>11 DEF Precedes
<1> QED BY <1>3, <1>12 DEF Month!InOrder

(* What an adjustment does to the one payslip it is for.                   *)
LEMMA SavedIs ==
  ASSUME MonthInv, NEW s \in Managers, SavePayslip(s), s \notin overtaken
  PROVE  LET e == call[s].employee
             b == call[s].batch
         IN  Seen(slips'[e]) = Month!Payslip(slips[e].earned, slips[e].withheld, b.earn, b.deduct, "draft")
<1> DEFINE c == call[s]
           e == c.employee
           b == c.batch
<1>1. IInv /\ TypeOK /\ e \in Paid /\ slips[e] \in RealSlip
  BY SavePayslipIs, SlipsAre DEF MonthInv, IInv, Types
<1>2. c.seen.status = "draft"
  BY <1>1, SavedUnraced
<1>3. slips' = [slips EXCEPT ![e] = Adjusted(slips[e], KeptLines(s), b, c.seen.status,
                                           s \in overtaken)]
  BY DEF SavePayslip
<1>4. slips'[e] = Adjusted(slips[e], KeptLines(s), b, "draft", s \in overtaken)
  BY <1>1, <1>2, <1>3 DEF TypeOK, Paid
<1>5. PICK p : p = slips'[e]
  OBVIOUS
<1>6. /\ p.earned = slips[e].earned /\ p.withheld = slips[e].withheld
      /\ p.bonus = b.earn /\ p.other = b.deduct /\ p.status = "draft"
      /\ p.net = Net(slips[e].earned + b.earn, slips[e].withheld + b.deduct)
  BY <1>4, <1>5 DEF Adjusted
<1> HIDE DEF c, e, b
<1>7. Seen(p) = Month!Payslip(slips[e].earned, slips[e].withheld, b.earn, b.deduct, "draft")
  BY <1>6, SeenIs
<1> QED BY <1>5, <1>7 DEF c, e, b

LEMMA SavePayslipAdjusts ==
  ASSUME MonthInv, NEW s \in Managers, SavePayslip(s), Orderly'
  PROVE  Orderly /\ Month!InOrder
<1> DEFINE c == call[s]
           e == c.employee
<1>1. TypeOK /\ CallsOK /\ IInv /\ Whole /\ Meant(c)
  BY DEF MonthInv, AllMeant, IInv, Types
<1>2. /\ Goes(s, Idle) /\ Writes(s) /\ cutShort' = cutShort /\ run' = run
      /\ generations' = generations
      /\ c.op = "adjust" /\ c.step = "save" /\ ~At(s, "transition", "slips")
  BY DEF SavePayslip, Ends, At, counts
<1>3. /\ ~raced /\ s \notin overtaken /\ ~cutShort /\ Orderly
      /\ \A t \in Managers : t # s => ~At(t, "transition", "slips")
  BY <1>1, <1>2, WritesInOrder
<1>4. ~Turning
  BY <1>2, <1>3 DEF Turning
<1>5. SlipsStay /\ e \in Paid /\ \A f \in Paid : f # e => slips'[f] = slips[f]
  BY <1>1, SavePayslipIs
<1>6. slips[e].status = "draft"
  BY <1>1, <1>3, SavedUnraced
<1>7. \A f \in Paid : slips[f].status = "draft"
  BY <1>3, <1>4, <1>5, <1>6 DEF MonthInv, IInv, SlipsFollowRun
<1>8. Month!All("draft")
  BY <1>7, ShownAll
<1>9. PICK a \in Adjustments : c.batch.earn = a.earn /\ c.batch.deduct = a.deduct
  BY <1>1, <1>2 DEF Meant
<1>10. Seen(slips'[e]) = Month!Payslip(slips[e].earned, slips[e].withheld, a.earn, a.deduct, "draft")
  BY <1>3, <1>9, SavedIs
<1>11. Paid' = Paid
  BY <1>1, <1>2, <1>5, SlipsStayWhole
<1> HIDE DEF c, e
<1>12. /\ Shown[e].earned = slips[e].earned /\ Shown[e].withheld = slips[e].withheld
       /\ DOMAIN Shown = Paid
  BY <1>1, <1>5, ShownIs
<1>13. Shown' = [Shown EXCEPT ![e] = Month!Payslip(Shown[e].earned, Shown[e].withheld,
                                                   a.earn, a.deduct, "draft")]
  <2>1. Seen(slips'[e]) = Month!Payslip(Shown[e].earned, Shown[e].withheld, a.earn, a.deduct, "draft")
    BY <1>10, <1>12
  <2>2. \A f \in Paid : f # e => Seen(slips'[f]) = Seen(slips[f])
    BY <1>5
  <2> HIDE DEF Seen
  <2> QED BY <1>5, <1>11, <2>1, <2>2 DEF Shown
<1>14. Month!Adjust(e, a)
  BY <1>8, <1>13 DEF Month!Adjust, Shown
<1>15. e \in DOMAIN Shown
  BY <1>5, <1>12
<1> QED BY <1>3, <1>14, <1>15 DEF Month!InOrder, Shown

LEMMA MonthInitIs == Init => Month!Init
<1> SUFFICES ASSUME Init PROVE Month!Init
  OBVIOUS
<1>1. Paid = {} /\ Orderly
  BY DEF Init, Paid, Orderly
<1>2. Shown = Month!NoPayslips
  BY <1>1, ShownNone
<1> QED BY <1>1, <1>2 DEF Month!Init, Shown, Orderly

LEMMA MonthStepIs == MonthInv /\ [Next]_vars => [Month!Next]_(Month!monthVars)
<1> SUFFICES ASSUME MonthInv, [Next]_vars, Orderly',
                    ~(Shown' = Shown /\ Orderly' = Orderly)
             PROVE  Orderly /\ Shown' # Shown /\ Month!InOrder
  BY DEF Month!Next, Month!monthVars, Shown
<1>1. ~UNCHANGED vars
  BY StutterKeeps
<1>2. ASSUME NEW s \in Managers, \E c : Quiet(s, c)
      PROVE  FALSE
  BY <1>2, QuietKeeps
<1>3. ASSUME NEW s \in Managers, Interrupt(s), At(s, "transition", "slips")
      PROVE  FALSE
  BY <1>3, CutShortMonth
<1>4. ASSUME NEW s \in Managers,
             \/ WriteRun(s) \/ UpdateRunStatus(s) \/ SetPayslipStatus(s)
             \/ DeleteRun(s) \/ SavePayslip(s)
      PROVE  Orderly
  <2>1. CASE WriteRun(s) \/ DeleteRun(s)
    BY <2>1, DraftWritten
  <2>2. CASE SetPayslipStatus(s)
    BY <2>2, SetPayslipStatusAdvances
  <2>3. CASE SavePayslip(s)
    BY <2>3, SavePayslipAdjusts
  <2>4. CASE UpdateRunStatus(s)
    <3>1. TypeOK /\ CallsOK
      BY DEF MonthInv, IInv, Types
    <3>2. PICK d : Goes(s, d)
      BY <2>4 DEF UpdateRunStatus
    <3>3. Writes(s) /\ cutShort' = cutShort
      BY <2>4 DEF UpdateRunStatus
    <3> QED BY <3>1, <3>2, <3>3, WritesInOrder
  <2> QED BY <1>4, <2>1, <2>2, <2>3, <2>4
<1>5. Orderly /\ Shown' # Shown
  <2>1. Orderly
    BY <1>1, <1>2, <1>3, <1>4, StepIs
  <2>2. Orderly' = Orderly
    BY <2>1 DEF Orderly
  <2> QED BY <2>1, <2>2
<1>6. ASSUME NEW s \in Managers, UpdateRunStatus(s)
      PROVE  FALSE
  <2>1. slips' = slips
    BY <1>6 DEF UpdateRunStatus
  <2> QED BY <1>5, <2>1 DEF Shown, Paid
<1>7. ASSUME NEW s \in Managers,
             WriteRun(s) \/ SetPayslipStatus(s) \/ DeleteRun(s) \/ SavePayslip(s)
      PROVE  Month!InOrder
  BY <1>5, <1>7, WriteRunGenerates, SetPayslipStatusAdvances, DeleteRunDiscards,
     SavePayslipAdjusts
<1> QED BY <1>1, <1>2, <1>3, <1>5, <1>6, <1>7, StepIs

(* Generate, Finalize, MarkPaid, DeleteRun and AdjustPayslip of any number *)
(* of managers, cut into their reads and writes, are atomic operations on  *)
(* the payslips as long as order is kept.                                  *)
THEOREM MonthImplemented == Spec => ImplementsMonth
BY MonthInitIs, MonthStepIs, MonthAlways, PTL DEF Spec, ImplementsMonth, Month!Spec
===============================================================================
