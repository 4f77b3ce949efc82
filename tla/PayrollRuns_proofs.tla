--------------------------- MODULE PayrollRuns_proofs ---------------------------
(***************************************************************************)
(* Proofs about PayrollRuns, for any managers, employees, rules and books, *)
(* and whatever the bounds are.                                            *)
(***************************************************************************)
EXTENDS PayrollRuns, TLAPS

USE PayrollRunsAssumption

-------------------------------------------------------------------------------
(* Arithmetic *)

LEMMA TimesIsNat == \A m, n \in Nat : m * n \in Nat
OBVIOUS

LEMMA RoundedIsNat ==
  ASSUME NEW n \in Nat, NEW d \in Nat, d > 0
  PROVE  Rounded(n, d) \in Nat
<1>1. 2 * n + d \in Nat /\ 2 * d \in Nat /\ 2 * d > 0
  OBVIOUS
<1>2. \A a, b \in Nat : b > 0 => a \div b \in Nat
  OBVIOUS
<1> QED BY <1>1, <1>2 DEF Rounded

(* roundCents: the amount in cents is the nearest to the exact quotient,   *)
(* and the greater of two that are as near.                                *)
THEOREM RoundedIsNearest ==
  ASSUME NEW n \in Nat, NEW d \in Nat, d > 0
  PROVE  /\ 2 * n - d < 2 * (Rounded(n, d) * d)
         /\ 2 * (Rounded(n, d) * d) <= 2 * n + d
<1>1. \A a, b \in Nat : b > 0 => a \div b \in Nat /\ b * (a \div b) <= a /\ a < b * (a \div b) + b
  <2>1. \A a, b \in Nat : b > 0 => a % b \in 0 .. b - 1 /\ a = b * (a \div b) + (a % b)
    OBVIOUS
  <2>2. \A a, b \in Nat : b > 0 => a \div b \in Nat
    OBVIOUS
  <2>3. \A a, b \in Nat : b * a \in Nat
    OBVIOUS
  <2> QED BY <2>1, <2>2, <2>3
<1>2. PICK q \in Nat : q = Rounded(n, d)
  BY RoundedIsNat
<1>3. (2 * d) * q <= 2 * n + d /\ 2 * n + d < (2 * d) * q + 2 * d
  <2>1. PICK a \in Nat, b \in Nat : a = 2 * n + d /\ b = 2 * d /\ b > 0
    OBVIOUS
  <2>2. q = a \div b
    BY <1>2, <2>1 DEF Rounded
  <2>3. b * q <= a /\ a < b * q + b
    BY <1>1, <2>1, <2>2
  <2> QED BY <2>1, <2>3
<1>4. (2 * d) * q = 2 * (q * d) /\ q * d \in Nat
  OBVIOUS
<1> QED BY <1>2, <1>3, <1>4

LEMMA PercentIsNat ==
  ASSUME NEW cents \in Nat, NEW percent \in Nat
  PROVE  PercentOf(cents, percent) \in Nat
<1>1. cents * percent \in Nat
  BY TimesIsNat
<1> QED BY <1>1, RoundedIsNat DEF PercentOf

LEMMA NetIsNat ==
  ASSUME NEW earned \in Nat, NEW withheld \in Nat
  PROVE  Net(earned, withheld) \in Nat
BY DEF Net

(* computePayslip: whatever the rules and the books of the month say, what *)
(* is earned and what is withheld are amounts of money, never negative.    *)
LEMMA FiguresAreNat ==
  ASSUME NEW e \in Employees, NEW book \in Books, NEW rules \in RuleBooks
  PROVE  Earned(Basic[e], book, rules) \in Nat /\ Withheld(Basic[e], book, rules) \in Nat
<1>1. rules \in PayRulesType(MaxFigure) /\ book \in BookType(MaxFigure) /\ Basic[e] \in Nat
  OBVIOUS
<1>2. /\ rules.workingDays \in Nat /\ rules.workingDays > 0 /\ rules.hours \in Nat
      /\ rules.multiplier \in Nat /\ rules.epf \in Nat /\ rules.tax \in Nat
      /\ book.absent \in Nat /\ book.unpaid \in Nat /\ book.overtime \in Nat
  BY <1>1 DEF PayRulesType, BookType
<1>3. Overtime(Basic[e], book, rules) \in Nat
  <2>1. CASE rules.hours = 0
    BY <2>1 DEF Overtime
  <2>2. CASE rules.hours # 0
    <3>1. Basic[e] * book.overtime * rules.multiplier \in Nat
      BY <1>1, <1>2, TimesIsNat
    <3>2. \A m, n \in Nat : m > 0 /\ n > 0 => m * n * 60 * 100 \in Nat /\ m * n * 60 * 100 > 0
      <4>1. \A m, n \in Nat : m > 0 /\ n > 0 => m * n \in Nat /\ m * n > 0
        OBVIOUS
      <4>2. \A k \in Nat : k > 0 => k * 60 * 100 \in Nat /\ k * 60 * 100 > 0
        OBVIOUS
      <4> QED BY <4>1, <4>2
    <3>3. /\ rules.workingDays * rules.hours * 60 * 100 \in Nat
          /\ rules.workingDays * rules.hours * 60 * 100 > 0
      BY <1>2, <2>2, <3>2
    <3> QED BY <2>2, <3>1, <3>3, RoundedIsNat DEF Overtime
  <2> QED BY <2>1, <2>2
<1>4. AbsenceDeduction(Basic[e], book, rules) \in Nat
  <2>1. UnpaidDays(book, rules) \in Nat
    BY <1>2 DEF UnpaidDays
  <2>2. Basic[e] * UnpaidDays(book, rules) \in Nat
    BY <1>1, <2>1, TimesIsNat
  <2>3. 2 * rules.workingDays \in Nat /\ 2 * rules.workingDays > 0
    BY <1>2
  <2> QED BY <2>2, <2>3, RoundedIsNat DEF AbsenceDeduction
<1>5. PercentOf(Basic[e], rules.epf) \in Nat /\ PercentOf(Basic[e], rules.tax) \in Nat
  BY <1>1, <1>2, PercentIsNat
<1> QED BY <1>1, <1>3, <1>4, <1>5 DEF Earned, Withheld

-------------------------------------------------------------------------------
(* What runs, payslips and calls are *)

Run == [id : 1 .. MaxGenerations, status : Statuses, rules : RuleBooks]

RealSlip ==
  [generation : 1 .. MaxGenerations, begun : 0 .. MaxGenerations, run : 1 .. MaxGenerations,
   under : RuleBooks, earned : Nat, withheld : Nat, lines : SUBSET Batch, mixed : BOOLEAN,
   bonus : Nat, other : Nat, net : Nat, status : Statuses]

FiguresOK(figures) ==
  /\ DOMAIN figures \subseteq Employees /\ DOMAIN figures # {}
  /\ \A e \in DOMAIN figures : figures[e][1] \in Nat /\ figures[e][2] \in Nat

CallOK(c) ==
  /\ c.op = "generate" => /\ c.run = NoRun \/ (c.run \in Run /\ c.run.status = "draft")
                          /\ c.rules \in RuleBooks /\ c.begun \in 0 .. MaxGenerations
                          /\ c.step # "books" => FiguresOK(c.figures)
  /\ c.op = "transition" => /\ c.run \in Run /\ c.status \in {"finalized", "paid"}
                            /\ c.run.status = Precedes(c.status)
  /\ c.op = "delete" => c.run \in Run /\ c.run.status = "draft"
  /\ c.op = "adjust" => /\ c.employee \in Employees
                        /\ c.seen \in RealSlip /\ c.seen.status = "draft"
                        /\ c.batch \in Batch
                        /\ c.step = "save" => c.cleared \subseteq Batch

CallsOK ==
  /\ call = [s \in Managers |-> call[s]]
  /\ \A s \in Managers : CallOK(call[s])

Types == TypeOK /\ CallsOK

LEMMA Went ==
  ASSUME CallsOK, NEW s \in Managers, NEW c, Goes(s, c)
  PROVE  /\ call' = [t \in Managers |-> call'[t]]
         /\ call'[s] = c
         /\ \A t \in Managers : t # s => call'[t] = call[t]
BY DEF CallsOK, Goes

LEMMA WentOK ==
  ASSUME CallsOK, NEW s \in Managers, NEW c, CallOK(c), Goes(s, c)
  PROVE  CallsOK'
<1>1. /\ call' = [t \in Managers |-> call'[t]]
      /\ call'[s] = c
      /\ \A t \in Managers : t # s => call'[t] = call[t]
  BY Went
<1>2. \A t \in Managers : CallOK(call[t])
  BY DEF CallsOK
<1>3. \A t \in Managers : CallOK(call'[t])
  BY <1>1, <1>2
<1> QED BY <1>1, <1>3 DEF CallsOK

LEMMA IdleOK == CallOK(Idle)
BY DEF CallOK, Idle

LEMMA SlipsAre ==
  ASSUME TypeOK
  PROVE  /\ \A e \in Employees : slips[e] = NoSlip \/ slips[e] \in RealSlip
         /\ \A e \in Paid : e \in Employees /\ slips[e] \in RealSlip
         /\ \A e \in Employees : e \in Paid <=> slips[e].generation # 0
BY DEF TypeOK, SlipType, RealSlip, Paid, NoSlip

LEMMA RunIs ==
  ASSUME TypeOK
  PROVE  /\ run = NoRun \/ run \in Run
         /\ run = NoRun <=> run.id = 0
         /\ run = NoRun <=> run.status = "none"
BY DEF TypeOK, Run, NoRun, Statuses

-------------------------------------------------------------------------------
(* The invariant *)

(* A run has payslips, they are its own, and later generations have        *)
(* replaced what they could see.                                           *)
Whole ==
  /\ NoHalfRun
  /\ run # NoRun => run.id <= generations
  /\ \A e \in Paid : slips[e].generation <= generations

Drafts == run.status = "draft" => \A e \in Paid : slips[e].status = "draft"

(* What a call knows, overtaken or not: its generation deletes every       *)
(* payslip of its run that had been written when it began, and a run whose *)
(* payslips it is about to turn is no draft.                               *)
Knows(c, r, ps, g) ==
  /\ c.op = "generate" => c.begun <= g
  /\ c.op = "generate" /\ c.step = "write" =>
       \A e \in Employees :
         ps[e] # NoSlip /\ ps[e].run = c.run.id /\ ps[e].generation \notin c.cleared =>
           c.begun < ps[e].generation
  /\ c.op = "transition" => c.run.id <= g
  /\ c.op = "transition" /\ c.step = "slips" /\ c.run.id = r.id => r.status # "draft"

Knowing == \A s \in Managers : Knows(call[s], run, slips, generations)

(* What a call that nobody has overtaken has read is still so.             *)
FreshCall(c, r, ps) ==
  /\ c.op = "generate" => c.run = r
  /\ c.op = "generate" /\ c.step = "write" =>
       \A e \in Employees : ps[e] # NoSlip => ps[e].generation \in c.cleared
  /\ c.op = "delete" => c.run = r
  /\ c.op = "transition" /\ c.step = "header" => c.run = r
  /\ c.op = "transition" /\ c.step = "slips" => c.run.id = r.id /\ c.status = r.status
  /\ c.op = "adjust" => c.seen = ps[c.employee]
  /\ c.op = "adjust" /\ c.step = "save" => c.cleared = c.seen.lines

Fresh == \A s \in Managers : s \notin overtaken => FreshCall(call[s], run, slips)

IInv == Types /\ Whole /\ Drafts /\ LinesAddUp /\ Knowing /\ Fresh /\ SlipsFollowRun

-------------------------------------------------------------------------------
(* Steps that only read, or give up *)

(* Nothing is written: the invariant depends on what the call knows now.   *)
LEMMA ReadsKeep ==
  ASSUME IInv, NEW s \in Managers, NEW c, CallOK(c),
         s \notin overtaken => FreshCall(c, run, slips),
         Knows(c, run, slips, generations),
         ~At(s, "transition", "slips"), ~(c.op = "transition" /\ c.step = "slips"),
         Reads(s, c), adjustments' \in 0 .. MaxAdjustments
  PROVE  IInv'
<1>1. /\ call' = [t \in Managers |-> call'[t]]
      /\ call'[s] = c
      /\ \A t \in Managers : t # s => call'[t] = call[t]
  BY Went DEF Reads, IInv, Types
<1>2. UNCHANGED <<run, slips, generations, overtaken, raced, cutShort>>
  BY DEF Reads
<1>3. Types'
  <2>1. CallsOK'
    BY WentOK DEF Reads, IInv, Types
  <2>2. TypeOK'
    BY <1>2 DEF IInv, Types, TypeOK
  <2> QED BY <2>1, <2>2 DEF Types
<1>4. Whole'
  BY <1>2 DEF IInv, Whole, NoHalfRun, Paid
<1>5. Fresh'
  BY <1>1, <1>2 DEF IInv, Fresh
<1>6. Turning' = Turning
  BY <1>1 DEF Turning, At
<1>7. Drafts' /\ LinesAddUp' /\ SlipsFollowRun'
  BY <1>2, <1>6 DEF IInv, Drafts, LinesAddUp, SlipsFollowRun, Paid
<1>8. Knowing'
  BY <1>1, <1>2 DEF IInv, Knowing
<1> QED BY <1>3, <1>4, <1>5, <1>7, <1>8 DEF IInv

LEMMA GivesUpKeeps ==
  ASSUME IInv, NEW s \in Managers, ~At(s, "transition", "slips"), GivesUp(s)
  PROVE  IInv'
<1>1. /\ call' = [t \in Managers |-> call'[t]]
      /\ call'[s] = Idle
      /\ \A t \in Managers : t # s => call'[t] = call[t]
  BY Went DEF GivesUp, Ends, IInv, Types
<1>2. UNCHANGED <<run, slips, generations, adjustments, raced, cutShort>> /\ overtaken' = overtaken \ {s}
  BY DEF GivesUp, counts
<1>3. Types'
  <2>1. CallsOK'
    BY WentOK, IdleOK DEF GivesUp, Ends, IInv, Types
  <2>2. TypeOK'
    BY <1>2 DEF IInv, Types, TypeOK
  <2> QED BY <2>1, <2>2 DEF Types
<1>4. Whole'
  BY <1>2 DEF IInv, Whole, NoHalfRun, Paid
<1>5. Fresh'
  BY <1>1, <1>2 DEF IInv, Fresh, FreshCall, Idle
<1>6. Turning' = Turning
  BY <1>1 DEF Turning, At, Idle
<1>7. Drafts' /\ LinesAddUp' /\ SlipsFollowRun'
  BY <1>2, <1>6 DEF IInv, Drafts, LinesAddUp, SlipsFollowRun, Paid
<1>8. Knowing'
  BY <1>1, <1>2 DEF IInv, Knowing, Knows, Idle
<1> QED BY <1>3, <1>4, <1>5, <1>7, <1>8 DEF IInv

LEMMA InterruptKeeps ==
  ASSUME IInv, NEW s \in Managers, Interrupt(s)
  PROVE  IInv'
<1>1. /\ call' = [t \in Managers |-> call'[t]]
      /\ call'[s] = Idle
      /\ \A t \in Managers : t # s => call'[t] = call[t]
  BY Went DEF Interrupt, Ends, IInv, Types
<1>2. /\ UNCHANGED <<run, slips, generations, adjustments, raced>>
      /\ overtaken' = overtaken \ {s}
      /\ cutShort' = (cutShort \/ At(s, "transition", "slips"))
  BY DEF Interrupt, counts
<1>3. Types'
  <2>1. CallsOK'
    BY WentOK, IdleOK DEF Interrupt, Ends, IInv, Types
  <2>2. cutShort' \in BOOLEAN
    BY <1>2 DEF At
  <2>3. TypeOK'
    BY <1>2, <2>2 DEF IInv, Types, TypeOK
  <2> QED BY <2>1, <2>3 DEF Types
<1>4. Whole'
  BY <1>2 DEF IInv, Whole, NoHalfRun, Paid
<1>5. Fresh'
  BY <1>1, <1>2 DEF IInv, Fresh, FreshCall, Idle
<1>8. Drafts' /\ LinesAddUp'
  BY <1>2 DEF IInv, Drafts, LinesAddUp, Paid
<1>9. Knowing'
  BY <1>1, <1>2 DEF IInv, Knowing, Knows, Idle
<1>6. CASE At(s, "transition", "slips")
  <2>1. cutShort'
    BY <1>2, <1>6
  <2>2. SlipsFollowRun'
    BY <2>1 DEF SlipsFollowRun
  <2> QED BY <1>3, <1>4, <1>5, <1>8, <1>9, <2>2 DEF IInv
<1>7. CASE ~At(s, "transition", "slips")
  <2>1. Turning' = Turning
    BY <1>1, <1>7 DEF Turning, At, Idle
  <2>2. cutShort' <=> cutShort
    BY <1>2, <1>7
  <2>3. SlipsFollowRun'
    BY <1>2, <2>1, <2>2 DEF IInv, SlipsFollowRun, Paid
  <2> QED BY <1>3, <1>4, <1>5, <1>8, <1>9, <2>3 DEF IInv
<1> QED BY <1>6, <1>7

-------------------------------------------------------------------------------
(* Steps that write *)

(* Once a call has written, only those that have not begun have read what  *)
(* there is now.                                                           *)
LEMMA WritesFresh ==
  ASSUME CallsOK, NEW s \in Managers, NEW c, Goes(s, c), Writes(s),
         FreshCall(c, run', slips')
  PROVE  Fresh'
<1>1. call'[s] = c /\ \A t \in Managers : t # s => call'[t] = call[t]
  BY Went
<1>2. \A t \in Managers : t # s /\ t \notin overtaken' => call[t] = Idle
  BY DEF Writes, Free
<1>3. FreshCall(Idle, run', slips')
  BY DEF FreshCall, Idle
<1>4. \A t \in Managers : t \notin overtaken' => FreshCall(call'[t], run', slips')
  BY <1>1, <1>2, <1>3
<1> QED BY <1>4 DEF Fresh

LEMMA IdleIsFresh == ASSUME NEW r, NEW ps PROVE FreshCall(Idle, r, ps)
BY DEF FreshCall, Idle

LEMMA WritesTypes ==
  ASSUME TypeOK, NEW s \in Managers, Writes(s)
  PROVE  /\ overtaken' \subseteq Managers /\ raced' \in BOOLEAN
         /\ ~raced' => ~raced /\ s \notin overtaken
BY DEF TypeOK, Writes

(* What a write leaves or puts there, for the calls under way.             *)
Later ==
  /\ generations' \in Nat /\ generations <= generations'
  /\ \A e \in Employees :
       slips'[e] # NoSlip =>
         \/ /\ slips[e] # NoSlip /\ slips'[e].run = slips[e].run
            /\ slips'[e].generation = slips[e].generation
         \/ slips'[e].generation \in Nat /\ slips'[e].generation > generations
  /\ \/ run'.id = run.id /\ (run'.status = "draft" => run.status = "draft")
     \/ run'.id = 0
     \/ run'.id > generations

LEMMA WritesKnowing ==
  ASSUME TypeOK, CallsOK, Knowing, NEW s \in Managers, NEW c, Goes(s, c), Later,
         Knows(c, run', slips', generations')
  PROVE  Knowing'
<1>1. call'[s] = c /\ \A t \in Managers : t # s => call'[t] = call[t]
  BY Went
<1>2. generations \in Nat
  BY DEF TypeOK
<1>3. ASSUME NEW d, CallOK(d), Knows(d, run, slips, generations)
      PROVE  Knows(d, run', slips', generations')
  <2>1. d.op = "generate" => d.begun \in Nat /\ d.begun <= generations
    BY <1>3 DEF CallOK, Knows
  <2>2. d.op = "transition" => d.run.id \in Nat /\ d.run.id > 0 /\ d.run.id <= generations
    BY <1>3 DEF CallOK, Knows, Run
  <2>3. d.op = "generate" => d.begun <= generations'
    BY <1>2, <2>1 DEF Later
  <2>4. d.op = "transition" => d.run.id <= generations'
    BY <1>2, <2>2 DEF Later
  <2>5. ASSUME d.op = "generate", d.step = "write", NEW e \in Employees, slips'[e] # NoSlip,
               slips'[e].run = d.run.id, slips'[e].generation \notin d.cleared
        PROVE  d.begun < slips'[e].generation
    <3>1. CASE /\ slips[e] # NoSlip /\ slips'[e].run = slips[e].run
               /\ slips'[e].generation = slips[e].generation
      BY <1>3, <2>5, <3>1 DEF Knows
    <3>2. CASE slips'[e].generation \in Nat /\ slips'[e].generation > generations
      BY <1>2, <2>1, <2>5, <3>2
    <3> QED BY <2>5, <3>1, <3>2 DEF Later
  <2>6. ASSUME d.op = "transition", d.step = "slips", d.run.id = run'.id
        PROVE  run'.status # "draft"
    <3>1. run'.id # 0 /\ ~(run'.id > generations)
      BY <1>2, <2>2, <2>6
    <3>2. run'.id = run.id /\ (run'.status = "draft" => run.status = "draft")
      BY <3>1 DEF Later
    <3> QED BY <1>3, <2>6, <3>2 DEF Knows
  <2> QED BY <2>3, <2>4, <2>5, <2>6 DEF Knows
<1>4. \A t \in Managers : CallOK(call[t]) /\ Knows(call[t], run, slips, generations)
  BY DEF CallsOK, Knowing
<1>5. \A t \in Managers : Knows(call'[t], run', slips', generations')
  BY <1>1, <1>3, <1>4
<1> QED BY <1>5 DEF Knowing

LEMMA IdleKnows == ASSUME NEW r, NEW ps, NEW g PROVE Knows(Idle, r, ps, g)
BY DEF Knows, Idle

LEMMA Replaced ==
  ASSUME TypeOK, NEW id \in 1 .. MaxGenerations, NEW c, CallOK(c), c.op = "generate",
         c.step = "write", generations' \in 1 .. MaxGenerations, ReplacePayslips(id, c),
         Insertable(c)
  PROVE  /\ slips' \in [Employees -> SlipType]
         /\ Paid' = DOMAIN c.figures \cup KeptSlips(c)
         /\ DOMAIN c.figures # {}
         /\ \A e \in DOMAIN c.figures :
              /\ slips'[e] \in RealSlip
              /\ slips'[e].generation = generations' /\ slips'[e].begun = c.begun
              /\ slips'[e].run = id /\ slips'[e].under = c.rules
              /\ slips'[e].status = "draft" /\ AddsUp(slips'[e])
         /\ \A e \in KeptSlips(c) : e \in Paid /\ slips'[e] = slips[e]
<1> DEFINE S(e) == Slip(generations', id, c, c.figures[e])
<1>1. c.rules \in RuleBooks /\ c.begun \in 0 .. MaxGenerations /\ FiguresOK(c.figures)
  BY DEF CallOK
<1>2. ASSUME NEW e \in DOMAIN c.figures
      PROVE  /\ S(e) \in RealSlip
             /\ S(e).generation = generations' /\ S(e).begun = c.begun
             /\ S(e).run = id /\ S(e).under = c.rules
             /\ S(e).status = "draft" /\ AddsUp(S(e))
  <2>1. PICK earned \in Nat, withheld \in Nat :
          earned = c.figures[e][1] /\ withheld = c.figures[e][2]
    BY <1>1 DEF FiguresOK
  <2>2. PICK p : p = S(e)
    OBVIOUS
  <2>3. p = [generation |-> generations', begun |-> c.begun, run |-> id, under |-> c.rules,
             earned |-> earned, withheld |-> withheld, lines |-> {}, mixed |-> FALSE,
             bonus |-> 0, other |-> 0, net |-> Net(earned, withheld), status |-> "draft"]
    BY <2>1, <2>2 DEF Slip
  <2> HIDE DEF S
  <2>4. /\ p \in RealSlip
        /\ p.generation = generations' /\ p.begun = c.begun /\ p.run = id /\ p.under = c.rules
        /\ p.status = "draft" /\ p.lines = {} /\ p.bonus = 0 /\ p.other = 0
        /\ p.earned = earned /\ p.withheld = withheld /\ p.net = Net(earned, withheld)
    BY <1>1, <2>3, NetIsNat DEF RealSlip, Statuses
  <2>5. earned + 0 = earned /\ withheld + 0 = withheld
    OBVIOUS
  <2>6. p.net = Net(p.earned + p.bonus, p.withheld + p.other)
    BY <2>4, <2>5
  <2> QED BY <2>2, <2>4, <2>6 DEF AddsUp
<1>3. slips' = [e \in Employees |-> IF e \in DOMAIN c.figures THEN S(e)
                                    ELSE IF e \in KeptSlips(c) THEN slips[e] ELSE NoSlip]
  BY DEF ReplacePayslips
<1> HIDE DEF S
<1>4. \A e \in Employees : slips'[e] = IF e \in DOMAIN c.figures THEN S(e)
                                       ELSE IF e \in KeptSlips(c) THEN slips[e] ELSE NoSlip
  BY <1>3
<1>5. \A e \in DOMAIN c.figures : e \in Employees /\ S(e) # NoSlip
  <2> TAKE e \in DOMAIN c.figures
  <2>1. S(e).generation # 0 /\ NoSlip.generation = 0
    BY <1>2 DEF NoSlip
  <2> QED BY <1>1, <2>1 DEF FiguresOK
<1>6. \A e \in KeptSlips(c) : e \in Paid /\ e \in Employees /\ slips[e] # NoSlip
                              /\ slips[e] \in SlipType /\ e \notin DOMAIN c.figures
  BY DEF KeptSlips, Paid, TypeOK, Insertable
<1>7. \A e \in KeptSlips(c) : slips'[e] = slips[e]
  BY <1>4, <1>6
<1>8. Paid' = DOMAIN c.figures \cup KeptSlips(c)
  BY <1>4, <1>5, <1>6 DEF Paid
<1>9. slips' \in [Employees -> SlipType]
  <2>1. NoSlip \in SlipType /\ \A p \in RealSlip : p \in SlipType
    BY DEF SlipType, RealSlip
  <2>2. \A e \in Employees : slips'[e] \in SlipType
    BY <1>2, <1>4, <1>6, <2>1
  <2> QED BY <2>2, <1>3
<1>10. DOMAIN c.figures # {}
  BY <1>1 DEF FiguresOK
<1> QED BY <1>2, <1>4, <1>5, <1>6, <1>7, <1>8, <1>9, <1>10

(* What is there when a generation commits.                                *)
LEMMA Committing ==
  ASSUME IInv, NEW s \in Managers, WriteRun(s)
  PROVE  LET c == call[s] IN
         /\ CallOK(c) /\ c.op = "generate" /\ c.step = "write"
         /\ generations' \in 1 .. MaxGenerations /\ generations' = generations + 1
         /\ run' \in Run /\ run' # NoRun /\ run'.id <= generations'
         /\ run'.id = generations' => run'.rules = c.rules
         /\ Paid # {} => run' = run
         /\ run' = run \/ (run'.id = generations' /\ run'.status = "draft")
         /\ s \notin overtaken => run'.status = "draft" /\ KeptSlips(c) = {}
         /\ \A e \in KeptSlips(c) : c.begun < slips[e].generation
<1> DEFINE c == call[s]
<1>1. CallOK(c) /\ c.op = "generate" /\ c.step = "write"
  BY DEF IInv, Types, CallsOK, WriteRun, At
<1>2. /\ c.run = NoRun \/ (c.run \in Run /\ c.run.status = "draft")
      /\ c.rules \in RuleBooks
  BY <1>1 DEF CallOK
<1>3. TypeOK /\ generations \in Nat /\ Whole
  BY DEF IInv, Types, TypeOK
<1>4. generations' \in 1 .. MaxGenerations /\ generations' = generations + 1
  BY <1>3 DEF WriteRun, TypeOK
<1>5. run.id = c.run.id /\ run' = IF c.run = NoRun
              THEN [id |-> generations', status |-> "draft", rules |-> c.rules] ELSE run
  BY DEF WriteRun
<1>6. \A e \in Paid : slips[e].run = run.id /\ slips[e].run # 0 /\ e \in Employees
                      /\ slips[e] # NoSlip
  BY <1>3, SlipsAre DEF Whole, NoHalfRun, RealSlip, Paid
<1>7. /\ run' \in Run /\ run' # NoRun /\ run'.id <= generations'
      /\ run'.id = generations' => run'.rules = c.rules
      /\ Paid # {} => run' = run
      /\ run' = run \/ (run'.id = generations' /\ run'.status = "draft")
      /\ s \notin overtaken => run'.status = "draft"
  <2>1. CASE c.run = NoRun
    <3>1. run' = [id |-> generations', status |-> "draft", rules |-> c.rules] /\ run.id = 0
      BY <2>1, <1>5 DEF NoRun
    <3>2. Paid = {}
      BY <1>6, <3>1
    <3>3. /\ run' \in Run /\ run'.id = generations' /\ run'.rules = c.rules
          /\ run'.status = "draft" /\ run' # NoRun
      BY <3>1, <1>2, <1>4 DEF Run, Statuses, NoRun
    <3>4. run'.id <= generations'
      BY <3>3, <1>4
    <3> QED BY <3>2, <3>3, <3>4
  <2>2. CASE c.run # NoRun
    <3>1. run.id = c.run.id /\ run' = run
      BY <2>2, <1>5
    <3>2. c.run \in Run /\ c.run.id # 0 /\ c.run.status = "draft"
      BY <2>2, <1>2 DEF Run
    <3>3. run \in Run /\ run # NoRun
      BY <3>1, <3>2, <1>3, RunIs
    <3>4. run.id <= generations /\ run.id \in Nat
      BY <3>3, <1>3 DEF Whole, Run
    <3>5. s \notin overtaken => c.run = run
      BY <1>1 DEF IInv, Fresh, FreshCall
    <3>6. run.id <= generations' /\ run.id # generations'
      BY <3>4, <1>3, <1>4
    <3>7. s \notin overtaken => run'.status = "draft"
      BY <3>1, <3>2, <3>5
    <3> QED BY <3>1, <3>3, <3>6, <3>7
  <2> QED BY <2>1, <2>2
<1>8. \A e \in KeptSlips(c) : c.begun < slips[e].generation
  <2>1. Knows(c, run, slips, generations)
    BY DEF IInv, Knowing
  <2> QED BY <1>1, <1>5, <1>6, <2>1 DEF Knows, KeptSlips
<1>9. s \notin overtaken => KeptSlips(c) = {}
  <2> SUFFICES ASSUME s \notin overtaken PROVE KeptSlips(c) = {}
    OBVIOUS
  <2>1. FreshCall(c, run, slips)
    BY DEF IInv, Fresh
  <2>2. \A e \in Employees : slips[e] # NoSlip => slips[e].generation \in c.cleared
    BY <1>1, <2>1 DEF FreshCall
  <2> QED BY <1>6, <2>2 DEF KeptSlips
<1> HIDE DEF c
<1>10. /\ CallOK(c) /\ c.op = "generate" /\ c.step = "write"
       /\ generations' \in 1 .. MaxGenerations /\ generations' = generations + 1
       /\ run' \in Run /\ run' # NoRun /\ run'.id <= generations'
       /\ run'.id = generations' => run'.rules = c.rules
       /\ Paid # {} => run' = run
       /\ run' = run \/ (run'.id = generations' /\ run'.status = "draft")
       /\ s \notin overtaken => run'.status = "draft" /\ KeptSlips(c) = {}
       /\ \A e \in KeptSlips(c) : c.begun < slips[e].generation
  BY <1>1, <1>4, <1>7, <1>8, <1>9
<1> QED BY <1>10 DEF c

LEMMA WriteRunKeeps ==
  ASSUME IInv, NEW s \in Managers, WriteRun(s)
  PROVE  IInv'
<1> DEFINE c == call[s]
<1>1. /\ CallOK(c) /\ c.op = "generate" /\ c.step = "write"
      /\ generations' \in 1 .. MaxGenerations /\ generations' = generations + 1
      /\ run' \in Run /\ run' # NoRun /\ run'.id <= generations'
      /\ run'.id = generations' => run'.rules = c.rules
      /\ Paid # {} => run' = run
      /\ run' = run \/ (run'.id = generations' /\ run'.status = "draft")
      /\ s \notin overtaken => run'.status = "draft" /\ KeptSlips(c) = {}
      /\ \A e \in KeptSlips(c) : c.begun < slips[e].generation
  BY Committing
<1>2. TypeOK /\ CallsOK /\ generations \in Nat /\ Whole /\ Drafts /\ LinesAddUp /\ Knowing
  BY DEF IInv, Types, TypeOK
<1>3. ReplacePayslips(run'.id, c) /\ Insertable(c) /\ run'.id \in 1 .. MaxGenerations
  BY <1>1 DEF WriteRun, Run
<1> HIDE DEF c
<1>4. /\ slips' \in [Employees -> SlipType]
      /\ Paid' = DOMAIN c.figures \cup KeptSlips(c)
      /\ DOMAIN c.figures # {}
      /\ \A e \in DOMAIN c.figures :
           /\ slips'[e] \in RealSlip
           /\ slips'[e].generation = generations' /\ slips'[e].begun = c.begun
           /\ slips'[e].run = run'.id /\ slips'[e].under = c.rules
           /\ slips'[e].status = "draft" /\ AddsUp(slips'[e])
      /\ \A e \in KeptSlips(c) : e \in Paid /\ slips'[e] = slips[e]
  BY <1>1, <1>2, <1>3, Replaced
<1>5. /\ Goes(s, Idle) /\ Writes(s) /\ adjustments' = adjustments /\ cutShort' = cutShort
  BY DEF WriteRun, Ends
<1>6. \A e \in KeptSlips(c) :
        /\ e \in Employees /\ slips[e] \in RealSlip /\ slips[e] # NoSlip
        /\ slips[e].generation \in Nat /\ slips[e].generation <= generations
        /\ run' = run /\ slips[e].run = run.id
  BY <1>1, <1>2, <1>4, SlipsAre DEF Whole, NoHalfRun, RealSlip, Paid
<1>7. Types'
  <2>1. CallsOK'
    BY <1>2, <1>5, WentOK, IdleOK
  <2>2. TypeOK'
    BY <1>1, <1>2, <1>4, <1>5, WritesTypes DEF TypeOK, Run
  <2> QED BY <2>1, <2>2 DEF Types
<1>8. Whole'
  <2>1. Paid' # {} /\ \A e \in Paid' : slips'[e].run = run'.id
    BY <1>4, <1>6
  <2>2. \A e \in Paid' : slips'[e].generation <= generations'
    BY <1>1, <1>2, <1>4, <1>6
  <2>3. ASSUME NEW e \in Paid', NEW f \in Paid'
        PROVE  /\ slips'[e].generation = slips'[f].generation => slips'[e].under = slips'[f].under
               /\ slips'[e].generation < slips'[f].generation => slips'[f].begun < slips'[e].generation
    <3>1. \A k \in KeptSlips(c) : slips'[k] = slips[k] /\ k \in Paid
                                  /\ slips[k].generation \in Nat
                                  /\ slips[k].generation <= generations
                                  /\ c.begun < slips[k].generation
      BY <1>1, <1>4, <1>6
    <3>2. CASE e \in DOMAIN c.figures /\ f \in DOMAIN c.figures
      <4>1. slips'[e].generation = generations' /\ slips'[f].generation = generations'
            /\ slips'[e].under = slips'[f].under /\ generations' \in Nat
        BY <1>1, <1>4, <3>2
      <4> QED BY <4>1
    <3>3. CASE e \in KeptSlips(c) /\ f \in KeptSlips(c)
      BY <1>2, <3>1, <3>3 DEF Whole, NoHalfRun
    <3>4. CASE e \in KeptSlips(c) /\ f \in DOMAIN c.figures
      <4>1. slips'[f].generation = generations' /\ slips'[f].begun = c.begun
        BY <1>4, <3>4
      <4>2. slips'[e].generation # slips'[f].generation
        BY <1>1, <1>2, <3>1, <3>4, <4>1
      <4> QED BY <3>1, <3>4, <4>1, <4>2
    <3>5. CASE e \in DOMAIN c.figures /\ f \in KeptSlips(c)
      <4>1. slips'[e].generation = generations'
        BY <1>4, <3>5
      <4>2. slips'[e].generation # slips'[f].generation /\ ~(slips'[e].generation < slips'[f].generation)
        BY <1>1, <1>2, <3>1, <3>5, <4>1
      <4> QED BY <4>2
    <3> QED BY <1>4, <3>2, <3>3, <3>4, <3>5
  <2>4. ASSUME NEW e \in Paid', slips'[e].generation = run'.id
        PROVE  slips'[e].under = run'.rules
    <3>1. CASE e \in DOMAIN c.figures
      BY <1>1, <1>4, <2>4, <3>1
    <3>2. CASE e \in KeptSlips(c)
      BY <1>2, <1>4, <1>6, <2>4, <3>2 DEF Whole, NoHalfRun
    <3> QED BY <1>4, <3>1, <3>2
  <2> QED BY <1>1, <2>1, <2>2, <2>3, <2>4 DEF Whole, NoHalfRun
<1>9. Fresh'
  BY <1>2, <1>5, WritesFresh, IdleIsFresh
<1>10. Knowing'
  <2>1. Later
    <3>1. generations' \in Nat /\ generations <= generations'
      BY <1>1, <1>2
    <3>2. (run'.id = run.id /\ run'.status = run.status) \/ run'.id > generations
      BY <1>1, <1>2
    <3>3. ASSUME NEW e \in Employees, slips'[e] # NoSlip
          PROVE  \/ /\ slips[e] # NoSlip /\ slips'[e].run = slips[e].run
                    /\ slips'[e].generation = slips[e].generation
                 \/ slips'[e].generation \in Nat /\ slips'[e].generation > generations
      <4>1. e \in Paid'
        BY <3>3 DEF Paid
      <4>2. CASE e \in DOMAIN c.figures
        BY <1>1, <1>2, <1>4, <4>2
      <4>3. CASE e \in KeptSlips(c)
        BY <1>4, <1>6, <4>3
      <4> QED BY <1>4, <4>1, <4>2, <4>3
    <3> QED BY <3>1, <3>2, <3>3 DEF Later
  <2> QED BY <1>2, <1>5, <2>1, WritesKnowing, IdleKnows
<1>11. Drafts'
  <2> SUFFICES ASSUME run'.status = "draft", NEW e \in Paid' PROVE slips'[e].status = "draft"
    BY DEF Drafts
  <2>1. CASE e \in KeptSlips(c)
    BY <1>2, <1>4, <1>6, <2>1 DEF Drafts
  <2> QED BY <1>4, <2>1
<1>12. LinesAddUp'
  BY <1>2, <1>4 DEF LinesAddUp
<1>13. SlipsFollowRun'
  <2> SUFFICES ASSUME ~raced'
               PROVE  \A e \in Paid' : slips'[e].status = run'.status
    BY DEF SlipsFollowRun
  <2>1. run'.status = "draft"
    BY <1>1, <1>2, <1>5, WritesTypes
  <2> QED BY <1>11, <2>1 DEF Drafts
<1> QED BY <1>7, <1>8, <1>9, <1>10, <1>11, <1>12, <1>13 DEF IInv

LEMMA UpdateRunStatusKeeps ==
  ASSUME IInv, NEW s \in Managers, UpdateRunStatus(s)
  PROVE  IInv'
<1> DEFINE c == call[s]
           d == [op |-> "transition", step |-> "slips", run |-> c.run, status |-> c.status]
<1>1. CallOK(c) /\ c.op = "transition" /\ run.id = c.run.id
  BY DEF IInv, Types, CallsOK, UpdateRunStatus, At
<1>2. /\ c.run \in Run /\ c.status \in {"finalized", "paid"}
      /\ c.run.status = Precedes(c.status)
  BY <1>1 DEF CallOK
<1>3. TypeOK /\ CallsOK
  BY DEF IInv, Types
<1>4. run \in Run /\ run # NoRun
  BY <1>1, <1>2, <1>3, RunIs DEF Run
<1>5. /\ run' = [id |-> run.id, status |-> c.status, rules |-> run.rules]
      /\ Goes(s, d) /\ Writes(s)
      /\ UNCHANGED <<slips, generations, adjustments, cutShort>>
  BY DEF UpdateRunStatus, counts
<1>6. /\ run' \in Run /\ run'.id = run.id /\ run'.status = c.status /\ run'.rules = run.rules
      /\ run' # NoRun
  BY <1>2, <1>4, <1>5 DEF Run, Statuses, NoRun
<1>7. Types'
  <2>1. CallOK(d)
    BY <1>2 DEF CallOK
  <2>2. CallsOK'
    BY <1>3, <1>5, <2>1, WentOK
  <2>3. TypeOK'
    BY <1>3, <1>5, <1>6, WritesTypes DEF TypeOK, Run
  <2> QED BY <2>2, <2>3 DEF Types
<1>8. Whole'
  BY <1>4, <1>5, <1>6 DEF IInv, Whole, NoHalfRun, Paid
<1>9. Fresh'
  <2>1. FreshCall(d, run', slips')
    BY <1>1, <1>6 DEF FreshCall
  <2> QED BY <1>3, <1>5, <2>1, WritesFresh
<1>10. Drafts' /\ LinesAddUp'
  BY <1>2, <1>5, <1>6 DEF IInv, Drafts, LinesAddUp, Paid
<1>11. SlipsFollowRun'
  <2>1. call'[s] = d
    BY <1>3, <1>5, Went
  <2>2. Turning'
    BY <2>1 DEF Turning, At
  <2> QED BY <2>2 DEF SlipsFollowRun
<1>12. Knowing'
  <2>1. generations \in Nat /\ c.run.id <= generations
    BY <1>1, <1>3 DEF IInv, Knowing, Knows, TypeOK
  <2>2. Later
    BY <1>2, <1>5, <1>6, <2>1 DEF Later
  <2>3. Knows(d, run', slips', generations')
    BY <1>2, <1>5, <1>6, <2>1 DEF Knows
  <2> QED BY <1>3, <1>5, <2>2, <2>3, WritesKnowing DEF IInv
<1> QED BY <1>7, <1>8, <1>9, <1>10, <1>11, <1>12 DEF IInv

(* What a step that keeps the payslips there are leaves of them.           *)
SlipsStay ==
  /\ slips' \in [Employees -> SlipType]
  /\ \A e \in Employees \ Paid : slips'[e] = NoSlip
  /\ \A e \in Paid : /\ slips'[e] \in RealSlip
                     /\ slips'[e].generation = slips[e].generation
                     /\ slips'[e].begun = slips[e].begun
                     /\ slips'[e].run = slips[e].run /\ slips'[e].under = slips[e].under

LEMMA SlipsStayWhole ==
  ASSUME TypeOK, Whole, SlipsStay, run' = run, generations' = generations
  PROVE  Whole' /\ Paid' = Paid /\ Later
<1>1. \A e \in Paid : slips'[e] # NoSlip
  BY DEF SlipsStay, RealSlip, NoSlip
<1>2. Paid' = Paid
  BY <1>1 DEF Paid, SlipsStay
<1>3. Later
  BY DEF SlipsStay, Later, Paid, TypeOK
<1> QED BY <1>2, <1>3 DEF Whole, NoHalfRun, SlipsStay

LEMMA SetPayslipStatusIs ==
  ASSUME IInv, NEW s \in Managers, SetPayslipStatus(s)
  PROVE  /\ SlipsStay
         /\ \A e \in Paid : /\ slips'[e].earned = slips[e].earned
                            /\ slips'[e].withheld = slips[e].withheld
                            /\ slips'[e].lines = slips[e].lines
                            /\ slips'[e].mixed = slips[e].mixed
                            /\ slips'[e].bonus = slips[e].bonus
                            /\ slips'[e].other = slips[e].other
                            /\ slips'[e].net = slips[e].net
                            /\ slips'[e].status = IF slips[e].run = call[s].run.id
                                                     THEN call[s].status ELSE slips[e].status
<1> DEFINE c == call[s]
<1>1. CallOK(c) /\ c.op = "transition"
  BY DEF IInv, Types, CallsOK, SetPayslipStatus, At
<1>2. c.status \in Statuses
  BY <1>1 DEF CallOK, Statuses
<1>3. TypeOK
  BY DEF IInv, Types
<1>4. \A e \in Paid : e \in Employees /\ slips[e] \in RealSlip
  BY <1>3, SlipsAre
<1>5. slips' = [e \in Employees |->
                 IF e \in Paid /\ slips[e].run = c.run.id
                   THEN [slips[e] EXCEPT !.status = c.status]
                   ELSE slips[e]]
  BY DEF SetPayslipStatus
<1>6. \A p \in RealSlip :
        LET q == [p EXCEPT !.status = c.status] IN
        /\ q \in RealSlip
        /\ q.generation = p.generation /\ q.begun = p.begun
        /\ q.run = p.run /\ q.under = p.under
        /\ q.earned = p.earned /\ q.withheld = p.withheld /\ q.lines = p.lines
        /\ q.mixed = p.mixed
        /\ q.bonus = p.bonus /\ q.other = p.other /\ q.net = p.net /\ q.status = c.status
  BY <1>2 DEF RealSlip
<1>7. \A e \in Employees \ Paid : slips[e] = NoSlip /\ slips'[e] = NoSlip
  BY <1>5 DEF Paid
<1>8. \A e \in Paid :
        /\ slips'[e] \in RealSlip
        /\ slips'[e].generation = slips[e].generation /\ slips'[e].begun = slips[e].begun
        /\ slips'[e].run = slips[e].run /\ slips'[e].under = slips[e].under
        /\ slips'[e].earned = slips[e].earned /\ slips'[e].withheld = slips[e].withheld
        /\ slips'[e].lines = slips[e].lines /\ slips'[e].mixed = slips[e].mixed
        /\ slips'[e].bonus = slips[e].bonus /\ slips'[e].other = slips[e].other
        /\ slips'[e].net = slips[e].net
        /\ slips'[e].status = IF slips[e].run = c.run.id THEN c.status ELSE slips[e].status
  <2> TAKE e \in Paid
  <2>1. CASE slips[e].run = c.run.id
    BY <1>4, <1>5, <1>6, <2>1
  <2>2. CASE slips[e].run # c.run.id
    BY <1>4, <1>5, <2>2
  <2> QED BY <2>1, <2>2
<1>9. slips' \in [Employees -> SlipType]
  <2>1. \A e \in Employees : slips'[e] \in SlipType
    BY <1>7, <1>8 DEF SlipType, RealSlip
  <2> QED BY <2>1, <1>5
<1> QED BY <1>7, <1>8, <1>9 DEF SlipsStay

LEMMA SetPayslipStatusKeeps ==
  ASSUME IInv, NEW s \in Managers, SetPayslipStatus(s)
  PROVE  IInv'
<1> DEFINE c == call[s]
<1>1. CallOK(c) /\ c.op = "transition" /\ c.step = "slips"
  BY DEF IInv, Types, CallsOK, SetPayslipStatus, At
<1>2. c.status \in {"finalized", "paid"}
  BY <1>1 DEF CallOK
<1>3. TypeOK /\ CallsOK /\ Whole
  BY DEF IInv, Types
<1>4. SlipsStay
  BY SetPayslipStatusIs
<1>5. /\ Goes(s, Idle) /\ Writes(s)
      /\ UNCHANGED <<run, generations, adjustments, cutShort>>
  BY DEF SetPayslipStatus, Ends, counts
<1>6. Whole' /\ Paid' = Paid /\ Later
  BY <1>3, <1>4, <1>5, SlipsStayWhole
<1>7. Types'
  <2>1. CallsOK'
    BY <1>3, <1>5, WentOK, IdleOK
  <2>2. TypeOK'
    BY <1>3, <1>4, <1>5, WritesTypes DEF TypeOK, SlipsStay
  <2> QED BY <2>1, <2>2 DEF Types
<1>8. Fresh' /\ Knowing'
  BY <1>3, <1>5, <1>6, WritesFresh, IdleIsFresh, WritesKnowing, IdleKnows DEF IInv
<1>9. \A e \in Paid : slips[e].run = run.id
  BY <1>3 DEF Whole, NoHalfRun
<1>10. Drafts'
  <2>1. run.id = c.run.id => run.status # "draft"
    BY <1>1 DEF IInv, Knowing, Knows
  <2>2. run.id # c.run.id => \A e \in Paid : slips'[e].status = slips[e].status
    BY <1>9, SetPayslipStatusIs
  <2> QED BY <1>5, <1>6, <2>1, <2>2 DEF IInv, Drafts
<1>11. LinesAddUp'
  BY <1>6, SetPayslipStatusIs DEF IInv, LinesAddUp, AddsUp
<1>12. SlipsFollowRun'
  <2> SUFFICES ASSUME ~raced'
               PROVE  \A e \in Paid : slips'[e].status = run.status
    BY <1>5, <1>6 DEF SlipsFollowRun
  <2>1. s \notin overtaken
    BY <1>3, <1>5, WritesTypes
  <2>2. run.id = c.run.id /\ run.status = c.status
    BY <1>1, <2>1 DEF IInv, Fresh, FreshCall
  <2> QED BY <1>9, <2>2, SetPayslipStatusIs
<1> QED BY <1>6, <1>7, <1>8, <1>10, <1>11, <1>12 DEF IInv

LEMMA DeleteRunKeeps ==
  ASSUME IInv, NEW s \in Managers, DeleteRun(s)
  PROVE  IInv'
<1>1. TypeOK /\ CallsOK
  BY DEF IInv, Types
<1>2. /\ run' = NoRun /\ slips' = [e \in Employees |-> NoSlip] /\ cutShort' = FALSE
      /\ Goes(s, Idle) /\ Writes(s)
      /\ UNCHANGED <<generations, adjustments>>
  BY DEF DeleteRun, Ends, counts
<1>3. Paid' = {}
  BY <1>2 DEF Paid
<1>4. Types'
  <2>1. CallsOK'
    BY <1>1, <1>2, WentOK, IdleOK
  <2>2. slips' \in [Employees -> SlipType]
    BY <1>2 DEF SlipType
  <2>3. TypeOK'
    BY <1>1, <1>2, <2>2, WritesTypes DEF TypeOK
  <2> QED BY <2>1, <2>3 DEF Types
<1>5. Whole'
  BY <1>2, <1>3 DEF Whole, NoHalfRun
<1>6. Fresh'
  BY <1>1, <1>2, WritesFresh, IdleIsFresh
<1>7. Drafts' /\ LinesAddUp' /\ SlipsFollowRun'
  BY <1>3 DEF Drafts, LinesAddUp, SlipsFollowRun
<1>8. Knowing'
  <2>1. Later
    BY <1>1, <1>2 DEF Later, NoRun, NoSlip, TypeOK
  <2> QED BY <1>1, <1>2, <2>1, WritesKnowing, IdleKnows DEF IInv
<1> QED BY <1>4, <1>5, <1>6, <1>7, <1>8 DEF IInv

LEMMA SavePayslipIs ==
  ASSUME IInv, NEW s \in Managers, SavePayslip(s)
  PROVE  LET e == call[s].employee IN
         /\ SlipsStay
         /\ e \in Paid
         /\ \A f \in Paid : f # e => slips'[f] = slips[f]
         /\ slips'[e].status = call[s].seen.status
         /\ s \in overtaken => slips'[e].mixed
         /\ KeptLines(s) = {} => AddsUp(slips'[e])
<1> DEFINE c == call[s]
           e == c.employee
           late == s \in overtaken
           a == Adjusted(slips[e], KeptLines(s), c.batch, c.seen.status, late)
<1>1. CallOK(c) /\ c.op = "adjust" /\ c.step = "save"
  BY DEF IInv, Types, CallsOK, SavePayslip, At
<1>2. e \in Employees /\ c.seen \in RealSlip /\ c.batch \in Batch /\ c.seen.status \in Statuses
  BY <1>1 DEF CallOK, RealSlip
<1>3. TypeOK
  BY DEF IInv, Types
<1>4. e \in Paid /\ slips[e] \in RealSlip
  <2>1. slips[e].generation = c.seen.generation
    BY DEF SavePayslip, SameSlip
  <2>2. slips[e].generation # 0
    BY <1>2, <2>1 DEF RealSlip
  <2> QED BY <1>2, <1>3, <2>2, SlipsAre
<1>5. KeptLines(s) \in SUBSET Batch
  BY <1>4 DEF KeptLines, RealSlip
<1>6. /\ a \in RealSlip
      /\ a.generation = slips[e].generation /\ a.begun = slips[e].begun
      /\ a.run = slips[e].run /\ a.under = slips[e].under /\ a.mixed = late
      /\ a.earned = slips[e].earned /\ a.withheld = slips[e].withheld
      /\ a.lines = KeptLines(s) \cup {c.batch}
      /\ a.bonus = c.batch.earn /\ a.other = c.batch.deduct
      /\ a.net = Net(slips[e].earned + c.batch.earn, slips[e].withheld + c.batch.deduct)
      /\ a.status = c.seen.status
  <2>1. PICK p \in RealSlip, b \in Batch, kept \in SUBSET Batch, status \in Statuses :
          p = slips[e] /\ b = c.batch /\ kept = KeptLines(s) /\ status = c.seen.status
    BY <1>2, <1>4, <1>5
  <2>7. late \in BOOLEAN
    OBVIOUS
  <2>2. PICK l \in BOOLEAN : l = late /\ a = Adjusted(p, kept, b, status, l)
    BY <2>1, <2>7
  <2>3. b.earn \in Nat /\ b.deduct \in Nat /\ p.earned \in Nat /\ p.withheld \in Nat
    BY DEF Batch, RealSlip
  <2>4. p.earned + b.earn \in Nat /\ p.withheld + b.deduct \in Nat
    BY <2>3
  <2>5. Net(p.earned + b.earn, p.withheld + b.deduct) \in Nat
    BY <2>4, NetIsNat
  <2> HIDE DEF a
  <2>6. /\ a \in RealSlip
        /\ a.generation = p.generation /\ a.begun = p.begun
        /\ a.run = p.run /\ a.under = p.under /\ a.mixed = l
        /\ a.earned = p.earned /\ a.withheld = p.withheld
        /\ a.lines = kept \cup {b} /\ a.bonus = b.earn /\ a.other = b.deduct
        /\ a.net = Net(p.earned + b.earn, p.withheld + b.deduct)
        /\ a.status = status
    BY <2>2, <2>3, <2>5 DEF Adjusted, RealSlip
  <2> QED BY <2>1, <2>2, <2>6
<1>7. slips' = [slips EXCEPT ![e] = a]
  BY DEF SavePayslip
<1> HIDE DEF a, late
<1>8. slips \in [Employees -> SlipType]
  BY <1>3 DEF TypeOK
<1>9. slips'[e] = a /\ \A f \in Employees : f # e => slips'[f] = slips[f]
  BY <1>2, <1>7, <1>8
<1>10. SlipsStay
  <2>1. a \in SlipType
    BY <1>6 DEF SlipType, RealSlip
  <2>2. slips' \in [Employees -> SlipType]
    BY <1>2, <1>7, <1>8, <2>1
  <2>3. \A f \in Employees \ Paid : slips'[f] = NoSlip
    BY <1>4, <1>9 DEF Paid
  <2>4. \A f \in Paid : /\ slips'[f] \in RealSlip
                       /\ slips'[f].generation = slips[f].generation
                       /\ slips'[f].begun = slips[f].begun
                       /\ slips'[f].run = slips[f].run /\ slips'[f].under = slips[f].under
    <3> TAKE f \in Paid
    <3>1. f \in Employees /\ slips[f] \in RealSlip
      BY <1>3, SlipsAre
    <3> QED BY <1>6, <1>9, <3>1
  <2> QED BY <2>2, <2>3, <2>4 DEF SlipsStay
<1>11. ASSUME KeptLines(s) = {}
       PROVE  AddsUp(a)
  <2>1. a.lines = {c.batch}
    BY <1>6, <1>11
  <2>2. a.net = Net(a.earned + a.bonus, a.withheld + a.other)
    BY <1>6
  <2> QED BY <1>6, <2>1, <2>2 DEF AddsUp
<1>12. \A f \in Paid : f # e => slips'[f] = slips[f]
  BY <1>9 DEF Paid
<1> QED BY <1>4, <1>6, <1>9, <1>10, <1>11, <1>12 DEF late

(* The payslip an unovertaken call saves: a draft, and none of its old     *)
(* lines are kept.                                                         *)
LEMMA SavedUnraced ==
  ASSUME IInv, NEW s \in Managers, SavePayslip(s), s \notin overtaken
  PROVE  /\ KeptLines(s) = {}
         /\ call[s].seen.status = "draft" /\ slips[call[s].employee].status = "draft"
<1> DEFINE c == call[s]
<1>1. CallOK(c) /\ c.op = "adjust" /\ c.step = "save"
  BY DEF IInv, Types, CallsOK, SavePayslip, At
<1>2. c.seen = slips[c.employee] /\ c.cleared = c.seen.lines
  BY <1>1 DEF IInv, Fresh, FreshCall
<1>3. KeptLines(s) = {}
  BY <1>2 DEF KeptLines
<1> QED BY <1>1, <1>2, <1>3 DEF CallOK

LEMMA SavePayslipKeeps ==
  ASSUME IInv, NEW s \in Managers, SavePayslip(s)
  PROVE  IInv'
<1> DEFINE e == call[s].employee
<1>1. TypeOK /\ CallsOK /\ Whole
  BY DEF IInv, Types
<1>2. /\ SlipsStay /\ e \in Paid
      /\ \A f \in Paid : f # e => slips'[f] = slips[f]
      /\ slips'[e].status = call[s].seen.status
      /\ KeptLines(s) = {} => AddsUp(slips'[e])
  BY SavePayslipIs
<1>3. /\ Goes(s, Idle) /\ Writes(s)
      /\ UNCHANGED <<run, generations, adjustments, cutShort>>
  BY DEF SavePayslip, Ends, counts
<1>4. Whole' /\ Paid' = Paid /\ Later
  BY <1>1, <1>2, <1>3, SlipsStayWhole
<1>5. Types'
  <2>1. CallsOK'
    BY <1>1, <1>3, WentOK, IdleOK
  <2>2. TypeOK'
    BY <1>1, <1>2, <1>3, WritesTypes DEF TypeOK, SlipsStay
  <2> QED BY <2>1, <2>2 DEF Types
<1>6. Fresh' /\ Knowing'
  BY <1>1, <1>3, <1>4, WritesFresh, IdleIsFresh, WritesKnowing, IdleKnows DEF IInv
<1>7. Turning' = Turning
  <2>1. call'[s] = Idle /\ \A t \in Managers : t # s => call'[t] = call[t]
    BY <1>1, <1>3, Went
  <2>2. call[s].op = "adjust"
    BY DEF SavePayslip, At
  <2> QED BY <2>1, <2>2 DEF Turning, At, Idle
<1>8. call[s].seen.status = "draft"
  BY DEF IInv, Types, CallsOK, CallOK, SavePayslip, At
<1>9. Drafts'
  BY <1>2, <1>3, <1>4, <1>8 DEF IInv, Drafts
<1>10. LinesAddUp'
  <2>1. s \notin overtaken => AddsUp(slips'[e])
    BY <1>2, SavedUnraced
  <2>2. \A f \in Paid : slips'[f].mixed \/ AddsUp(slips'[f])
    <3> TAKE f \in Paid
    <3>1. slips[f].mixed \/ AddsUp(slips[f])
      BY DEF IInv, LinesAddUp
    <3>2. CASE f = e
      <4>1. CASE s \in overtaken
        <5>1. slips'[e].mixed
          BY <4>1, SavePayslipIs, Zenon
        <5> QED BY <3>2, <5>1
      <4> QED BY <2>1, <3>2, <4>1
    <3>3. CASE f # e
      <4>1. slips'[f] = slips[f]
        BY <1>2, <3>3
      <4> QED BY <3>1, <4>1
    <3> QED BY <3>2, <3>3
  <2> QED BY <1>4, <2>2 DEF LinesAddUp
<1>11. SlipsFollowRun'
  <2> SUFFICES ASSUME ~raced'
               PROVE  \A f \in Paid : slips'[f].status = slips[f].status
    <3>1. ~raced' => ~raced
      BY <1>1, <1>3, WritesTypes
    <3> QED BY <1>3, <1>4, <1>7, <3>1 DEF IInv, SlipsFollowRun
  <2>1. s \notin overtaken
    BY <1>1, <1>3, WritesTypes
  <2>2. slips[e].status = "draft"
    BY <2>1, SavedUnraced
  <2> QED BY <1>2, <1>8, <2>2
<1> QED BY <1>4, <1>5, <1>6, <1>9, <1>10, <1>11 DEF IInv

-------------------------------------------------------------------------------
(* Every step keeps the invariant *)

LEMMA ResolveRunKeeps ==
  ASSUME IInv, NEW s \in Managers, NEW rules \in RuleBooks, ResolveRun(s, rules)
  PROVE  IInv'
<1> DEFINE c == [op |-> "generate", step |-> "books", begun |-> generations, run |-> run,
                 rules |-> rules]
<1>1. /\ run = NoRun \/ (run \in Run /\ run.status = "draft")
      /\ generations \in 0 .. MaxGenerations
  BY RunIs DEF ResolveRun, IInv, Types, TypeOK
<1>2. CallOK(c) /\ FreshCall(c, run, slips) /\ Knows(c, run, slips, generations)
  BY <1>1 DEF CallOK, FreshCall, Knows
<1>3. /\ ~At(s, "transition", "slips") /\ Reads(s, c) /\ adjustments' \in 0 .. MaxAdjustments
  BY DEF ResolveRun, Free, At, Idle, IInv, Types, TypeOK
<1> QED BY <1>2, <1>3, ReadsKeep

LEMMA ReadBooksKeeps ==
  ASSUME IInv, NEW s \in Managers, NEW ids \in SUBSET Employees, NEW book \in [ids -> Books],
         ReadBooks(s, book)
  PROVE  IInv'
<1> DEFINE b == call[s]
           figures == [e \in DOMAIN book |-> <<Earned(Basic[e], book[e], b.rules),
                                              Withheld(Basic[e], book[e], b.rules)>>]
           c == [op |-> "generate", step |-> "clear", begun |-> b.begun, run |-> b.run,
                 rules |-> b.rules, figures |-> figures]
<1>1. CallOK(b) /\ b.op = "generate"
  BY DEF IInv, Types, CallsOK, ReadBooks, At
<1>2. /\ b.run = NoRun \/ (b.run \in Run /\ b.run.status = "draft")
      /\ b.rules \in RuleBooks /\ b.begun \in 0 .. MaxGenerations
  BY <1>1 DEF CallOK
<1>3. FiguresOK(figures)
  <2>1. DOMAIN figures = DOMAIN book /\ DOMAIN book = ids /\ ids # {}
    BY DEF ReadBooks
  <2>2. \A e \in ids : /\ Earned(Basic[e], book[e], b.rules) \in Nat
                       /\ Withheld(Basic[e], book[e], b.rules) \in Nat
    BY <1>2, FiguresAreNat
  <2>3. \A e \in ids : figures[e] = <<Earned(Basic[e], book[e], b.rules),
                                      Withheld(Basic[e], book[e], b.rules)>>
    BY <2>1
  <2>4. \A e \in ids : figures[e][1] \in Nat /\ figures[e][2] \in Nat
    BY <2>2, <2>3
  <2> QED BY <2>1, <2>4 DEF FiguresOK
<1> HIDE DEF figures
<1>4. CallOK(c)
  BY <1>2, <1>3 DEF CallOK
<1>5. s \notin overtaken => FreshCall(c, run, slips)
  BY <1>1 DEF IInv, Fresh, FreshCall
<1>6. /\ ~At(s, "transition", "slips") /\ Reads(s, c) /\ adjustments' \in 0 .. MaxAdjustments
  BY <1>1 DEF ReadBooks, At, IInv, Types, TypeOK, figures
<1>7. ~(c.op = "transition" /\ c.step = "slips")
  OBVIOUS
<1>8. Knows(c, run, slips, generations)
  BY <1>1 DEF IInv, Knowing, Knows
<1> QED BY <1>4, <1>5, <1>6, <1>7, <1>8, ReadsKeep

LEMMA ClearPayslipsKeeps ==
  ASSUME IInv, NEW s \in Managers, ClearPayslips(s)
  PROVE  IInv'
<1> DEFINE b == call[s]
           cleared == {slips[e].generation : e \in {f \in Paid : slips[f].run = b.run.id}}
           c == [op |-> "generate", step |-> "write", begun |-> b.begun, run |-> b.run,
                 rules |-> b.rules, figures |-> b.figures, cleared |-> cleared]
<1>1. CallOK(b) /\ b.op = "generate" /\ b.step = "clear"
  BY DEF IInv, Types, CallsOK, ClearPayslips, At
<1>2. /\ b.run = NoRun \/ (b.run \in Run /\ b.run.status = "draft")
      /\ b.rules \in RuleBooks /\ b.begun \in 0 .. MaxGenerations /\ FiguresOK(b.figures)
  BY <1>1 DEF CallOK
<1>3. \A e \in Employees : slips[e] # NoSlip /\ slips[e].run = b.run.id =>
                             slips[e].generation \in cleared
  BY DEF Paid
<1>4. \A e \in Employees : slips[e] # NoSlip => slips[e].run = run.id
  BY DEF IInv, Whole, NoHalfRun, Paid
<1>5. Reads(s, c) /\ ~At(s, "transition", "slips") /\ adjustments' \in 0 .. MaxAdjustments
  BY <1>1 DEF ClearPayslips, At, IInv, Types, TypeOK
<1> HIDE DEF cleared
<1>6. CallOK(c) /\ ~(c.op = "transition" /\ c.step = "slips")
  BY <1>2 DEF CallOK
<1>7. s \notin overtaken => FreshCall(c, run, slips)
  <2>1. s \notin overtaken => b.run = run
    BY <1>1 DEF IInv, Fresh, FreshCall
  <2> QED BY <1>3, <1>4, <2>1 DEF FreshCall
<1>8. Knows(c, run, slips, generations)
  <2>1. b.begun <= generations
    BY <1>1 DEF IInv, Knowing, Knows
  <2> QED BY <1>3, <2>1 DEF Knows
<1> QED BY <1>5, <1>6, <1>7, <1>8, ReadsKeep

LEMMA BeginTransitionKeeps ==
  ASSUME IInv, NEW s \in Managers, NEW status \in {"finalized", "paid"}, BeginTransition(s, status)
  PROVE  IInv'
<1> DEFINE c == [op |-> "transition", step |-> "header", run |-> run, status |-> status]
<1>1. run \in Run /\ run.status = Precedes(status) /\ run.id <= generations
  BY RunIs DEF BeginTransition, IInv, Types, Whole
<1>2. CallOK(c) /\ FreshCall(c, run, slips) /\ Knows(c, run, slips, generations)
  BY <1>1 DEF CallOK, FreshCall, Knows
<1>3. /\ ~At(s, "transition", "slips") /\ Reads(s, c) /\ adjustments' \in 0 .. MaxAdjustments
  BY DEF BeginTransition, Free, At, Idle, IInv, Types, TypeOK
<1> QED BY <1>2, <1>3, ReadsKeep

LEMMA BeginDeleteKeeps ==
  ASSUME IInv, NEW s \in Managers, BeginDelete(s)
  PROVE  IInv'
<1> DEFINE c == [op |-> "delete", step |-> "write", run |-> run]
<1>1. run \in Run /\ run.status = "draft"
  BY RunIs DEF BeginDelete, IInv, Types
<1>2. CallOK(c) /\ FreshCall(c, run, slips) /\ Knows(c, run, slips, generations)
  BY <1>1 DEF CallOK, FreshCall, Knows
<1>3. /\ ~At(s, "transition", "slips") /\ Reads(s, c) /\ adjustments' \in 0 .. MaxAdjustments
  BY DEF BeginDelete, Free, At, Idle, IInv, Types, TypeOK
<1> QED BY <1>2, <1>3, ReadsKeep

LEMMA FindPayslipKeeps ==
  ASSUME IInv, NEW s \in Managers, NEW e \in Employees, NEW a \in Adjustments, FindPayslip(s, e, a)
  PROVE  IInv'
<1> DEFINE batch == [no |-> adjustments', earn |-> a.earn, deduct |-> a.deduct]
           c == [op |-> "adjust", step |-> "clear", employee |-> e, seen |-> slips[e],
                 batch |-> batch]
<1>1. e \in Paid /\ slips[e].status = "draft" /\ slips[e] \in RealSlip
  BY SlipsAre DEF FindPayslip, IInv, Types
<1>2. adjustments' \in 1 .. MaxAdjustments
  BY DEF FindPayslip, IInv, Types, TypeOK
<1>3. batch \in Batch
  BY <1>2 DEF Batch
<1>4. Reads(s, c) /\ ~At(s, "transition", "slips")
  BY DEF FindPayslip, Free, At, Idle
<1> HIDE DEF batch
<1>5. /\ CallOK(c) /\ FreshCall(c, run, slips) /\ ~(c.op = "transition" /\ c.step = "slips")
      /\ Knows(c, run, slips, generations)
  BY <1>1, <1>3 DEF CallOK, FreshCall, Knows
<1> QED BY <1>2, <1>4, <1>5, ReadsKeep

LEMMA ClearLinesKeeps ==
  ASSUME IInv, NEW s \in Managers, ClearLines(s)
  PROVE  IInv'
<1> DEFINE b == call[s]
           cleared == IF SameSlip(s) THEN slips[b.employee].lines ELSE {}
           c == [op |-> "adjust", step |-> "save", employee |-> b.employee, seen |-> b.seen,
                 batch |-> b.batch, cleared |-> cleared]
<1>1. CallOK(b) /\ b.op = "adjust" /\ b.step = "clear"
  BY DEF IInv, Types, CallsOK, ClearLines, At
<1>2. /\ b.employee \in Employees /\ b.seen \in RealSlip /\ b.seen.status = "draft"
      /\ b.batch \in Batch
  BY <1>1 DEF CallOK
<1>3. cleared \subseteq Batch
  <2> SUFFICES ASSUME SameSlip(s)
               PROVE  slips[b.employee].lines \subseteq Batch
    OBVIOUS
  <2>1. slips[b.employee].generation # 0
    BY <1>2 DEF SameSlip, RealSlip
  <2>2. slips[b.employee] \in RealSlip
    BY <1>2, <2>1, SlipsAre DEF IInv, Types
  <2> QED BY <2>2 DEF RealSlip
<1>4. s \notin overtaken => b.seen = slips[b.employee] /\ cleared = b.seen.lines
  BY <1>1 DEF IInv, Fresh, FreshCall, SameSlip
<1>5. Reads(s, c) /\ ~At(s, "transition", "slips") /\ adjustments' \in 0 .. MaxAdjustments
  BY <1>1 DEF ClearLines, At, IInv, Types, TypeOK
<1> HIDE DEF cleared
<1>6. CallOK(c)
  BY <1>2, <1>3 DEF CallOK
<1>7. /\ s \notin overtaken => FreshCall(c, run, slips)
      /\ ~(c.op = "transition" /\ c.step = "slips")
      /\ Knows(c, run, slips, generations)
  BY <1>4 DEF FreshCall, Knows
<1> QED BY <1>5, <1>6, <1>7, ReadsKeep

LEMMA StepKeeps == IInv /\ [Next]_vars => IInv'
<1> SUFFICES ASSUME IInv, [Next]_vars
             PROVE  IInv'
  OBVIOUS
<1>1. CASE UNCHANGED vars
  <2>1. Types'
    BY <1>1 DEF vars, IInv, Types, TypeOK, CallsOK
  <2>2. Whole' /\ Fresh' /\ Knowing'
    BY <1>1 DEF vars, IInv, Whole, NoHalfRun, Paid, Fresh, Knowing
  <2>3. Drafts' /\ LinesAddUp' /\ SlipsFollowRun'
    BY <1>1 DEF vars, IInv, Drafts, LinesAddUp, SlipsFollowRun, Paid, Turning, At
  <2> QED BY <2>1, <2>2, <2>3 DEF IInv
<1>2. CASE Next
  <2>1. PICK s \in Managers :
          \/ \E rules \in RuleBooks : ResolveRun(s, rules)
          \/ \E ids \in SUBSET Employees : \E book \in [ids -> Books] : ReadBooks(s, book)
          \/ ClearPayslips(s) \/ WriteRun(s) \/ RunIsTaken(s)
          \/ \E status \in {"finalized", "paid"} : BeginTransition(s, status)
          \/ UpdateRunStatus(s) \/ SetPayslipStatus(s)
          \/ BeginDelete(s) \/ DeleteRun(s) \/ RunIsGone(s)
          \/ \E e \in Employees, a \in Adjustments : FindPayslip(s, e, a)
          \/ ClearLines(s) \/ SavePayslip(s) \/ PayslipIsGone(s)
          \/ Interrupt(s)
    BY <1>2 DEF Next
  <2>2. CASE \E rules \in RuleBooks : ResolveRun(s, rules)
    BY <2>2, ResolveRunKeeps
  <2>3. CASE \E ids \in SUBSET Employees : \E book \in [ids -> Books] : ReadBooks(s, book)
    BY <2>3, ReadBooksKeeps
  <2>4. CASE WriteRun(s)
    BY <2>4, WriteRunKeeps
  <2>5. CASE RunIsTaken(s) \/ RunIsGone(s) \/ PayslipIsGone(s)
    <3>1. GivesUp(s) /\ ~At(s, "transition", "slips")
      BY <2>5 DEF RunIsTaken, RunIsGone, PayslipIsGone, At
    <3> QED BY <3>1, GivesUpKeeps
  <2>6. CASE \E status \in {"finalized", "paid"} : BeginTransition(s, status)
    BY <2>6, BeginTransitionKeeps
  <2>7. CASE UpdateRunStatus(s)
    BY <2>7, UpdateRunStatusKeeps
  <2>8. CASE SetPayslipStatus(s)
    BY <2>8, SetPayslipStatusKeeps
  <2>9. CASE BeginDelete(s)
    BY <2>9, BeginDeleteKeeps
  <2>10. CASE DeleteRun(s)
    BY <2>10, DeleteRunKeeps
  <2>11. CASE \E e \in Employees, a \in Adjustments : FindPayslip(s, e, a)
    BY <2>11, FindPayslipKeeps
  <2>12. CASE ClearLines(s)
    BY <2>12, ClearLinesKeeps
  <2>13. CASE SavePayslip(s)
    BY <2>13, SavePayslipKeeps
  <2>14. CASE Interrupt(s)
    BY <2>14, InterruptKeeps
  <2>15. CASE ClearPayslips(s)
    BY <2>15, ClearPayslipsKeeps
  <2> QED BY <2>1, <2>2, <2>3, <2>4, <2>5, <2>6, <2>7, <2>8, <2>9, <2>10, <2>11, <2>12, <2>13,
             <2>14, <2>15
<1> QED BY <1>1, <1>2

LEMMA InitHolds == Init => IInv
<1> SUFFICES ASSUME Init PROVE IInv
  OBVIOUS
<1>1. Paid = {} /\ run = NoRun
  BY DEF Init, Paid
<1>2. TypeOK
  <2>1. 0 \in 0 .. MaxGenerations /\ 0 \in 0 .. MaxAdjustments
    OBVIOUS
  <2>2. slips \in [Employees -> SlipType]
    BY DEF Init, SlipType
  <2>3. overtaken \subseteq Managers /\ raced \in BOOLEAN /\ cutShort \in BOOLEAN
    BY DEF Init
  <2> QED BY <1>1, <2>1, <2>2, <2>3 DEF Init, TypeOK
<1>3. \A s \in Managers : call[s] = Idle
  BY DEF Init
<1>4. CallsOK
  BY <1>3, IdleOK DEF Init, CallsOK
<1>5. Whole
  BY <1>1 DEF Whole, NoHalfRun
<1>6. Fresh
  BY <1>3, IdleIsFresh DEF Fresh
<1>7. Drafts /\ LinesAddUp /\ SlipsFollowRun
  BY <1>1 DEF Drafts, LinesAddUp, SlipsFollowRun
<1>8. Knowing
  BY <1>3, IdleKnows DEF Knowing
<1> QED BY <1>2, <1>4, <1>5, <1>6, <1>7, <1>8 DEF IInv, Types

LEMMA Always == Spec => []IInv
BY InitHolds, StepKeeps, PTL DEF Spec

-------------------------------------------------------------------------------
(* What follows *)

(* However the calls of any number of managers interleave and break off,   *)
(* runs, payslips and counters are what they should be.                    *)
THEOREM TypeCorrect == Spec => []TypeOK
BY Always, PTL DEF IInv, Types

(* Generate and DeleteRun: no run without payslips, no payslip without its *)
(* run; payslips of two generations stand side by side only if the later   *)
(* one had begun before the earlier one was written.                       *)
THEOREM RunsAreWhole == Spec => []NoHalfRun
BY Always, PTL DEF IInv, Whole

(* AdjustPayslip: unless an overtaken call has saved it last, the totals of *)
(* a payslip are those of the lines it prints.                             *)
THEOREM TotalsAreOfTheLines == Spec => []LinesAddUp
BY Always, PTL DEF IInv

(* SetPayslipStatusForRun: unless two calls raced or one was cut short, the *)
(* payslips have the status of their run.                                  *)
THEOREM PayslipsFollow == Spec => []SlipsFollowRun
BY Always, PTL DEF IInv

-------------------------------------------------------------------------------

(* What a generation or a deletion that is not overtaken writes over.      *)
LEMMA DraftsReplaced ==
  ASSUME IInv, NEW s \in Managers, s \notin overtaken, WriteRun(s) \/ DeleteRun(s)
  PROVE  \A e \in Paid : slips[e].status = "draft"
<1> DEFINE c == call[s]
<1>1. CallOK(c) /\ (c.op = "generate" \/ c.op = "delete")
  BY DEF WriteRun, DeleteRun, IInv, Types, CallsOK, At
<1>2. c.run = run
  BY <1>1 DEF IInv, Fresh, FreshCall
<1>3. run = NoRun \/ run.status = "draft"
  BY <1>1, <1>2 DEF CallOK
<1>4. CASE run = NoRun
  <2>1. \A e \in Paid : slips[e].run = 0
    BY <1>4 DEF IInv, Whole, NoHalfRun, NoRun
  <2>2. \A e \in Paid : slips[e].run # 0
    BY SlipsAre DEF IInv, Types, RealSlip
  <2> QED BY <2>1, <2>2
<1>5. CASE run.status = "draft"
  BY <1>5 DEF IInv, Drafts
<1> QED BY <1>3, <1>4, <1>5

(* In a step that is not late, the call that writes is not overtaken.      *)
LEMMA NotLate ==
  ASSUME IInv, NEW s \in Managers, ~IsLate,
         \/ WriteRun(s) \/ UpdateRunStatus(s) \/ SetPayslipStatus(s)
         \/ DeleteRun(s) \/ SavePayslip(s)
  PROVE  s \notin overtaken
<1> DEFINE d == [op |-> "transition", step |-> "slips", run |-> call[s].run,
                 status |-> call[s].status]
<1>1. CallsOK
  BY DEF IInv, Types
<1>2. (Goes(s, Idle) /\ call[s] # Idle) \/ (Goes(s, d) /\ call[s] # d)
  <2>1. CASE WriteRun(s) \/ SetPayslipStatus(s) \/ DeleteRun(s) \/ SavePayslip(s)
    <3>1. Goes(s, Idle) /\ call[s].op # "none"
      BY <2>1 DEF WriteRun, SetPayslipStatus, DeleteRun, SavePayslip, At, Ends
    <3> QED BY <3>1 DEF Idle
  <2>2. CASE UpdateRunStatus(s)
    BY <2>2 DEF UpdateRunStatus, At, Idle
  <2> QED BY <2>1, <2>2
<1>3. call'[s] # call[s]
  BY <1>1, <1>2, Went
<1> QED BY <1>3 DEF IsLate

LEMMA SameButStatus ==
  ASSUME NEW p \in RealSlip, NEW q \in RealSlip,
         q.generation = p.generation, q.begun = p.begun, q.run = p.run, q.under = p.under,
         q.earned = p.earned, q.withheld = p.withheld, q.lines = p.lines, q.mixed = p.mixed,
         q.bonus = p.bonus, q.other = p.other, q.net = p.net
  PROVE  q # NoSlip /\ [q EXCEPT !.status = p.status] = p
BY DEF RealSlip, NoSlip

(* Which steps write what.                                                 *)
LEMMA Unwritten ==
  ASSUME IInv, [Next]_vars
  PROVE  \/ run' = run /\ slips' = slips
         \/ \E s \in Managers : \/ WriteRun(s) \/ UpdateRunStatus(s)
                              \/ SetPayslipStatus(s) \/ DeleteRun(s) \/ SavePayslip(s)
BY DEF Next, vars, ResolveRun, ReadBooks, RunIsTaken, BeginTransition, BeginDelete, RunIsGone,
       FindPayslip, ClearPayslips, ClearLines, PayslipIsGone, Interrupt, Reads, GivesUp

(* GeneratePayroll, DeleteRun, AdjustPayslip: a payslip that has been      *)
(* finalised keeps its figures, unless an overtaken call writes.           *)
THEOREM FinalFigures == Spec => FinalFiguresStand
<1> DEFINE A == \A e \in Paid :
                  slips[e].status # "draft" /\ ~IsLate =>
                    slips'[e] # NoSlip /\ [slips'[e] EXCEPT !.status = slips[e].status] = slips[e]
<1>1. IInv /\ [Next]_vars => A
  <2> SUFFICES ASSUME IInv, [Next]_vars, NEW e \in Paid, slips[e].status # "draft", ~IsLate
               PROVE  slips'[e] # NoSlip /\ [slips'[e] EXCEPT !.status = slips[e].status] = slips[e]
    OBVIOUS
  <2>1. e \in Employees /\ slips[e] \in RealSlip
    BY SlipsAre DEF IInv, Types
  <2>2. CASE slips'[e] = slips[e]
    BY <2>1, <2>2, SameButStatus
  <2>3. ASSUME NEW s \in Managers, WriteRun(s) \/ DeleteRun(s)
        PROVE  FALSE
    BY <2>3, NotLate, DraftsReplaced
  <2>4. ASSUME NEW s \in Managers, UpdateRunStatus(s)
        PROVE  slips'[e] = slips[e]
    BY <2>4 DEF UpdateRunStatus
  <2>5. ASSUME NEW s \in Managers, SetPayslipStatus(s)
        PROVE  slips'[e] # NoSlip /\ [slips'[e] EXCEPT !.status = slips[e].status] = slips[e]
    <3>1. slips'[e] \in RealSlip
      BY <2>5, SetPayslipStatusIs DEF SlipsStay
    <3>2. /\ slips'[e].generation = slips[e].generation /\ slips'[e].run = slips[e].run
          /\ slips'[e].under = slips[e].under /\ slips'[e].begun = slips[e].begun
      BY <2>5, SetPayslipStatusIs DEF SlipsStay
    <3>3. /\ slips'[e].earned = slips[e].earned /\ slips'[e].withheld = slips[e].withheld
          /\ slips'[e].mixed = slips[e].mixed
          /\ slips'[e].lines = slips[e].lines /\ slips'[e].bonus = slips[e].bonus
          /\ slips'[e].other = slips[e].other /\ slips'[e].net = slips[e].net
      BY <2>5, SetPayslipStatusIs
    <3> QED BY <2>1, <3>1, <3>2, <3>3, SameButStatus
  <2>6. ASSUME NEW s \in Managers, SavePayslip(s)
        PROVE  slips'[e] = slips[e]
    <3>2. s \notin overtaken
      BY <2>6, NotLate
    <3>3. slips[call[s].employee].status = "draft"
      BY <2>6, <3>2, SavedUnraced
    <3>4. e # call[s].employee
      BY <3>3
    <3> QED BY <2>6, <3>4, SavePayslipIs
  <2> QED BY <2>2, <2>3, <2>4, <2>5, <2>6, Unwritten
<1>2. IInv /\ [Next]_vars => [A]_vars
  BY <1>1
<1>3. Spec => [][A]_vars
  BY <1>2, Always, PTL DEF Spec
<1> QED BY <1>3 DEF FinalFiguresStand

(* BeginTransition and UpdateRunStatus: draft, finalised, paid, and never  *)
(* back, unless an overtaken call writes.                                  *)
THEOREM StatusIsOneWay == Spec => StatusGoesForward
<1> DEFINE A == run.status # run'.status /\ ~IsLate =>
                  <<run.status, run'.status>> \in
                    {<<"none", "draft">>, <<"draft", "none">>, <<"draft", "finalized">>,
                     <<"finalized", "paid">>}
<1>1. IInv /\ [Next]_vars => A
  <2> SUFFICES ASSUME IInv, [Next]_vars, run.status # run'.status, ~IsLate
               PROVE  <<run.status, run'.status>> \in
                        {<<"none", "draft">>, <<"draft", "none">>, <<"draft", "finalized">>,
                         <<"finalized", "paid">>}
    OBVIOUS
  <2>1. PICK s \in Managers : WriteRun(s) \/ UpdateRunStatus(s) \/ DeleteRun(s)
    BY Unwritten DEF SetPayslipStatus, SavePayslip
  <2>2. CallOK(call[s])
    BY DEF IInv, Types, CallsOK
  <2>3. s \notin overtaken
    BY <2>1, NotLate
  <2>4. CASE WriteRun(s)
    <3>1. run.id = call[s].run.id /\ run' # run => call[s].run = NoRun /\ run'.status = "draft"
      BY <2>4 DEF WriteRun
    <3>2. run' # run => run.id = 0
      BY <2>4, <3>1 DEF WriteRun, NoRun
    <3>3. run' # run => run = NoRun
      BY <3>2, RunIs DEF IInv, Types
    <3> QED BY <2>4, <3>1, <3>3 DEF WriteRun, NoRun
  <2>5. CASE UpdateRunStatus(s)
    <3>1. call[s].op = "transition" /\ call[s].step = "header" /\ run'.status = call[s].status
      BY <2>5 DEF UpdateRunStatus, At
    <3>2. call[s].run = run
      BY <2>3, <3>1 DEF IInv, Fresh, FreshCall
    <3>3. call[s].status \in {"finalized", "paid"} /\ run.status = Precedes(call[s].status)
      BY <2>2, <3>1, <3>2 DEF CallOK
    <3> QED BY <3>1, <3>3 DEF Precedes
  <2>6. CASE DeleteRun(s)
    <3>1. call[s].op = "delete" /\ run' = NoRun
      BY <2>6 DEF DeleteRun, At
    <3>2. call[s].run = run
      BY <2>3, <3>1 DEF IInv, Fresh, FreshCall
    <3>3. run.status = "draft"
      BY <2>2, <3>1, <3>2 DEF CallOK
    <3> QED BY <3>1, <3>3 DEF NoRun
  <2> QED BY <2>1, <2>4, <2>5, <2>6
<1>2. IInv /\ [Next]_vars => [A]_vars
  BY <1>1
<1>3. Spec => [][A]_vars
  BY <1>2, Always, PTL DEF Spec
<1> QED BY <1>3 DEF StatusGoesForward
===============================================================================
