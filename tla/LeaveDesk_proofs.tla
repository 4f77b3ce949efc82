---------------------------- MODULE LeaveDesk_proofs ----------------------------
(***************************************************************************)
(* Proofs about LeaveDesk, for any sessions, requests, roster and rules,   *)
(* and whatever the bounds are.                                            *)
(***************************************************************************)
EXTENDS LeaveDesk, Sums_proofs

USE ShiftClockAssumption, LeaveDeskAssumption

-------------------------------------------------------------------------------
(* Time *)

LEMMA TimesIsNat == \A m, n \in Nat : m * n \in Nat
OBVIOUS

LEMMA DivMonotone ==
  ASSUME NEW a \in Nat, NEW b \in Nat, NEW c \in Nat \ {0}, a <= b
  PROVE  a \div c \in Nat /\ a \div c <= b \div c
<1>1. PICK p \in Nat, q \in Nat : p = a \div c /\ q = b \div c
  OBVIOUS
<1>2. c * p <= a /\ b < c * (q + 1)
  BY <1>1
<1>3. c * p < c * (q + 1)
  BY <1>2
<1>4. p < q + 1
  BY <1>3
<1> QED BY <1>1, <1>4

(* Every punch is made on a day of the register.                           *)
LEMMA PunchDay ==
  ASSUME NEW at \in Punches
  PROVE  at \in Nat /\ Day(at) \in Days /\ Day(at) \in Nat
<1>1. at \in Nat /\ DayLength \in Nat \ {0} /\ MaxDay \in Nat /\ Day(at) <= MaxDay
  OBVIOUS
<1>2. at \div DayLength \in Nat
  BY <1>1, DivMonotone
<1> QED BY <1>1, <1>2 DEF Day, Days

-------------------------------------------------------------------------------
(* What rows and calls are *)

Moment == {NoTime} \cup Nat

RealRow == [id : Nat \ {0}, in : Moment, out : Moment, status : Statuses, source : Sources]

Entry == [id : {0}, in : Moment, out : Moment, status : Statuses, source : {"manual"}]

CallOK(s, c) ==
  /\ c.op = "request" => s \in Applicants
  /\ c.op \in {"request", "approve", "reject", "cancel"} => c.req \in Requests
  /\ c.op = "approve" /\ c.step \in {"find", "mark"} =>
       c.day \in Application[c.req].from .. Application[c.req].to
  /\ c.op \in {"clock in", "clock out"} => s \in Terminals /\ c.at \in Punches
  /\ c.op \in {"clock in", "record"} => c.day \in Days /\ c.seen \in RowType
  /\ c.op = "clock in" => c.seen.in = NoTime
  /\ c.op = "clock out" /\ c.step = "write" =>
       /\ c.day \in Days /\ c.seen \in RealRow /\ IsOpen(c.seen)
       /\ Day(c.at) \in {c.day, c.day + 1} /\ c.seen.in <= c.at
  /\ c.op = "clock out" /\ c.step = "yesterday" => c.day = Day(c.at) - 1
  /\ c.op = "record" => c.entry \in Entry

CallsOK ==
  /\ call = [s \in Sessions |-> call[s]]
  /\ \A s \in Sessions : CallOK(s, call[s])

Types == TypeOK /\ CallsOK

CrossedOK == crossed \subseteq {"request", "approve"} \X SUBSET Requests

LEMMA Went ==
  ASSUME CallsOK, NEW s \in Sessions, NEW c, Goes(s, c)
  PROVE  /\ call' = [t \in Sessions |-> call'[t]]
         /\ call'[s] = c
         /\ \A t \in Sessions : t # s => call'[t] = call[t]
BY DEF CallsOK, Goes

LEMMA WentOK ==
  ASSUME CallsOK, NEW s \in Sessions, NEW c, CallOK(s, c), Goes(s, c)
  PROVE  CallsOK'
<1>1. /\ call' = [t \in Sessions |-> call'[t]]
      /\ call'[s] = c
      /\ \A t \in Sessions : t # s => call'[t] = call[t]
  BY Went
<1>2. \A t \in Sessions : CallOK(t, call[t])
  BY DEF CallsOK
<1>3. \A t \in Sessions : CallOK(t, call'[t])
  BY <1>1, <1>2
<1> QED BY <1>1, <1>3 DEF CallsOK

LEMMA IdleOK == \A s : CallOK(s, Idle)
BY DEF CallOK, Idle, RequestCall, Call

LEMMA RowsAre ==
  /\ RowType = {NoRow} \cup RealRow
  /\ NoRow \notin RealRow
  /\ \A row \in RealRow : row.id \in Nat \ {0} /\ row # NoRow
  /\ NoRow.id = 0 /\ NoRow.in = NoTime /\ NoRow.out = NoTime
  /\ \A row \in RowType : row.id \in Nat /\ (row = NoRow <=> row.id = 0)
BY DEF RowType, RealRow, NoRow, Row, Moment

LEMMA RowIs ==
  ASSUME NEW id \in Nat \ {0}, NEW in \in Moment, NEW out \in Moment,
         NEW status \in Statuses, NEW source \in Sources
  PROVE  Row(id, in, out, status, source) \in RealRow
BY DEF Row, RealRow

RegisterOK ==
  /\ register \in [Days -> RowType]
  /\ rows \in [Days -> Nat]
  /\ \A d \in Days : register[d].id \in {0, rows[d]}

LEMMA MadeRow ==
  ASSUME TypeOK, NEW d \in Days, NEW in \in Moment, NEW out \in Moment,
         NEW status \in Statuses, NEW source \in Sources, MakeRow(d, in, out, status, source)
  PROVE  /\ RegisterOK'
         /\ bare' = bare \ {d}
         /\ \A x \in Days : x # d => register'[x] = register[x]
         /\ register'[d] # NoRow
         /\ register'[d].in = in /\ register'[d].out = out /\ register'[d].source = source
<1> DEFINE made == Row(rows[d] + 1, in, out, status, source)
<1>1. /\ register \in [Days -> RowType] /\ rows \in [Days -> Nat]
      /\ \A x \in Days : register[x].id \in {0, rows[x]}
  BY DEF TypeOK
<1>2. rows[d] + 1 \in Nat \ {0}
  BY <1>1
<1>3. made \in RealRow
  BY <1>2, RowIs
<1>4. made.id = rows[d] + 1 /\ made.in = in /\ made.out = out /\ made.source = source
  BY DEF Row
<1>5. register' = [register EXCEPT ![d] = made] /\ bare' = bare \ {d}
  BY DEF MakeRow
<1>6. rows' = [rows EXCEPT ![d] = rows[d] + 1]
  BY DEF MakeRow
<1> HIDE DEF made
<1>7. register'[d] = made /\ \A x \in Days : x # d => register'[x] = register[x]
  BY <1>1, <1>5
<1>8. rows' \in [Days -> Nat] /\ rows'[d] = rows[d] + 1 /\ \A x \in Days : x # d => rows'[x] = rows[x]
  BY <1>1, <1>2, <1>6
<1>9. register' \in [Days -> RowType]
  BY <1>1, <1>3, <1>5, RowsAre
<1>10. \A x \in Days : register'[x].id \in {0, rows'[x]}
  BY <1>1, <1>4, <1>7, <1>8
<1>11. RegisterOK'
  BY <1>8, <1>9, <1>10 DEF RegisterOK
<1> QED BY <1>3, <1>4, <1>5, <1>7, <1>11, RowsAre

LEMMA Rewrote ==
  ASSUME TypeOK, NEW d \in Days, NEW seen \in RealRow, NEW in \in Moment, NEW out \in Moment,
         NEW status \in Statuses, NEW source \in Sources,
         Rewrite(d, seen, in, out, status, source), UNCHANGED rows
  PROVE  /\ RegisterOK'
         /\ \A x \in Days : x # d => register'[x] = register[x]
         /\ register'[d] = register[d] \/
              /\ register[d] # NoRow /\ register'[d] # NoRow
              /\ register'[d].in = in /\ register'[d].out = out /\ register'[d].source = source
<1> DEFINE made == Row(seen.id, in, out, status, source)
<1>1. /\ register \in [Days -> RowType] /\ rows \in [Days -> Nat]
      /\ \A x \in Days : register[x].id \in {0, rows[x]}
  BY DEF TypeOK
<1>2. seen.id \in Nat \ {0}
  BY RowsAre
<1>3. made \in RealRow
  BY <1>2, RowIs
<1>4. made.id = seen.id /\ made.in = in /\ made.out = out /\ made.source = source
  BY DEF Row
<1>5. CASE register[d].id = seen.id
  <2>1. register' = [register EXCEPT ![d] = made]
    BY <1>5 DEF Rewrite
  <2> HIDE DEF made
  <2>2. register'[d] = made /\ \A x \in Days : x # d => register'[x] = register[x]
    BY <1>1, <2>1
  <2>3. register' \in [Days -> RowType]
    BY <1>1, <1>3, <2>1, RowsAre
  <2>4. \A x \in Days : register'[x].id \in {0, rows'[x]}
    BY <1>1, <1>4, <1>5, <2>2
  <2>5. RegisterOK'
    BY <1>1, <2>3, <2>4 DEF RegisterOK
  <2>6. register[d] # NoRow
    BY <1>2, <1>5, RowsAre
  <2> QED BY <1>3, <1>4, <2>2, <2>5, <2>6, RowsAre
<1>6. CASE register[d].id # seen.id
  BY <1>1, <1>6 DEF Rewrite, RegisterOK
<1> QED BY <1>5, <1>6

-------------------------------------------------------------------------------
(* Days that wait to be marked *)

Marking(c) == c.op = "approve" /\ c.step \in {"find", "mark"}

LEMMA FreeNotMarking == \A s : Free(s) => ~Marking(call[s])
BY DEF Free, Idle, RequestCall, Call, Marking

LEMMA AheadIs ==
  \A r, d : d \in Ahead(r) <=>
    \E s \in Sessions : /\ Marking(call[s]) /\ call[s].req = r
                        /\ d \in call[s].day .. Application[r].to
BY DEF Ahead, Marking

LEMMA AheadWas ==
  \A r, d : d \in Ahead(r)' <=>
    \E s \in Sessions : /\ Marking(call'[s]) /\ call'[s].req = r
                        /\ d \in call'[s].day .. Application[r].to
BY DEF Ahead, Marking

(* A step of one session leaves what others have ahead of them.            *)
LEMMA AheadStays ==
  ASSUME CallsOK, NEW s \in Sessions, NEW c, Goes(s, c), NEW r, NEW d, d \in Ahead(r)
  PROVE  \/ d \in Ahead(r)'
         \/ Marking(call[s]) /\ call[s].req = r /\ d \in call[s].day .. Application[r].to
<1>1. PICK t \in Sessions : /\ Marking(call[t]) /\ call[t].req = r
                            /\ d \in call[t].day .. Application[r].to
  BY AheadIs
<1>2. CASE t = s
  BY <1>1, <1>2
<1>3. CASE t # s
  <2>1. call'[t] = call[t]
    BY <1>3, Went
  <2> QED BY <1>1, <2>1, AheadWas
<1> QED BY <1>2, <1>3

(* What keeps granted leave on the register through a step.                *)
LEMMA LeaveStays ==
  ASSUME LeaveOnRegister,
         \A r \in Approved' : r \in Approved \/ Span(r) \subseteq Ahead(r)',
         \A r \in Approved : \A d \in Span(r) :
           d \in Ahead(r) => d \in Ahead(r)' \/ d \in bare' \/ register'[d] # NoRow,
         \A d \in Days : d \in bare => d \in bare' \/ register'[d] # NoRow,
         \A d \in Days : register[d] # NoRow => d \in bare' \/ register'[d] # NoRow
  PROVE  LeaveOnRegister'
<1> SUFFICES ASSUME NEW r \in Approved', NEW d \in Span(r), d \notin bare', d \notin Ahead(r)'
             PROVE  register'[d] # NoRow
  BY DEF LeaveOnRegister, Span
<1>1. r \in Requests /\ d \in Days
  BY DEF Approved, Span, Days
<1>2. r \in Approved
  OBVIOUS
<1>3. d \in bare \/ d \in Ahead(r) \/ register[d] # NoRow
  BY <1>2 DEF LeaveOnRegister
<1> QED BY <1>1, <1>2, <1>3

-------------------------------------------------------------------------------
(* Every step keeps the types, and granted leave on the register *)

Inv == Types /\ LeaveOnRegister

(* Calls that only read.                                                   *)
LEMMA CallStepKeeps ==
  ASSUME Inv, NEW s \in Sessions, NEW c, CallOK(s, c), ~Marking(call[s]), Goes(s, c),
         UNCHANGED <<requests, register, rows, overturned, bare>>,
         corrections' \in 0 .. MaxCorrections,
         CrossedOK'
  PROVE  Inv'
<1>1. CallsOK /\ CallsOK'
  BY WentOK DEF Inv, Types
<1>2. TypeOK'
  BY DEF Inv, Types, TypeOK, CrossedOK
<1>3. Approved' = Approved
  BY DEF Approved
<1>4. \A r, d : d \in Ahead(r) => d \in Ahead(r)'
  BY <1>1, AheadStays
<1>5. LeaveOnRegister'
  BY <1>3, <1>4, LeaveStays DEF Inv
<1> QED BY <1>1, <1>2, <1>5 DEF Inv, Types

LEMMA CrossedGrows ==
  ASSUME Inv, NEW s \in Sessions, NEW op \in {"request", "approve"}, NEW r \in Requests,
         crossed' = crossed \cup Beside(s, op, r)
  PROVE  CrossedOK'
<1>1. \A t \in Sessions : Deciding(call[t], op) => call[t].req \in Requests
  BY DEF Inv, Types, CallsOK, CallOK, Deciding
<1>2. \A t \in Sessions : Deciding(call[t], op) =>
        <<op, {r, call[t].req}>> \in {"request", "approve"} \X SUBSET Requests
  BY <1>1
<1>3. Beside(s, op, r) \subseteq {"request", "approve"} \X SUBSET Requests
  BY <1>2 DEF Beside
<1>4. crossed \subseteq {"request", "approve"} \X SUBSET Requests
  BY DEF Inv, Types, TypeOK
<1> QED BY <1>3, <1>4 DEF CrossedOK

LEMMA AssertNoOverlapKeeps ==
  ASSUME Inv, NEW s \in Sessions, NEW r \in Requests, NEW today, AssertNoOverlap(s, r, today)
  PROVE  Inv'
<1> DEFINE c == RequestCall("request", "balance", r, 0)
<1>1. CallOK(s, c)
  BY DEF AssertNoOverlap, CallOK, RequestCall, Call
<1>2. /\ ~Marking(call[s]) /\ Goes(s, c) /\ corrections' \in 0 .. MaxCorrections
      /\ UNCHANGED <<requests, register, rows, overturned, bare>>
  BY DEF AssertNoOverlap, Free, Idle, RequestCall, Call, Marking, Inv, Types, TypeOK
<1>3. CrossedOK'
  BY CrossedGrows DEF AssertNoOverlap
<1> QED BY <1>1, <1>2, <1>3, CallStepKeeps

LEMMA AssertBalanceKeeps ==
  ASSUME Inv, NEW s \in Sessions, AssertBalance(s)
  PROVE  Inv'
<1> DEFINE c == RequestCall(call[s].op, "write", call[s].req, 0)
<1>1. /\ CallOK(s, call[s]) /\ call[s].op \in {"request", "approve"}
      /\ ~Marking(call[s]) /\ corrections' \in 0 .. MaxCorrections /\ CrossedOK'
      /\ UNCHANGED <<requests, register, rows, overturned, bare>>
  BY DEF AssertBalance, At, Marking, history, Inv, Types, TypeOK, CallsOK, CrossedOK
<1>2. CallOK(s, c)
  BY <1>1 DEF CallOK, RequestCall, Call
<1>3. Goes(s, c) \/ Goes(s, Idle)
  BY DEF AssertBalance, Ends
<1> QED BY <1>1, <1>2, <1>3, CallStepKeeps, IdleOK

LEMMA ReadUndecidedKeeps ==
  ASSUME Inv, NEW s \in Sessions, NEW r \in Requests, NEW op \in {"approve", "reject", "cancel"},
         ReadUndecided(s, op, r)
  PROVE  Inv'
<1> DEFINE c == RequestCall(op, IF op = "approve" THEN "balance" ELSE "write", r, 0)
<1>1. CallOK(s, c)
  BY DEF CallOK, RequestCall, Call
<1>2. /\ ~Marking(call[s]) /\ Goes(s, c) /\ corrections' \in 0 .. MaxCorrections
      /\ UNCHANGED <<requests, register, rows, overturned, bare>>
  BY DEF ReadUndecided, Free, Idle, RequestCall, Call, Marking, Inv, Types, TypeOK
<1>3. CrossedOK'
  <2>1. CASE op = "approve"
    BY <2>1, CrossedGrows DEF ReadUndecided
  <2>2. CASE op # "approve"
    BY <2>2 DEF ReadUndecided, CrossedOK, Inv, Types, TypeOK
  <2> QED BY <2>1, <2>2
<1> QED BY <1>1, <1>2, <1>3, CallStepKeeps

LEMMA FindTodayKeeps ==
  ASSUME Inv, NEW s \in Sessions, NEW at \in Punches, FindToday(s, at)
  PROVE  Inv'
<1> DEFINE c == PunchCall("clock in", "write", Day(at), at, register[Day(at)])
<1>1. Day(at) \in Days /\ register \in [Days -> RowType]
  BY PunchDay DEF Inv, Types, TypeOK
<1>2. CallOK(s, c)
  BY <1>1 DEF FindToday, CallOK, PunchCall, Call
<1>3. ~Marking(call[s])
  BY FreeNotMarking DEF FindToday
<1>4. corrections' \in 0 .. MaxCorrections /\ CrossedOK'
  BY DEF FindToday, history, Inv, Types, TypeOK, CrossedOK
<1>5. Goes(s, c) /\ UNCHANGED <<requests, register, rows, overturned, bare>>
  BY DEF FindToday, history
<1> QED BY <1>2, <1>3, <1>4, <1>5, CallStepKeeps

LEMMA FindOpenTodayKeeps ==
  ASSUME Inv, NEW s \in Sessions, NEW at \in Punches, FindOpenToday(s, at)
  PROVE  Inv'
<1> DEFINE row == register[Day(at)]
           c == PunchCall("clock out", "write", Day(at), at, row)
           d == PunchCall("clock out", "yesterday", Day(at) - 1, at, NoRow)
<1>1. Day(at) \in Days /\ Day(at) \in Nat /\ row \in RowType
  BY PunchDay DEF Inv, Types, TypeOK
<1>2. /\ ~Marking(call[s]) /\ corrections' \in 0 .. MaxCorrections /\ CrossedOK' /\ s \in Terminals
      /\ UNCHANGED <<requests, register, rows, overturned, bare>>
  <2>1. ~Marking(call[s])
    BY FreeNotMarking DEF FindOpenToday
  <2>2. corrections' \in 0 .. MaxCorrections /\ CrossedOK'
    BY DEF FindOpenToday, history, Inv, Types, TypeOK, CrossedOK
  <2> QED BY <2>1, <2>2 DEF FindOpenToday, history
<1>3. CASE row # NoRow /\ row.out = NoTime
  <2>1. Goes(s, c) /\ row.in # NoTime /\ row.in <= at
    BY <1>3 DEF FindOpenToday
  <2>2. row \in RealRow /\ IsOpen(row)
    BY <1>1, <1>3, <2>1, RowsAre DEF IsOpen
  <2>3. c = Call("clock out", "write", NoRequest, Day(at), at, row, NoRow)
    BY DEF PunchCall
  <2> HIDE DEF row, c
  <2>4. CallOK(s, c)
    BY <1>1, <1>2, <2>1, <2>2, <2>3 DEF CallOK, Call
  <2> QED BY <1>2, <2>1, <2>4, CallStepKeeps
<1>4. CASE ~(row # NoRow /\ row.out = NoTime)
  <2>1. Goes(s, d)
    BY <1>4 DEF FindOpenToday
  <2>2. CallOK(s, d)
    BY <1>1, <1>2 DEF CallOK, PunchCall, Call
  <2> QED BY <1>2, <2>1, <2>2, CallStepKeeps
<1> QED BY <1>3, <1>4

LEMMA FindOpenYesterdayKeeps ==
  ASSUME Inv, NEW s \in Sessions, FindOpenYesterday(s)
  PROVE  Inv'
<1> DEFINE d == call[s].day
           c == PunchCall("clock out", "write", d, call[s].at, register[d])
<1>1. /\ CallOK(s, call[s]) /\ call[s].op = "clock out"
      /\ ~Marking(call[s]) /\ corrections' \in 0 .. MaxCorrections /\ CrossedOK'
      /\ UNCHANGED <<requests, register, rows, overturned, bare>>
  BY DEF FindOpenYesterday, At, Marking, history, Inv, Types, TypeOK, CallsOK, CrossedOK
<1>2. s \in Terminals /\ call[s].at \in Punches /\ d = Day(call[s].at) - 1
  BY <1>1 DEF CallOK, FindOpenYesterday, At
<1>5. Day(call[s].at) = d + 1
  <2>1. Day(call[s].at) \in Nat
    BY <1>2, PunchDay
  <2> QED BY <1>2, <2>1
<1>3. CASE d \in Days /\ IsOpen(register[d]) /\ register[d].in <= call[s].at
  <2>1. register[d] \in RealRow
    BY <1>3, RowsAre DEF Inv, Types, TypeOK, IsOpen
  <2>2. CallOK(s, c)
    BY <1>2, <1>3, <1>5, <2>1 DEF CallOK, PunchCall, Call
  <2>3. Goes(s, c)
    BY <1>3 DEF FindOpenYesterday
  <2> QED BY <1>1, <2>2, <2>3, CallStepKeeps
<1>4. CASE ~(d \in Days /\ IsOpen(register[d]) /\ register[d].in <= call[s].at)
  <2>1. Goes(s, Idle)
    BY <1>4 DEF FindOpenYesterday, Ends
  <2> QED BY <1>1, <2>1, CallStepKeeps, IdleOK
<1> QED BY <1>3, <1>4

LEMMA OnIsMoment ==
  ASSUME NEW d \in Days, NEW t \in {NoTime} \cup 0 .. DayLength - 1
  PROVE  On(d, t) \in Moment
<1>1. d * DayLength \in Nat
  BY TimesIsNat DEF Days
<1>2. CASE t = NoTime
  BY <1>2 DEF On, Moment
<1>3. CASE t # NoTime
  <2>1. t \in Nat
    BY <1>3
  <2>2. d * DayLength + t \in Nat
    BY <1>1, <2>1
  <2> QED BY <1>3, <2>2 DEF On, Moment
<1> QED BY <1>2, <1>3

LEMMA EnteredIsEntry ==
  ASSUME NEW d \in Days, NEW e \in ManualEntries
  PROVE  Entered(d, e) \in Entry
<1>1. /\ e.in \in {NoTime} \cup 0 .. DayLength - 1
      /\ e.out \in {NoTime} \cup 0 .. DayLength - 1
      /\ e.status \in Statuses \cup {"derived"}
  OBVIOUS
<1>2. On(d, e.in) \in Moment /\ On(d, e.out) \in Moment
  BY <1>1, OnIsMoment
<1>3. DayStatus(d, On(d, e.in), On(d, e.out)) \in Statuses
  BY DEF DayStatus, Statuses
<1> QED BY <1>1, <1>2, <1>3 DEF Entered, Entry, Row, Statuses

LEMMA FindRecordedKeeps ==
  ASSUME Inv, NEW s \in Sessions, NEW d \in Days, NEW e \in ManualEntries, NEW today,
         FindRecorded(s, d, e, today)
  PROVE  Inv'
<1> DEFINE c == RecordCall(d, register[d], Entered(d, e))
<1>1. register[d] \in RowType /\ Entered(d, e) \in Entry
  BY EnteredIsEntry DEF Inv, Types, TypeOK
<1>2. CallOK(s, c)
  BY <1>1 DEF CallOK, RecordCall, Call
<1>3. /\ ~Marking(call[s]) /\ Goes(s, c) /\ corrections' \in 0 .. MaxCorrections /\ CrossedOK'
      /\ UNCHANGED <<requests, register, rows, overturned, bare>>
  BY DEF FindRecorded, Free, Idle, RequestCall, Call, Marking, Inv, Types, TypeOK, CrossedOK
<1> QED BY <1>2, <1>3, CallStepKeeps

(* Calls that write.                                                       *)

LEMMA CreateRequestKeeps ==
  ASSUME Inv, NEW s \in Sessions, CreateRequest(s)
  PROVE  Inv'
<1> DEFINE q == call[s].req
<1>1. /\ call[s].op = "request" /\ CallOK(s, call[s]) /\ Goes(s, Idle) /\ TypeOK /\ CallsOK
      /\ UNCHANGED <<register, rows, corrections, overturned, bare, crossed>>
  BY DEF CreateRequest, At, Ends, history, Inv, Types, CallsOK
<1>2. q \in Requests /\ requests' = [requests EXCEPT ![q] = "pending"]
  BY <1>1 DEF CallOK, CreateRequest
<1>3. requests' \in [Requests -> {"none", "pending", "approved", "rejected", "cancelled"}]
  BY <1>1, <1>2 DEF TypeOK
<1>4. TypeOK'
  BY <1>1, <1>3 DEF TypeOK
<1>5. CallsOK'
  BY <1>1, WentOK, IdleOK
<1>6. Approved' \subseteq Approved
  <2>1. \A r \in Requests : requests'[r] = "approved" => requests[r] = "approved"
    BY <1>1, <1>2 DEF TypeOK
  <2> QED BY <2>1 DEF Approved
<1>7. \A r, d : d \in Ahead(r) => d \in Ahead(r)'
  BY <1>1, AheadStays DEF Marking
<1>8. LeaveOnRegister'
  BY <1>1, <1>6, <1>7, LeaveStays DEF Inv
<1> QED BY <1>4, <1>5, <1>8 DEF Inv, Types

LEMMA WriteVerdictKeeps ==
  ASSUME Inv, NEW s \in Sessions, WriteVerdict(s)
  PROVE  Inv'
<1> DEFINE q == call[s].req
           c == RequestCall("approve", "find", q, Application[q].from)
<1>1. /\ call[s].op \in {"approve", "reject", "cancel"} /\ call[s].step = "write"
      /\ CallOK(s, call[s]) /\ TypeOK /\ CallsOK /\ ~Marking(call[s])
      /\ UNCHANGED <<register, rows, corrections, bare, crossed>>
  BY DEF WriteVerdict, At, Marking, Inv, Types, CallsOK
<1>2. q \in Requests
  BY <1>1 DEF CallOK
<1>3. /\ requests' = [requests EXCEPT ![q] = Verdict(call[s].op)]
      /\ overturned' \in {overturned, overturned \cup {q}}
  BY DEF WriteVerdict
<1>4. Verdict(call[s].op) \in {"approved", "rejected", "cancelled"}
  BY <1>1 DEF Verdict
<1>5. TypeOK'
  <2>1. requests' \in [Requests -> {"none", "pending", "approved", "rejected", "cancelled"}]
    BY <1>1, <1>2, <1>3, <1>4 DEF TypeOK
  <2>2. overturned' \subseteq Requests
    BY <1>1, <1>2, <1>3 DEF TypeOK
  <2> QED BY <1>1, <2>1, <2>2 DEF TypeOK
<1>6. \A r \in Requests : r # q => requests'[r] = requests[r]
  BY <1>1, <1>2, <1>3 DEF TypeOK
<1>7. requests'[q] = Verdict(call[s].op)
  BY <1>1, <1>2, <1>3 DEF TypeOK
<1>8. \A r \in Approved' : r # q => r \in Approved
  BY <1>6 DEF Approved
<1>9. CASE call[s].op = "approve"
  <2>1. Goes(s, c)
    BY <1>9 DEF WriteVerdict
  <2>2. /\ Application[q].from \in Nat /\ Application[q].to \in Nat
        /\ Application[q].from <= Application[q].to
    BY <1>2 DEF Days
  <2>3. CallOK(s, c)
    BY <1>2, <2>2 DEF CallOK, RequestCall, Call
  <2>4. CallsOK'
    BY <1>1, <2>1, <2>3, WentOK
  <2>5. \A r, d : d \in Ahead(r) => d \in Ahead(r)'
    BY <1>1, <2>1, AheadStays
  <2>6. call'[s] = c
    BY <1>1, <2>1, Went
  <2>7. \A r : r = q => Span(r) \subseteq Ahead(r)'
    BY <2>6, AheadWas DEF Span, Marking, RequestCall, Call
  <2>8. \A r \in Approved' : r \in Approved \/ Span(r) \subseteq Ahead(r)'
    BY <1>8, <2>7
  <2>9. LeaveOnRegister'
    BY <1>1, <2>5, <2>8, LeaveStays DEF Inv
  <2> QED BY <1>5, <2>4, <2>9 DEF Inv, Types
<1>10. CASE call[s].op # "approve"
  <2>1. Goes(s, Idle)
    BY <1>10 DEF WriteVerdict, Ends
  <2>2. CallsOK'
    BY <1>1, <2>1, WentOK, IdleOK
  <2>3. \A r, d : d \in Ahead(r) => d \in Ahead(r)'
    BY <1>1, <2>1, AheadStays
  <2>4. q \notin Approved'
    BY <1>1, <1>7, <1>10 DEF Approved, Verdict
  <2>5. LeaveOnRegister'
    BY <1>1, <1>8, <2>3, <2>4, LeaveStays DEF Inv
  <2> QED BY <1>5, <2>2, <2>5 DEF Inv, Types
<1> QED BY <1>9, <1>10

(* markAttendance goes on to the next day when this one has a row, or when *)
(* its row could not be written.                                           *)
LEMMA NextDayKeeps ==
  ASSUME Inv, NEW s \in Sessions, Marking(call[s]), NextDay(s),
         register'[call[s].day] # NoRow \/ call[s].day \in bare',
         UNCHANGED <<requests, corrections, overturned, crossed>>,
         RegisterOK', bare' \subseteq Days,
         \A d \in Days : d \in bare => d \in bare' \/ register'[d] # NoRow,
         \A d \in Days : register[d] # NoRow => register'[d] # NoRow
  PROVE  Inv'
<1> DEFINE q == call[s].req
           c == RequestCall("approve", "find", q, call[s].day + 1)
<1>1. TypeOK /\ CallsOK /\ CallOK(s, call[s]) /\ TypeOK'
  BY DEF Inv, Types, CallsOK, TypeOK, RegisterOK
<1>2. /\ q \in Requests /\ call[s].day \in Application[q].from .. Application[q].to
  BY <1>1 DEF CallOK, Marking
<1>3. Application[q].from \in Nat /\ Application[q].to \in Nat
  BY <1>2 DEF Days
<1>4. call[s].day \in Nat
  BY <1>2, <1>3
<1>5. Approved' = Approved
  BY DEF Approved
<1>6. CASE call[s].day < Application[q].to
  <2>1. Goes(s, c)
    BY <1>6 DEF NextDay
  <2>2. CallOK(s, c)
    BY <1>2, <1>3, <1>4, <1>6 DEF CallOK, RequestCall, Call
  <2>3. CallsOK'
    BY <1>1, <2>1, <2>2, WentOK
  <2>4. call'[s] = c
    BY <1>1, <2>1, Went
  <2>5. \A r : q = r => \A d \in call[s].day .. Application[r].to :
                          d = call[s].day \/ d \in Ahead(r)'
    <3>1. \A d \in call[s].day .. Application[q].to :
            d = call[s].day \/ d \in call[s].day + 1 .. Application[q].to
      BY <1>3, <1>4
    <3> QED BY <3>1, <2>4, AheadWas DEF Marking, RequestCall, Call
  <2>6. ASSUME NEW r, NEW d, d \in Ahead(r)
        PROVE  d \in Ahead(r)' \/ d \in bare' \/ register'[d] # NoRow
    <3>1. \/ d \in Ahead(r)'
          \/ call[s].req = r /\ d \in call[s].day .. Application[r].to
      BY <1>1, <2>1, <2>6, AheadStays
    <3>2. CASE call[s].req = r /\ d \in call[s].day .. Application[r].to
      BY <2>5, <3>2
    <3> QED BY <3>1, <3>2
  <2>7. LeaveOnRegister'
    BY <1>5, <2>6, LeaveStays DEF Inv
  <2> QED BY <1>1, <2>3, <2>7 DEF Inv, Types
<1>7. CASE ~(call[s].day < Application[q].to)
  <2>1. Goes(s, Idle)
    BY <1>7 DEF NextDay, Ends
  <2>2. CallsOK'
    BY <1>1, <2>1, WentOK, IdleOK
  <2>3. \A d \in call[s].day .. Application[q].to : d = call[s].day
    BY <1>3, <1>4, <1>7
  <2>4. \A r, d : d \in Ahead(r) => d \in Ahead(r)' \/ d \in bare' \/ register'[d] # NoRow
    BY <1>1, <2>1, <2>3, AheadStays
  <2>5. LeaveOnRegister'
    BY <1>5, <2>4, LeaveStays DEF Inv
  <2> QED BY <1>1, <2>2, <2>5 DEF Inv, Types
<1> QED BY <1>6, <1>7

LEMMA MarkingDay ==
  ASSUME Inv, NEW s \in Sessions, Marking(call[s])
  PROVE  /\ call[s].req \in Requests /\ call[s].day \in Days
         /\ call[s].day \in Application[call[s].req].from .. Application[call[s].req].to
<1>1. CallOK(s, call[s])
  BY DEF Inv, Types, CallsOK
<1>2. /\ call[s].req \in Requests
      /\ call[s].day \in Application[call[s].req].from .. Application[call[s].req].to
  BY <1>1 DEF CallOK, Marking
<1>3. /\ Application[call[s].req].from \in 0 .. MaxDay
      /\ Application[call[s].req].to \in 0 .. MaxDay
  BY <1>2 DEF Days
<1> QED BY <1>2, <1>3 DEF Days

LEMMA FindDayKeeps ==
  ASSUME Inv, NEW s \in Sessions, FindDay(s)
  PROVE  Inv'
<1> DEFINE c == RequestCall("approve", "mark", call[s].req, call[s].day)
<1>1. /\ Marking(call[s]) /\ TypeOK /\ CallsOK
      /\ UNCHANGED <<requests, register, rows, corrections, overturned, bare, crossed>>
  BY DEF FindDay, At, Marking, history, Inv, Types
<1>2. /\ call[s].req \in Requests /\ call[s].day \in Days
      /\ call[s].day \in Application[call[s].req].from .. Application[call[s].req].to
  BY <1>1, MarkingDay
<1>3. CASE register[call[s].day] = NoRow
  <2>1. Goes(s, c)
    BY <1>3 DEF FindDay
  <2>2. CallOK(s, c)
    BY <1>2 DEF CallOK, RequestCall, Call
  <2>3. CallsOK' /\ call'[s] = c
    BY <1>1, <2>1, <2>2, WentOK, Went
  <2>4. TypeOK'
    BY <1>1 DEF TypeOK
  <2>5. \A r : call[s].req = r => \A d \in call[s].day .. Application[r].to : d \in Ahead(r)'
    BY <2>3, AheadWas DEF Marking, RequestCall, Call
  <2>6. ASSUME NEW r, NEW d, d \in Ahead(r)
        PROVE  d \in Ahead(r)'
    <3>1. \/ d \in Ahead(r)'
          \/ call[s].req = r /\ d \in call[s].day .. Application[r].to
      BY <1>1, <2>1, <2>6, AheadStays
    <3>2. CASE call[s].req = r /\ d \in call[s].day .. Application[r].to
      BY <2>5, <3>2
    <3> QED BY <3>1, <3>2
  <2>7. Approved' = Approved
    BY <1>1 DEF Approved
  <2>8. LeaveOnRegister'
    BY <1>1, <2>6, <2>7, LeaveStays DEF Inv
  <2> QED BY <2>3, <2>4, <2>8 DEF Inv, Types
<1>4. CASE register[call[s].day] # NoRow
  <2>1. NextDay(s)
    BY <1>4 DEF FindDay
  <2>2. RegisterOK' /\ bare' \subseteq Days
    BY <1>1 DEF TypeOK, RegisterOK
  <2> QED BY <1>1, <1>4, <2>1, <2>2, NextDayKeeps
<1> QED BY <1>3, <1>4

LEMMA MarkDayKeeps ==
  ASSUME Inv, NEW s \in Sessions, MarkDay(s)
  PROVE  Inv'
<1> DEFINE d == call[s].day
<1>1. /\ Marking(call[s]) /\ TypeOK /\ NextDay(s)
      /\ UNCHANGED <<requests, corrections, overturned, crossed>>
  BY DEF MarkDay, At, Marking, Inv, Types
<1>2. d \in Days
  BY <1>1, MarkingDay
<1>3. CASE register[d] = NoRow
  <2>1. MakeRow(d, NoTime, NoTime, "on_leave", "system")
    BY <1>3 DEF MarkDay
  <2>2. NoTime \in Moment /\ "on_leave" \in Statuses /\ "system" \in Sources
    BY DEF Moment, Statuses, Sources
  <2>3. /\ RegisterOK' /\ bare' = bare \ {d} /\ register'[d] # NoRow
        /\ \A x \in Days : x # d => register'[x] = register[x]
    BY <1>1, <1>2, <2>1, <2>2, MadeRow
  <2>4. bare' \subseteq Days
    BY <1>1, <2>3 DEF TypeOK
  <2> QED BY <1>1, <2>3, <2>4, NextDayKeeps
<1>4. CASE register[d] # NoRow
  <2>1. UNCHANGED <<register, rows, bare>>
    BY <1>4 DEF MarkDay
  <2>2. RegisterOK' /\ bare' \subseteq Days
    BY <1>1, <2>1 DEF TypeOK, RegisterOK
  <2> QED BY <1>1, <1>4, <2>1, <2>2, NextDayKeeps
<1> QED BY <1>3, <1>4

LEMMA MarkFailsKeeps ==
  ASSUME Inv, NEW s \in Sessions, MarkFails(s)
  PROVE  Inv'
<1>1. /\ Marking(call[s]) /\ TypeOK /\ NextDay(s) /\ bare' = bare \cup {call[s].day}
      /\ UNCHANGED <<requests, register, rows, corrections, overturned, crossed>>
  BY DEF MarkFails, At, Marking, Inv, Types
<1>2. call[s].day \in Days
  BY <1>1, MarkingDay
<1>3. RegisterOK' /\ bare' \subseteq Days
  BY <1>1, <1>2 DEF TypeOK, RegisterOK
<1> QED BY <1>1, <1>3, NextDayKeeps

LEMMA InterruptKeeps ==
  ASSUME Inv, NEW s \in Sessions, Interrupt(s)
  PROVE  Inv'
<1> DEFINE q == call[s].req
           left == {d \in call[s].day .. Application[q].to : register[d] = NoRow}
<1>1. /\ Marking(call[s]) /\ TypeOK /\ CallsOK /\ Goes(s, Idle)
      /\ UNCHANGED <<requests, register, rows, corrections, overturned, crossed>>
  BY DEF Interrupt, At, Marking, Ends, Inv, Types
<1>2. bare' = bare \cup left
  BY DEF Interrupt
<1>3. q \in Requests /\ call[s].day \in Days
  BY <1>1, MarkingDay
<1>4. left \subseteq Days
  <2>1. Application[q].to \in 0 .. MaxDay /\ call[s].day \in 0 .. MaxDay
    BY <1>3 DEF Days
  <2> QED BY <2>1 DEF Days
<1> HIDE DEF left
<1>5. TypeOK'
  BY <1>1, <1>2, <1>4 DEF TypeOK
<1>6. CallsOK'
  BY <1>1, WentOK, IdleOK
<1>7. Approved' = Approved
  BY <1>1 DEF Approved
<1>8. \A d \in call[s].day .. Application[q].to : d \in left \/ register[d] # NoRow
  BY DEF left
<1>9. \A r, d : d \in Ahead(r) => d \in Ahead(r)' \/ d \in bare' \/ register'[d] # NoRow
  BY <1>1, <1>2, <1>8, AheadStays
<1>10. LeaveOnRegister'
  BY <1>1, <1>2, <1>7, <1>9, LeaveStays DEF Inv
<1> QED BY <1>5, <1>6, <1>10 DEF Inv, Types

(* A step that makes or rewrites one row, and takes none away.             *)
RowStep(d) ==
  /\ RegisterOK'
  /\ bare' \subseteq Days
  /\ \A x \in Days : x \in bare => x \in bare' \/ register'[x] # NoRow
  /\ \A x \in Days : x # d => register'[x] = register[x]
  /\ register'[d] = register[d] \/ register'[d] # NoRow

LEMMA RowStepKeeps ==
  ASSUME Inv, NEW s \in Sessions, NEW d, ~Marking(call[s]), Goes(s, Idle), RowStep(d),
         UNCHANGED <<requests, corrections, overturned, crossed>>
  PROVE  Inv'
<1>1. CallsOK /\ CallsOK'
  BY WentOK, IdleOK DEF Inv, Types
<1>2. TypeOK'
  BY DEF Inv, Types, TypeOK, RowStep, RegisterOK
<1>3. Approved' = Approved
  BY DEF Approved
<1>4. \A r, x : x \in Ahead(r) => x \in Ahead(r)'
  BY <1>1, AheadStays
<1>5. \A x \in Days : register[x] # NoRow => register'[x] # NoRow
  BY DEF RowStep
<1>6. \A x \in Days : x \in bare => x \in bare' \/ register'[x] # NoRow
  BY DEF RowStep
<1>7. LeaveOnRegister'
  BY <1>3, <1>4, <1>5, <1>6, LeaveStays DEF Inv
<1> QED BY <1>1, <1>2, <1>7 DEF Inv, Types

LEMMA MadeRowStep ==
  ASSUME TypeOK, NEW d \in Days, NEW in \in Moment, NEW out \in Moment,
         NEW status \in Statuses, NEW source \in Sources, MakeRow(d, in, out, status, source)
  PROVE  RowStep(d) /\ register'[d].in = in /\ register'[d].out = out /\ register'[d].source = source
<1>1. /\ RegisterOK' /\ bare' = bare \ {d}
      /\ \A x \in Days : x # d => register'[x] = register[x]
      /\ register'[d] # NoRow
      /\ register'[d].in = in /\ register'[d].out = out /\ register'[d].source = source
  BY MadeRow
<1>2. bare \subseteq Days
  BY DEF TypeOK
<1> QED BY <1>1, <1>2 DEF RowStep

LEMMA RewroteStep ==
  ASSUME TypeOK, NEW d \in Days, NEW seen \in RealRow, NEW in \in Moment, NEW out \in Moment,
         NEW status \in Statuses, NEW source \in Sources,
         Rewrite(d, seen, in, out, status, source), UNCHANGED <<rows, bare>>
  PROVE  /\ RowStep(d)
         /\ register'[d] = register[d] \/
              /\ register'[d].in = in /\ register'[d].out = out /\ register'[d].source = source
<1>1. /\ RegisterOK'
      /\ \A x \in Days : x # d => register'[x] = register[x]
      /\ register'[d] = register[d] \/
           /\ register[d] # NoRow /\ register'[d] # NoRow
           /\ register'[d].in = in /\ register'[d].out = out /\ register'[d].source = source
  BY Rewrote
<1>2. bare \subseteq Days
  BY DEF TypeOK
<1> QED BY <1>1, <1>2 DEF RowStep

LEMMA SameRowStep ==
  ASSUME TypeOK, UNCHANGED <<register, rows, bare>>, NEW d
  PROVE  RowStep(d)
BY DEF TypeOK, RowStep, RegisterOK

LEMMA PunchedRow ==
  ASSUME TypeOK, NEW d \in Days, NEW in \in Moment, NEW status \in Statuses
  PROVE  /\ \A seen \in RealRow :
              Rewrite(d, seen, in, NoTime, status, "clock") /\ UNCHANGED <<rows, bare>> =>
                RowStep(d) /\ (register'[d] = register[d] \/ register'[d].out = NoTime)
         /\ MakeRow(d, in, NoTime, status, "clock") => RowStep(d) /\ register'[d].out = NoTime
<1>1. NoTime \in Moment /\ "clock" \in Sources
  BY DEF Moment, Sources
<1>2. ASSUME NEW seen \in RealRow, Rewrite(d, seen, in, NoTime, status, "clock"),
             UNCHANGED <<rows, bare>>
      PROVE  RowStep(d) /\ (register'[d] = register[d] \/ register'[d].out = NoTime)
  BY <1>1, <1>2, RewroteStep
<1>3. MakeRow(d, in, NoTime, status, "clock") => RowStep(d) /\ register'[d].out = NoTime
  BY <1>1, MadeRowStep
<1> QED BY <1>2, <1>3

LEMMA EndedRow ==
  ASSUME TypeOK, NEW d \in Days, NEW seen \in RealRow, NEW at \in Moment, NEW status \in Statuses,
         Rewrite(d, seen, seen.in, at, status, seen.source), UNCHANGED <<rows, bare>>
  PROVE  /\ RowStep(d)
         /\ \/ register'[d] = register[d]
            \/ register'[d].in = seen.in /\ register'[d].out = at
<1>1. seen.in \in Moment /\ seen.source \in Sources
  BY DEF RealRow
<1> DEFINE in == seen.in
           source == seen.source
<1>2. Rewrite(d, seen, in, at, status, source) /\ in \in Moment /\ source \in Sources
  BY <1>1
<1> HIDE DEF in, source
<1>3. /\ RowStep(d)
      /\ register'[d] = register[d] \/
           /\ register'[d].in = in /\ register'[d].out = at /\ register'[d].source = source
  BY <1>2, RewroteStep
<1> QED BY <1>3 DEF in

LEMMA ClockInIs ==
  ASSUME Inv, NEW s \in Sessions, ClockIn(s)
  PROVE  LET d == call[s].day IN
         /\ d \in Days /\ s \in Terminals /\ RowStep(d)
         /\ \/ register'[d] = register[d]
            \/ /\ register'[d].out = NoTime
               /\ register[d] = NoRow \/ (call[s].seen # NoRow /\ call[s].seen.in = NoTime)
<1> DEFINE d == call[s].day
           seen == call[s].seen
           at == call[s].at
           opened == Opened(at)
<1>1. TypeOK /\ CallOK(s, call[s]) /\ call[s].op = "clock in"
  BY DEF ClockIn, At, Inv, Types, CallsOK
<1>2. /\ d \in Days /\ s \in Terminals /\ seen \in RowType /\ seen.in = NoTime /\ at \in Punches
  BY <1>1 DEF CallOK
<1>3. at \in Moment /\ NoTime \in Moment /\ opened \in Statuses /\ "clock" \in Sources
  BY <1>2, PunchDay DEF Moment, Opened, Statuses, Sources
<1> HIDE DEF opened
<1>4. CASE seen # NoRow
  <2>1. Rewrite(d, seen, at, NoTime, opened, "clock") /\ UNCHANGED <<rows, bare>>
    BY <1>4 DEF ClockIn, opened
  <2>2. seen \in RealRow
    BY <1>2, <1>4, RowsAre
  <2>3. RowStep(d) /\ (register'[d] = register[d] \/ register'[d].out = NoTime)
    BY <1>1, <1>2, <1>3, <2>1, <2>2, PunchedRow
  <2> QED BY <1>2, <1>4, <2>3
<1>5. CASE seen = NoRow /\ register[d] = NoRow
  <2>1. MakeRow(d, at, NoTime, opened, "clock")
    BY <1>5 DEF ClockIn, opened
  <2>2. RowStep(d) /\ register'[d].out = NoTime
    BY <1>1, <1>2, <1>3, <2>1, PunchedRow
  <2> QED BY <1>2, <1>5, <2>2
<1>6. CASE seen = NoRow /\ register[d] # NoRow
  <2>1. UNCHANGED <<register, rows, bare>>
    BY <1>6 DEF ClockIn
  <2> QED BY <1>1, <1>2, <2>1, SameRowStep
<1> QED BY <1>4, <1>5, <1>6

LEMMA ClockOutIs ==
  ASSUME Inv, NEW s \in Sessions, ClockOut(s)
  PROVE  LET d == call[s].day IN
         /\ d \in Days /\ s \in Terminals /\ RowStep(d)
         /\ call[s].seen # NoRow /\ IsOpen(call[s].seen)
         /\ \/ register'[d] = register[d]
            \/ /\ register'[d].in = call[s].seen.in /\ register'[d].out = call[s].at
               /\ call[s].seen.id = register[d].id
<1> DEFINE d == call[s].day
           seen == call[s].seen
           at == call[s].at
           status == DayStatus(d, seen.in, at)
<1>1. TypeOK /\ CallOK(s, call[s]) /\ call[s].op = "clock out" /\ call[s].step = "write"
  BY DEF ClockOut, At, Inv, Types, CallsOK
<1>2. d \in Days /\ s \in Terminals /\ seen \in RealRow /\ IsOpen(seen) /\ at \in Punches
  BY <1>1 DEF CallOK
<1>3. at \in Moment /\ seen.in \in Moment /\ seen.source \in Sources
  BY <1>2, PunchDay DEF Moment, RealRow
<1>4. status \in Statuses
  BY DEF DayStatus, Statuses
<1>5. Rewrite(d, seen, seen.in, at, status, seen.source) /\ UNCHANGED <<rows, bare>>
  BY DEF ClockOut, history
<1> HIDE DEF status
<1> HIDE DEF d, seen, at
<1>6. /\ RowStep(d)
      /\ \/ register'[d] = register[d]
         \/ register'[d].in = seen.in /\ register'[d].out = at
  BY <1>1, <1>2, <1>3, <1>4, <1>5, EndedRow
<1>7. register'[d] = register[d] \/ seen.id = register[d].id
  BY <1>5 DEF Rewrite
<1> QED BY <1>2, <1>6, <1>7, RowsAre DEF d, seen, at

LEMMA RecordIs ==
  ASSUME Inv, NEW s \in Sessions, Record(s)
  PROVE  LET d == call[s].day IN
         /\ d \in Days /\ RowStep(d)
         /\ register'[d] = register[d] \/ register'[d].source = "manual"
<1> DEFINE d == call[s].day
           seen == call[s].seen
           e == call[s].entry
<1>1. TypeOK /\ CallOK(s, call[s]) /\ call[s].op = "record"
  BY DEF Record, At, Inv, Types, CallsOK
<1>2. d \in Days /\ seen \in RowType /\ e \in Entry
  BY <1>1 DEF CallOK
<1>3. /\ e.in \in Moment /\ e.out \in Moment /\ e.status \in Statuses
      /\ e.source = "manual" /\ e.source \in Sources
  BY <1>2 DEF Entry, Sources
<1>4. CASE seen # NoRow
  <2>1. Rewrite(d, seen, e.in, e.out, e.status, e.source) /\ UNCHANGED <<rows, bare>>
    BY <1>4 DEF Record
  <2>2. seen \in RealRow
    BY <1>2, <1>4, RowsAre
  <2>3. RowStep(d) /\ (register'[d] = register[d] \/ register'[d].source = e.source)
    BY <1>1, <1>2, <1>3, <2>1, <2>2, RewroteStep
  <2> QED BY <1>2, <1>3, <2>3
<1>5. CASE seen = NoRow /\ register[d] = NoRow
  <2>1. MakeRow(d, e.in, e.out, e.status, e.source)
    BY <1>5 DEF Record
  <2>2. RowStep(d) /\ register'[d].source = e.source
    BY <1>1, <1>2, <1>3, <2>1, MadeRowStep
  <2> QED BY <1>2, <1>3, <2>2
<1>6. CASE seen = NoRow /\ register[d] # NoRow
  <2>1. UNCHANGED <<register, rows, bare>>
    BY <1>6 DEF Record
  <2> QED BY <1>1, <1>2, <2>1, SameRowStep
<1> QED BY <1>4, <1>5, <1>6

LEMMA RowWritesKeep ==
  ASSUME Inv, NEW s \in Sessions, ClockIn(s) \/ ClockOut(s) \/ Record(s)
  PROVE  Inv'
<1>1. ~Marking(call[s]) /\ Goes(s, Idle) /\ UNCHANGED <<requests, corrections, overturned, crossed>>
  BY DEF ClockIn, ClockOut, Record, At, Marking, Ends, history
<1>2. RowStep(call[s].day)
  BY ClockInIs, ClockOutIs, RecordIs
<1> QED BY <1>1, <1>2, RowStepKeeps

LEMMA DeleteKeeps ==
  ASSUME Inv, NEW s \in Sessions, NEW d \in Days, Delete(s, d)
  PROVE  Inv'
<1>1. TypeOK /\ CallsOK /\ call' = call
  BY DEF Delete, Inv, Types
<1>2. /\ register' = [register EXCEPT ![d] = NoRow] /\ bare' = bare \cup {d}
      /\ UNCHANGED <<requests, rows, overturned, crossed>> /\ corrections' \in 0 .. MaxCorrections
  BY <1>1 DEF Delete, TypeOK
<1>3. register \in [Days -> RowType] /\ rows \in [Days -> Nat]
  BY <1>1 DEF TypeOK
<1>4. register'[d] = NoRow /\ \A x \in Days : x # d => register'[x] = register[x]
  BY <1>2, <1>3
<1>5. register' \in [Days -> RowType]
  BY <1>2, <1>3, RowsAre
<1>6. \A x \in Days : register'[x].id \in {0, rows'[x]}
  BY <1>1, <1>2, <1>4, RowsAre DEF TypeOK
<1>7. TypeOK'
  BY <1>1, <1>2, <1>5, <1>6 DEF TypeOK
<1>8. CallsOK'
  BY <1>1 DEF CallsOK
<1>9. Approved' = Approved /\ \A r, x : x \in Ahead(r) => x \in Ahead(r)'
  BY <1>1, <1>2, AheadIs, AheadWas DEF Approved
<1>10. LeaveOnRegister'
  BY <1>2, <1>4, <1>9, LeaveStays DEF Inv
<1> QED BY <1>7, <1>8, <1>10 DEF Inv, Types

LEMMA StepKeeps == Inv /\ [Next]_vars => Inv'
<1> SUFFICES ASSUME Inv, [Next]_vars
             PROVE  Inv'
  OBVIOUS
<1>1. CASE UNCHANGED vars
  <2>1. UNCHANGED <<requests, register, rows, call, corrections, overturned, bare, crossed>>
    BY <1>1 DEF vars
  <2>2. Types'
    BY <2>1 DEF Inv, Types, TypeOK, CallsOK
  <2>3. LeaveOnRegister'
    BY <2>1 DEF Inv, LeaveOnRegister, Approved, Ahead
  <2> QED BY <2>2, <2>3 DEF Inv
<1>2. ASSUME NEW s \in Sessions, Proceed(s)
      PROVE  Inv'
  BY <1>2, AssertBalanceKeeps, CreateRequestKeeps, WriteVerdictKeeps, FindDayKeeps, MarkDayKeeps,
     FindOpenYesterdayKeeps, RowWritesKeep DEF Proceed
<1>3. ASSUME NEW s \in Sessions,
             \/ \E r \in Requests, today \in Days : AssertNoOverlap(s, r, today)
             \/ \E r \in Requests, op \in {"approve", "reject", "cancel"} : ReadUndecided(s, op, r)
             \/ \E at \in Punches : FindToday(s, at)
             \/ \E at \in Punches : FindOpenToday(s, at)
             \/ \E d \in Days, e \in ManualEntries, today \in Days : FindRecorded(s, d, e, today)
             \/ \E d \in Days : Delete(s, d)
             \/ MarkFails(s)
             \/ Interrupt(s)
      PROVE  Inv'
  BY <1>3, AssertNoOverlapKeeps, ReadUndecidedKeeps, FindTodayKeeps, FindOpenTodayKeeps,
     FindRecordedKeeps, DeleteKeeps, MarkFailsKeeps, InterruptKeeps
<1> QED BY <1>1, <1>2, <1>3 DEF Next

LEMMA InitHolds == Init => Inv
<1> SUFFICES ASSUME Init PROVE Inv
  OBVIOUS
<1>1. \A s \in Sessions : call[s] = Idle
  BY DEF Init
<1>2. CallsOK
  BY <1>1, IdleOK DEF Init, CallsOK
<1>3. register \in [Days -> RowType] /\ \A d \in Days : register[d].id = 0
  BY RowsAre DEF Init
<1>4. corrections \in 0 .. MaxCorrections
  BY DEF Init
<1>5. TypeOK
  BY <1>3, <1>4 DEF Init, TypeOK
<1>6. LeaveOnRegister
  BY DEF Init, LeaveOnRegister, Approved
<1> QED BY <1>2, <1>5, <1>6 DEF Inv, Types

LEMMA Always == Spec => []Inv
BY InitHolds, StepKeeps, PTL DEF Spec

-------------------------------------------------------------------------------
(* What follows *)

(* However the calls of any number of sessions interleave and break off,   *)
(* requests and register are what they should be.                          *)
THEOREM TypeCorrect == Spec => []TypeOK
BY Always, PTL DEF Inv, Types

(* markAttendance: every day of granted leave has a row, unless somebody   *)
(* deleted it, the write of that very day failed or the approval was cut   *)
(* short.                                                                  *)
THEOREM LeaveIsMarked == Spec => []LeaveOnRegister
BY Always, PTL DEF Inv

(* Which steps touch the register.                                         *)
LEMMA Untouched ==
  ASSUME [Next]_vars
  PROVE  \/ register' = register
         \/ \E s \in Sessions : \/ MarkDay(s) \/ ClockIn(s) \/ ClockOut(s) \/ Record(s)
                              \/ \E d \in Days : Delete(s, d)
BY DEF Next, Proceed, vars, history, AssertBalance, CreateRequest, WriteVerdict, FindDay,
       FindOpenYesterday, AssertNoOverlap, ReadUndecided, FindToday, FindOpenToday, FindRecorded,
       MarkFails, Interrupt

(* An approval marks only days that have no row.                           *)
LEMMA MarkDayIs ==
  ASSUME Inv, NEW s \in Sessions, MarkDay(s), NEW d \in Days
  PROVE  register'[d] = register[d] \/ register[d] = NoRow
<1>1. register \in [Days -> RowType]
  BY DEF Inv, Types, TypeOK
<1>2. \/ UNCHANGED register
      \/ /\ register[call[s].day] = NoRow
         /\ \E row : register' = [register EXCEPT ![call[s].day] = row]
  BY DEF MarkDay, MakeRow
<1> QED BY <1>1, <1>2

LEMMA DeleteIs ==
  ASSUME Inv, NEW s \in Sessions, NEW x \in Days, Delete(s, x), NEW d \in Days
  PROVE  register'[d] = register[d] \/ register'[d] = NoRow
BY DEF Delete, Inv, Types, TypeOK

(* markAttendance, ClockIn: an arrival on the register is replaced only by *)
(* a supervisor, or by a punch that goes by an older reading of the row.   *)
THEOREM ArrivalsStand == Spec => ArrivalStands
<1> DEFINE A == \A d \in Days :
                  register[d].in # NoTime /\ register'[d].in # register[d].in =>
                    \/ register'[d].source = "manual"
                    \/ register'[d] = NoRow
                    \/ \E s \in Terminals :
                         call[s].day = d /\ call[s].seen \notin {NoRow, register[d]}
<1>1. Inv /\ [Next]_vars => A
  <2> SUFFICES ASSUME Inv, [Next]_vars, NEW d \in Days,
                      register[d].in # NoTime, register'[d].in # register[d].in
               PROVE  \/ register'[d].source = "manual"
                      \/ register'[d] = NoRow
                      \/ \E s \in Terminals :
                           call[s].day = d /\ call[s].seen \notin {NoRow, register[d]}
    OBVIOUS
  <2>1. register[d] # NoRow /\ register'[d] # register[d]
    BY RowsAre
  <2>2. PICK s \in Sessions : \/ MarkDay(s) \/ ClockIn(s) \/ ClockOut(s) \/ Record(s)
                             \/ \E x \in Days : Delete(s, x)
    BY <2>1, Untouched
  <2>3. CASE MarkDay(s)
    BY <2>1, <2>3, MarkDayIs
  <2>4. CASE ClockIn(s)
    <3>1. call[s].day = d
      BY <2>1, <2>4, ClockInIs DEF RowStep
    <3>2. s \in Terminals /\ call[s].seen # NoRow /\ call[s].seen.in = NoTime
      BY <2>1, <2>4, <3>1, ClockInIs
    <3> QED BY <3>1, <3>2
  <2>5. CASE ClockOut(s)
    <3>1. call[s].day = d
      BY <2>1, <2>5, ClockOutIs DEF RowStep
    <3>2. s \in Terminals /\ call[s].seen # NoRow /\ register'[d].in = call[s].seen.in
      BY <2>1, <2>5, <3>1, ClockOutIs
    <3> QED BY <3>1, <3>2
  <2>6. CASE Record(s)
    BY <2>1, <2>6, RecordIs DEF RowStep
  <2>7. CASE \E x \in Days : Delete(s, x)
    BY <2>1, <2>7, DeleteIs
  <2> QED BY <2>2, <2>3, <2>4, <2>5, <2>6, <2>7
<1>2. Inv /\ [Next]_vars => [A]_vars
  BY <1>1
<1>3. Spec => [][A]_vars
  BY <1>2, Always, PTL DEF Spec
<1> QED BY <1>3 DEF ArrivalStands

(* findOpenDay, ClockOut: a day gets its end by hand, or from a punch of   *)
(* its date or the next, not before the arrival, that read this row open.  *)
THEOREM ClosedByItsPunch == Spec => ClosesOpenDay
<1> DEFINE Closes(d) ==
             \E s \in Sessions :
               LET c == call[s] IN
               /\ c.day = d
               /\ \/ At(s, "record", "write")
                  \/ /\ s \in Terminals /\ At(s, "clock out", "write")
                     /\ IsOpen(c.seen) /\ c.seen.id = register[d].id
                     /\ Day(c.at) \in {d, d + 1} /\ c.seen.in <= c.at
                     /\ register'[d].out = c.at
           A == \A d \in Days : register'[d].out \notin {NoTime, register[d].out} => Closes(d)
<1>1. Inv /\ [Next]_vars => A
  <2> SUFFICES ASSUME Inv, [Next]_vars, NEW d \in Days,
                      register'[d].out \notin {NoTime, register[d].out}
               PROVE  Closes(d)
    OBVIOUS
  <2>1. register'[d] # register[d] /\ register'[d] # NoRow /\ register'[d].out # NoTime
    BY RowsAre
  <2>2. PICK s \in Sessions : \/ MarkDay(s) \/ ClockIn(s) \/ ClockOut(s) \/ Record(s)
                             \/ \E x \in Days : Delete(s, x)
    BY <2>1, Untouched
  <2>3. CASE MarkDay(s)
    <3>1. \/ UNCHANGED register
          \/ \E id : register' = [register EXCEPT ![call[s].day] =
                                     Row(id, NoTime, NoTime, "on_leave", "system")]
      BY <2>3 DEF MarkDay, MakeRow
    <3>2. register \in [Days -> RowType]
      BY DEF Inv, Types, TypeOK
    <3>3. \A id : Row(id, NoTime, NoTime, "on_leave", "system").out = NoTime
      BY DEF Row
    <3>4. \/ register'[d] = register[d]
          \/ \E id : register'[d] = Row(id, NoTime, NoTime, "on_leave", "system")
      BY <3>1, <3>2
    <3> QED BY <2>1, <3>3, <3>4
  <2>4. CASE ClockIn(s)
    BY <2>1, <2>4, ClockInIs DEF RowStep
  <2>5. CASE ClockOut(s)
    <3>1. call[s].day = d
      BY <2>1, <2>5, ClockOutIs DEF RowStep
    <3>2. /\ s \in Terminals /\ IsOpen(call[s].seen)
          /\ call[s].seen.id = register[d].id /\ register'[d].out = call[s].at
      BY <2>1, <2>5, <3>1, ClockOutIs
    <3>3. At(s, "clock out", "write")
      BY <2>5 DEF ClockOut
    <3>4. Day(call[s].at) \in {d, d + 1} /\ call[s].seen.in <= call[s].at
      BY <3>1, <3>3 DEF Inv, Types, CallsOK, CallOK, At
    <3> QED BY <3>1, <3>2, <3>3, <3>4
  <2>6. CASE Record(s)
    <3>1. call[s].day = d
      BY <2>1, <2>6, RecordIs DEF RowStep
    <3> QED BY <2>6, <3>1 DEF Record
  <2>7. CASE \E x \in Days : Delete(s, x)
    BY <2>1, <2>7, DeleteIs
  <2> QED BY <2>2, <2>3, <2>4, <2>5, <2>6, <2>7
<1>2. Inv /\ [Next]_vars => [A]_vars
  BY <1>1
<1>3. Spec => [][A]_vars
  BY <1>2, Always, PTL DEF Spec
<1> QED BY <1>3 DEF ClosesOpenDay

-------------------------------------------------------------------------------
(* Who is late *)

\* A row that a punch opened says whether that punch was late.
Told(row) == row.source = "clock" /\ IsOpen(row) => row.status = Opened(row.in)

LEMMA ToldIs ==
  /\ Told(NoRow)
  /\ \A id, in : Told(Row(id, in, NoTime, Opened(in), "clock"))
  /\ \A id, in, out, status, source :
       out # NoTime \/ source # "clock" => Told(Row(id, in, out, status, source))
BY DEF Told, IsOpen, NoRow, Row

LEMMA WrittenIsTold ==
  ASSUME TypeOK, NEW d \in Days, NEW row, Told(row),
         register' = [register EXCEPT ![d] = row], NEW x \in Days, Told(register[x])
  PROVE  Told(register'[x])
BY DEF TypeOK

LEMMA StepTold ==
  ASSUME Inv, [Next]_vars, NEW x \in Days, Told(register[x])
  PROVE  Told(register'[x])
<1>1. CASE register' = register
  BY <1>1
<1>2. TypeOK /\ \A s \in Sessions : CallOK(s, call[s])
  BY DEF Inv, Types, CallsOK
<1>3. ASSUME NEW s \in Sessions, MarkDay(s)
      PROVE  Told(register'[x])
  <2> DEFINE d == call[s].day
             row == Row(rows[d] + 1, NoTime, NoTime, "on_leave", "system")
  <2>1. register' = register \/ register' = [register EXCEPT ![d] = row]
    BY <1>3 DEF MarkDay, MakeRow
  <2>2. Told(row)
    BY ToldIs
  <2>3. d \in Days
    BY <1>3, MarkingDay DEF MarkDay, Marking, At
  <2> HIDE DEF row
  <2> QED BY <1>2, <2>1, <2>2, <2>3, WrittenIsTold
<1>4. ASSUME NEW s \in Sessions, ClockIn(s)
      PROVE  Told(register'[x])
  <2> DEFINE d == call[s].day
             row(id) == Row(id, call[s].at, NoTime, Opened(call[s].at), "clock")
  <2>1. register' = register \/ \E id : register' = [register EXCEPT ![d] = row(id)]
    BY <1>4 DEF ClockIn, MakeRow, Rewrite
  <2>2. \A id : Told(row(id))
    BY ToldIs
  <2>3. d \in Days
    BY <1>2, <1>4 DEF CallOK, ClockIn, At
  <2> HIDE DEF row
  <2> QED BY <1>2, <2>1, <2>2, <2>3, WrittenIsTold
<1>5. ASSUME NEW s \in Sessions, ClockOut(s)
      PROVE  Told(register'[x])
  <2> DEFINE d == call[s].day
             seen == call[s].seen
             row == Row(seen.id, seen.in, call[s].at, DayStatus(d, seen.in, call[s].at), seen.source)
  <2>1. register' = register \/ register' = [register EXCEPT ![d] = row]
    BY <1>5 DEF ClockOut, Rewrite
  <2>2. d \in Days /\ call[s].at # NoTime
    <3>1. d \in Days /\ call[s].at \in Punches
      BY <1>2, <1>5 DEF CallOK, ClockOut, At
    <3> QED BY <3>1, PunchDay DEF NoTime
  <2>3. Told(row)
    BY <2>2, ToldIs
  <2> HIDE DEF row
  <2> QED BY <1>2, <2>1, <2>2, <2>3, WrittenIsTold
<1>6. ASSUME NEW s \in Sessions, Record(s)
      PROVE  Told(register'[x])
  <2> DEFINE d == call[s].day
             e == call[s].entry
             row(id) == Row(id, e.in, e.out, e.status, e.source)
  <2>1. register' = register \/ \E id : register' = [register EXCEPT ![d] = row(id)]
    BY <1>6 DEF Record, MakeRow, Rewrite
  <2>2. d \in Days /\ e.source # "clock"
    BY <1>2, <1>6 DEF CallOK, Record, At, Entry
  <2>3. \A id : Told(row(id))
    BY <2>2, ToldIs
  <2> HIDE DEF row
  <2> QED BY <1>2, <2>1, <2>2, <2>3, WrittenIsTold
<1>7. ASSUME NEW s \in Sessions, NEW d \in Days, Delete(s, d)
      PROVE  Told(register'[x])
  BY <1>2, <1>7, ToldIs, WrittenIsTold DEF Delete
<1> QED BY <1>1, <1>3, <1>4, <1>5, <1>6, <1>7, Untouched

LEMMA DivMod ==
  ASSUME NEW t \in Nat, NEW n \in Nat, n > 0
  PROVE  t % n = t - n * (t \div n)
OBVIOUS

\* The time of a punch is so long after the midnight of its day.
LEMMA SinceMidnight ==
  ASSUME NEW t \in Nat
  PROVE  /\ t % DayLength \in 0 .. DayLength - 1
         /\ Day(t) \in Nat
         /\ t = Day(t) * DayLength + (t % DayLength)
<1> DEFINE since == t % DayLength
           midnight == (t \div DayLength) * DayLength
<1>1. DayLength \in Nat \ {0}
  OBVIOUS
<1>2. since \in 0 .. DayLength - 1
  BY <1>1
<1>3. t \div DayLength \in Nat
  BY <1>1, DivMonotone
<1>4. t % DayLength = t - DayLength * (t \div DayLength)
  BY <1>1, DivMod
<1>5. DayLength * (t \div DayLength) = midnight /\ midnight \in Nat
  BY <1>1, <1>3, TimesIsNat
<1>6. since = t - midnight
  BY <1>4, <1>5
<1> HIDE DEF since, midnight
<1>7. t = midnight + since
  BY <1>1, <1>2, <1>5, <1>6
<1> QED BY <1>2, <1>3, <1>7 DEF Day, since, midnight

\* lateMinutes counts from the start of the shift that is on, whether that is
\* today's or, after midnight, yesterday's.
LEMMA LateTimeIs ==
  ASSUME NEW t \in Nat, Day(t) \notin WeeklyOff
  PROVE  LET since == t % DayLength
             arrival == IF CrossesMidnight /\ since < ShiftStart THEN since + DayLength ELSE since
         IN LateTime(Day(t), t) > 0 <=> arrival > ShiftStart + Grace
<1>1. t % DayLength \in Nat /\ {DayLength, ShiftStart, Grace} \subseteq Nat
  BY SinceMidnight
<1> QED BY <1>1 DEF LateTime, RolledForward

LEMMA LateIs ==
  ASSUME NEW t \in Nat, NEW d, Day(t) = d, d \notin WeeklyOff
  PROVE  LET began == IF t % DayLength >= ShiftStart
                        THEN d * DayLength + ShiftStart
                        ELSE (d - 1) * DayLength + ShiftStart
             ends == began + (IF CrossesMidnight THEN DayLength ELSE 0) + ShiftEnd - ShiftStart
         IN t < ends => (Opened(t) = "late" <=> t > began + Grace)
<1> DEFINE since == t % DayLength
           midnight == d * DayLength
<1>1. /\ since \in 0 .. DayLength - 1 /\ d \in Nat /\ t = midnight + since
      /\ {DayLength, ShiftStart, ShiftEnd, Grace} \subseteq Nat /\ ShiftEnd < DayLength
  BY SinceMidnight
<1>2. midnight \in Nat /\ (d - 1) * DayLength = midnight - DayLength
  BY <1>1, TimesIsNat
<1>3. Opened(t) = "late" <=> LateTime(d, t) > 0
  BY DEF Opened
<1>4. LateTime(d, t) > 0 <=>
        (IF CrossesMidnight /\ since < ShiftStart THEN since + DayLength ELSE since)
          > ShiftStart + Grace
  BY LateTimeIs
<1> HIDE DEF since, midnight
<1>5. CASE since >= ShiftStart
  <2>1. Opened(t) = "late" <=> t > midnight + ShiftStart + Grace
    BY <1>1, <1>2, <1>3, <1>4, <1>5
  <2> QED BY <1>1, <1>2, <1>5, <2>1 DEF since, midnight
<1>6. CASE since < ShiftStart /\ CrossesMidnight
  <2>1. Opened(t) = "late" <=> t > midnight - DayLength + ShiftStart + Grace
    BY <1>1, <1>2, <1>3, <1>4, <1>6
  <2> QED BY <1>1, <1>2, <1>6, <2>1 DEF since
<1>7. CASE since < ShiftStart /\ ~CrossesMidnight
  <2>1. ~ (t < midnight - DayLength + ShiftStart + 0 + ShiftEnd - ShiftStart)
    BY <1>1, <1>2
  <2> QED BY <1>1, <1>2, <1>7, <2>1 DEF since
<1> QED BY <1>1, <1>5, <1>6, <1>7

(* lateMinutes: whoever punches in during a shift is late exactly if the   *)
(* grace period since it started is over, for any shift, also one that     *)
(* crosses midnight, and any length of the day.                            *)
THEOREM LatenessIsRight == Spec => []LateIffPastGrace
<1> DEFINE AllTold == \A d \in Days : Told(register[d])
<1>1. Init => AllTold
  BY ToldIs DEF Init
<1>2. Inv /\ AllTold /\ [Next]_vars => AllTold'
  BY StepTold
<1>3. Inv /\ AllTold => LateIffPastGrace
  <2> SUFFICES ASSUME Inv, AllTold, NEW d \in Days \ WeeklyOff,
                      register[d].source = "clock", IsOpen(register[d]), Day(register[d].in) = d
               PROVE  LET row == register[d]
                          began == IF row.in % DayLength >= ShiftStart
                                     THEN d * DayLength + ShiftStart
                                     ELSE (d - 1) * DayLength + ShiftStart
                          ends == began + (IF CrossesMidnight THEN DayLength ELSE 0)
                                    + ShiftEnd - ShiftStart
                      IN row.in < ends => (row.status = "late" <=> row.in > began + Grace)
    BY DEF LateIffPastGrace
  <2>1. register[d].in \in Nat
    BY RowsAre DEF Inv, Types, TypeOK, RealRow, Moment, IsOpen
  <2>2. register[d].status = Opened(register[d].in)
    BY DEF Told
  <2> QED BY <2>1, <2>2, LateIs
<1> QED BY <1>1, <1>2, <1>3, Always, PTL DEF Spec

-------------------------------------------------------------------------------
(* Calls side by side *)

Ops == {"request", "approve"}

\* Whose balance has been looked at and found to suffice.
Granting(c) == c.op = "approve" /\ c.step = "write"

(* Of two calls under way that file, or approve, different requests, the   *)
(* later one was there when it started: the pair is on record.             *)
SideBySide ==
  \A s, t \in Sessions : \A op \in Ops :
    Deciding(call[s], op) /\ Deciding(call[t], op) /\ call[s].req # call[t].req =>
      Crossed(op, call[s].req, call[t].req)

\* Steps that decide nothing and start no decision.
Quiet ==
  /\ UNCHANGED <<requests, overturned, crossed>>
  /\ \A t \in Sessions : \A op \in Ops :
       Deciding(call'[t], op) => Deciding(call[t], op) /\ call'[t].req = call[t].req
  /\ \A t \in Sessions :
       Granting(call'[t]) => Granting(call[t]) \/ WithinBalance(call[t].req)

NotDeciding(c) == \A op \in Ops : ~Deciding(c, op)

Starts(s, op, r) ==
  /\ Goes(s, RequestCall(op, "balance", r, 0))
  /\ crossed' = crossed \cup Beside(s, op, r)
  /\ UNCHANGED <<requests, overturned>>

LEMMA QuietCall ==
  ASSUME CallsOK, NEW s \in Sessions, NEW c, Goes(s, c), UNCHANGED <<requests, overturned, crossed>>,
         NotDeciding(c)
  PROVE  Quiet
<1>1. call'[s] = c /\ \A t \in Sessions : t # s => call'[t] = call[t]
  BY Went
<1>2. ~Granting(c)
  BY DEF Granting, NotDeciding, Deciding, Ops
<1> QED BY <1>1, <1>2 DEF Quiet, NotDeciding

LEMMA IdleUndecided == NotDeciding(Idle)
BY DEF NotDeciding, Deciding, Ops, Idle, RequestCall, Call

LEMMA PunchUndecided ==
  ASSUME NEW o \in {"clock in", "clock out"}, NEW step, NEW d, NEW at, NEW seen
  PROVE  NotDeciding(PunchCall(o, step, d, at, seen))
BY DEF NotDeciding, Deciding, Ops, PunchCall, Call

LEMMA RecordUndecided ==
  ASSUME NEW d, NEW seen, NEW entry
  PROVE  NotDeciding(RecordCall(d, seen, entry))
BY DEF NotDeciding, Deciding, Ops, RecordCall, Call

LEMMA MarkingUndecided ==
  ASSUME NEW o, NEW r, NEW d, NEW step \in {"find", "mark"}
  PROVE  NotDeciding(RequestCall(o, step, r, d))
BY DEF NotDeciding, Deciding, Ops, RequestCall, Call

LEMMA RefusalUndecided ==
  ASSUME NEW o \in {"reject", "cancel"}, NEW step, NEW r, NEW d
  PROVE  NotDeciding(RequestCall(o, step, r, d))
BY DEF NotDeciding, Deciding, Ops, RequestCall, Call

(* Every step is quiet, starts a decision or writes one.                   *)
LEMMA StepIs ==
  ASSUME Inv, [Next]_vars
  PROVE  \/ Quiet
         \/ \E s \in Sessions, r \in Requests :
              Starts(s, "request", r) /\ Overlapping(r) = {}
         \/ \E s \in Sessions, r \in Requests : Starts(s, "approve", r)
         \/ \E s \in Sessions : CreateRequest(s)
         \/ \E s \in Sessions : WriteVerdict(s)
<1>1. CallsOK
  BY DEF Inv, Types
<1>2. ASSUME UNCHANGED <<requests, overturned, crossed, call>>
      PROVE  Quiet
  BY <1>2 DEF Quiet
<1>3. ASSUME NEW s \in Sessions, NEW r \in Requests, NEW today, AssertNoOverlap(s, r, today)
      PROVE  Starts(s, "request", r) /\ Overlapping(r) = {}
  BY <1>3 DEF AssertNoOverlap, Starts
<1>4. ASSUME NEW s \in Sessions, NEW r \in Requests, NEW op \in {"approve", "reject", "cancel"},
             ReadUndecided(s, op, r)
      PROVE  Starts(s, "approve", r) \/ Quiet
  <2>1. CASE op = "approve"
    BY <1>4, <2>1 DEF ReadUndecided, Starts
  <2>2. CASE op # "approve"
    <3>1. Goes(s, RequestCall(op, "write", r, 0)) /\ UNCHANGED <<requests, overturned, crossed>>
      BY <1>4, <2>2 DEF ReadUndecided
    <3>2. op \in {"reject", "cancel"}
      BY <2>2
    <3>3. NotDeciding(RequestCall(op, "write", r, 0))
      BY <3>2, RefusalUndecided
    <3> QED BY <1>1, <3>1, <3>3, QuietCall
  <2> QED BY <2>1, <2>2
<1>5. ASSUME NEW s \in Sessions, AssertBalance(s)
      PROVE  Quiet
  <2> DEFINE c == RequestCall(call[s].op, "write", call[s].req, 0)
  <2>1. UNCHANGED <<requests, overturned, crossed>>
    BY <1>5 DEF AssertBalance, history
  <2>2. CASE Goes(s, Idle)
    BY <1>1, <2>1, <2>2, IdleUndecided, QuietCall
  <2>3. CASE Goes(s, c) /\ WithinBalance(call[s].req)
    <3>1. call'[s] = c /\ \A t \in Sessions : t # s => call'[t] = call[t]
      BY <1>1, <2>3, Went
    <3>2. c.op = call[s].op /\ c.req = call[s].req /\ call[s].step = "balance"
      BY <1>5 DEF RequestCall, Call, AssertBalance, At
    <3> HIDE DEF c
    <3> QED BY <2>1, <2>3, <3>1, <3>2 DEF Quiet, Deciding
  <2> QED BY <1>5, <2>2, <2>3 DEF AssertBalance, Ends
<1>6. ASSUME NEW s \in Sessions, FindDay(s) \/ MarkDay(s) \/ MarkFails(s)
      PROVE  Quiet
  <2>1. UNCHANGED <<requests, overturned, crossed>>
    BY <1>6 DEF FindDay, MarkDay, MarkFails, history
  <2>2. ASSUME NEW step \in {"find", "mark"}, NEW d, Goes(s, RequestCall("approve", step, call[s].req, d))
        PROVE  Quiet
    BY <1>1, <2>1, <2>2, MarkingUndecided, QuietCall
  <2>3. ASSUME Goes(s, Idle)
        PROVE  Quiet
    BY <1>1, <2>1, <2>3, IdleUndecided, QuietCall
  <2>4. NextDay(s) => Quiet
    BY <2>2, <2>3 DEF NextDay, Ends
  <2> QED BY <1>6, <2>2, <2>4 DEF FindDay, MarkDay, MarkFails
<1>7. ASSUME NEW s \in Sessions, ClockIn(s) \/ ClockOut(s) \/ Record(s) \/ Interrupt(s)
      PROVE  Quiet
  <2>1. Goes(s, Idle) /\ UNCHANGED <<requests, overturned, crossed>>
    BY <1>7 DEF ClockIn, ClockOut, Record, Interrupt, Ends, history
  <2> QED BY <1>1, <2>1, IdleUndecided, QuietCall
<1>8. ASSUME NEW s \in Sessions,
             (\E at \in Punches : FindToday(s, at) \/ FindOpenToday(s, at)) \/ FindOpenYesterday(s)
      PROVE  Quiet
  <2>1. UNCHANGED <<requests, overturned, crossed>>
    BY <1>8 DEF FindToday, FindOpenToday, FindOpenYesterday, history
  <2>2. ASSUME NEW o \in {"clock in", "clock out"}, NEW step, NEW d, NEW at, NEW seen,
               Goes(s, PunchCall(o, step, d, at, seen))
        PROVE  Quiet
    BY <1>1, <2>1, <2>2, PunchUndecided, QuietCall
  <2>3. CASE Goes(s, Idle)
    BY <1>1, <2>1, <2>3, IdleUndecided, QuietCall
  <2>4. CASE \E at \in Punches : FindToday(s, at)
    BY <2>2, <2>4 DEF FindToday
  <2>5. CASE \E at \in Punches : FindOpenToday(s, at)
    BY <2>2, <2>5 DEF FindOpenToday
  <2>6. CASE FindOpenYesterday(s)
    BY <2>2, <2>3, <2>6 DEF FindOpenYesterday, Ends
  <2> QED BY <1>8, <2>4, <2>5, <2>6
<1>9. ASSUME NEW s \in Sessions, NEW d \in Days, NEW e \in ManualEntries, NEW today,
             FindRecorded(s, d, e, today)
      PROVE  Quiet
  <2>1. /\ Goes(s, RecordCall(d, register[d], Entered(d, e)))
        /\ UNCHANGED <<requests, overturned, crossed>>
    BY <1>9 DEF FindRecorded
  <2>2. NotDeciding(RecordCall(d, register[d], Entered(d, e)))
    BY RecordUndecided
  <2> QED BY <1>1, <2>1, <2>2, QuietCall
<1>10. ASSUME NEW s \in Sessions, NEW d \in Days, Delete(s, d)
       PROVE  Quiet
  <2>1. UNCHANGED <<requests, overturned, crossed, call>>
    BY <1>10 DEF Delete
  <2> QED BY <1>2, <2>1
<1>11. CASE UNCHANGED vars
  BY <1>2, <1>11 DEF vars
<1> QED BY <1>3, <1>4, <1>5, <1>6, <1>7, <1>8, <1>9, <1>10, <1>11 DEF Next, Proceed

LEMMA BesideIs ==
  ASSUME NEW s \in Sessions, NEW t \in Sessions, t # s, NEW op, NEW r,
         Deciding(call[t], op), call[t].req # r
  PROVE  <<op, {r, call[t].req}>> \in Beside(s, op, r)
BY DEF Beside

LEMMA StepSideBySide ==
  ASSUME Inv, SideBySide, [Next]_vars
  PROVE  SideBySide' /\ crossed \subseteq crossed'
<1>1. CallsOK
  BY DEF Inv, Types
<1>2. CASE Quiet
  BY <1>2 DEF Quiet, SideBySide, Crossed
<1>3. ASSUME NEW s \in Sessions, NEW o \in Ops, NEW r \in Requests, Starts(s, o, r)
      PROVE  SideBySide' /\ crossed \subseteq crossed'
  <2> DEFINE c == RequestCall(o, "balance", r, 0)
  <2>1. call'[s] = c /\ \A t \in Sessions : t # s => call'[t] = call[t]
    BY <1>1, <1>3, Went DEF Starts
  <2>2. c.req = r /\ \A op : Deciding(c, op) => op = o
    BY DEF RequestCall, Call, Deciding
  <2> HIDE DEF c
  <2>3. crossed' = crossed \cup Beside(s, o, r)
    BY <1>3 DEF Starts
  <2>4. ASSUME NEW p \in Sessions, NEW q \in Sessions, NEW op \in Ops,
               Deciding(call'[p], op), Deciding(call'[q], op), call'[p].req # call'[q].req
        PROVE  <<op, {call'[p].req, call'[q].req}>> \in crossed'
    <3>1. CASE p # s /\ q # s
      BY <2>1, <2>3, <2>4, <3>1 DEF SideBySide, Crossed
    <3>2. CASE p = s
      <4>1. q # s /\ call'[q] = call[q] /\ call'[p].req = r /\ op = o
        BY <2>1, <2>2, <2>4, <3>2
      <4>2. <<o, {r, call[q].req}>> \in Beside(s, o, r)
        BY <2>4, <4>1, BesideIs
      <4> QED BY <2>3, <4>1, <4>2
    <3>3. CASE q = s
      <4>1. p # s /\ call'[p] = call[p] /\ call'[q].req = r /\ op = o
        BY <2>1, <2>2, <2>4, <3>3
      <4>2. <<o, {r, call[p].req}>> \in Beside(s, o, r)
        BY <2>4, <4>1, BesideIs
      <4>3. {r, call[p].req} = {call'[p].req, call'[q].req}
        BY <4>1
      <4> QED BY <2>3, <4>1, <4>2, <4>3
    <3> QED BY <3>1, <3>2, <3>3
  <2> QED BY <2>3, <2>4 DEF SideBySide, Crossed
<1>4. ASSUME NEW s \in Sessions, CreateRequest(s) \/ WriteVerdict(s)
      PROVE  SideBySide' /\ crossed \subseteq crossed'
  <2>1. crossed' = crossed
    BY <1>4 DEF CreateRequest, WriteVerdict, history
  <2>2. PICK c : Goes(s, c) /\ NotDeciding(c)
    <3> DEFINE f == RequestCall("approve", "find", call[s].req, Application[call[s].req].from)
    <3>1. Goes(s, Idle) \/ Goes(s, f)
      BY <1>4 DEF CreateRequest, WriteVerdict, Ends
    <3>2. NotDeciding(f)
      BY MarkingUndecided
    <3> HIDE DEF f
    <3> QED BY <3>1, <3>2, IdleUndecided
  <2>3. call'[s] = c /\ \A t \in Sessions : t # s => call'[t] = call[t]
    BY <1>1, <2>2, Went
  <2> QED BY <2>1, <2>2, <2>3 DEF SideBySide, Crossed, NotDeciding
<1>5. "request" \in Ops /\ "approve" \in Ops
  BY DEF Ops
<1> QED BY <1>2, <1>3, <1>4, <1>5, StepIs

LEMMA InitSideBySide == Init => SideBySide
<1> SUFFICES ASSUME Init PROVE SideBySide
  OBVIOUS
<1>1. \A s \in Sessions : call[s] = Idle
  BY DEF Init
<1> QED BY <1>1, IdleUndecided DEF SideBySide, NotDeciding

-------------------------------------------------------------------------------
(* Days booked *)

Standing(r) == r \in Requests /\ requests[r] \in {"pending", "approved"}

\* The two may share a day: they were filed side by side, or one was revived.
ExcusedBy(pairs, revived, q, r) ==
  <<"request", {q, r}>> \in pairs \/ q \in revived \/ r \in revived

Excused(q, r) == ExcusedBy(crossed, overturned, q, r)

ExcusedNext(q, r) == ExcusedBy(crossed', overturned', q, r)

(* The days of a request about to be created are nobody else's, but for    *)
(* those that are filed at its side or were revived.                       *)
Booked ==
  \A s \in Sessions : Deciding(call[s], "request") =>
    \A q \in Requests :
      Standing(q) /\ q # call[s].req /\ Span(q) \cap Span(call[s].req) # {} =>
        Excused(q, call[s].req)

BookedInv == Inv /\ SideBySide /\ NoDoubleBooking /\ Booked

LEMMA NoDoubleBookingIs ==
  NoDoubleBooking <=>
    \A q, r \in Requests :
      q # r /\ Standing(q) /\ Standing(r) /\ Span(q) \cap Span(r) # {} => Excused(q, r)
BY DEF NoDoubleBooking, Standing, Excused, ExcusedBy, Crossed

LEMMA NoDoubleBookingWas ==
  NoDoubleBooking' <=>
    \A q, r \in Requests :
      q # r /\ Standing(q)' /\ Standing(r)' /\ Span(q) \cap Span(r) # {} => ExcusedNext(q, r)
BY DEF NoDoubleBooking, Standing, ExcusedNext, ExcusedBy, Crossed, Span

LEMMA ExcusedStays ==
  ASSUME crossed \subseteq crossed', overturned \subseteq overturned'
  PROVE  \A q, r : /\ Excused(q, r) => ExcusedNext(q, r)
                   /\ q \in overturned' \/ r \in overturned' => ExcusedNext(q, r)
BY DEF Excused, ExcusedNext, ExcusedBy

(* Steps after which nothing stands that did not before, or was revived.   *)
LEMMA BookedStays ==
  ASSUME BookedInv, crossed \subseteq crossed', overturned \subseteq overturned',
         \A r \in Requests : Standing(r)' => Standing(r) \/ r \in overturned',
         \A s \in Sessions : Deciding(call'[s], "request") =>
           \/ Deciding(call[s], "request") /\ call'[s].req = call[s].req
           \/ Overlapping(call'[s].req) = {}
  PROVE  NoDoubleBooking' /\ Booked'
<1>1. NoDoubleBooking'
  BY NoDoubleBookingIs, NoDoubleBookingWas, ExcusedStays DEF BookedInv
<1>2. Booked'
  <2> SUFFICES ASSUME NEW s \in Sessions, Deciding(call'[s], "request"), NEW q \in Requests,
                      Standing(q)', q # call'[s].req, Span(q) \cap Span(call'[s].req) # {}
               PROVE  ExcusedNext(q, call'[s].req)
    BY DEF Booked, Deciding, Span, Standing, Excused, ExcusedNext
  <2>1. CASE q \in overturned'
    BY <2>1, ExcusedStays
  <2>2. CASE Standing(q) /\ Deciding(call[s], "request") /\ call'[s].req = call[s].req
    <3>1. Excused(q, call[s].req)
      BY <2>2 DEF BookedInv, Booked
    <3>2. Excused(q, call'[s].req)
      BY <2>2, <3>1
    <3> QED BY <3>2, ExcusedStays
  <2>3. CASE Standing(q) /\ Overlapping(call'[s].req) = {}
    BY <2>3 DEF Overlapping, Standing
  <2> QED BY <2>1, <2>2, <2>3
<1> QED BY <1>1, <1>2

LEMMA CreateRequestBooked ==
  ASSUME BookedInv, NEW s \in Sessions, CreateRequest(s)
  PROVE  NoDoubleBooking' /\ Booked'
<1> DEFINE r == call[s].req
<1>1. /\ Deciding(call[s], "request") /\ Goes(s, Idle) /\ UNCHANGED <<overturned, crossed>>
      /\ requests' = [requests EXCEPT ![r] = "pending"]
  BY DEF CreateRequest, At, Ends, history, Deciding
<1>2. CallsOK /\ TypeOK
  BY DEF BookedInv, Inv, Types
<1>3. r \in Requests
  BY <1>1, <1>2 DEF CallsOK, CallOK, Deciding
<1>4. \A q \in Requests : q # r => requests'[q] = requests[q]
  BY <1>1, <1>2, <1>3 DEF TypeOK
<1>5. \A q \in Requests : q # r /\ Standing(q)' => Standing(q)
  BY <1>4 DEF Standing
<1>6. \A p, q : Excused(p, q) => ExcusedNext(p, q) /\ ExcusedNext(q, p)
  <2>1. \A p, q : {p, q} = {q, p}
    OBVIOUS
  <2> QED BY <1>1, <2>1 DEF Excused, ExcusedNext, ExcusedBy
<1>7. call'[s] = Idle /\ \A t \in Sessions : t # s => call'[t] = call[t]
  BY <1>1, <1>2, Went
<1>8. ASSUME NEW q \in Requests, q # r, Standing(q), Span(q) \cap Span(r) # {}
      PROVE  Excused(q, r)
  BY <1>1, <1>8 DEF BookedInv, Booked
<1>9. NoDoubleBooking'
  <2> SUFFICES ASSUME NEW p \in Requests, NEW q \in Requests, p # q, Standing(p)', Standing(q)',
                      Span(p) \cap Span(q) # {}
               PROVE  ExcusedNext(p, q)
    BY NoDoubleBookingWas
  <2>1. CASE p = r
    <3>1. Excused(q, r)
      BY <1>5, <1>8, <2>1
    <3> QED BY <1>6, <2>1, <3>1
  <2>2. CASE q = r
    <3>1. Excused(p, r)
      BY <1>5, <1>8, <2>2
    <3> QED BY <1>6, <2>2, <3>1
  <2>3. CASE p # r /\ q # r
    <3>1. Excused(p, q)
      BY <1>5, <2>3, NoDoubleBookingIs DEF BookedInv
    <3> QED BY <1>6, <3>1
  <2> QED BY <2>1, <2>2, <2>3
<1>10. Booked'
  <2> SUFFICES ASSUME NEW t \in Sessions, Deciding(call'[t], "request"), NEW q \in Requests,
                      Standing(q)', q # call'[t].req, Span(q) \cap Span(call'[t].req) # {}
               PROVE  ExcusedNext(q, call'[t].req)
    BY DEF Booked, Deciding, Span, Standing, Excused, ExcusedNext
  <2>1. t # s /\ call'[t] = call[t]
    BY <1>7, IdleUndecided DEF NotDeciding, Ops
  <2>2. CASE q = r
    <3>1. <<"request", {call[s].req, call[t].req}>> \in crossed
      BY <1>1, <2>1, <2>2 DEF BookedInv, SideBySide, Ops, Crossed
    <3> QED BY <1>1, <2>1, <2>2, <3>1 DEF ExcusedNext, ExcusedBy
  <2>3. CASE q # r
    <3>1. Excused(q, call[t].req)
      BY <1>5, <2>1, <2>3 DEF BookedInv, Booked
    <3>2. Excused(q, call'[t].req)
      BY <2>1, <3>1
    <3> QED BY <1>6, <3>2
  <2> QED BY <2>2, <2>3
<1> QED BY <1>9, <1>10

LEMMA StepBooked ==
  ASSUME BookedInv, [Next]_vars
  PROVE  BookedInv'
<1>1. Inv /\ CallsOK /\ TypeOK /\ Inv' /\ SideBySide' /\ crossed \subseteq crossed'
  BY StepKeeps, StepSideBySide DEF BookedInv, Inv, Types
<1>2. CASE Quiet
  <2>1. NoDoubleBooking' /\ Booked'
    BY <1>2, BookedStays DEF Quiet, Ops, Standing
  <2> QED BY <1>1, <2>1 DEF BookedInv
<1>3. ASSUME NEW s \in Sessions, NEW o \in Ops, NEW r \in Requests, Starts(s, o, r),
             o = "request" => Overlapping(r) = {}
      PROVE  BookedInv'
  <2> DEFINE c == RequestCall(o, "balance", r, 0)
  <2>1. call'[s] = c /\ \A t \in Sessions : t # s => call'[t] = call[t]
    BY <1>1, <1>3, Went DEF Starts
  <2>2. c.req = r /\ (Deciding(c, "request") => o = "request")
    BY DEF RequestCall, Call, Deciding
  <2> HIDE DEF c
  <2>3. UNCHANGED <<requests, overturned>>
    BY <1>3 DEF Starts
  <2>4. NoDoubleBooking' /\ Booked'
    BY <1>1, <1>3, <2>1, <2>2, <2>3, BookedStays DEF Standing
  <2> QED BY <1>1, <2>4 DEF BookedInv
<1>4. ASSUME NEW s \in Sessions, CreateRequest(s)
      PROVE  BookedInv'
  BY <1>1, <1>4, CreateRequestBooked DEF BookedInv
<1>5. ASSUME NEW s \in Sessions, WriteVerdict(s)
      PROVE  BookedInv'
  <2> DEFINE q == call[s].req
             f == RequestCall("approve", "find", q, Application[q].from)
  <2>1. /\ call[s].op \in {"approve", "reject", "cancel"}
        /\ requests' = [requests EXCEPT ![q] = Verdict(call[s].op)]
        /\ overturned' = IF requests[q] = "pending" THEN overturned ELSE overturned \cup {q}
    BY <1>5 DEF WriteVerdict, At
  <2>2. q \in Requests
    BY <1>1, <2>1 DEF CallsOK, CallOK
  <2>3. \A r \in Requests : r # q => requests'[r] = requests[r]
    BY <1>1, <2>1, <2>2 DEF TypeOK
  <2>4. \A r \in Requests : Standing(r)' => Standing(r) \/ r \in overturned'
    BY <2>1, <2>2, <2>3 DEF Standing
  <2>5. Goes(s, f) \/ Goes(s, Idle)
    BY <1>5 DEF WriteVerdict, Ends
  <2>6. NotDeciding(f)
    BY MarkingUndecided
  <2> HIDE DEF f
  <2>7. PICK c : Goes(s, c) /\ ~Deciding(c, "request")
    BY <2>5, <2>6, IdleUndecided DEF NotDeciding, Ops
  <2>8. call'[s] = c /\ \A t \in Sessions : t # s => call'[t] = call[t]
    BY <1>1, <2>7, Went
  <2>9. overturned \subseteq overturned'
    BY <2>1
  <2>10. NoDoubleBooking' /\ Booked'
    BY <1>1, <2>4, <2>7, <2>8, <2>9, BookedStays
  <2> QED BY <1>1, <2>10 DEF BookedInv
<1>6. "request" \in Ops /\ "approve" \in Ops
  BY DEF Ops
<1> QED BY <1>1, <1>2, <1>3, <1>4, <1>5, <1>6, StepIs DEF BookedInv

(* FindOverlapping: whoever files, decides and cancels, and however it     *)
(* interleaves, two standing requests share a day only if they were filed  *)
(* side by side or a verdict landed on one that was no longer pending.     *)
THEOREM NothingBookedTwice == Spec => []NoDoubleBooking
<1>1. Init => BookedInv
  <2> SUFFICES ASSUME Init PROVE BookedInv
    OBVIOUS
  <2>1. \A r \in Requests : ~Standing(r)
    BY DEF Init, Standing
  <2>2. NoDoubleBooking /\ Booked
    BY <2>1, NoDoubleBookingIs DEF Booked
  <2> QED BY <2>2, InitHolds, InitSideBySide DEF BookedInv
<1>2. BookedInv /\ [Next]_vars => BookedInv'
  BY StepBooked
<1>3. BookedInv => NoDoubleBooking
  BY DEF BookedInv
<1> QED BY <1>1, <1>2, <1>3, PTL DEF Spec

-------------------------------------------------------------------------------
(* The year's entitlement *)

Limited == AnnualQuota > 0 /\ ~AllowNegative

LEMMA LeaveDaysFinite ==
  ASSUME NEW r \in Requests
  PROVE  IsFiniteSet(LeaveDays(Application[r].from, Application[r].to))
<1>1. Application[r].from \in Int /\ Application[r].to \in Int
  BY DEF Days
<1>2. IsFiniteSet(Application[r].from .. Application[r].to)
  BY <1>1, FS_Interval
<1> QED BY <1>2, FS_Subset DEF LeaveDays

LEMMA CostIsNat == \A r \in Requests : Cost(r) \in Nat
<1> SUFFICES ASSUME NEW r \in Requests PROVE Cost(r) \in Nat
  OBVIOUS
<1> DEFINE n == Cardinality(LeaveDays(Application[r].from, Application[r].to))
<1>1. n \in Nat
  BY LeaveDaysFinite, FS_CardinalityType
<1>2. Cost(r) = 1 \/ Cost(r) = 2 * n
  BY DEF Cost, CountLeave
<1> HIDE DEF n
<1> QED BY <1>1, <1>2

(* What one more request takes, and what one less does not give.           *)
LEMMA TakenIsNat ==
  ASSUME NEW A, A \subseteq Requests
  PROVE  Taken(A) \in Nat
<1> DEFINE f == [r \in Requests |-> Cost(r)]
<1>1. IsFiniteSet(A) /\ \A r \in A : f[r] \in Nat
  BY FS_Subset, CostIsNat
<1> HIDE DEF f
<1>2. SumOver(f, A) \in Nat
  BY <1>1, SumIsNat
<1> QED BY <1>2 DEF Taken, f

LEMMA TakenGrows ==
  ASSUME NEW A, A \subseteq Requests, NEW B, B \subseteq A
  PROVE  Taken(B) <= Taken(A)
<1> DEFINE f == [r \in Requests |-> Cost(r)]
<1>1. IsFiniteSet(A) /\ \A r \in A : f[r] \in Nat
  BY FS_Subset, CostIsNat
<1> HIDE DEF f
<1>2. SumOver(f, B) <= SumOver(f, A)
  BY <1>1, SumOfFewer
<1> QED BY <1>2 DEF Taken, f

LEMMA TakenAdds ==
  ASSUME NEW A, A \subseteq Requests, NEW r \in Requests
  PROVE  Taken(A \cup {r}) <= Taken(A) + Cost(r)
<1> DEFINE f == [q \in Requests |-> Cost(q)]
<1>1. IsFiniteSet(A) /\ (\A q \in A \cup {r} : f[q] \in Nat) /\ f[r] = Cost(r)
  BY FS_Subset, CostIsNat
<1> HIDE DEF f
<1>2. CASE r \in A
  <2>1. A \cup {r} = A
    BY <1>2
  <2>2. Taken(A) \in Nat /\ Cost(r) \in Nat
    BY TakenIsNat, CostIsNat
  <2>3. Taken(A \cup {r}) = Taken(A)
    BY <2>1
  <2> QED BY <2>2, <2>3
<1>3. CASE r \notin A
  <2>0. \A q \in A \cup {r} : f[q] \in Int
    BY <1>1
  <2>1. SumOver(f, A \cup {r}) = SumOver(f, A) + f[r]
    BY <1>1, <1>3, <2>0, SumAdds
  <2>2. SumOver(f, A \cup {r}) \in Nat
    <3>1. IsFiniteSet(A \cup {r})
      BY <1>1, FS_AddElement
    <3> QED BY <1>1, <3>1, SumIsNat
  <2> QED BY <1>1, <2>1, <2>2 DEF Taken, f
<1> QED BY <1>2, <1>3

\* No two of them were approved by calls that read the balance side by side.
ApartIn(pairs, granted) ==
  \A q, r \in granted : q # r => <<"approve", {q, r}>> \notin pairs

LEMMA ApartBefore ==
  ASSUME NEW pairs, NEW more, pairs \subseteq more, NEW G, ApartIn(more, G), NEW H, H \subseteq G
  PROVE  ApartIn(pairs, H)
BY DEF ApartIn

\* The request fits beside whatever is granted and was not read side by side with it.
FitsIn(approved, pairs, r) ==
  \A G \in SUBSET (approved \ {r}) :
    ApartIn(pairs, G \cup {r}) => Taken(G) + Cost(r) <= AnnualQuota

GrantedFits(approved, pairs) ==
  \A G \in SUBSET approved : ApartIn(pairs, G) => Taken(G) <= AnnualQuota

QuotaInv ==
  /\ Inv
  /\ SideBySide
  /\ Limited => GrantedFits(Approved, crossed)
  /\ Limited => \A s \in Sessions :
                  Granting(call[s]) => FitsIn(Approved, crossed, call[s].req)

LEMMA QuotaKeptIs == QuotaKept <=> (Limited => GrantedFits(Approved, crossed))
BY DEF QuotaKept, Limited, GrantedFits, ApartIn, Crossed

LEMMA QuotaInvWas ==
  QuotaInv' <=>
    /\ Inv'
    /\ SideBySide'
    /\ Limited => GrantedFits(Approved', crossed')
    /\ Limited => \A s \in Sessions :
                    Granting(call'[s]) => FitsIn(Approved', crossed', call'[s].req)
BY DEF QuotaInv, Limited, GrantedFits, FitsIn, ApartIn, Granting, Taken, Cost

\* A request whose balance suffices fits beside anything that is granted.
LEMMA BalanceFits ==
  ASSUME Limited, NEW r \in Requests, WithinBalance(r), NEW pairs
  PROVE  FitsIn(Approved, pairs, r)
<1> SUFFICES ASSUME NEW G \in SUBSET (Approved \ {r})
             PROVE  Taken(G) + Cost(r) <= AnnualQuota
  BY DEF FitsIn
<1>1. Approved \subseteq Requests /\ G \subseteq Approved /\ G \subseteq Requests
  BY DEF Approved
<1>2. Taken(G) \in Nat /\ Taken(Approved) \in Nat /\ Cost(r) \in Nat /\ AnnualQuota \in Nat
  BY <1>1, TakenIsNat, CostIsNat
<1>3. Taken(G) <= Taken(Approved)
  BY <1>1, TakenGrows
<1>4. Taken(Approved) + Cost(r) <= AnnualQuota
  BY DEF WithinBalance, Limited
<1> QED BY <1>2, <1>3, <1>4

\* Less is granted, more is on record: what fitted still fits.
LEMMA FitsStays ==
  ASSUME NEW A, NEW B, B \subseteq A, NEW pairs, NEW more, pairs \subseteq more
  PROVE  /\ GrantedFits(A, pairs) => GrantedFits(B, more)
         /\ \A r : FitsIn(A, pairs, r) => FitsIn(B, more, r)
<1>1. ASSUME GrantedFits(A, pairs), NEW G \in SUBSET B, ApartIn(more, G)
      PROVE  Taken(G) <= AnnualQuota
  BY <1>1, ApartBefore DEF GrantedFits
<1>2. ASSUME NEW r, FitsIn(A, pairs, r), NEW G \in SUBSET (B \ {r}), ApartIn(more, G \cup {r})
      PROVE  Taken(G) + Cost(r) <= AnnualQuota
  <2>1. ApartIn(pairs, G \cup {r})
    BY <1>2, ApartBefore
  <2> QED BY <1>2, <2>1 DEF FitsIn
<1> QED BY <1>1, <1>2 DEF GrantedFits, FitsIn

\* One more is granted, that fits beside the rest.
LEMMA GrantFits ==
  ASSUME NEW A, A \subseteq Requests, NEW r \in Requests, NEW pairs,
         GrantedFits(A, pairs), FitsIn(A, pairs, r)
  PROVE  GrantedFits(A \cup {r}, pairs)
<1> SUFFICES ASSUME NEW G \in SUBSET (A \cup {r}), ApartIn(pairs, G)
             PROVE  Taken(G) <= AnnualQuota
  BY DEF GrantedFits
<1>1. CASE r \notin G
  BY <1>1 DEF GrantedFits
<1>2. CASE r \in G
  <2> DEFINE H == G \ {r}
  <2>1. H \in SUBSET (A \ {r}) /\ H \cup {r} = G /\ H \subseteq Requests
    BY <1>2
  <2> HIDE DEF H
  <2>2. Taken(H) + Cost(r) <= AnnualQuota
    BY <2>1 DEF FitsIn
  <2>3. Taken(G) <= Taken(H) + Cost(r)
    BY <2>1, TakenAdds
  <2>4. Taken(G) \in Nat /\ Taken(H) \in Nat /\ Cost(r) \in Nat /\ AnnualQuota \in Nat
    <3>1. G \subseteq Requests
      OBVIOUS
    <3> QED BY <2>1, <3>1, TakenIsNat, CostIsNat
  <2> QED BY <2>2, <2>3, <2>4
<1> QED BY <1>1, <1>2

\* Of two calls that read the balance side by side, one's grant is not counted
\* against the other.
LEMMA OthersFit ==
  ASSUME NEW A, NEW pairs, NEW r, NEW q,
         FitsIn(A, pairs, q), q = r \/ <<"approve", {r, q}>> \in pairs
  PROVE  FitsIn(A \cup {r}, pairs, q)
<1> SUFFICES ASSUME NEW G \in SUBSET ((A \cup {r}) \ {q}), ApartIn(pairs, G \cup {q})
             PROVE  Taken(G) + Cost(q) <= AnnualQuota
  BY DEF FitsIn
<1>1. r \notin G
  BY DEF ApartIn
<1> QED BY <1>1 DEF FitsIn

LEMMA StepWithinQuota ==
  ASSUME QuotaInv, [Next]_vars
  PROVE  QuotaInv'
<1>1. /\ Inv /\ CallsOK /\ TypeOK /\ Inv' /\ SideBySide /\ SideBySide'
      /\ crossed \subseteq crossed' /\ Approved \subseteq Requests
  BY StepKeeps, StepSideBySide DEF QuotaInv, Inv, Types, Approved
<1>2. ASSUME Approved' \subseteq Approved,
             \A s \in Sessions : Granting(call'[s]) =>
               \/ Granting(call[s]) /\ call'[s].req = call[s].req
               \/ Limited => FitsIn(Approved, crossed, call'[s].req)
      PROVE  QuotaInv'
  <2>1. Limited => GrantedFits(Approved', crossed')
    BY <1>1, <1>2, FitsStays DEF QuotaInv
  <2>2. ASSUME Limited, NEW s \in Sessions, Granting(call'[s])
        PROVE  FitsIn(Approved', crossed', call'[s].req)
    <3>1. FitsIn(Approved, crossed, call'[s].req)
      BY <1>2, <2>2 DEF QuotaInv
    <3> QED BY <1>1, <1>2, <3>1, FitsStays
  <2> QED BY <1>1, <2>1, <2>2, QuotaInvWas
<1>3. CASE Quiet
  <2>1. Approved' \subseteq Approved
    BY <1>3 DEF Quiet, Approved
  <2>2. ASSUME NEW s \in Sessions, Granting(call'[s]), ~Granting(call[s]), Limited
        PROVE  FitsIn(Approved, crossed, call'[s].req)
    <3>1. /\ WithinBalance(call[s].req) /\ Deciding(call[s], "approve")
          /\ call'[s].req = call[s].req
      BY <1>3, <2>2 DEF Quiet, Granting, Deciding, Ops
    <3>2. call[s].req \in Requests
      BY <1>1, <3>1 DEF CallsOK, CallOK, Deciding
    <3>3. FitsIn(Approved, crossed, call[s].req)
      BY <2>2, <3>1, <3>2, BalanceFits
    <3> QED BY <3>1, <3>3
  <2>3. \A s \in Sessions : Granting(call'[s]) /\ Granting(call[s]) => call'[s].req = call[s].req
    BY <1>3 DEF Quiet, Granting, Deciding, Ops
  <2> QED BY <1>2, <2>1, <2>2, <2>3
<1>4. ASSUME NEW s \in Sessions, NEW o \in Ops, NEW r \in Requests, Starts(s, o, r)
      PROVE  QuotaInv'
  <2> DEFINE c == RequestCall(o, "balance", r, 0)
  <2>1. call'[s] = c /\ \A t \in Sessions : t # s => call'[t] = call[t]
    BY <1>1, <1>4, Went DEF Starts
  <2>2. ~Granting(c)
    BY DEF RequestCall, Call, Granting
  <2> HIDE DEF c
  <2>3. Approved' \subseteq Approved
    BY <1>4 DEF Starts, Approved
  <2> QED BY <1>2, <2>1, <2>2, <2>3
<1>5. ASSUME NEW s \in Sessions, CreateRequest(s)
      PROVE  QuotaInv'
  <2>1. Goes(s, Idle) /\ requests' = [requests EXCEPT ![call[s].req] = "pending"]
    BY <1>5 DEF CreateRequest, Ends
  <2>2. call'[s] = Idle /\ \A t \in Sessions : t # s => call'[t] = call[t]
    BY <1>1, <2>1, Went
  <2>3. ~Granting(Idle)
    BY DEF Idle, RequestCall, Call, Granting
  <2>4. Approved' \subseteq Approved
    BY <1>1, <2>1 DEF Approved, TypeOK
  <2> QED BY <1>2, <2>2, <2>3, <2>4
<1>6. ASSUME NEW s \in Sessions, WriteVerdict(s)
      PROVE  QuotaInv'
  <2> DEFINE r == call[s].req
             f == RequestCall("approve", "find", r, Application[r].from)
  <2>1. /\ call[s].op \in {"approve", "reject", "cancel"} /\ call[s].step = "write"
        /\ requests' = [requests EXCEPT ![r] = Verdict(call[s].op)] /\ crossed' = crossed
    BY <1>6 DEF WriteVerdict, At
  <2>2. r \in Requests
    BY <1>1, <2>1 DEF CallsOK, CallOK
  <2>3. Goes(s, f) \/ Goes(s, Idle)
    BY <1>6 DEF WriteVerdict, Ends
  <2>4. ~Granting(f) /\ ~Granting(Idle)
    BY DEF Idle, RequestCall, Call, Granting
  <2> HIDE DEF f
  <2>5. ~Granting(call'[s]) /\ \A t \in Sessions : t # s => call'[t] = call[t]
    BY <1>1, <2>3, <2>4, Went
  <2>6. CASE call[s].op # "approve"
    <3>1. Verdict(call[s].op) # "approved"
      BY <2>1, <2>6 DEF Verdict
    <3>2. Approved' \subseteq Approved
      BY <1>1, <2>1, <3>1 DEF Approved, TypeOK
    <3>3. \A t \in Sessions : Granting(call'[t]) => Granting(call[t]) /\ call'[t].req = call[t].req
      BY <2>5
    <3> QED BY <1>2, <3>2, <3>3
  <2>7. CASE call[s].op = "approve"
    <3>1. Granting(call[s]) /\ Deciding(call[s], "approve")
      BY <2>1, <2>7 DEF Granting, Deciding
    <3>2. Approved' = Approved \cup {r}
      BY <1>1, <2>1, <2>2, <2>7 DEF Approved, TypeOK, Verdict
    <3>3. ASSUME Limited
          PROVE  GrantedFits(Approved', crossed')
      <4>1. GrantedFits(Approved, crossed) /\ FitsIn(Approved, crossed, r)
        BY <3>1, <3>3 DEF QuotaInv
      <4>2. GrantedFits(Approved \cup {r}, crossed)
        BY <1>1, <2>2, <4>1, GrantFits
      <4> QED BY <2>1, <3>2, <4>2
    <3>4. ASSUME Limited, NEW t \in Sessions, Granting(call'[t])
          PROVE  FitsIn(Approved', crossed', call'[t].req)
      <4>1. t # s /\ call'[t] = call[t] /\ Granting(call[t])
        BY <2>5, <3>4
      <4>2. FitsIn(Approved, crossed, call[t].req) /\ Deciding(call[t], "approve")
        BY <3>4, <4>1 DEF QuotaInv, Granting, Deciding
      <4>3. call[t].req = r \/ <<"approve", {r, call[t].req}>> \in crossed
        BY <1>1, <3>1, <4>2 DEF SideBySide, Ops, Crossed
      <4>4. FitsIn(Approved \cup {r}, crossed, call[t].req)
        BY <4>2, <4>3, OthersFit
      <4> QED BY <2>1, <3>2, <4>1, <4>4
    <3> QED BY <1>1, <3>3, <3>4, QuotaInvWas
  <2> QED BY <2>6, <2>7
<1>7. "request" \in Ops /\ "approve" \in Ops
  BY DEF Ops
<1> QED BY <1>1, <1>3, <1>4, <1>5, <1>6, <1>7, StepIs DEF QuotaInv

(* assertBalance: granted leave of which no two requests were approved by  *)
(* calls that read the balance side by side never costs more than the      *)
(* year's entitlement, whoever decides and however requests are filed,     *)
(* cancelled and revived meanwhile.                                        *)
THEOREM NoOvergrant == Spec => []QuotaKept
<1>1. Init => QuotaInv
  <2> SUFFICES ASSUME Init PROVE QuotaInv
    OBVIOUS
  <2>1. \A s \in Sessions : ~Granting(call[s])
    BY DEF Init, Idle, RequestCall, Call, Granting
  <2>2. Approved = {}
    BY DEF Init, Approved
  <2>3. Taken({}) = 0
    BY SumEmpty DEF Taken
  <2>4. Limited => GrantedFits(Approved, crossed)
    <3>1. AnnualQuota \in Nat
      OBVIOUS
    <3>2. \A G \in SUBSET Approved : G = {}
      BY <2>2
    <3>3. \A G \in SUBSET Approved : Taken(G) = 0
      BY <2>3, <3>2
    <3> QED BY <3>1, <3>3 DEF GrantedFits
  <2> QED BY <2>1, <2>4, InitHolds, InitSideBySide DEF QuotaInv
<1>2. QuotaInv /\ [Next]_vars => QuotaInv'
  BY StepWithinQuota
<1>3. QuotaInv => QuotaKept
  BY QuotaKeptIs DEF QuotaInv
<1> QED BY <1>1, <1>2, <1>3, PTL DEF Spec

=================================================================================
