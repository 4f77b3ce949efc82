------------------------------- MODULE LeaveDesk ------------------------------
(***************************************************************************)
(* Leave requests and the attendance register of one employee.             *)
(*                                                                         *)
(* Every handler of the server reads, checks and writes in separate        *)
(* statements, with nothing locked in between, so each statement is a step *)
(* here and the calls of several sessions interleave.  What a call has     *)
(* read is kept in it until it writes.                                     *)
(*                                                                         *)
(* There is no clock in the state.  Punches carry their own time, and the  *)
(* wall clock matters only as the date that a request's notice and an      *)
(* entry by hand are held against: any date, at each reading.              *)
(***************************************************************************)
EXTENDS ShiftClock, Sums

CONSTANTS
  Terminals,      \* sessions that punch in and out
  Applicants,     \* sessions that file and cancel requests
  Reviewers,      \* sessions that approve and reject them
  Supervisors,    \* sessions that correct the register by hand
  Requests,       \* ids of the requests there may be
  Application,    \* what each of them asks for: first and last day, half day or not
  AnnualQuota,    \* of the one leave type, in half days; zero is no limit
  AllowNegative,  \* whether the rules let a balance be overdrawn
  MaxConsecutive, \* the longest leave, in half days; zero is no limit
  MinNotice,      \* days between filing and start; zero is none
  AllowFuture,    \* whether days to come may be recorded by hand
  ManualEntries,  \* what a supervisor may enter: times since midnight, and a status
  Punches,        \* bound: the moments that punches are made at
  MaxDay,         \* bound: the last day of the register
  MaxCorrections  \* bound: how often the register is corrected by hand

Days     == 0 .. MaxDay
Sessions == Terminals \cup Applicants \cup Reviewers \cup Supervisors

Statuses == {"present", "late", "half_day", "absent", "on_leave"}
Sources  == {"clock", "manual", "system"}

ASSUME LeaveDeskAssumption ==
  /\ Application \in [Requests -> [from : Days, to : Days, halfDay : BOOLEAN]]
  /\ \A r \in Requests : Application[r].from <= Application[r].to
  /\ \A r \in Requests : Application[r].halfDay => Application[r].from = Application[r].to
  /\ ManualEntries \subseteq [in  : {NoTime} \cup 0 .. DayLength - 1,
                              out : {NoTime} \cup 0 .. DayLength - 1,
                              status : Statuses \cup {"derived"}]
  /\ {AnnualQuota, MaxConsecutive, MinNotice, MaxDay} \subseteq Nat
  /\ Punches \subseteq Nat
  /\ \A at \in Punches : Day(at) <= MaxDay
  /\ MaxCorrections \in Nat
  /\ {AllowNegative, AllowFuture} \subseteq BOOLEAN
  /\ IsFiniteSet(Requests)

VARIABLES
  requests,   \* status of each request, "none" before it is filed
  register,   \* the row of each day, if it has one
  rows,       \* how many rows each day has had; a row's id is its number
  corrections,\* how often the register was corrected by hand
  call,       \* what each session is in the middle of
  overturned, \* requests that a decision or cancellation found no longer pending
  bare,       \* days a deletion, a failed write or an interrupted approval left without a row
  crossed     \* pairs of requests filed, or approved, by calls of which neither saw the other

vars == <<requests, register, rows, corrections, call, overturned, bare, crossed>>

Row(id, in, out, status, source) ==
  [id |-> id, in |-> in, out |-> out, status |-> status, source |-> source]

NoRow == Row(0, NoTime, NoTime, "none", "none")

(* op: the call; step: what it does next; req, day: what it is about; at:  *)
(* the time of the punch; seen: the row it has read; entry: the row it     *)
(* will write by hand.                                                     *)
Call(op, step, req, day, at, seen, entry) ==
  [op |-> op, step |-> step, req |-> req, day |-> day, at |-> at, seen |-> seen, entry |-> entry]

NoRequest == "no request"

RequestCall(op, step, r, day) == Call(op, step, r, day, NoTime, NoRow, NoRow)
PunchCall(op, step, day, at, seen) == Call(op, step, NoRequest, day, at, seen, NoRow)
RecordCall(day, seen, entry) == Call("record", "write", NoRequest, day, NoTime, seen, entry)

Idle == RequestCall("none", "none", NoRequest, 0)

Goes(s, c) == call' = [call EXCEPT ![s] = c]
Ends(s)    == Goes(s, Idle)
Free(s)    == call[s] = Idle
At(s, op, step) == call[s].op = op /\ call[s].step = step

Init ==
  /\ requests = [r \in Requests |-> "none"]
  /\ register = [d \in Days |-> NoRow]
  /\ rows = [d \in Days |-> 0]
  /\ corrections = 0
  /\ call = [s \in Sessions |-> Idle]
  /\ overturned = {} /\ bare = {} /\ crossed = {}

history == <<corrections, overturned, bare, crossed>>

-------------------------------------------------------------------------------
(* Leave *)

Span(r) == Application[r].from .. Application[r].to

Cost(r) == CountLeave(Application[r].from, Application[r].to, Application[r].halfDay)

Approved == {r \in Requests : requests[r] = "approved"}

Taken(granted) == SumOver([r \in Requests |-> Cost(r)], granted)

WithinBalance(r) ==
  AnnualQuota = 0 \/ AllowNegative \/ Taken(Approved) + Cost(r) <= AnnualQuota

\* Broken on purpose: a request that waits for its decision holds no days.
Overlapping_Approved(r) ==
  {q \in Requests : requests[q] = "approved" /\ Span(q) \cap Span(r) # {}}

Overlapping(r) ==
  {q \in Requests : requests[q] \in {"pending", "approved"} /\ Span(q) \cap Span(r) # {}}

Sensible(r, today) ==
  /\ MinNotice = 0 \/ Application[r].from >= today + MinNotice
  /\ Cost(r) > 0
  /\ MaxConsecutive = 0 \/ Cost(r) <= MaxConsecutive

\* Request and approval are each under way from their first read to their write.
Deciding(c, op) == c.op = op /\ c.step \in {"balance", "write"}

\* The requests that other sessions file, or approve, while this one starts on r.
Beside(s, op, r) ==
  {<<op, {r, call[t].req}>> :
     t \in {u \in Sessions \ {s} : Deciding(call[u], op) /\ call[u].req # r}}

Crossed(op, q, r) == <<op, {q, r}>> \in crossed

\* Request: its checks, then the insert.
AssertNoOverlap(s, r, today) ==
  /\ s \in Applicants
  /\ Free(s)
  /\ requests[r] = "none" /\ \A t \in Sessions : ~ (call[t].op = "request" /\ call[t].req = r)
  /\ Sensible(r, today) /\ Overlapping(r) = {}
  /\ Goes(s, RequestCall("request", "balance", r, 0))
  /\ crossed' = crossed \cup Beside(s, "request", r)
  /\ UNCHANGED <<requests, register, rows, corrections, overturned, bare>>

AssertBalance(s) ==
  /\ At(s, "request", "balance") \/ At(s, "approve", "balance")
  /\ IF WithinBalance(call[s].req)
       THEN Goes(s, RequestCall(call[s].op, "write", call[s].req, 0))
       ELSE Ends(s)
  /\ UNCHANGED <<requests, register, rows, history>>

CreateRequest(s) ==
  /\ At(s, "request", "write")
  /\ requests' = [requests EXCEPT ![call[s].req] = "pending"]
  /\ Ends(s)
  /\ UNCHANGED <<register, rows, history>>

\* Approve, Reject and Cancel read the request and go on if it is undecided.

\* Broken on purpose: the balance is only looked at when a request is filed.
ReadUndecided_NoRecheck(s, op, r) ==
  /\ Free(s)
  /\ s \in IF op = "cancel" THEN Applicants ELSE Reviewers
  /\ requests[r] = "pending"
  /\ Goes(s, RequestCall(op, "write", r, 0))
  /\ crossed' = IF op = "approve" THEN crossed \cup Beside(s, op, r) ELSE crossed
  /\ UNCHANGED <<requests, register, rows, corrections, overturned, bare>>

ReadUndecided(s, op, r) ==
  /\ Free(s)
  /\ s \in IF op = "cancel" THEN Applicants ELSE Reviewers
  /\ requests[r] = "pending"
  /\ Goes(s, RequestCall(op, IF op = "approve" THEN "balance" ELSE "write", r, 0))
  /\ crossed' = IF op = "approve" THEN crossed \cup Beside(s, op, r) ELSE crossed
  /\ UNCHANGED <<requests, register, rows, corrections, overturned, bare>>

Verdict(op) ==
  CASE op = "approve" -> "approved" [] op = "reject" -> "rejected" [] op = "cancel" -> "cancelled"

\* Then they write the whole row back; an approval goes on to the register.
WriteVerdict(s) ==
  LET r == call[s].req IN
  /\ \E op \in {"approve", "reject", "cancel"} : At(s, op, "write")
  /\ requests' = [requests EXCEPT ![r] = Verdict(call[s].op)]
  /\ overturned' = IF requests[r] = "pending" THEN overturned ELSE overturned \cup {r}
  /\ IF call[s].op = "approve"
       THEN Goes(s, RequestCall("approve", "find", r, Application[r].from))
       ELSE Ends(s)
  /\ UNCHANGED <<register, rows, corrections, bare, crossed>>

\* markAttendance, one day at a time.

\* Broken on purpose: the date is never moved on.
NextDay_Same(s) == Goes(s, RequestCall("approve", "find", call[s].req, call[s].day))

NextDay(s) ==
  IF call[s].day < Application[call[s].req].to
    THEN Goes(s, RequestCall("approve", "find", call[s].req, call[s].day + 1))
    ELSE Ends(s)

FindDay(s) ==
  /\ At(s, "approve", "find")
  /\ IF register[call[s].day] = NoRow
       THEN Goes(s, RequestCall("approve", "mark", call[s].req, call[s].day))
       ELSE NextDay(s)
  /\ UNCHANGED <<requests, register, rows, history>>

MakeRow(d, in, out, status, source) ==
  /\ rows' = [rows EXCEPT ![d] = @ + 1]
  /\ register' = [register EXCEPT ![d] = Row(rows[d] + 1, in, out, status, source)]
  /\ bare' = bare \ {d}

\* Broken on purpose: the first day is marked and the rest forgotten.
MarkDay_FirstOnly(s) ==
  LET d == call[s].day IN
  /\ At(s, "approve", "mark")
  /\ IF register[d] = NoRow
       THEN MakeRow(d, NoTime, NoTime, "on_leave", "system")
       ELSE UNCHANGED <<register, rows, bare>>
  /\ Ends(s)
  /\ UNCHANGED <<requests, corrections, overturned, crossed>>

\* The unique index on the day refuses a second row; nobody looks at the refusal.
MarkDay(s) ==
  LET d == call[s].day IN
  /\ At(s, "approve", "mark")
  /\ IF register[d] = NoRow
       THEN MakeRow(d, NoTime, NoTime, "on_leave", "system")
       ELSE UNCHANGED <<register, rows, bare>>
  /\ NextDay(s)
  /\ UNCHANGED <<requests, corrections, overturned, crossed>>

\* Nor does anybody look at any other failure of the write: the day stays as it
\* is, the next one is marked.
MarkFails(s) ==
  LET d == call[s].day IN
  /\ At(s, "approve", "mark")
  /\ register[d] = NoRow
  /\ bare' = bare \cup {d}
  /\ NextDay(s)
  /\ UNCHANGED <<requests, register, rows, corrections, overturned, crossed>>

-------------------------------------------------------------------------------
(* Attendance *)

Opened(in) == IF LateTime(Day(in), in) > 0 THEN "late" ELSE "present"

\* The punch may be any moment's: a terminal that was offline sends its own time.
FindToday(s, at) ==
  /\ s \in Terminals
  /\ Free(s)
  /\ register[Day(at)].in = NoTime
  /\ Goes(s, PunchCall("clock in", "write", Day(at), at, register[Day(at)]))
  /\ UNCHANGED <<requests, register, rows, history>>

\* An update by id: it finds nothing if the row was deleted since it was read.
Rewrite(d, seen, in, out, status, source) ==
  IF register[d].id = seen.id
    THEN register' = [register EXCEPT ![d] = Row(seen.id, in, out, status, source)]
    ELSE UNCHANGED register

\* Broken on purpose: a second tap writes over the first instead of failing.
ClockIn_Upsert(s) ==
  LET d == call[s].day IN
  /\ At(s, "clock in", "write")
  /\ IF register[d] = NoRow
       THEN MakeRow(d, call[s].at, NoTime, Opened(call[s].at), "clock")
       ELSE /\ Rewrite(d, register[d], call[s].at, NoTime, Opened(call[s].at), "clock")
            /\ UNCHANGED <<rows, bare>>
  /\ Ends(s)
  /\ UNCHANGED <<requests, corrections, overturned, crossed>>

\* A day that leave or a supervisor put on the register is upgraded; otherwise
\* a row is made, which the unique index refuses to the second of two punches.
ClockIn(s) ==
  LET d == call[s].day IN
  /\ At(s, "clock in", "write")
  /\ IF call[s].seen # NoRow
       THEN /\ Rewrite(d, call[s].seen, call[s].at, NoTime, Opened(call[s].at), "clock")
            /\ UNCHANGED <<rows, bare>>
       ELSE IF register[d] = NoRow
         THEN MakeRow(d, call[s].at, NoTime, Opened(call[s].at), "clock")
         ELSE UNCHANGED <<register, rows, bare>>
  /\ Ends(s)
  /\ UNCHANGED <<requests, corrections, overturned, crossed>>

IsOpen(row) == row.in # NoTime /\ row.out = NoTime

\* findOpenDay: the row of the punch's day, unless there is none or it is closed ...
FindOpenToday(s, at) ==
  LET row == register[Day(at)] IN
  /\ s \in Terminals
  /\ Free(s)
  /\ IF row # NoRow /\ row.out = NoTime
       THEN /\ row.in # NoTime /\ row.in <= at
            /\ Goes(s, PunchCall("clock out", "write", Day(at), at, row))
       ELSE Goes(s, PunchCall("clock out", "yesterday", Day(at) - 1, at, NoRow))
  /\ UNCHANGED <<requests, register, rows, history>>

\* Broken on purpose: the day before's row is taken whether it is open or not.
FindOpenYesterday_AnyRow(s) ==
  LET d == call[s].day IN
  /\ At(s, "clock out", "yesterday")
  /\ IF d \in Days /\ register[d].in # NoTime /\ register[d].in <= call[s].at
       THEN Goes(s, PunchCall("clock out", "write", d, call[s].at, register[d]))
       ELSE Ends(s)
  /\ UNCHANGED <<requests, register, rows, history>>

\* ... and then the day before's if it is open; a night shift ends the day after.
FindOpenYesterday(s) ==
  LET d == call[s].day IN
  /\ At(s, "clock out", "yesterday")
  /\ IF d \in Days /\ IsOpen(register[d]) /\ register[d].in <= call[s].at
       THEN Goes(s, PunchCall("clock out", "write", d, call[s].at, register[d]))
       ELSE Ends(s)
  /\ UNCHANGED <<requests, register, rows, history>>

ClockOut(s) ==
  LET d == call[s].day
      seen == call[s].seen
  IN
  /\ At(s, "clock out", "write")
  /\ Rewrite(d, seen, seen.in, call[s].at, DayStatus(d, seen.in, call[s].at), seen.source)
  /\ Ends(s)
  /\ UNCHANGED <<requests, rows, history>>

\* Times entered by hand are those of the day.
On(d, t) == IF t = NoTime THEN NoTime ELSE d * DayLength + t

\* Broken on purpose: an entry without times and status keeps none.
Entered_Underived(d, e) == Row(0, On(d, e.in), On(d, e.out), e.status, "manual")

\* The row a supervisor's entry makes of a day.
Entered(d, e) ==
  LET status == IF e.status # "derived" THEN e.status
                ELSE IF e.in # NoTime /\ e.out # NoTime THEN DayStatus(d, On(d, e.in), On(d, e.out))
                ELSE "absent"
  IN Row(0, On(d, e.in), On(d, e.out), status, "manual")

FindRecorded(s, d, e, today) ==
  /\ s \in Supervisors
  /\ Free(s)
  /\ AllowFuture \/ d <= today
  /\ e.in # NoTime /\ e.out # NoTime => e.in <= e.out
  /\ corrections < MaxCorrections /\ corrections' = corrections + 1
  /\ Goes(s, RecordCall(d, register[d], Entered(d, e)))
  /\ UNCHANGED <<requests, register, rows, overturned, bare, crossed>>

Record(s) ==
  LET d == call[s].day
      e == call[s].entry
  IN
  /\ At(s, "record", "write")
  /\ IF call[s].seen # NoRow
       THEN /\ Rewrite(d, call[s].seen, e.in, e.out, e.status, e.source)
            /\ UNCHANGED <<rows, bare>>
       ELSE IF register[d] = NoRow
         THEN MakeRow(d, e.in, e.out, e.status, e.source)
         ELSE UNCHANGED <<register, rows, bare>>
  /\ Ends(s)
  /\ UNCHANGED <<requests, corrections, overturned, crossed>>

\* One statement.
Delete(s, d) ==
  /\ s \in Supervisors
  /\ Free(s)
  /\ register[d] # NoRow
  /\ corrections < MaxCorrections /\ corrections' = corrections + 1
  /\ register' = [register EXCEPT ![d] = NoRow]
  /\ bare' = bare \cup {d}
  /\ UNCHANGED <<requests, rows, call, overturned, crossed>>

-------------------------------------------------------------------------------

\* Once the verdict is written the server restarts, or a day cannot be looked up:
\* the rest of the approval is not done.  (Other calls write once, at their end;
\* cut short they leave nothing behind.)
Interrupt(s) ==
  /\ At(s, "approve", "find") \/ At(s, "approve", "mark")
  /\ Ends(s)
  /\ bare' = bare \cup {d \in call[s].day .. Application[call[s].req].to : register[d] = NoRow}
  /\ UNCHANGED <<requests, register, rows, corrections, overturned, crossed>>

\* What a session does of itself once its call is under way.
Proceed(s) ==
  \/ AssertBalance(s) \/ CreateRequest(s) \/ WriteVerdict(s)
  \/ FindDay(s) \/ MarkDay(s)
  \/ ClockIn(s) \/ FindOpenYesterday(s) \/ ClockOut(s)
  \/ Record(s)

Next ==
  \E s \in Sessions :
    \/ \E r \in Requests, today \in Days : AssertNoOverlap(s, r, today)
    \/ \E r \in Requests, op \in {"approve", "reject", "cancel"} : ReadUndecided(s, op, r)
    \/ \E at \in Punches : FindToday(s, at)
    \/ \E at \in Punches : FindOpenToday(s, at)
    \/ \E d \in Days, e \in ManualEntries, today \in Days : FindRecorded(s, d, e, today)
    \/ \E d \in Days : Delete(s, d)
    \/ Proceed(s)
    \/ MarkFails(s)
    \/ Interrupt(s)

Spec == Init /\ [][Next]_vars

\* A call that is under way goes on until it is done or interrupted.
FairSpec == Spec /\ \A s \in Sessions : WF_vars(Proceed(s))

-------------------------------------------------------------------------------

RowType ==
  {NoRow} \cup [id : Nat \ {0}, in : {NoTime} \cup Nat, out : {NoTime} \cup Nat,
                status : Statuses, source : Sources]

TypeOK ==
  /\ requests \in [Requests -> {"none", "pending", "approved", "rejected", "cancelled"}]
  /\ register \in [Days -> RowType]
  /\ rows \in [Days -> Nat]
  /\ corrections \in 0 .. MaxCorrections
  /\ \A d \in Days : register[d].id \in {0, rows[d]}
  /\ overturned \subseteq Requests
  /\ bare \subseteq Days
  /\ crossed \subseteq {"request", "approve"} \X SUBSET Requests

(* hrm_leave_service.go, Approve: the balance is checked again when a      *)
(* request is decided, so requests that wait side by side cannot together  *)
(* be granted more than the year's entitlement.  The check locks nothing:  *)
(* what it bounds is any set of granted requests of which no two were      *)
(* approved by calls that read the balance side by side.                   *)
QuotaKept ==
  AnnualQuota > 0 /\ ~AllowNegative =>
    \A granted \in SUBSET Approved :
      (\A q, r \in granted : q # r => ~Crossed("approve", q, r)) =>
        Taken(granted) <= AnnualQuota

(* FindOverlapping: no day is booked by two requests that stand.  There    *)
(* are two ways round it.  Two calls that file side by side each look for  *)
(* overlaps before the other has inserted.  And a verdict that lands on a  *)
(* request cancelled after the verdict's call had read it revives one      *)
(* whose days may have been given to another.                              *)
NoDoubleBooking ==
  \A q, r \in Requests :
    /\ q # r
    /\ {requests[q], requests[r]} \subseteq {"pending", "approved"}
    /\ Span(q) \cap Span(r) # {}
    => Crossed("request", q, r) \/ {q, r} \cap overturned # {}

(* markAttendance and ClockIn: an arrival on the register is replaced only *)
(* by a supervisor.  Leave approved over a day somebody works does not     *)
(* hide it, however the two interleave, and a second tap does not move an  *)
(* arrival, unless it goes by an older reading of the day's row.           *)
ArrivalStands ==
  [][\A d \in Days :
       register[d].in # NoTime /\ register'[d].in # register[d].in =>
         \/ register'[d].source = "manual"
         \/ register'[d] = NoRow
         \/ \E s \in Terminals :
              call[s].day = d /\ call[s].seen \notin {NoRow, register[d]}]_vars

\* Days that an approval under way has still to mark.
Ahead(r) ==
  UNION {call[s].day .. Application[r].to :
           s \in {t \in Sessions : /\ call[t].req = r /\ call[t].op = "approve"
                                   /\ call[t].step \in {"find", "mark"}}}

(* markAttendance: granted leave shows on the register, one row for each   *)
(* day of it, unless somebody deleted the row, the write of that very day  *)
(* failed or the call was cut short; a failed write costs no other day.    *)
LeaveOnRegister ==
  \A r \in Approved : \A d \in Span(r) \ (bare \cup Ahead(r)) : register[d] # NoRow

(* lateMinutes: whoever punches in during a shift is late exactly if the   *)
(* grace period since it started is over, also after midnight.  (A punch   *)
(* before a shift that crosses midnight is not covered: it is rolled       *)
(* forward and counts as most of a day late.)                              *)
LateIffPastGrace ==
  \A d \in Days \ WeeklyOff :
    LET row == register[d]
        began == IF row.in % DayLength >= ShiftStart
                   THEN d * DayLength + ShiftStart
                   ELSE (d - 1) * DayLength + ShiftStart
        ends == began + (IF CrossesMidnight THEN DayLength ELSE 0) + ShiftEnd - ShiftStart
    IN row.source = "clock" /\ IsOpen(row) /\ Day(row.in) = d /\ row.in < ends =>
         (row.status = "late" <=> row.in > began + Grace)

(* findOpenDay, ClockOut: a day gets the end it has by hand, or from a     *)
(* punch of that date or the one after, not before the arrival, whose call *)
(* had read this very row open.  In particular a closed day is closed      *)
(* again only if two clock-outs read it open.                              *)
ClosesOpenDay ==
  [][\A d \in Days :
       register'[d].out \notin {NoTime, register[d].out} =>
         \E s \in Sessions :
           LET c == call[s] IN
           /\ c.day = d
           /\ \/ At(s, "record", "write")
              \/ /\ s \in Terminals /\ At(s, "clock out", "write")
                 /\ IsOpen(c.seen) /\ c.seen.id = register[d].id
                 /\ Day(c.at) \in {d, d + 1} /\ c.seen.in <= c.at
                 /\ register'[d].out = c.at]_vars

(* Granted leave gets to the register in the end, or the call that grants  *)
(* it was cut short, the day's write failed or its row was deleted: no     *)
(* approval leaves other days behind for ever, whatever else is filed,     *)
(* punched and recorded meanwhile.                                         *)
LeaveGetsMarked ==
  []<>(\A r \in Approved : \A d \in Span(r) \ bare : register[d] # NoRow)
===============================================================================
