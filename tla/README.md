# Verification of YK-pos

YK-pos is a local-first point of sale. A till is a Next.js page that keeps everything it
needs to sell in IndexedDB (through Dexie) and talks to a Go server (Fiber, Postgres, Redis)
when there is a network. Selling never waits for the server: a sale, a new product, an edit
or a deletion is written locally, and a background *sync manager* reconciles both sides.

This directory holds TLA+ models of that system, TLC configurations that check them on small
instances, and TLAPS proofs of what they promise for every instance.

## 1. Inventory

### 1.1 Parts, their state and their operations

| Part | Code | State | Operations |
|---|---|---|---|
| Sync manager | `frontend/src/lib/sync/index.ts` | per tab: timer, `running`, failure streak, subscription | `start`, `stop`, connection change, timer, `triggerSync`, one `syncOnce` cycle (push orders, push creates, push edits, push deletes, pull) |
| Order queue | `frontend/src/lib/db/index.ts` (`pendingOrders`) | rows with `sync_status` pending, syncing, synced, conflict, error | `createLocalOrder`, `claimBatch`, `releaseOrphanedClaims`, outcome writes |
| Local catalogue | same file (`products`, `deletedProducts`) | rows with `_local_only` / `_pending_update`; the delete outbox | `addProduct`, `updateProduct`, `deleteProduct`, `seedProducts`, flag and tombstone clearing |
| Local stock | `frontend/src/lib/db/inventory.ts` | `stock_quantity`, `stockMovements` | movements, sales |
| Purchasing and transfers | `purchases.ts`, `inventory.ts` (`transferStock`) | `purchaseOrders`, `purchaseReturns`, reference sequence, `batches` of a product | create, cancel, receive goods, return, transfer |
| Cart and checkout | `cart-math.ts`, `held-carts.ts`, `use-cart.ts`, `discounts.ts` | `cartItems`, `heldCarts` | add, hold, resume, totals, discounts |
| Order booking | `backend/internal/{handler,service,repository}/order_*` | `orders`, `order_items`, `stock_movements`, product stock | `POST /orders/sync`, listings |
| Product catalogue | `backend/internal/{handler,service,repository}/product_*` | `products` (soft delete), batches | list, create, update, delete |
| Sessions | `auth_service.go`, `token_service.go`, `token_denylist.go`, `password_reset_service.go` | users, refresh-token families, denylist | login, refresh, logout, password change and reset |
| Authorization | `authorization_service.go`, `role_service.go`, `user_service.go` | roles, permissions, per-process cache | permission checks, role changes, invalidation |
| Leave and attendance | `hrm_leave_service.go`, `hrm_attendance_service.go` | leave requests, register | request, decide, cancel, clock in and out |
| Payroll | `hrm_payroll_service.go` | runs and payslips | generate, adjust, finalise, pay, delete |
| Other HRM, audit, reports | the remaining `hrm_*` and `audit_service.go` | single rows | create, read, update, delete; read-only reports |
| Local HRM and staff | `lib/db/{employees,attendance,leave-requests,payroll,users}.ts` | device-local tables | single-row writes, never synced |
| Interface and devices | `app/`, `components/`, `lib/hardware/` | none shared | presentation, scanners, scales, printing |

### 1.2 How they interact

* A completed sale is one IndexedDB transaction: cart, order queue, stock, movement ledger and
  receipt counter together.
* All tabs of a browser profile share one IndexedDB. Each tab runs its own sync manager; there
  is no lock or leader between tabs. Mutual exclusion is a row's status (`syncing`) for orders
  and nothing at all for the catalogue.
* A cycle is a sequence of awaited HTTP calls. Operators keep selling and editing between any
  two of them; what was read before an `await` may be stale after it.
* The HTTP client sets no timeout and never cancels, so a request survives the page that made
  it, and may be carried out after a retry of it has been answered.
* A goods receipt, a return and a transfer are several IndexedDB transactions, one for each
  stock movement, and each movement feeds the local stock that a sale and a pull also write.
* An approval of leave writes the attendance register that punches and supervisors write; a
  payroll run reads that register and the approved leave once and keeps what it computed.
* The till's own HRM tables are a device-local version of the server's and share nothing with it.
* The server makes every step it shares with the till idempotent on an id the till chose:
  `client_generated_id` for orders, the product id for creates.

### 1.3 What is hard, and what makes each part correct

* **Order queue.** Lost answers, reloads between claim and outcome, two tabs, late copies of a
  request, a bad order in a batch, batches full of failing orders. Correct when every sale is
  booked at most once, none is dropped while the server does not have it, none waits for ever.
* **Catalogue.** Edits and deletes while a push or a pull is in the air, replays of creates,
  other devices. Correct when unsent work is never undone by a pull, a deletion is final, and
  both sides agree once left alone.
* **Stock.** Two figures for one quantity, moved by different events; clamping at zero.
* **Sessions.** Concurrent refreshes with one token; reuse detection racing a rotation.
* **Purchasing.** Operations of several transactions that a closed tab cuts anywhere, and whole
  orders put back over what another tab wrote. Correct when no record tells of goods that were
  not booked, and what ran through alone adds up.
* **Leave and attendance.** Each handler reads, checks and writes in separate statements with
  nothing locked. Correct when the quota is kept, no day is booked twice, granted leave reaches
  the register, and an arrival is not hidden or moved.
* **Payroll.** A status checked before the transaction; a header written outside it. Correct when
  no run is half written, payslips add up and move with their run, and final figures stand.

Every such hazard is listed in `PROJECT.json` at the line where it bites.

## 2. Modules

| Module | Models |
|---|---|
| `SaleLedger` | abstract: what is promised about a sale |
| `OrderSync` | order queue, sync managers of several tabs, network, order booking |
| `CatalogueSync` | local catalogue, delete outbox, catalogue phases of a cycle, product service |
| `StockFlow` | a product's stock on the till and at the server, and the events that move it |
| `GoodsDesk` | purchase orders, receipts, returns and transfers of several tabs |
| `ShiftClock` | lateness, the status of a worked day, how leave is counted |
| `LeaveDesk` | leave requests and the attendance register of one employee |
| `PayMath` | the arithmetic of a payslip |
| `PayrollRuns` | the payroll of one month |
| `PayrollMonth` | abstract: what is promised about a month's payslips |
| `Sums` | sums over finite sets |
| `X_proofs`, for each of the six detailed modules `X` | theorems about it |
| `PayrollMonth_proofs`, `Sums_proofs` | the refinement of `PayrollMonth`; what sums are |
| `MCX`, for each of them | its instances for TLC |

`OrderSync`, `CatalogueSync` and `StockFlow` look at the same sync cycle from three sides: who
holds which order, what becomes of a product's content, and what becomes of its stock. Each
keeps whole the part it is about and reduces the others to what they contribute. `GoodsDesk`
takes over where `StockFlow` sees single movements: how they are put together. `LeaveDesk` and
`PayrollRuns` extend the arithmetic they use (`ShiftClock`, `PayMath`); they meet in what a run
reads of register and leave, which for `PayrollRuns` is any of a set of books each time.
Definitions named `X_Something` and marked "broken on purpose" are mutated forms of `X`; no
specification uses them.

### 2.1 OrderSync

| Model | Code |
|---|---|
| `pendingOrders` | `sync_status` of each row of the Dexie table; "absent" before the sale |
| `tab`, `online`, `timer` | `SyncManager` started or stopped, `useConnectionStore.online`, the armed `setTimeout` |
| `run[t]` | the `syncOnce()` in flight: `phase` is where it awaits, `timed` whether `scheduleNext` arms the next cycle at its end, `batch` what it claimed, `todo`/`ok` the server's progress on its request |
| `abandoned` | orders in requests whose page is gone or whose answer was lost: `fetch` is never cancelled, so the server may still carry them out |
| `orders`, `deductions` | rows of `orders`; how often each order's lines were taken from stock |
| `Start` then `ReleaseOrphanedClaims` | `start()` subscribes first and releases claims in a promise; a cycle may begin in between |
| `ClaimBatch` | `claimBatch`: the first `BatchSize` syncable rows in primary-key order, in one transaction |
| `ReceiveResults`, `ReceiveRejection`, `LoseRequest` | the `try` and `catch` of `pushPendingOrders` |
| `CanServe`, `StoreOrder`, `FailOrder`, `SyncOne` | validation of the whole body, then one transaction per order |
| `CloseTab` | the page is reloaded or closed, with whatever is on the wire |

`batch \ (todo \cup ok)` is what the server answered "error" for. The delay before the next
cycle, and so the failure streak and the back-off, is not modelled: an armed timer may fire at
any time. `Unstorable` orders are those whose transaction the database refuses each time (the
foreign key of a line); `Malformed` ones fail body validation, and with them their whole batch.

### 2.2 CatalogueSync

| Model | Code |
|---|---|
| `products`, `deletedProducts` | the Dexie tables; a row is a version number and its two flags |
| `cycle[t]` | the catalogue phase a tab is in, the calls its loop still has to make, the one awaited and its reply, the pulled list |
| `late` | calls nobody waits for any more |
| `catalogue`, `softDeleted` | the server's `products` with `deleted_at` |
| `made`, `mine`, `unsent` | history: versions made so far, the last version written in this browser, products whose last edit was never stored |
| `AddProduct`, `UpdateProduct`, `DeleteProduct` | the functions of `db/index.ts` with their flags and tombstone |
| `BeginCycle`, `NextPhase` | listing what a phase will push; the list is not read again |
| `SendNext`, `ReceiveReply`, `LoseCall` | one iteration of a push loop: await, clear the flag, or carry on after a failure |
| `ListForBusiness`, `SeedProducts` | the pull: read by the server at one moment, written to the till at a later one |
| `Create`, `Update`, `Delete`, `Handle` | the product service |
| `Refuse` | 404, 409 or 422: one nondeterministic refusal, after which the loop carries on and the row keeps its flag, so that the next cycle sends the same again |
| `ElsewhereWrite`, `ElsewhereDelete` | another device of the business |

### 2.3 StockFlow

| Model | Code |
|---|---|
| `products` | `stock_quantity` and the flags of each local row |
| `movements` | `balance_after` of a product's last movement, or "none" once a pull or the edit form overwrote it |
| `queue`, `cycle` | a sale's place in the queue and the cycle of the one tab, reduced to what matters for stock |
| `lateSales`, `lateCreates` | requests nobody waits for any more |
| `catalogue`, `orders` | the server's stock and booked orders |
| `line`, `opening`, `soldEarly`, `movedEarly` | history: what each sale sells, what a product started with, products sold, or moved or given another figure by hand, while their row waited for its create (an edit before the create is even listed, and before any sale, is only another opening stock) |
| `CreateLocalOrder`, `RecordStockMovement` | the two paths through `MoveStock`: clamp at zero, journal the clamped balance |
| `UpdateProduct` | the edit of the store page, which leaves the stock out |
| `SaveProductForm` | the edit page (`products/[id]/edit/page.tsx:288-294`): it passes the whole product, `stock_quantity` included, to `updateProduct` (`db/index.ts:421-424`), and no movement is journalled |
| `SendCreate`, `HandleCreate`, `Create`, `RefuseCreate` | the create carries the stock the row had when it was listed; a stored id is left alone; a refused one stays flagged |
| `PushEdits` | the edit phase: some of the flagged rows are accepted and lose the flag; the server takes no stock from an edit |
| `BookSale`, `SyncOne` | `InsertIfNew` and `ApplyDelta` in one transaction; a line whose product is unknown fails (`HasProduct`) |
| `SeedProducts` | rows that are not flagged are replaced, stock included |

A manual movement stands for counts, waste, goods receipts, returns and each leg of a
transfer; none of them is sent to the server, so the next pull undoes it. A sale has one line.
A product is not deleted; what deletion does is in `CatalogueSync`.

### 2.4 GoodsDesk

| Model | Code |
|---|---|
| `orders`, `sequence` | the purchase orders (status, reference, received units of each line) and the day's reference counter |
| `booked`, `out`, `in`, `sentBack` | the stock journal, summed by what a movement is for |
| `returned` | units on recorded purchase returns |
| `batches`, `arrived` | receipts whose batch is on the product; receipts that were booked (history) |
| `gone` | products no longer on the till: `recordStockMovement` refuses them and the caller ignores it |
| `call[d]` | the operation a tab is in: the order it has read, its copy counted up since, the lines still to go |
| `marred`, `halved`, `raced` | history: what was cut short or written over something unread |
| `ReadSequence`, `WriteSequence`, `AddOrder` | `createPurchaseOrder` with `nextPurchaseReference` |
| `GetOrder`, `BookLine`, `SkipLine`, `ReadBatches`, `AppendBatch`, `PutOrder` | `receiveGoods`, one await at a time |
| `TransferOut`, `TransferIn`; `AddReturn`, `SendBack` | `transferStock`; `createPurchaseReturn` |
| `CancelOrder` | `updatePurchaseOrderStatus`, also from a page that was opened before |
| `Pull`, `RemoveProduct` | the server's list replaces the rows, batches included; a product disappears |

### 2.5 LeaveDesk and ShiftClock

| Model | Code |
|---|---|
| `requests` | `status` of each leave request |
| `register`, `rows` | the attendance row of each day; rows made so far, a row's id being its number |
| `call[s]` | what a handler has read: the request, the row, the time of the punch |
| `overturned` | history: requests a verdict found no longer pending |
| `crossed` | history: pairs of requests filed, or approved, by two calls that were under way together, so that neither saw what the other was about to write |
| `bare` | history: days without a row after a deletion, a failed write or an interrupted approval |
| `AssertNoOverlap`, `AssertBalance`, `CreateRequest` | `Request` |
| `ReadUndecided`, `AssertBalance`, `WriteVerdict` | `Approve`, `Reject`, `Cancel`: read, check, save the whole row |
| `FindDay`, `MarkDay` | `markAttendance`, day by day after the approval, each a read and a create |
| `MarkFails` | the create fails and `_ = s.attendance.Create` drops the error: that day stays unmarked, the next one is looked up |
| `Interrupt` | the server stops, or a lookup fails: the rest of the days is not marked |
| `FindToday`, `ClockIn`; `FindOpenToday`, `FindOpenYesterday`, `ClockOut` | `ClockIn`; `findOpenDay` and `ClockOut` |
| `FindRecorded`, `Record`; `Delete` | the supervisor's entry and deletion |
| `LateTime`, `DayStatus`, `CountLeave` | `lateMinutes`, `applyWorkedTime`, `countLeaveDays` |

No clock is part of the state. The moment of a punch is an input, because `resolveClock`
(`hrm_attendance_handler.go:228-237`) honours an `at` that the client sends, so punches need not
arrive in the order of their times; the server's date matters only as the `today` that a request's
notice and an entry by hand are held against, and is an input of those actions too.

The unique index on employee and date and an update by id are modelled as what they do: a second
row is refused, an update of a deleted row changes nothing. Leave is counted in half days.

### 2.6 PayrollRuns and PayMath

| Model | Code |
|---|---|
| `run`, `slips` | the month's run with its stored rules; each employee's payslip with its lines and totals |
| `call[s]` | the handler a manager is in and what it has read |
| `overtaken`, `raced`, `cutShort` | history: calls another has written under; whether such a call wrote; whether a transition stopped after the header |
| `ResolveRun`, `ReadBooks` | `Generate`: settings and run, then register and leave |
| `ClearPayslips`, `WriteRun`, `RunIsTaken` | its transaction, `ReplacePayslips` included: the delete, then the inserts and the commit, or its refusal (a unique period, a run that is gone, a second payslip of one employee in a run) |
| `begun`, `mixed` of a payslip | history: the number of generations committed when its own began; whether the adjustment that saved it last had been overtaken |
| `BeginTransition`, `UpdateRunStatus`, `SetPayslipStatus` | `transition`: status check, header on the repository's own connection, payslips |
| `FindPayslip`, `ClearLines`, `SavePayslip` | `AdjustPayslip`: the transaction deletes the lines it sees, and saves totals and status as it has read and reckoned them |
| `BeginDelete`, `DeleteRun` | `DeleteRun` |
| `Earned`, `Withheld`, `Net`, `Rounded` | `computePayslip`, `retotal`, `percentOf`, `roundCents` |

The transaction runs at READ COMMITTED, Postgres' default: its DELETE sees what is committed at that
moment and not what another generation is about to insert. `ClearPayslips` therefore records which
generations of payslips it saw, `WriteRun` keeps the others (`KeptSlips`), and the unique index on run
and employee (`00016_hrm.sql:370`) refuses it when one of those is of an employee it pays
(`Insertable`). Two generations for disjoint employees both commit.

`PayrollMonth` has the same five operations, each one step on all payslips at once: `Generate`,
`Adjust`, `Advance` (to finalised, to paid) and `Discard`. It has no calls, no run and no lines;
a payslip is its amounts and its status. `orderly` says whether the promise still stands.

Amounts are exact quotients rounded half away from zero, where the code rounds a floating-point
number; the two may differ by a cent when the quotient is a half that binary fractions miss.

## 3. What is checked

### 3.1 Runs that pass

| Run | Question | Instance |
|---|---|---|
| `order_sync_tabs` | do two tabs, reloads, lost answers and late requests ever take stock twice, drop a sale or kill the cycle, and is the ledger implemented? | two tabs, three sales, batches of two, sale 2 malformed |
| `order_sync_till` | with one tab: are claims owned, final statuses final, does every sale settle? | one tab, four sales, batches of two, sale 3 malformed, sale 1 unstorable |
| `catalogue_sync` | does local work survive pulls, does a deletion stay one, do both sides agree in the end? | two tabs, one product, three versions, two late calls |
| `stock_flow` | do ledger, till and server figures agree? | one product, two sales, quantity and opening stock up to one |
| `goods_desk` | do orders, batches and statuses tell the truth however operations are cut short? | two tabs, two products, two orders, three operations |
| `leave_desk` | are quota, bookings, register and arrivals kept although nothing is locked, and what exactly can two calls side by side break? | one employee, two overlapping requests, two sessions that both file and review, punches at two moments, two days |
| `payroll_runs` | is a run ever half written, do figures and statuses stand, and is each call atomic? | two managers, two employees, two rule books, three generations, two adjustments |

*Order queue.* `StockDeductedOnce` ties the stock taken to the rows stored, whatever was sent
twice. `SyncedIsStored` is what makes it safe to forget a sale. `LoopAlive` says that an open,
online tab always has its next cycle armed or a run that will arm it. `ClaimsOwned` and
`FinalStatus` hold with one tab only; 3.2 tells what a second one does. `SalesSettle` and
`SalesDelivered` are the liveness of the queue. `ImplementsLedger` is the refinement: `rung` is
the set of sales in the queue, `booked` the number of deductions. A malformed sale is not
`Acceptable`, so the ledger never books it, in whatever batch it travels.

*Catalogue.* `FlaggedRowIsMine` and `TombstoneHidden` are the two halves of `seedProducts`'s
comment. `KnownToServer` is "a create must land before the edit that refers to it".
`DeleteIsFinal` is about replayed creates and late updates. `Converges` says that, left alone,
every product settles, or the server says no to its create or its edit again and again. It may do so
for ever: a create or edit whose SKU or barcode is taken is answered 409, an invalid one 422
(`sync/index.ts:241-245` and `268-271`, `API_CONTRACT.md:121-123`), and an edit of a product that
another device deleted 404. `Refuse` is an ordinary step, so nothing in the premise hides this.

*Stock.* `BalanceIsStock` is the claim of `recordStockMovement`'s comment, for what goes through
sales and movements, however they interleave with a sync cycle. It ends when something else writes
the stock: a pull, and the edit form, against the comment (3.2). It is about the
balance: a clamped sale records its full `quantity_delta`, so the deltas need not add up.
`ServerStockExact` is arithmetic over histories: opening figure less booked quantities, for
products that were not sold, moved or given another figure between the listing of their create and
its answer, nor sold or moved before. It says in particular that nothing the edit form writes later
reaches the server's figure. `FiguresAgree` says of each product that the till ends up showing the
server's figure with none of its sales queued, whatever the form or a movement wrote before, unless
the server refuses its create or its edit again and again; a refused row keeps its flag and
therefore its own figure.

*Purchasing.* `NotOverstated` says that neither an order nor a batch ever tells of goods that
were not booked; the understatement a closed tab leaves behind is what it allows.
`ShownWhenDone` and `LegsMatch` are the other half: what was neither cut short nor overwritten
adds up. `StatusTellsLines` survives receipts and cancellations that overwrite each other,
because a put writes lines and status together.

*Leave.* The checks of a request and of an approval lock nothing, and both sessions of the instance
file and review. `QuotaKept` bounds every set of granted requests of which no two were approved side
by side (`crossed`): two approvals that both read the balance before either wrote can overspend it
together, and nothing else can. `NoDoubleBooking` has two exceptions and no other: two calls that
filed side by side, each past its look for overlaps before the other inserted
(`hrm_leave_service.go:244-263`), and a verdict that revives a request cancelled after it was read
(`overturned`). `LeaveOnRegister` and `LeaveGetsMarked` are the safety and the liveness of
`markAttendance`, which runs after the verdict is stored: they leave out exactly the days whose write
failed unnoticed, whose row was deleted, or which an interrupted approval had not come to, so a failed
write costs its own day and no other. `ArrivalStands` names the only stale punches that can move an
arrival. `ClosesOpenDay` ties the end a day gets to the call that gave it: a supervisor's entry, or a
punch of that date or the next one, not before the arrival, whose call had read this very row open; so
a closed day is closed again only when two clock-outs read it open. `LateIffPastGrace`
compares `lateMinutes` with the shift as an interval of absolute time, also across midnight.

*Payroll.* `NoHalfRun` says how whole a run is. Each generation is all there under one set of rules,
and every payslip belongs to the run. Payslips of two generations can stand side by side, but only if
the later one had begun before the earlier one committed: whatever was there when a generation began
is gone when it commits. `LinesAddUp` exempts a payslip whose last save was by a call that had been
overtaken (`mixed`), until the next adjustment mends it. `FinalFiguresStand` and `StatusGoesForward` exempt
a step (`IsLate`) of a call that had been overtaken, and hold again in the next one. That the exemption is needed is
what the hazards in `PROJECT.json` say of these lines: the status is checked before the transaction,
so a late adjustment can reopen a final payslip and a late header can turn a paid run back.
`SlipsFollowRun` and `ImplementsMonth` exempt whole behaviours, by `raced` and `cutShort`: they are
about calls that interleave without writing over what another has read, and do not cover races.
`cutShort` exempts what `payroll_half_final` shows.
`ImplementsMonth` is the refinement: what staff see of the slips is a history of atomic
operations. A transition takes effect when the payslips are turned, not when the header is, so a
draft behind a frozen header is still a draft of the month. `Orderly` gives the promise up when a
call writes over what it did not read, when a transition is cut short, and also when something is
written while another call stands between header and payslips.

### 3.2 Runs that are violated

Each checks one sentence of the code or its documents, and TLC finds a behaviour of the code
that breaks it. The sentences are quoted in `PROJECT.json` under `findings`.

| Run | What the counterexample shows |
|---|---|
| `order_sync_stranded` | a valid sale in a batch with a malformed one is parked as `conflict` and never sent again |
| `catalogue_edit_lost` | an edit made while a push of the row is awaited loses its flag with that push and is overwritten by the next pull |
| `catalogue_resurrected` | a product deleted while its create is in the air leaves no tombstone and comes back with the next pull |
| `stock_taken_twice` | a sale made before its product's create was pushed is taken from the stock by the create's figure and again by the order |
| `payroll_half_final` | a finalisation stopped between header and payslips leaves drafts behind a frozen header, and cannot be repeated |

Six more divergences were met and have no run of their own:

* Starting a second tab releases the claims of the first one's run, so both send the same sale,
  against the comment on `claimBatch`; the server books it once (`StockDeductedOnce`, which is
  checked with two tabs). A late failure may also put a synced sale back to `error`.
* A batch full of sales that the database refuses is claimed first in each cycle, and the sale
  behind them is never sent. `SalesSettle` is checked with fewer such sales than a batch.
* The comment on `IsDecided` (`entity/hrm_leave.go:72`) says that a stale tab cannot reverse an
  approval. The check and the write are separate statements, so it can (`overturned`).
* The rules a regenerated draft was computed with are set on the loaded run and never written
  (`hrm_payroll_service.go:221`); `NoHalfRun` says which rules the stored ones are.
* `recordStockMovement` calls itself the single entry point for stock changes, so that figure and
  ledger "can never disagree" (`inventory.ts:27-29`). The edit page writes `stock_quantity` without it
  (`SaveProductForm`), and they disagree from then on until a movement or a pull.
* A generation "replaces its payslips wholesale" (`hrm_payroll_service.go:106-116`). Two that run
  together for disjoint employees leave the payslips of both, since neither delete sees the other's
  inserts; `NoHalfRun` bounds what is left.

### 3.3 Bounds, and why they are enough

* *Tabs:* two. Everything tabs share is in IndexedDB, and a hazard between tabs is between one
  that holds a list or a claim and one that changes what it was read from.
* *Orders:* three or four with batches of two, so that a batch is full, a sale is left behind
  it, a batch mixes good and bad sales, and a new batch is formed after an answer. Starvation
  needs a full batch of refused sales and one more.
* *Catalogue:* the properties and the code treat products one by one, except that one list
  carries several; one product with three versions has room for a create, an edit in flight and
  one more at another device. Two late calls let a late update overtake a late create.
  `MaxVersion` bounds the edits and `MaxLate` the late calls, nothing else.
* *Stock:* one product with two sales. Stock of at most one makes the second sale oversell, so
  clamping is exercised; a late sale and a live one coexist. `MaxQty` and `MaxStock` bound the
  quantities. In `stock_taken_twice` the stock is two so that the double deduction shows above
  zero.
* *Purchasing:* two tabs and two orders let a receipt overwrite another or a cancellation, and
  one order be numbered beside another. One order has two lines, so that a receipt can stop
  between them; one delivery is for a part of a line and one for more than the second order
  wants. Three operations (`MaxCalls`) are the two that race and one before them, `MaxUnits`
  is the size of a transfer.
* *Leave:* two requests that share a day and that the quota of five half days grants one at a
  time; one is for two days, so that marking can fail, stop or be overtaken between them. Two
  sessions, each of which files and reviews, are the two that race; every exception a property names
  occurs. A day is two units of time, the shift starts at the second and crosses midnight, and punches
  are made at two moments, the start of the shift and the midnight in it: an arrival on the day, one
  after midnight, a clock-out on the day after, and the two in the wrong order.
  `Punches` and `MaxDay` bound the calendar, `MaxCorrections` the supervisor.
* *Payroll:* three generations are a run and two that replace its payslips side by side, or one that
  replaces them and one after a deletion; two adjustments are one over another. The second rule book
  withholds more and rounds; an adjustment takes more than the second employee has left, so that the
  net is floored, and less than the first has. `MaxGenerations`,
  `MaxAdjustments` and `MaxFigure` bound the history and the figures.
* The violated order run and both catalogue ones use the smallest instance that has the
  behaviour.

`CHECK_DEADLOCK FALSE` is set for the two payroll runs only: a month that is paid stays as it is,
so the system may stop. Everywhere else some step is always possible. Symmetry (of tabs in
`order_sync_tabs` and `goods_desk`, of managers in `payroll_runs`) is used only where all
properties are invariants or action properties that treat them alike.

### 3.4 Fairness and what liveness assumes

* *OrderSync:* weak fairness on each tab's own steps and on the server working through a
  request. The code justifies it: a started manager arms a timer after each run, a promise that
  has settled runs its continuation, and the server's handler has no wait in it. Nothing obliges
  anybody to ring up a sale or to press "sync now"; nothing obliges a late request to be
  carried out.
* *CatalogueSync*, *StockFlow:* weak fairness on the steps of a cycle and the server's answers.
* *LeaveDesk:* weak fairness on `Proceed(s)`, what a handler under way does next: there is no
  wait in it. Nobody is obliged to file, decide or punch; a restart may cut a handler short and the
  write of a day may fail, as often as they like. `LeaveGetsMarked` exempts the days these leave bare,
  and a row made later takes a day out of the exemption again.
* `OrderSync`'s, `CatalogueSync`'s and `StockFlow`'s liveness properties hold once faults stop. This premise is written as
  `<>[][Undisturbed]_vars`, where `Undisturbed` lists the steps that are no fault, rather than
  as "no fault step occurs": the same change of state may be explained by both a fault and an
  ordinary step, and the negative form would then exclude ordinary behaviours. Sales may go on
  for ever under `OrderSync`'s premise; people must leave the till alone for `Converges` and
  `FiguresAgree`, since an edit can always be made just after the list was read.
* `SalesSettle` exempts sales the database refuses, which are retried for ever by design. A refused
  create or edit is an answer, not a fault: it may go on for ever under the premise, and `Converges` and
  `FiguresAgree` name it in their conclusion.

## 4. What is proved

The theorems hold for every value of the constants that satisfies the named assumption of the
module (finite sets of orders, products, sales or tabs; a positive batch size and quantity;
natural bounds). Each is an invariance argument: a strengthening that holds initially and is kept by
each action, with one step per action and lemmas for what several actions share.

*Sums.* The stock, the quota and the transfers are about sums over all sales, requests or tabs.
`SumOver` is the community modules' fold; `Sums_proofs` shows that it has a value on every finite
set (`SumUnfolds`: taking out an element takes out its value) and derives what the proofs use:
sums of numbers are numbers, one more element adds its value, a changed value changes the sum by
as much, a subset's sum of naturals is no greater. Induction over a finite set is carried out by
hand: if the statement failed for some subset, it would fail for a smallest one, since the
strict-subset ordering of a finite set is well-founded, and that one contradicts the step.

*OrderSync.* `IInv` is `TypeOK` with `WireInv`, `StockDeductedOnce` and `SyncedIsStored`.
`SyncedIsStored` alone is not inductive: a run turns `ok` orders into synced ones, so `WireInv`
adds that `ok` orders are stored, that what a run carries was rung up, that only well-formed
orders are ever abandoned to the server, and that only acceptable ones are stored. `StockTakenOnce`, `NoSaleLost` and `MalformedTakesNoStock`
follow; `LoopNeverDies` has an invariant of its own (`TypeOK` with `LoopAlive`).
`LedgerImplemented` is the refinement: every step maps to ringing up a sale, booking one, or a
stutter, `WireInv` being what shows that a booked sale was rung up.
`ClaimsAreOwned` and `SettledStays` assume `OneTill`, which is what the second tab of 3.2 breaks:
their invariant `OwnedInv` says that the claims in the database are exactly the batch of the
open tab, and that a closed tab has none, so a reply only ever settles orders that were still
claimed.

*CatalogueSync.* `IInv` is `TypeOK` with `CallInv` (calls on the wire and late ones carry a
version that was made, and a create answered "ok" is stored), `StoreInv` (a product in a pulled
list is stored, nothing is stored or shown that was never made, soft-deleted products are
stored) and `RowInv` (the three invariants about rows). It is needed because rows change on
replies and pulled lists: whether `KnownToServer` survives a step depends on what the reply or
the list, read earlier, says about the server now.
`LocalEditsSurvivePulls`, `OutboxHidesProducts`, `CreateLandsFirst` and `DeletionIsFinal`
follow from it.

*StockFlow.* `IInv` is `TypeOK` with `UnpushedInStock` (a row that waits for its create is not
below zero, which is why no create is refused for its stock), `OnlyHereMoves` (a product that
is not on the till has no movement, so adding one cannot contradict the ledger) and
`BalanceIsStock`. The proof splits it into a part about the till, one about the wire and one
about the server.
The edit form keeps `BalanceIsStock` because its write takes the row out of the ledger's word.
`ServerFigureExact` says what the server's figure is, and needs `ExactInv`: an order is only booked
when its product is stored (`BookedIfStored`); a row still waiting for its create shows its opening
stock, unless it was sold, moved or edited early (`WaitsWithOpening`); a create that could still store
something, on the wire or late, carries that stock too (`CreatesCarryOpening`); and an answered
create has stored its product (`AnswerMeansStored`), so that no row leaves the waiting state with a
live create behind it. A booking then takes one sale's quantity from both sides of the equation.

*GoodsDesk.* Type correctness includes that no line shows more than was ordered. `NothingOverstated`
adds what calls under way carry: a copy of an order is never ahead of the journal, and batches
read are of receipts booked. `StatusIsTrue` adds that the order a receipt has read told the truth
then, since its status is kept when nothing arrived. `ReferencesAreDistinct` needs that, while
no numbers raced, everything numbered is at most the sequence, and a number being added is no
order's yet. `BookedIsShown` needs to know where booked units are while a receipt is under way:
`Accounted` says that, as long as no receipt has missed an order put since it read it, the units of
a line are on the order or in the copy of the only receipt that has counted on the line. Two that
have counted on one line, or one that is stale, end by marring the order, which is why nothing need be
said of them. `LegsAlwaysMatch` balances accounts: what was written, and what the tabs under way
have still to write, summed over all tabs, is what left; exactly for a product that is on the till
and of which no operation was cut short, and at most that for any other.

*LeaveDesk.* `Inv` is `Types` (type correctness with what calls have read: an upgraded row is
never behind its id, a marking call is within its request) with `LeaveOnRegister`; the days an
approval still has ahead of it are exactly what makes the latter inductive, and a write that fails
moves its day from there into `bare`. `ArrivalsStand` and `ClosedByItsPunch` follow from the types,
which say what a punch's call has read and of which day, and a case split on who writes.
`NothingBookedTwice` and `NoOvergrant` hold for any number of filers and reviewers. Both rest on
`SideBySide`: two calls under way that file, or approve, different requests are on record as crossed,
because the later one recorded it when it started. `Booked` adds that a request past its check shares
a day with no standing request but those excused: one filed since is crossed with it, one that came
back is overturned. `QuotaInv` adds that a request past its balance check fits with every set of
granted requests of which no two are crossed, itself included: filing and cancelling can only make
more room, and whoever else approves meanwhile is crossed with it. `LatenessIsRight` adds that every
row a clock opened tells whether its punch was late (`Told`), and that quotient and remainder put
the time together again (`SinceMidnight`), so that counting from the start of the shift that is on
agrees with counting from midnight.

*PayrollRuns.* `IInv` is `Types`, `Whole` (`NoHalfRun` with what the numbers of generations say),
`Drafts` (the payslips of a draft run are drafts), `LinesAddUp`, `Knowing`, `Fresh` and
`SlipsFollowRun`. `Knowing` is what a call knows though it may have been overtaken: its generation
deletes every payslip of its run that was written before it began, which is what bounds the
generations side by side in `RunsAreWhole`. `Fresh` says that what a call read is still so unless it
is overtaken, which ties a property of the stored rows to checks made earlier. In a step that is not
late the writer is not overtaken (`NotLate`), and then a generation or a deletion only writes over
drafts (`DraftsReplaced`): `FinalFigures` and `StatusIsOneWay` follow without assuming anything of the
behaviour so far. Type correctness rests on lemmas about `PayMath`: every amount is a natural number,
and `RoundedIsNearest` says which one a rounding gives.

*PayrollMonth.* `MonthImplemented` maps each step of `PayrollRuns` to an operation of
`PayrollMonth` or a stutter. The only steps that change what the month shows are the writes of a
generation, of an adjustment, of the payslips' status and of a deletion, and for each it has to be
shown that the month is then in the state in which the abstract operation is allowed, though the
call checked earlier and checked the run. `MonthInv` adds to `IInv` what this takes: `AllMeant` (the
figures a generation is about to write are those of some books under one set of rules, an
adjustment is one that there may be), `Frozen` (a run that is being turned, or was left half
turned, is no draft, so it is neither regenerated nor deleted) and `Due` (while order is kept, the
payslips a call is about to turn all have the status that comes before). `WritesInOrder` is the key
lemma: a write after which order is kept was made by a call that nobody had overtaken, while nobody
else stood between header and payslips.

*Only model-checked.* The liveness properties `SalesSettle`, `SalesDelivered`, `Converges`,
`FiguresAgree` and `LeaveGetsMarked`: fairness and ENABLED are out of the proof system's reach.
Every other property of the passing runs, invariant, action property or refinement, is proved.
`ClaimsAreOwned` and `SettledStays` are proved under the assumption of one tab that their run makes
as well; without it they are false.

## 5. What is not modelled, and what comes next

Not modelled, with the reason:

* *Cart arithmetic and discounts.* `computeCartTotal` and the server's `ComputeTotals` are one
  formula; whether they agree to the cent depends on how two languages round binary fractions,
  which exact integers would hide. Held carts and cash-up are single rows.
* *Sessions, tokens and authorization.* What they promise is about who may get in, not about the
  business data these modules relate. Their hazards are listed.
* *Employees, organisation, performance, settings, audit, announcements:* single rows, written
  one at a time. *Reports and dashboards* only read.
* *The till's own HRM tables* write one row, or add rows after one read, and relate no two
  tables.
* *Pages, components, charts, label printing, scanners and scales:* presentation and devices.
  These are most of the source.
* *Application shell:* wiring and middleware.
* Of modelled parts: delays and back-off, order totals and item rows, SKU and barcode rules
  beyond "refused", suppliers and warehouses, overtime and early-leave minutes, leave types and
  year ends, notes and time stamps.

Worth doing next, in order:

1. `StockFlow` with sales of several lines and deletions, so that it shares its catalogue with
   `CatalogueSync`.
2. An abstract catalogue (what this browser wrote, what the server has) that `CatalogueSync`
   implements.
3. `LeaveDesk` with several employees and leave types, composed with `PayrollRuns` through the
   books a generation reads.
