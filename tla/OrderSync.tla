------------------------------- MODULE OrderSync -------------------------------
(***************************************************************************)
(* Sales travelling from a till's IndexedDB to the server.                 *)
(*                                                                         *)
(* One browser profile holds the pendingOrders table (durable); every open *)
(* tab runs a SyncManager (in memory, lost when the tab goes away) that    *)
(* claims a batch, posts it to POST /orders/sync and records the outcome.  *)
(* The server validates the whole batch, then books each order in its own  *)
(* transaction.  Anything between the two may fail: a tab may be reloaded  *)
(* with a request in the air, a request or its answer may be lost, and a   *)
(* request nobody waits for any more may still be carried out, late.       *)
(***************************************************************************)
EXTENDS Naturals, FiniteSets

CONSTANTS
  Orders,      \* client_generated_id of every sale; numbers, in the order the ids sort
  Tabs,        \* browser tabs (one SyncManager each) over one IndexedDB
  BatchSize,   \* SYNC_CONFIG.maxBatchSize
  Malformed,   \* orders that fail request validation
  Unstorable   \* orders whose transaction the database refuses every time
               \* (a line whose product the server does not hold: foreign key)

ASSUME OrderSyncAssumption ==
  /\ Orders \subseteq Nat
  /\ IsFiniteSet(Orders)
  /\ BatchSize \in Nat \ {0}
  /\ Malformed \subseteq Orders
  /\ Unstorable \subseteq Orders

VARIABLES
  pendingOrders,  \* IndexedDB: the sync_status of each order, "absent" before the sale
  tab,            \* life of each tab's SyncManager
  online,         \* each tab's connection store
  timer,          \* is the tab's next cycle armed (setTimeout)?
  run,            \* the syncOnce() in flight in each tab, with its request
  abandoned,      \* orders of which a request nobody waits for may still reach the server
  orders,         \* server: rows of the orders table
  deductions      \* server: how many times an order's lines were taken from stock

tillVars   == <<pendingOrders, tab, online, timer, run>>
serverVars == <<orders, deductions>>
vars       == <<tillVars, abandoned, serverVars>>

SyncStatus == {"pending", "syncing", "synced", "conflict", "error"}

\* Broken on purpose: a parked sale is claimed again.
SYNCABLE_STATUSES_WithConflict == {"pending", "error", "conflict"}

SYNCABLE_STATUSES == {"pending", "error"}

\* A run with nothing on the wire.
RunIn(phase, timed) ==
  [phase |-> phase, timed |-> timed, batch |-> {}, todo |-> {}, ok |-> {}]

Idle == RunIn("idle", FALSE)

(* `timed` remembers that a timer started the run: only then is the next   *)
(* cycle armed when it ends.  `todo` and `ok` are the server's side of the *)
(* run's request: orders still to be booked, and orders answered "synced"  *)
(* or "already_synced".  batch \ (todo \cup ok) was answered "error".      *)
Run == [phase : {"idle", "claiming", "sending", "catalogue"}, timed : BOOLEAN,
        batch : SUBSET Orders, todo : SUBSET Orders, ok : SUBSET Orders]

Rung == {o \in Orders : pendingOrders[o] # "absent"}

Init ==
  /\ pendingOrders = [o \in Orders |-> "absent"]
  /\ tab = [t \in Tabs |-> "closed"]
  /\ online = [t \in Tabs |-> FALSE]
  /\ timer = [t \in Tabs |-> FALSE]
  /\ run = [t \in Tabs |-> Idle]
  /\ abandoned = {}
  /\ orders = {}
  /\ deductions = [o \in Orders |-> 0]

-------------------------------------------------------------------------------
(* The till *)

\* A sale is completed in some open tab: the row enters the queue.
CreateLocalOrder(o) ==
  /\ \E t \in Tabs : tab[t] # "closed"
  /\ pendingOrders[o] = "absent"
  /\ pendingOrders' = [pendingOrders EXCEPT ![o] = "pending"]
  /\ UNCHANGED <<tab, online, timer, run, abandoned, serverVars>>

\* The page loads: start() subscribes and asks for orphaned claims to be released.
Start(t) ==
  /\ tab[t] = "closed"
  /\ tab' = [tab EXCEPT ![t] = "recovering"]
  /\ \E on \in BOOLEAN : online' = [online EXCEPT ![t] = on]
  /\ UNCHANGED <<pendingOrders, timer, run, abandoned, serverVars>>

\* Broken on purpose: orphaned claims are left as they are.
ReleaseOrphanedClaims_Skipped(t) ==
  /\ tab[t] = "recovering"
  /\ tab' = [tab EXCEPT ![t] = "open"]
  /\ timer' = [timer EXCEPT ![t] = @ \/ online[t]]
  /\ UNCHANGED <<pendingOrders, online, run, abandoned, serverVars>>

\* Every row marked "syncing" goes back to "pending"; then the first cycle is armed.
ReleaseOrphanedClaims(t) ==
  /\ tab[t] = "recovering"
  /\ pendingOrders' = [o \in Orders |->
       IF pendingOrders[o] = "syncing" THEN "pending" ELSE pendingOrders[o]]
  /\ tab' = [tab EXCEPT ![t] = "open"]
  /\ timer' = [timer EXCEPT ![t] = @ \/ online[t]]
  /\ UNCHANGED <<online, run, abandoned, serverVars>>

\* offline -> online: the streak is reset and a cycle armed at once.
GoOnline(t) ==
  /\ tab[t] # "closed" /\ ~online[t]
  /\ online' = [online EXCEPT ![t] = TRUE]
  /\ timer' = [timer EXCEPT ![t] = TRUE]
  /\ UNCHANGED <<pendingOrders, tab, run, abandoned, serverVars>>

GoOffline(t) ==
  /\ tab[t] # "closed" /\ online[t]
  /\ online' = [online EXCEPT ![t] = FALSE]
  /\ timer' = [timer EXCEPT ![t] = FALSE]
  /\ UNCHANGED <<pendingOrders, tab, run, abandoned, serverVars>>

\* Broken on purpose: a timer that finds a run in flight does not arm the next one.
TimerFires_NoRearm(t) ==
  /\ timer[t]
  /\ timer' = [timer EXCEPT ![t] = FALSE]
  /\ IF run[t].phase = "idle"
       THEN run' = [run EXCEPT ![t] = RunIn("claiming", TRUE)]
       ELSE UNCHANGED run
  /\ UNCHANGED <<pendingOrders, tab, online, abandoned, serverVars>>

(* The armed cycle begins.  If a run is already in flight syncOnce()       *)
(* returns at once, and its finally() arms the next cycle.                 *)
TimerFires(t) ==
  /\ timer[t]
  /\ IF run[t].phase = "idle"
       THEN /\ run' = [run EXCEPT ![t] = RunIn("claiming", TRUE)]
            /\ timer' = [timer EXCEPT ![t] = FALSE]
       ELSE /\ timer' = [timer EXCEPT ![t] = online[t]]
            /\ UNCHANGED run
  /\ UNCHANGED <<pendingOrders, tab, online, abandoned, serverVars>>

\* The "sync now" button; a no-op while a run is in flight.
TriggerSync(t) ==
  /\ tab[t] # "closed" /\ run[t].phase = "idle"
  /\ run' = [run EXCEPT ![t] = RunIn("claiming", FALSE)]
  /\ UNCHANGED <<pendingOrders, tab, online, timer, abandoned, serverVars>>

Syncable == {o \in Orders : pendingOrders[o] \in SYNCABLE_STATUSES}

(* The index on sync_status is walked in key order, so "error" comes       *)
(* before "pending", and rows of one status come in primary-key order.     *)
ClaimedBefore(p, o) ==
  \/ pendingOrders[p] = "error" /\ pendingOrders[o] = "pending"
  \/ pendingOrders[p] = pendingOrders[o] /\ p < o

NextBatch ==
  {o \in Syncable : Cardinality({p \in Syncable : ClaimedBefore(p, o)}) < BatchSize}

(* One IndexedDB transaction reads the batch and marks it "syncing"; the   *)
(* request is sent.  The transaction queues behind the one that releases   *)
(* orphaned claims, hence the guard on `tab`.                              *)
ClaimBatch(t) ==
  /\ tab[t] = "open" /\ run[t].phase = "claiming"
  /\ pendingOrders' = [o \in Orders |->
       IF o \in NextBatch THEN "syncing" ELSE pendingOrders[o]]
  /\ run' = [run EXCEPT ![t].phase = IF NextBatch = {} THEN "catalogue" ELSE "sending",
                        ![t].batch = NextBatch, ![t].todo = NextBatch]
  /\ UNCHANGED <<tab, online, timer, abandoned, serverVars>>

\* The run is over; a run that a timer started arms the next cycle if online.
EndRun(t) ==
  /\ run' = [run EXCEPT ![t] = Idle]
  /\ timer' = [timer EXCEPT ![t] = @ \/ (run[t].timed /\ online[t])]

\* Marks the orders of t's batch: "synced" for those in `stored`, else `other`.
MarkBatch(t, stored, other) ==
  pendingOrders' = [o \in Orders |->
    IF o \notin run[t].batch THEN pendingOrders[o]
    ELSE IF o \in stored THEN "synced" ELSE other]

WellFormed(batch) == batch \cap Malformed = {}

\* Broken on purpose: an answer is taken to mean that the whole batch was stored.
ReceiveResults_IgnoringOutcome(t) ==
  /\ run[t].phase = "sending" /\ WellFormed(run[t].batch) /\ run[t].todo = {}
  /\ MarkBatch(t, run[t].batch, "error")
  /\ run' = [run EXCEPT ![t] = RunIn("catalogue", run[t].timed)]
  /\ UNCHANGED <<tab, online, timer, abandoned, serverVars>>

\* The answer arrives: one result per order, and the rest of the cycle begins.
ReceiveResults(t) ==
  /\ run[t].phase = "sending" /\ WellFormed(run[t].batch) /\ run[t].todo = {}
  /\ MarkBatch(t, run[t].ok, "error")
  /\ run' = [run EXCEPT ![t] = RunIn("catalogue", run[t].timed)]
  /\ UNCHANGED <<tab, online, timer, abandoned, serverVars>>

\* Broken on purpose: a batch refused for good goes back to the queue.
ReceiveRejection_Retried(t) ==
  /\ run[t].phase = "sending" /\ ~WellFormed(run[t].batch)
  /\ MarkBatch(t, {}, "error")
  /\ EndRun(t)
  /\ UNCHANGED <<tab, online, abandoned, serverVars>>

\* 400 or 422: validation refused the request, so the whole batch is parked.
ReceiveRejection(t) ==
  /\ run[t].phase = "sending" /\ ~WellFormed(run[t].batch)
  /\ MarkBatch(t, {}, "conflict")
  /\ EndRun(t)
  /\ UNCHANGED <<tab, online, abandoned, serverVars>>

\* What the server may still do with the request of t once nobody waits for it.
Abandon(t) ==
  abandoned' = abandoned \cup (IF WellFormed(run[t].batch) THEN run[t].todo ELSE {})

\* Broken on purpose: a failed transport leaves the claim in place.
LoseRequest_KeepClaim(t) ==
  /\ run[t].phase = "sending"
  /\ Abandon(t)
  /\ EndRun(t)
  /\ UNCHANGED <<pendingOrders, tab, online, serverVars>>

(* fetch() rejects, or the answer is a 401, 403, 429 or 5xx: the batch is  *)
(* released as "error".  The server may have carried out any part of it.   *)
LoseRequest(t) ==
  /\ run[t].phase = "sending"
  /\ MarkBatch(t, {}, "error")
  /\ Abandon(t)
  /\ EndRun(t)
  /\ UNCHANGED <<tab, online, serverVars>>

\* The catalogue pushes, the pull and the time stamp; none of them throws.
FinishCycle(t) ==
  /\ run[t].phase = "catalogue"
  /\ EndRun(t)
  /\ UNCHANGED <<pendingOrders, tab, online, abandoned, serverVars>>

\* The tab is closed, reloaded or crashes: IndexedDB is all that is left.
CloseTab(t) ==
  /\ tab[t] # "closed"
  /\ tab' = [tab EXCEPT ![t] = "closed"]
  /\ online' = [online EXCEPT ![t] = FALSE]
  /\ timer' = [timer EXCEPT ![t] = FALSE]
  /\ run' = [run EXCEPT ![t] = Idle]
  /\ Abandon(t)
  /\ UNCHANGED <<pendingOrders, serverVars>>

-------------------------------------------------------------------------------
(* The server *)

\* ON CONFLICT DO NOTHING: the row is there afterwards, whoever put it.
InsertIfNew(o) == orders' = orders \cup {o}

\* Each line of the order is taken from its product's stock.
ApplyDelta(o) == deductions' = [deductions EXCEPT ![o] = @ + 1]

\* Broken on purpose: RowsAffected is not looked at.
SyncOne_NoConflictCheck(o) == InsertIfNew(o) /\ ApplyDelta(o)

(* The order's transaction: insert unless the id is already there, and     *)
(* only for a new row take its lines from stock.                           *)
SyncOne(o) ==
  /\ InsertIfNew(o)
  /\ IF o \in orders THEN UNCHANGED deductions ELSE ApplyDelta(o)

\* Broken on purpose: orders are booked before the batch is validated.
CanServe_Unvalidated(t, o) ==
  run[t].phase = "sending" /\ o \in run[t].todo

\* Orders are only looked at once the whole request has passed validation.
CanServe(t, o) ==
  run[t].phase = "sending" /\ WellFormed(run[t].batch) /\ o \in run[t].todo

\* Broken on purpose: an order that has its outcome is worked on again.
StoreOrder_KeepTodo(t, o) ==
  /\ CanServe(t, o)
  /\ o \notin Unstorable
  /\ SyncOne(o)
  /\ run' = [run EXCEPT ![t].ok = @ \cup {o}]
  /\ UNCHANGED <<pendingOrders, tab, online, timer, abandoned>>

\* "synced" or "already_synced"
StoreOrder(t, o) ==
  /\ CanServe(t, o)
  /\ o \notin Unstorable
  /\ SyncOne(o)
  /\ run' = [run EXCEPT ![t].todo = @ \ {o}, ![t].ok = @ \cup {o}]
  /\ UNCHANGED <<pendingOrders, tab, online, timer, abandoned>>

\* "error": the transaction is rolled back
FailOrder(t, o) ==
  /\ CanServe(t, o)
  /\ run' = [run EXCEPT ![t].todo = @ \ {o}]
  /\ UNCHANGED <<pendingOrders, tab, online, timer, abandoned, serverVars>>

(* A request nobody waits for is carried out.  The order stays in          *)
(* `abandoned`: several abandoned requests may carry it.                   *)
StoreAbandoned(o) ==
  /\ o \in abandoned \ Unstorable
  /\ SyncOne(o)
  /\ UNCHANGED <<tillVars, abandoned>>

-------------------------------------------------------------------------------
\* What a tab that is left alone does.
Proceed(t) ==
  \/ Start(t) \/ ReleaseOrphanedClaims(t) \/ GoOnline(t)
  \/ TimerFires(t) \/ TriggerSync(t)
  \/ ClaimBatch(t) \/ ReceiveResults(t) \/ ReceiveRejection(t)
  \/ FinishCycle(t)

\* What may happen to it.
Fault(t) == CloseTab(t) \/ GoOffline(t) \/ LoseRequest(t)

Next ==
  \/ \E o \in Orders : CreateLocalOrder(o) \/ StoreAbandoned(o)
  \/ \E t \in Tabs : Proceed(t) \/ Fault(t)
  \/ \E t \in Tabs, o \in Orders : StoreOrder(t, o) \/ FailOrder(t, o)

Spec == Init /\ [][Next]_vars

\* The server works through a request it has taken on.
Serve(t) ==
  \E o \in Orders : StoreOrder(t, o) \/ (o \in Unstorable /\ FailOrder(t, o))

(* A till that is left alone keeps going: its page is loaded, promises     *)
(* resolve, timers fire, the network comes back and the server answers.    *)
(* Nothing obliges anybody to ring up a sale or press "sync now".          *)
Fairness ==
  \A t \in Tabs :
    /\ WF_vars(Start(t)) /\ WF_vars(ReleaseOrphanedClaims(t)) /\ WF_vars(GoOnline(t))
    /\ WF_vars(TimerFires(t)) /\ WF_vars(ClaimBatch(t))
    /\ WF_vars(Serve(t))
    /\ WF_vars(ReceiveResults(t)) /\ WF_vars(ReceiveRejection(t)) /\ WF_vars(FinishCycle(t))

FairSpec == Spec /\ Fairness

-------------------------------------------------------------------------------
(* Properties *)

(* The types of the variables.  Every order of a batch has at most one     *)
(* outcome: Sync() answers once per order it was sent.                     *)
TypeOK ==
  /\ pendingOrders \in [Orders -> SyncStatus \cup {"absent"}]
  /\ tab \in [Tabs -> {"closed", "recovering", "open"}]
  /\ online \in [Tabs -> BOOLEAN]
  /\ timer \in [Tabs -> BOOLEAN]
  /\ run \in [Tabs -> Run]
  /\ \A t \in Tabs :
       /\ run[t].todo \cup run[t].ok \subseteq run[t].batch
       /\ run[t].todo \cap run[t].ok = {}
       /\ run[t].phase # "sending" => run[t].batch = {}
  /\ abandoned \subseteq Orders
  /\ orders \subseteq Orders
  /\ deductions \in [Orders -> Nat]

(* However often an order is sent (two tabs, a reload, a lost answer, a    *)
(* late copy), its stock is taken exactly when its row exists, and once:   *)
(* InsertIfNew and ApplyDelta in one transaction.                          *)
StockDeductedOnce ==
  \A o \in Orders : deductions[o] = IF o \in orders THEN 1 ELSE 0

(* The till shows a sale as synced only if the server holds it: a sale may *)
(* be sent again without need, but is never dropped from the queue while   *)
(* the server does not have it.                                            *)
SyncedIsStored ==
  \A o \in Orders : pendingOrders[o] = "synced" => o \in orders

\* A sale that fails validation never reaches stock, in whatever batch it travels.
MalformedNeverBooked ==
  \A o \in Malformed : deductions[o] = 0

(* The cycle never dies: an open tab that is online has its next run       *)
(* armed, or a run in flight whose end will arm it.                        *)
LoopAlive ==
  \A t \in Tabs :
    tab[t] = "open" /\ online[t] => timer[t] \/ (run[t].phase # "idle" /\ run[t].timed)

(* With one tab, a row is marked "syncing" exactly while the run in flight *)
(* carries it: no claim is forgotten, none is sent without being claimed.  *)
ClaimsOwned ==
  \A t \in Tabs :
    tab[t] = "open" => {o \in Orders : pendingOrders[o] = "syncing"} = run[t].batch

(* With one tab, "synced" and "conflict" are final: no late answer, retry  *)
(* or restart ever puts such a sale back in the queue.                     *)
FinalStatus ==
  [][\A o \in Orders :
       pendingOrders[o] \in {"synced", "conflict"} => pendingOrders'[o] = pendingOrders[o]]_vars

\* Only an order that can never be accepted is parked as "conflict".
ConflictIsPermanent ==
  \A o \in Orders : pendingOrders[o] = "conflict" => o \in Malformed

\* A step that is no fault: sales go on, requests are answered, nothing fails by chance.
Undisturbed ==
  \/ \E o \in Orders : CreateLocalOrder(o) \/ StoreAbandoned(o)
  \/ \E t \in Tabs : Proceed(t) \/ Serve(t)

Calm == <>[][Undisturbed]_vars

(* Once faults stop, every sale settles: it ends synced, or parked with a  *)
(* malformed batch, unless the database itself refuses it.  No sale the    *)
(* database refuses keeps the ones behind it from being claimed.           *)
SalesSettle ==
  Calm => \A o \in Orders \ Unstorable :
            o \in Rung ~> pendingOrders[o] \in {"synced", "conflict"}

(* And as long as no malformed sale is ever rung up, settling means that   *)
(* the server holds the sale.                                              *)
SalesDelivered ==
  Calm /\ [](Rung \cap Malformed = {}) =>
    \A o \in Orders \ Unstorable : o \in Rung ~> o \in orders /\ pendingOrders[o] = "synced"

\* What the server's books look like to the promise made about each sale.
Ledger == INSTANCE SaleLedger
  WITH Sales <- Orders, Acceptable <- Orders \ (Malformed \cup Unstorable),
       rung <- Rung, booked <- deductions

\* Whatever the tabs and the network do, each sale is rung and booked as promised.
ImplementsLedger == Ledger!Spec
===============================================================================
