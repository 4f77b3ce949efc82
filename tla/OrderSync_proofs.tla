---------------------------- MODULE OrderSync_proofs ----------------------------
(***************************************************************************)
(* Proofs about OrderSync, for every set of orders and tabs, every batch   *)
(* size, and every choice of malformed and unstorable orders.              *)
(***************************************************************************)
EXTENDS OrderSync, TLAPS

(* What makes the safety properties inductive: whatever is on the wire was *)
(* rung up, whatever was answered "synced" is stored, and only requests    *)
(* that pass validation are ever worked on.                                *)
WireInv ==
  /\ \A t \in Tabs : run[t].batch \subseteq Rung /\ run[t].ok \subseteq orders
  /\ abandoned \subseteq Rung \ Malformed
  /\ orders \subseteq Rung \ (Malformed \cup Unstorable)

IInv == TypeOK /\ WireInv /\ StockDeductedOnce /\ SyncedIsStored

-------------------------------------------------------------------------------
(* Type correctness *)

USE OrderSyncAssumption

LEMMA NextBatchSyncable ==
  NextBatch \subseteq Orders /\ \A o \in NextBatch : pendingOrders[o] \in SYNCABLE_STATUSES
BY DEF NextBatch, Syncable

LEMMA IdleIsRun == Idle \in Run
BY DEF Idle, RunIn, Run

LEMMA InitTypeOK == Init => TypeOK
BY IdleIsRun DEF Init, TypeOK, SyncStatus, Idle, RunIn

LEMMA StepTypeOK == TypeOK /\ [Next]_vars => TypeOK'
<1> SUFFICES ASSUME TypeOK, [Next]_vars
             PROVE  TypeOK'
  OBVIOUS
<1> USE DEF TypeOK, Run, Idle, RunIn, SyncStatus
<1>1. ASSUME NEW o \in Orders, CreateLocalOrder(o)
      PROVE  TypeOK'
  BY <1>1 DEF CreateLocalOrder, serverVars
<1>2. ASSUME NEW t \in Tabs, Start(t)
      PROVE  TypeOK'
  BY <1>2 DEF Start, serverVars
<1>3. ASSUME NEW t \in Tabs, ReleaseOrphanedClaims(t)
      PROVE  TypeOK'
  BY <1>3 DEF ReleaseOrphanedClaims, serverVars
<1>4. ASSUME NEW t \in Tabs, GoOnline(t) \/ GoOffline(t)
      PROVE  TypeOK'
  BY <1>4 DEF GoOnline, GoOffline, serverVars
<1>5. ASSUME NEW t \in Tabs, TimerFires(t)
      PROVE  TypeOK'
  <2>1. CASE run[t].phase = "idle"
    <3>1. /\ run' = [run EXCEPT ![t] = RunIn("claiming", TRUE)]
          /\ timer' = [timer EXCEPT ![t] = FALSE]
      BY <1>5, <2>1 DEF TimerFires
    <3> QED
      BY <1>5, <3>1 DEF TimerFires, serverVars
  <2>2. CASE run[t].phase # "idle"
    BY <1>5, <2>2 DEF TimerFires, serverVars
  <2> QED
    BY <2>1, <2>2
<1>6. ASSUME NEW t \in Tabs, TriggerSync(t)
      PROVE  TypeOK'
  BY <1>6 DEF TriggerSync, serverVars
<1>7. ASSUME NEW t \in Tabs, ClaimBatch(t)
      PROVE  TypeOK'
  <2>1. run' \in [Tabs -> Run] /\ \A u \in Tabs \ {t} : run'[u] = run[u]
    <3> DEFINE p == IF NextBatch = {} THEN "catalogue" ELSE "sending"
    <3>1. run' = [run EXCEPT ![t].phase = p, ![t].batch = NextBatch, ![t].todo = NextBatch]
      BY <1>7 DEF ClaimBatch
    <3>2. p \in {"idle", "claiming", "sending", "catalogue"} /\ NextBatch \in SUBSET Orders
      BY NextBatchSyncable
    <3>3. run \in [Tabs -> Run]
      OBVIOUS
    <3> HIDE DEF p, TypeOK
    <3>4. [run[t] EXCEPT !.phase = p, !.batch = NextBatch, !.todo = NextBatch] \in Run
      BY <3>2, <3>3
    <3> QED
      BY <3>1, <3>3, <3>4
  <2>2. /\ run'[t].batch = NextBatch /\ run'[t].todo = NextBatch /\ run'[t].ok = {}
        /\ NextBatch # {} => run'[t].phase = "sending"
    BY <1>7 DEF ClaimBatch
  <2>3. pendingOrders' \in [Orders -> SyncStatus \cup {"absent"}]
    BY <1>7 DEF ClaimBatch
  <2> QED
    BY <1>7, <2>1, <2>2, <2>3 DEF ClaimBatch, serverVars
<1>8. ASSUME NEW t \in Tabs, ReceiveResults(t)
      PROVE  TypeOK'
  BY <1>8 DEF ReceiveResults, MarkBatch, serverVars
<1>9. ASSUME NEW t \in Tabs, ReceiveRejection(t)
      PROVE  TypeOK'
  BY <1>9 DEF ReceiveRejection, MarkBatch, EndRun, serverVars
<1>10. ASSUME NEW t \in Tabs, LoseRequest(t)
       PROVE  TypeOK'
  BY <1>10 DEF LoseRequest, MarkBatch, Abandon, EndRun, serverVars
<1>11. ASSUME NEW t \in Tabs, FinishCycle(t)
       PROVE  TypeOK'
  BY <1>11 DEF FinishCycle, EndRun, serverVars
<1>12. ASSUME NEW t \in Tabs, CloseTab(t)
       PROVE  TypeOK'
  BY <1>12 DEF CloseTab, Abandon, serverVars
<1>13. ASSUME NEW t \in Tabs, NEW o \in Orders, StoreOrder(t, o)
       PROVE  TypeOK'
  BY <1>13 DEF StoreOrder, CanServe, SyncOne, InsertIfNew, ApplyDelta
<1>14. ASSUME NEW t \in Tabs, NEW o \in Orders, FailOrder(t, o)
       PROVE  TypeOK'
  BY <1>14 DEF FailOrder, CanServe, serverVars
<1>15. ASSUME NEW o \in Orders, StoreAbandoned(o)
       PROVE  TypeOK'
  BY <1>15 DEF StoreAbandoned, SyncOne, InsertIfNew, ApplyDelta, tillVars
<1>16. CASE UNCHANGED vars
  BY <1>16 DEF vars, tillVars, serverVars
<1> QED
  BY <1>1, <1>2, <1>3, <1>4, <1>5, <1>6, <1>7, <1>8, <1>9, <1>10, <1>11, <1>12, <1>13,
     <1>14, <1>15, <1>16 DEF Next, Proceed, Fault

(* The variables keep their types, and no order of a batch ever has two    *)
(* outcomes, in every behaviour of the till and the server.                *)
THEOREM TypeCorrect == Spec => []TypeOK
BY InitTypeOK, StepTypeOK, PTL DEF Spec

-------------------------------------------------------------------------------
(* The books *)

LEMMA InitIInv == Init => IInv
<1> SUFFICES ASSUME Init
             PROVE  IInv
  OBVIOUS
<1>1. TypeOK
  BY InitTypeOK
<1>2. WireInv /\ StockDeductedOnce /\ SyncedIsStored
  BY DEF Init, WireInv, StockDeductedOnce, SyncedIsStored, Idle, RunIn
<1> QED
  BY <1>1, <1>2 DEF IInv

\* A step that leaves the wire and the server alone and drops no sale from the queue.
LEMMA QueueStep ==
  ASSUME IInv, UNCHANGED serverVars, abandoned' \subseteq Rung \ Malformed,
         \A o \in Orders : /\ pendingOrders[o] # "absent" => pendingOrders'[o] # "absent"
                           /\ pendingOrders'[o] = "synced" => o \in orders,
         \A t \in Tabs : run'[t].batch \subseteq Rung /\ run'[t].ok \subseteq orders
  PROVE  WireInv' /\ StockDeductedOnce' /\ SyncedIsStored'
BY DEF IInv, WireInv, StockDeductedOnce, SyncedIsStored, serverVars, Rung

\* A step of the server that books an order of a request that passed validation.
LEMMA BookStep ==
  ASSUME IInv, NEW o \in Rung \ (Malformed \cup Unstorable), SyncOne(o),
         UNCHANGED <<pendingOrders, abandoned>>,
         \A t \in Tabs : run'[t].batch \subseteq Rung /\ run'[t].ok \subseteq orders \cup {o}
  PROVE  WireInv' /\ StockDeductedOnce' /\ SyncedIsStored'
<1>1. WireInv' /\ SyncedIsStored'
  BY DEF IInv, WireInv, SyncedIsStored, SyncOne, InsertIfNew, ApplyDelta, Rung
<1>2. StockDeductedOnce'
  BY DEF IInv, TypeOK, StockDeductedOnce, SyncOne, InsertIfNew, ApplyDelta, Rung
<1> QED
  BY <1>1, <1>2

LEMMA StepIInv == IInv /\ [Next]_vars => IInv'
<1> SUFFICES ASSUME IInv, [Next]_vars
             PROVE  WireInv' /\ StockDeductedOnce' /\ SyncedIsStored'
  BY StepTypeOK DEF IInv
<1>a. TypeOK /\ WireInv /\ SyncedIsStored
  BY DEF IInv
<1>b. \A t \in Tabs : /\ run[t] \in Run
                      /\ run[t].batch \subseteq Rung
                      /\ run[t].todo \subseteq run[t].batch
                      /\ run[t].ok \subseteq orders
  BY <1>a DEF TypeOK, WireInv
<1>c. \A o \in Orders : pendingOrders[o] = "synced" => o \in orders
  BY <1>a DEF SyncedIsStored
<1>d. abandoned \subseteq Rung \ Malformed
  BY <1>a DEF WireInv
<1>e. run \in [Tabs -> Run] /\ pendingOrders \in [Orders -> SyncStatus \cup {"absent"}]
  BY <1>a DEF TypeOK
<1>1. ASSUME NEW o \in Orders, CreateLocalOrder(o)
      PROVE  WireInv' /\ StockDeductedOnce' /\ SyncedIsStored'
  BY <1>1, <1>b, <1>c, <1>d, <1>e, QueueStep DEF CreateLocalOrder, serverVars
<1>2. ASSUME NEW t \in Tabs, Start(t) \/ GoOnline(t) \/ GoOffline(t)
      PROVE  WireInv' /\ StockDeductedOnce' /\ SyncedIsStored'
  BY <1>2, <1>b, <1>c, <1>d, QueueStep DEF Start, GoOnline, GoOffline, serverVars
<1>3. ASSUME NEW t \in Tabs, ReleaseOrphanedClaims(t)
      PROVE  WireInv' /\ StockDeductedOnce' /\ SyncedIsStored'
  BY <1>3, <1>b, <1>c, <1>d, <1>e, QueueStep DEF ReleaseOrphanedClaims, serverVars
<1>4. ASSUME NEW t \in Tabs, TimerFires(t) \/ TriggerSync(t)
      PROVE  WireInv' /\ StockDeductedOnce' /\ SyncedIsStored'
  <2>1. \A u \in Tabs : run'[u].batch \subseteq Rung /\ run'[u].ok \subseteq orders
    BY <1>4, <1>b, <1>e DEF TimerFires, TriggerSync, RunIn
  <2> QED
    BY <1>4, <1>c, <1>d, <2>1, QueueStep DEF TimerFires, TriggerSync, serverVars
<1>5. ASSUME NEW t \in Tabs, ClaimBatch(t)
      PROVE  WireInv' /\ StockDeductedOnce' /\ SyncedIsStored'
  <2>1. NextBatch \subseteq Rung
    BY NextBatchSyncable DEF Rung, SYNCABLE_STATUSES
  <2>2. \A u \in Tabs : run'[u].batch \subseteq Rung /\ run'[u].ok \subseteq orders
    BY <1>5, <1>b, <1>e, <2>1 DEF ClaimBatch, Run
  <2> QED
    BY <1>5, <1>c, <1>d, <1>e, <2>2, QueueStep DEF ClaimBatch, serverVars
<1>6. ASSUME NEW t \in Tabs,
             ReceiveResults(t) \/ ReceiveRejection(t) \/ LoseRequest(t)
      PROVE  WireInv' /\ StockDeductedOnce' /\ SyncedIsStored'
  <2>1. \A u \in Tabs : run'[u].batch \subseteq Rung /\ run'[u].ok \subseteq orders
    BY <1>6, <1>b, <1>e
    DEF ReceiveResults, ReceiveRejection, LoseRequest, EndRun, Idle, RunIn
  <2>2. \A o \in Orders : /\ pendingOrders[o] # "absent" => pendingOrders'[o] # "absent"
                          /\ pendingOrders'[o] = "synced" => o \in orders
    BY <1>6, <1>b, <1>c, <1>e DEF ReceiveResults, ReceiveRejection, LoseRequest, MarkBatch
  <2>3. abandoned' \subseteq Rung \ Malformed
    BY <1>6, <1>b, <1>d
    DEF ReceiveResults, ReceiveRejection, LoseRequest, Abandon, WellFormed
  <2> QED
    BY <1>6, <2>1, <2>2, <2>3, QueueStep
    DEF ReceiveResults, ReceiveRejection, LoseRequest, serverVars
<1>7. ASSUME NEW t \in Tabs, FinishCycle(t) \/ CloseTab(t)
      PROVE  WireInv' /\ StockDeductedOnce' /\ SyncedIsStored'
  <2>1. \A u \in Tabs : run'[u].batch \subseteq Rung /\ run'[u].ok \subseteq orders
    BY <1>7, <1>b, <1>e DEF FinishCycle, CloseTab, EndRun, Idle, RunIn
  <2>2. abandoned' \subseteq Rung \ Malformed
    BY <1>7, <1>b, <1>d DEF FinishCycle, CloseTab, Abandon, WellFormed
  <2> QED
    BY <1>7, <1>c, <2>1, <2>2, QueueStep DEF FinishCycle, CloseTab, serverVars
<1>8. ASSUME NEW t \in Tabs, NEW o \in Orders, StoreOrder(t, o)
      PROVE  WireInv' /\ StockDeductedOnce' /\ SyncedIsStored'
  <2>1. o \in Rung \ (Malformed \cup Unstorable)
    BY <1>8, <1>b DEF StoreOrder, CanServe, WellFormed
  <2>2. \A u \in Tabs : run'[u].batch \subseteq Rung /\ run'[u].ok \subseteq orders \cup {o}
    BY <1>8, <1>b, <1>e DEF StoreOrder, Run
  <2> QED
    BY <1>8, <2>1, <2>2, BookStep DEF StoreOrder
<1>9. ASSUME NEW t \in Tabs, NEW o \in Orders, FailOrder(t, o)
      PROVE  WireInv' /\ StockDeductedOnce' /\ SyncedIsStored'
  <2>1. \A u \in Tabs : run'[u].batch \subseteq Rung /\ run'[u].ok \subseteq orders
    BY <1>9, <1>b, <1>e DEF FailOrder, Run
  <2> QED
    BY <1>9, <1>c, <1>d, <2>1, QueueStep DEF FailOrder, serverVars
<1>10. ASSUME NEW o \in Orders, StoreAbandoned(o)
       PROVE  WireInv' /\ StockDeductedOnce' /\ SyncedIsStored'
  <2>1. o \in Rung \ (Malformed \cup Unstorable)
    BY <1>10, <1>d DEF StoreAbandoned
  <2> QED
    BY <1>10, <1>b, <2>1, BookStep DEF StoreAbandoned, tillVars
<1>11. CASE UNCHANGED vars
  BY <1>11, <1>b, <1>c, <1>d, QueueStep DEF vars, tillVars, serverVars
<1> QED
  BY <1>1, <1>2, <1>3, <1>4, <1>5, <1>6, <1>7, <1>8, <1>9, <1>10, <1>11 DEF Next, Proceed, Fault

THEOREM BooksInvariant == Spec => []IInv
BY InitIInv, StepIInv, PTL DEF Spec

(* However often and by whomever an order is sent, its stock is taken once *)
(* and only together with its row.                                         *)
THEOREM StockTakenOnce == Spec => []StockDeductedOnce
<1>1. IInv => StockDeductedOnce
  BY DEF IInv
<1> QED
  BY <1>1, BooksInvariant, PTL

\* No sale leaves the queue as synced while the server does not hold it.
THEOREM NoSaleLost == Spec => []SyncedIsStored
<1>1. IInv => SyncedIsStored
  BY DEF IInv
<1> QED
  BY <1>1, BooksInvariant, PTL

\* A sale that fails validation takes no stock, in whatever batch it travels.
THEOREM MalformedTakesNoStock == Spec => []MalformedNeverBooked
<1>1. IInv => MalformedNeverBooked
  BY DEF IInv, WireInv, StockDeductedOnce, MalformedNeverBooked
<1> QED
  BY <1>1, BooksInvariant, PTL

-------------------------------------------------------------------------------
(* The sync loop *)

LEMMA StepLoopAlive == TypeOK /\ LoopAlive /\ [Next]_vars => LoopAlive'
<1> SUFFICES ASSUME TypeOK, LoopAlive, [Next]_vars, NEW u \in Tabs,
                    tab'[u] = "open", online'[u]
             PROVE  timer'[u] \/ (run'[u].phase # "idle" /\ run'[u].timed)
  BY DEF LoopAlive
<1>a. /\ tab \in [Tabs -> {"closed", "recovering", "open"}]
      /\ online \in [Tabs -> BOOLEAN] /\ timer \in [Tabs -> BOOLEAN]
      /\ run \in [Tabs -> Run]
  BY DEF TypeOK
<1>b. tab[u] = "open" /\ online[u] => timer[u] \/ (run[u].phase # "idle" /\ run[u].timed)
  BY DEF LoopAlive
<1>1. CASE \E o \in Orders : CreateLocalOrder(o) \/ StoreAbandoned(o)
  BY <1>1, <1>b DEF CreateLocalOrder, StoreAbandoned, tillVars
<1>2. ASSUME NEW t \in Tabs, Start(t) \/ ReleaseOrphanedClaims(t) \/ CloseTab(t)
      PROVE  timer'[u] \/ (run'[u].phase # "idle" /\ run'[u].timed)
  BY <1>2, <1>a, <1>b DEF Start, ReleaseOrphanedClaims, CloseTab
<1>3. ASSUME NEW t \in Tabs, GoOnline(t) \/ GoOffline(t)
      PROVE  timer'[u] \/ (run'[u].phase # "idle" /\ run'[u].timed)
  BY <1>3, <1>a, <1>b DEF GoOnline, GoOffline
<1>4. ASSUME NEW t \in Tabs, TimerFires(t)
      PROVE  timer'[u] \/ (run'[u].phase # "idle" /\ run'[u].timed)
  BY <1>4, <1>a, <1>b DEF TimerFires, RunIn
<1>5. ASSUME NEW t \in Tabs, TriggerSync(t)
      PROVE  timer'[u] \/ (run'[u].phase # "idle" /\ run'[u].timed)
  BY <1>5, <1>a, <1>b DEF TriggerSync, RunIn
<1>6. ASSUME NEW t \in Tabs, ClaimBatch(t)
      PROVE  timer'[u] \/ (run'[u].phase # "idle" /\ run'[u].timed)
  BY <1>6, <1>a, <1>b DEF ClaimBatch, Run
<1>7. ASSUME NEW t \in Tabs, ReceiveResults(t)
      PROVE  timer'[u] \/ (run'[u].phase # "idle" /\ run'[u].timed)
  BY <1>7, <1>a, <1>b DEF ReceiveResults, RunIn
<1>8. ASSUME NEW t \in Tabs, ReceiveRejection(t) \/ LoseRequest(t) \/ FinishCycle(t)
      PROVE  timer'[u] \/ (run'[u].phase # "idle" /\ run'[u].timed)
  <2>1. EndRun(t) /\ UNCHANGED <<tab, online>>
    BY <1>8 DEF ReceiveRejection, LoseRequest, FinishCycle
  <2> QED
    BY <1>a, <1>b, <2>1 DEF EndRun, Idle, RunIn
<1>9. ASSUME NEW t \in Tabs, NEW o \in Orders, StoreOrder(t, o) \/ FailOrder(t, o)
      PROVE  timer'[u] \/ (run'[u].phase # "idle" /\ run'[u].timed)
  BY <1>9, <1>a, <1>b DEF StoreOrder, FailOrder, Run
<1>10. CASE UNCHANGED vars
  BY <1>10, <1>b DEF vars, tillVars
<1> QED
  BY <1>1, <1>2, <1>3, <1>4, <1>5, <1>6, <1>7, <1>8, <1>9, <1>10 DEF Next, Proceed, Fault

(* Under every interleaving of timers, connection changes, manual runs and *)
(* failures, the sync loop of an open, online tab never dies.              *)
THEOREM LoopNeverDies == Spec => []LoopAlive
<1>1. Init => LoopAlive
  BY DEF Init, LoopAlive
<1> QED
  BY <1>1, StepLoopAlive, TypeCorrect, PTL DEF Spec

-------------------------------------------------------------------------------
(* The promise made about each sale *)

LEMMA InitLedger == Init => Ledger!Init
BY DEF Init, Ledger!Init, Rung

LEMMA RungKept ==
  ASSUME \A o \in Orders : (pendingOrders'[o] = "absent") <=> (pendingOrders[o] = "absent")
  PROVE  UNCHANGED Rung
BY DEF Rung

LEMMA BookStepLedger ==
  ASSUME IInv, NEW o \in Rung \ (Malformed \cup Unstorable), SyncOne(o), UNCHANGED pendingOrders
  PROVE  [Ledger!Next]_(Ledger!ledgerVars)
<1>1. o \in Orders /\ UNCHANGED Rung /\ deductions \in [Orders -> Nat]
  BY DEF IInv, TypeOK, Rung
<1>2. CASE o \in orders
  BY <1>1, <1>2 DEF SyncOne, InsertIfNew, ApplyDelta, Ledger!ledgerVars
<1>3. CASE o \notin orders
  <2>1. deductions[o] = 0 /\ deductions' = [deductions EXCEPT ![o] = 1]
    <3>1. deductions[o] = 0
      BY <1>1, <1>3 DEF IInv, StockDeductedOnce
    <3>2. deductions' = [deductions EXCEPT ![o] = deductions[o] + 1]
      BY <1>3 DEF SyncOne, ApplyDelta
    <3>3. deductions' = [deductions EXCEPT ![o] = 0 + 1]
      BY <3>1, <3>2
    <3> QED
      BY <3>1, <3>3
  <2>2. Ledger!Book(o)
    BY <1>1, <2>1 DEF Ledger!Book
  <2> QED
    BY <1>1, <2>2 DEF Ledger!Next
<1> QED
  BY <1>2, <1>3

LEMMA StepLedger == IInv /\ [Next]_vars => [Ledger!Next]_(Ledger!ledgerVars)
<1> SUFFICES ASSUME IInv, [Next]_vars
             PROVE  [Ledger!Next]_(Ledger!ledgerVars)
  OBVIOUS
<1>a. /\ pendingOrders \in [Orders -> SyncStatus \cup {"absent"}]
      /\ \A t \in Tabs : run[t].todo \subseteq run[t].batch /\ run[t].batch \subseteq Rung
      /\ abandoned \subseteq Rung \ Malformed
  BY DEF IInv, TypeOK, WireInv
<1>1. ASSUME NEW o \in Orders, CreateLocalOrder(o)
      PROVE  [Ledger!Next]_(Ledger!ledgerVars)
  <2>1. o \notin Rung /\ Rung' = Rung \cup {o}
    BY <1>1, <1>a DEF CreateLocalOrder, Rung
  <2>2. Ledger!RingUp(o)
    BY <1>1, <2>1 DEF CreateLocalOrder, serverVars, Ledger!RingUp
  <2> QED
    BY <2>2 DEF Ledger!Next
<1>2. ASSUME NEW t \in Tabs, Proceed(t) \/ Fault(t)
      PROVE  [Ledger!Next]_(Ledger!ledgerVars)
  <2>1. UNCHANGED deductions
    BY <1>2 DEF Proceed, Fault, Start, ReleaseOrphanedClaims, CloseTab, GoOnline, GoOffline, TimerFires,
      TriggerSync, ClaimBatch, ReceiveResults, ReceiveRejection, LoseRequest, FinishCycle, serverVars
  <2>2. \A o \in Orders : (pendingOrders'[o] = "absent") <=> (pendingOrders[o] = "absent")
    <3>1. CASE ReleaseOrphanedClaims(t)
      BY <1>a, <3>1 DEF ReleaseOrphanedClaims
    <3>2. CASE ClaimBatch(t)
      BY <1>a, <3>2, NextBatchSyncable DEF ClaimBatch, SYNCABLE_STATUSES
    <3>3. CASE ReceiveResults(t) \/ ReceiveRejection(t) \/ LoseRequest(t)
      BY <1>a, <3>3 DEF ReceiveResults, ReceiveRejection, LoseRequest, MarkBatch, Rung
    <3>4. CASE \/ Start(t) \/ CloseTab(t) \/ GoOnline(t) \/ GoOffline(t)
               \/ TimerFires(t) \/ TriggerSync(t) \/ FinishCycle(t)
      BY <3>4 DEF Start, CloseTab, GoOnline, GoOffline, TimerFires, TriggerSync, FinishCycle
    <3> QED
      BY <1>2, <3>1, <3>2, <3>3, <3>4 DEF Proceed, Fault
  <2> QED
    BY <2>1, <2>2, RungKept DEF Ledger!ledgerVars
<1>3. ASSUME NEW t \in Tabs, NEW o \in Orders, StoreOrder(t, o)
      PROVE  [Ledger!Next]_(Ledger!ledgerVars)
  <2>1. o \in Rung \ (Malformed \cup Unstorable)
    BY <1>3, <1>a DEF StoreOrder, CanServe, WellFormed
  <2> QED
    BY <1>3, <2>1, BookStepLedger DEF StoreOrder
<1>4. ASSUME NEW t \in Tabs, NEW o \in Orders, FailOrder(t, o)
      PROVE  [Ledger!Next]_(Ledger!ledgerVars)
  BY <1>4 DEF FailOrder, serverVars, Rung, Ledger!ledgerVars
<1>5. ASSUME NEW o \in Orders, StoreAbandoned(o)
      PROVE  [Ledger!Next]_(Ledger!ledgerVars)
  BY <1>5, <1>a, BookStepLedger DEF StoreAbandoned, tillVars
<1>6. CASE UNCHANGED vars
  BY <1>6 DEF vars, tillVars, serverVars, Rung, Ledger!ledgerVars
<1> QED
  BY <1>1, <1>2, <1>3, <1>4, <1>5, <1>6 DEF Next

(* However many tabs, retries, lost answers and late requests there are,   *)
(* the queue and the server together keep the promise of SaleLedger: a     *)
(* sale is rung up once and booked at most once, if it is acceptable.      *)
THEOREM LedgerImplemented == Spec => ImplementsLedger
BY InitLedger, StepLedger, BooksInvariant, PTL DEF Spec, ImplementsLedger, Ledger!Spec

-------------------------------------------------------------------------------
(* A till with one tab *)

OneTill == \A t, u \in Tabs : t = u

Claimed == {o \in Orders : pendingOrders[o] = "syncing"}

(* While the tab is open the claims are those of its run; before that no   *)
(* run carries anything, and what is claimed is left from an earlier page. *)
OwnedInv == ClaimsOwned /\ \A t \in Tabs : tab[t] # "open" => run[t].batch = {}

\* What one tab does to the claims, when there is no other.
LEMMA OwnedStep ==
  ASSUME OneTill, NEW t \in Tabs,
         tab'[t] = "open" => Claimed' = run'[t].batch,
         tab'[t] # "open" => run'[t].batch = {}
  PROVE  OwnedInv'
BY DEF OneTill, OwnedInv, ClaimsOwned, Claimed

LEMMA StepOwned ==
  ASSUME OneTill, TypeOK, OwnedInv, [Next]_vars
  PROVE  OwnedInv'
<1>a. /\ tab \in [Tabs -> {"closed", "recovering", "open"}]
      /\ run \in [Tabs -> Run]
      /\ pendingOrders \in [Orders -> SyncStatus \cup {"absent"}]
      /\ \A t \in Tabs : run[t].phase # "sending" => run[t].batch = {}
  BY DEF TypeOK
<1>b. \A t \in Tabs : /\ tab[t] = "open" => Claimed = run[t].batch
                      /\ tab[t] # "open" => run[t].batch = {}
  BY DEF OwnedInv, ClaimsOwned, Claimed
<1>1. ASSUME NEW o \in Orders, CreateLocalOrder(o)
      PROVE  OwnedInv'
  <2>1. Claimed' = Claimed
    BY <1>1, <1>a DEF CreateLocalOrder, Claimed
  <2> QED
    BY <1>1, <1>b, <2>1 DEF CreateLocalOrder, OwnedInv, ClaimsOwned, Claimed
<1>2. ASSUME NEW t \in Tabs, Start(t) \/ CloseTab(t)
      PROVE  OwnedInv'
  <2>1. tab'[t] # "open" /\ run'[t].batch = {}
    BY <1>2, <1>a, <1>b DEF Start, CloseTab, Idle, RunIn
  <2> QED
    BY <2>1, OwnedStep
<1>3. ASSUME NEW t \in Tabs, ReleaseOrphanedClaims(t)
      PROVE  OwnedInv'
  <2>1. Claimed' = {} /\ run'[t].batch = {}
    BY <1>3, <1>b DEF ReleaseOrphanedClaims, Claimed
  <2> QED
    BY <2>1, OwnedStep
<1>4. ASSUME NEW t \in Tabs, ClaimBatch(t)
      PROVE  OwnedInv'
  <2>1. tab[t] = "open" /\ run[t].phase = "claiming"
    BY <1>4 DEF ClaimBatch
  <2>2. Claimed = {}
    BY <1>a, <1>b, <2>1
  <2>3. \A o \in Orders : pendingOrders'[o] = "syncing" <=> o \in NextBatch
    BY <1>4, <2>2 DEF ClaimBatch, Claimed
  <2>4. Claimed' = NextBatch
    BY <2>3, NextBatchSyncable DEF Claimed
  <2>5. run'[t].batch = NextBatch /\ tab'[t] = "open"
    BY <1>4, <1>a, <2>1 DEF ClaimBatch, Run
  <2> QED
    BY <2>4, <2>5, OwnedStep
<1>5. ASSUME NEW t \in Tabs, ReceiveResults(t) \/ ReceiveRejection(t) \/ LoseRequest(t)
      PROVE  OwnedInv'
  <2>1. run'[t].batch = {} /\ tab' = tab
    BY <1>5, <1>a DEF ReceiveResults, ReceiveRejection, LoseRequest, EndRun, Idle, RunIn
  <2>2. Claimed' \subseteq Claimed \ run[t].batch
    BY <1>5, <1>a DEF ReceiveResults, ReceiveRejection, LoseRequest, MarkBatch, Claimed
  <2>3. tab[t] = "open" => Claimed' = {}
    BY <1>b, <2>2
  <2> QED
    BY <2>1, <2>3, OwnedStep
<1>6. ASSUME NEW t \in Tabs,
             \/ GoOnline(t) \/ GoOffline(t) \/ TimerFires(t) \/ TriggerSync(t)
             \/ FinishCycle(t) \/ \E o \in Orders : StoreOrder(t, o) \/ FailOrder(t, o)
      PROVE  OwnedInv'
  <2>1. run'[t].batch = run[t].batch
    <3>1. CASE GoOnline(t) \/ GoOffline(t)
      BY <3>1 DEF GoOnline, GoOffline
    <3>2. CASE TimerFires(t) \/ TriggerSync(t)
      <4>1. \/ UNCHANGED run
            \/ /\ run[t].phase = "idle"
               /\ \E timed \in BOOLEAN : run' = [run EXCEPT ![t] = RunIn("claiming", timed)]
        BY <3>2 DEF TimerFires, TriggerSync
      <4>2. run[t].phase = "idle" => run[t].batch = {}
        BY <1>a
      <4>3. \A timed : RunIn("claiming", timed).batch = {}
        BY DEF RunIn
      <4>4. ASSUME NEW timed, run' = [run EXCEPT ![t] = RunIn("claiming", timed)]
            PROVE  run'[t].batch = {}
        BY <1>a, <4>3, <4>4
      <4> QED
        BY <4>1, <4>2, <4>4
    <3>3. CASE FinishCycle(t)
      BY <1>a, <3>3 DEF FinishCycle, EndRun, Idle, RunIn
    <3>4. CASE \E o \in Orders : StoreOrder(t, o) \/ FailOrder(t, o)
      BY <1>a, <3>4 DEF StoreOrder, FailOrder, Run
    <3> QED
      BY <1>6, <3>1, <3>2, <3>3, <3>4
  <2>2. UNCHANGED <<tab, pendingOrders>>
    BY <1>6 DEF GoOnline, GoOffline, TimerFires, TriggerSync, FinishCycle, StoreOrder, FailOrder
  <2>3. Claimed' = Claimed
    BY <2>2 DEF Claimed
  <2>4. /\ tab'[t] = "open" => Claimed' = run'[t].batch
        /\ tab'[t] # "open" => run'[t].batch = {}
    BY <1>b, <2>1, <2>2, <2>3
  <2> QED
    BY <2>4, OwnedStep
<1>7. CASE UNCHANGED tillVars
  BY <1>7, <1>b DEF tillVars, OwnedInv, ClaimsOwned, Claimed
<1> QED
  BY <1>1, <1>2, <1>3, <1>4, <1>5, <1>6, <1>7
  DEF Next, Proceed, Fault, StoreAbandoned, vars

LEMMA OneTillOwns == OneTill /\ Spec => []OwnedInv
<1>1. Init => OwnedInv
  BY DEF Init, OwnedInv, ClaimsOwned, Idle, RunIn
<1>2. OneTill /\ TypeOK /\ OwnedInv /\ [Next]_vars => OwnedInv'
  BY StepOwned
<1>3. OneTill => OneTill'
  BY DEF OneTill
<1> QED
  BY <1>1, <1>2, <1>3, TypeCorrect, PTL DEF Spec

(* On a till with one tab no claim outlives its run unnoticed: whatever is *)
(* marked "syncing" is in the run's request, through failures and reloads. *)
THEOREM ClaimsAreOwned == OneTill /\ Spec => []ClaimsOwned
<1>1. OwnedInv => ClaimsOwned
  BY DEF OwnedInv
<1> QED
  BY <1>1, OneTillOwns, PTL

LEMMA StepFinal ==
  ASSUME TypeOK, OwnedInv, [Next]_vars, NEW o \in Orders,
         pendingOrders[o] \in {"synced", "conflict"}
  PROVE  pendingOrders'[o] = pendingOrders[o]
<1>1. CASE UNCHANGED pendingOrders
  BY <1>1
<1>2. ASSUME NEW q \in Orders, CreateLocalOrder(q)
      PROVE  pendingOrders'[o] = pendingOrders[o]
  BY <1>2 DEF CreateLocalOrder
<1>3. ASSUME NEW t \in Tabs, ReleaseOrphanedClaims(t)
      PROVE  pendingOrders'[o] = pendingOrders[o]
  BY <1>3 DEF ReleaseOrphanedClaims
<1>4. ASSUME NEW t \in Tabs, ClaimBatch(t)
      PROVE  pendingOrders'[o] = pendingOrders[o]
  BY <1>4, NextBatchSyncable DEF ClaimBatch, SYNCABLE_STATUSES
<1>5. ASSUME NEW t \in Tabs, ReceiveResults(t) \/ ReceiveRejection(t) \/ LoseRequest(t)
      PROVE  pendingOrders'[o] = pendingOrders[o]
  <2>1. o \notin run[t].batch
    BY DEF OwnedInv, ClaimsOwned, TypeOK
  <2> QED
    BY <1>5, <2>1 DEF ReceiveResults, ReceiveRejection, LoseRequest, MarkBatch
<1> QED
  BY <1>1, <1>2, <1>3, <1>4, <1>5
  DEF Next, Proceed, Fault, Start, GoOnline, GoOffline, TimerFires, TriggerSync, FinishCycle,
      CloseTab, StoreOrder, FailOrder, StoreAbandoned, tillVars, vars

(* On a till with one tab a sale that was settled stays so: no answer,     *)
(* retry or restart puts it back in the queue.                             *)
THEOREM SettledStays == OneTill /\ Spec => FinalStatus
<1>1. TypeOK /\ OwnedInv /\ [Next]_vars =>
        [\A o \in Orders : pendingOrders[o] \in {"synced", "conflict"} =>
                             pendingOrders'[o] = pendingOrders[o]]_vars
  BY StepFinal
<1> QED
  BY <1>1, OneTillOwns, TypeCorrect, PTL DEF Spec, FinalStatus
===============================================================================
