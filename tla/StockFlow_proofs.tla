---------------------------- MODULE StockFlow_proofs ----------------------------
(***************************************************************************)
(* Proofs about StockFlow, for every finite set of products and sales and  *)
(* whatever the bounds on quantities are.                                  *)
(***************************************************************************)
EXTENDS StockFlow, Sums_proofs

USE StockFlowAssumption

-------------------------------------------------------------------------------
(* The inductive invariant *)

Cycle == [phase : {"idle", "orders", "create", "edit", "pull", "seed"},
          todo : SUBSET Sales, ok : SUBSET Sales,
          creates : SUBSET CreateCall, sent : SUBSET CreateCall,
          answered : BOOLEAN, got : [Products -> ServerRow]]

Movement == [by : {"movement", "none"}, balance : Int]

\* A row that waits for its create is never oversold: its stock is what the create will carry.
UnpushedInStock == \A p \in Products : products[p].localOnly => products[p].stock >= 0

\* Only a product the till has can have moved.
OnlyHereMoves == \A p \in Products : ~products[p].here => movements[p] = NotMoved

IInv == TypeOK /\ UnpushedInStock /\ OnlyHereMoves /\ BalanceIsStock

\* The part of the invariant about the till.
TillInv ==
  /\ products \in [Products -> Row]
  /\ movements \in [Products -> Movement]
  /\ UnpushedInStock /\ OnlyHereMoves /\ BalanceIsStock

\* The part about calls, the server and the history.
WireInv ==
  /\ queue \in [Sales -> {"absent", "queued", "synced", "elsewhere"}]
  /\ cycle \in Cycle
  /\ lateSales \subseteq Sales /\ lateCreates \subseteq CreateCall
  /\ \A c \in cycle.creates \cup cycle.sent \cup lateCreates : c.stock >= 0

StoreInv ==
  /\ catalogue \in [Products -> ServerRow]
  /\ orders \subseteq Sales
  /\ line \in [Sales -> [product : Products, quantity : 1 .. MaxQty]]
  /\ opening \in [Products -> Nat]
  /\ soldEarly \subseteq Products /\ movedEarly \subseteq Products

LEMMA Parts == IInv <=> TillInv /\ WireInv /\ StoreInv
BY DEF IInv, TypeOK, TillInv, WireInv, StoreInv, Cycle, Movement

LEMMA PartsPrime == IInv' <=> TillInv' /\ WireInv' /\ StoreInv'
BY Parts, PTL

-------------------------------------------------------------------------------
(* Operators *)

LEMMA CycleInIsCycle ==
  ASSUME NEW phase \in {"idle", "orders", "create", "edit", "pull", "seed"},
         NEW todo \in SUBSET Sales, NEW creates \in SUBSET CreateCall
  PROVE  CycleIn(phase, todo, creates) \in Cycle
BY DEF CycleIn, Cycle, ServerRow, Unknown

LEMMA IdleIsCycle == Idle \in Cycle /\ Idle.creates = {} /\ Idle.sent = {}
BY CycleInIsCycle DEF Idle, CycleIn

\* A stock change by hand or by a sale keeps row and movement in step, and above zero.
LEMMA MoveStockTillInv ==
  ASSUME TillInv, NEW p \in Products, NEW delta \in Int,
         products[p].here, MoveStock(p, delta)
  PROVE  TillInv'
<1> DEFINE balance == NotNegative(products[p].stock + delta)
<1>1. products[p] \in Row
  BY DEF TillInv
<1>2. balance \in Nat
  BY <1>1 DEF Row, NotNegative
<1>3. /\ products' = [products EXCEPT ![p].stock = balance]
      /\ movements' = [movements EXCEPT ![p] = Moved(balance)]
  BY DEF MoveStock
<1> HIDE DEF balance
<1>4. Moved(balance) \in Movement
  BY <1>2 DEF Moved, Movement
<1>5. products' \in [Products -> Row] /\ movements' \in [Products -> Movement]
  BY <1>2, <1>3, <1>4 DEF TillInv, Row
<1>6. /\ products'[p].stock = balance /\ products'[p].here
      /\ movements'[p] = Moved(balance)
      /\ \A q \in Products \ {p} :
           products'[q] = products[q] /\ movements'[q] = movements[q]
  BY <1>1, <1>3 DEF TillInv, Row
<1>7. UnpushedInStock'
  BY <1>2, <1>6 DEF TillInv, UnpushedInStock
<1>8. OnlyHereMoves'
  BY <1>6 DEF TillInv, OnlyHereMoves
<1>9. BalanceIsStock'
  BY <1>6 DEF TillInv, BalanceIsStock, Moved
<1> QED
  BY <1>5, <1>7, <1>8, <1>9 DEF TillInv

\* A step that keeps every row's stock and presence, and gives no row a create to wait for.
LEMMA FlagsTillInv ==
  ASSUME TillInv, products' \in [Products -> Row], UNCHANGED movements,
         \A p \in Products : /\ products'[p].here = products[p].here
                             /\ products'[p].stock = products[p].stock
                             /\ products'[p].localOnly => products[p].localOnly
  PROVE  TillInv'
BY DEF TillInv, UnpushedInStock, OnlyHereMoves, BalanceIsStock

LEMMA TillUnchanged == TillInv /\ UNCHANGED <<products, movements>> => TillInv'
BY DEF TillInv, UnpushedInStock, OnlyHereMoves, BalanceIsStock

\* A step of the cycle that puts no call on the wire that was not there.
LEMMA CycleWireInv ==
  ASSUME WireInv, cycle' \in Cycle, UNCHANGED <<queue, lateSales, lateCreates>>,
         cycle'.creates \cup cycle'.sent \subseteq cycle.creates \cup cycle.sent
  PROVE  WireInv'
BY DEF WireInv

LEMMA WireUnchanged == WireInv /\ UNCHANGED <<queue, wire>> => WireInv'
BY DEF WireInv, wire

LEMMA StoreUnchanged == StoreInv /\ UNCHANGED <<server, history>> => StoreInv'
BY DEF StoreInv, server, history

LEMMA SyncOneStoreInv ==
  ASSUME StoreInv, NEW s \in Sales, SyncOne(s), UNCHANGED history
  PROVE  StoreInv'
<1>1. line[s] \in [product : Products, quantity : 1 .. MaxQty]
  BY DEF StoreInv
<1>2. catalogue' \in [Products -> ServerRow]
  BY <1>1 DEF SyncOne, StoreInv, ServerRow
<1> QED
  BY <1>2 DEF SyncOne, StoreInv, history

LEMMA CreateStoreInv ==
  ASSUME StoreInv, NEW c \in CreateCall, Create(c), UNCHANGED <<orders, history>>
  PROVE  StoreInv'
<1>1. catalogue' \in [Products -> ServerRow]
  BY DEF Create, StoreInv, ServerRow, CreateCall, Stored
<1> QED
  BY <1>1 DEF StoreInv, history

-------------------------------------------------------------------------------
(* Initially *)

LEMMA InitIInv == Init => IInv
<1> SUFFICES ASSUME Init
             PROVE  IInv
  OBVIOUS
<1>1. TillInv
  BY DEF Init, TillInv, Row, NoRow, Movement, NotMoved, UnpushedInStock, OnlyHereMoves,
         BalanceIsStock
<1>2. WireInv
  BY IdleIsCycle DEF Init, WireInv
<1>3. catalogue \in [Products -> {Unknown} \cup {Stored(n) : n \in 0 .. MaxStock}]
  BY DEF Init
<1>a. \A n \in 0 .. MaxStock : Stored(n) \in ServerRow /\ Stored(n).stock \in Nat
  BY DEF Stored, ServerRow
<1>b. Unknown \in ServerRow /\ Unknown.stock \in Nat
  BY DEF Unknown, ServerRow
<1>4. \A p \in Products : catalogue[p] \in ServerRow /\ catalogue[p].stock \in Nat
  BY <1>3, <1>a, <1>b
<1>5. StoreInv
  BY <1>3, <1>4 DEF Init, StoreInv
<1> QED
  BY <1>1, <1>2, <1>5, Parts

-------------------------------------------------------------------------------
(* What people do *)

LEMMA OperateIInv == IInv /\ Operate => IInv'
<1> SUFFICES ASSUME TillInv, WireInv, StoreInv, Operate
             PROVE  TillInv' /\ WireInv' /\ StoreInv'
  BY Parts, PartsPrime
<1>1. ASSUME NEW s \in Sales, CreateLocalOrder(s)
      PROVE  TillInv' /\ WireInv' /\ StoreInv'
  <2> DEFINE p == line[s].product
  <2>1. p \in Products /\ -line[s].quantity \in Int
    BY DEF StoreInv
  <2>2. TillInv'
    BY <1>1, <2>1, MoveStockTillInv DEF CreateLocalOrder
  <2>3. WireInv'
    BY <1>1 DEF CreateLocalOrder, WireInv, wire
  <2>4. StoreInv'
    BY <1>1, <2>1 DEF CreateLocalOrder, StoreInv, server
  <2> QED
    BY <2>2, <2>3, <2>4
<1>2. ASSUME NEW s \in Sales, SellElsewhere(s)
      PROVE  TillInv' /\ WireInv' /\ StoreInv'
  <2>1. TillInv'
    BY <1>2, TillUnchanged DEF SellElsewhere
  <2>2. WireInv'
    BY <1>2 DEF SellElsewhere, WireInv, wire
  <2>3. StoreInv'
    BY <1>2, SyncOneStoreInv DEF SellElsewhere
  <2> QED
    BY <2>1, <2>2, <2>3
<1>3. ASSUME NEW p \in Products, AddProduct(p)
      PROVE  TillInv' /\ WireInv' /\ StoreInv'
  <2>1. PICK n \in 0 .. MaxStock :
          /\ products' = [products EXCEPT ![p] = RowWith(n, TRUE)]
          /\ opening' = [opening EXCEPT ![p] = n]
    BY <1>3 DEF AddProduct
  <2>2. products' \in [Products -> Row]
    BY <2>1 DEF TillInv, RowWith, Row
  <2>3. /\ products'[p].here /\ products'[p].stock = n
        /\ \A q \in Products \ {p} : products'[q] = products[q]
    BY <2>1 DEF TillInv, RowWith
  <2>4. UNCHANGED movements /\ movements[p] = NotMoved
    BY <1>3 DEF AddProduct, TillInv, OnlyHereMoves
  <2>5. TillInv'
    BY <2>2, <2>3, <2>4
    DEF TillInv, UnpushedInStock, OnlyHereMoves, BalanceIsStock, NotMoved
  <2>6. WireInv'
    BY <1>3, WireUnchanged DEF AddProduct
  <2>7. StoreInv'
    BY <1>3, <2>1 DEF AddProduct, StoreInv, server
  <2> QED
    BY <2>5, <2>6, <2>7
<1>4. ASSUME NEW p \in Products, UpdateProduct(p)
      PROVE  TillInv' /\ WireInv' /\ StoreInv'
  <2>1. products' \in [Products -> Row]
    BY <1>4 DEF UpdateProduct, Edited, TillInv, Row
  <2>2. TillInv'
    BY <1>4, <2>1, FlagsTillInv DEF UpdateProduct, Edited, TillInv, Row
  <2> QED
    BY <1>4, <2>2, WireUnchanged, StoreUnchanged DEF UpdateProduct
<1>6. ASSUME NEW p \in Products, SaveProductForm(p)
      PROVE  TillInv' /\ WireInv' /\ StoreInv'
  <2>1. PICK n \in 0 .. MaxStock :
          /\ products' = Edited(p, n)
          /\ IF products[p].localOnly /\ p \notin soldEarly \cup movedEarly /\ ~CreateOut(p)
             THEN opening' = [opening EXCEPT ![p] = n] /\ UNCHANGED movedEarly
             ELSE /\ movedEarly' = IF products[p].localOnly THEN movedEarly \cup {p} ELSE movedEarly
                  /\ UNCHANGED opening
    BY <1>6 DEF SaveProductForm
  <2>a. products \in [Products -> Row] /\ products[p] \in Row /\ n \in Int
    BY DEF TillInv
  <2>b. products' = [products EXCEPT ![p].stock = n, ![p].pendingUpdate = ~products[p].localOnly]
    BY <2>1 DEF Edited
  <2>c. products' \in [Products -> Row]
    BY <2>a, <2>b DEF Row
  <2>d. products'[p].here = products[p].here /\ products'[p].stock = n
    BY <2>a, <2>b DEF Row
  <2>e. \A q \in Products \ {p} : products'[q] = products[q]
    BY <2>a, <2>b
  <2>3. /\ movements' \in [Products -> Movement] /\ movements'[p] = NotMoved
        /\ \A q \in Products \ {p} : movements'[q] = movements[q]
    BY <1>6 DEF SaveProductForm, TillInv, NotMoved, Movement
  <2>4. TillInv'
    BY <2>c, <2>d, <2>e, <2>3 DEF TillInv, UnpushedInStock, OnlyHereMoves, BalanceIsStock, NotMoved
  <2>5. WireInv'
    BY <1>6, WireUnchanged DEF SaveProductForm
  <2>6. opening' \in [Products -> Nat] /\ movedEarly' \subseteq Products
    BY <2>1 DEF StoreInv
  <2>7. StoreInv'
    BY <1>6, <2>6 DEF SaveProductForm, StoreInv, server
  <2> QED
    BY <2>4, <2>5, <2>7
<1>5. ASSUME NEW p \in Products, RecordStockMovement(p)
      PROVE  TillInv' /\ WireInv' /\ StoreInv'
  <2>1. PICK delta \in -MaxQty .. MaxQty : MoveStock(p, delta)
    BY <1>5 DEF RecordStockMovement
  <2>2. TillInv'
    BY <1>5, <2>1, MoveStockTillInv DEF RecordStockMovement
  <2>3. WireInv'
    BY <1>5, WireUnchanged DEF RecordStockMovement
  <2>4. StoreInv'
    BY <1>5 DEF RecordStockMovement, StoreInv, server
  <2> QED
    BY <2>2, <2>3, <2>4
<1> QED
  BY <1>1, <1>2, <1>3, <1>4, <1>5, <1>6 DEF Operate

-------------------------------------------------------------------------------
(* The cycle at the till *)

\* The listed rows carry no negative stock.
LEMMA ListedInStock ==
  ASSUME TillInv
  PROVE  /\ ListUnpushedProducts \in SUBSET CreateCall
         /\ \A c \in ListUnpushedProducts : c.stock >= 0
BY DEF TillInv, UnpushedInStock, ListUnpushedProducts, CreateCall, Row

LEMMA TillStepIInv ==
  ASSUME TillInv, WireInv, StoreInv,
         \/ BeginCycle \/ ReceiveResults \/ SendCreate \/ ReceiveCreate \/ EndCreates
         \/ \E done \in SUBSET Products : PushEdits(done)
         \/ SeedProducts \/ ListForBusiness
  PROVE  TillInv' /\ WireInv' /\ StoreInv'
<1>a. cycle \in Cycle
  BY DEF WireInv
<1>1. ASSUME BeginCycle
      PROVE  TillInv' /\ WireInv' /\ StoreInv'
  <2>1. Queued \in SUBSET Sales
    BY DEF Queued
  <2>2. cycle' \in Cycle /\ cycle'.creates = {} /\ cycle'.sent = {}
    BY <1>1, <2>1, CycleInIsCycle DEF BeginCycle, CycleIn
  <2> QED
    BY <1>1, <2>2, CycleWireInv, TillUnchanged, StoreUnchanged DEF BeginCycle, till
<1>2. ASSUME ReceiveResults
      PROVE  TillInv' /\ WireInv' /\ StoreInv'
  <2>1. /\ cycle' \in Cycle
        /\ cycle'.creates = ListUnpushedProducts /\ cycle'.sent = {}
    BY <1>2, ListedInStock, CycleInIsCycle DEF ReceiveResults, CycleIn
  <2>2. queue' \in [Sales -> {"absent", "queued", "synced", "elsewhere"}]
    BY <1>2 DEF ReceiveResults, WireInv
  <2>3. WireInv'
    BY <1>2, <2>1, <2>2, ListedInStock DEF ReceiveResults, WireInv
  <2> QED
    BY <1>2, <2>3, TillUnchanged, StoreUnchanged DEF ReceiveResults
<1>3. ASSUME SendCreate
      PROVE  TillInv' /\ WireInv' /\ StoreInv'
  <2>1. PICK c \in cycle.creates :
             cycle' = [cycle EXCEPT !.creates = @ \ {c}, !.sent = {c}]
    BY <1>3 DEF SendCreate
  <2>2. /\ cycle' \in Cycle
        /\ cycle'.creates \cup cycle'.sent \subseteq cycle.creates \cup cycle.sent
    BY <1>a, <2>1 DEF Cycle
  <2> QED
    BY <1>3, <2>2, CycleWireInv, TillUnchanged, StoreUnchanged DEF SendCreate, till
<1>4. ASSUME ReceiveCreate
      PROVE  TillInv' /\ WireInv' /\ StoreInv'
  <2>1. PICK c \in cycle.sent : products' = [products EXCEPT ![c.id].localOnly = FALSE]
    BY <1>4 DEF ReceiveCreate
  <2>2. c.id \in Products
    BY <1>a DEF Cycle, CreateCall
  <2>3. products' \in [Products -> Row]
    BY <2>1, <2>2 DEF TillInv, Row
  <2>4. TillInv'
    BY <1>4, <2>1, <2>2, <2>3, FlagsTillInv DEF ReceiveCreate, TillInv, Row
  <2>5. cycle' \in Cycle /\ cycle'.creates = cycle.creates /\ cycle'.sent = {}
    BY <1>4, <1>a DEF ReceiveCreate, Cycle
  <2> QED
    BY <1>4, <2>4, <2>5, CycleWireInv, StoreUnchanged DEF ReceiveCreate
<1>5. ASSUME EndCreates
      PROVE  TillInv' /\ WireInv' /\ StoreInv'
  <2>1. cycle' \in Cycle /\ cycle'.creates = {} /\ cycle'.sent = {}
    BY <1>5, CycleInIsCycle DEF EndCreates, CycleIn
  <2> QED
    BY <1>5, <2>1, CycleWireInv, TillUnchanged, StoreUnchanged DEF EndCreates, till
<1>6. ASSUME NEW done \in SUBSET Products, PushEdits(done)
      PROVE  TillInv' /\ WireInv' /\ StoreInv'
  <2>1. cycle' \in Cycle /\ cycle'.creates = {} /\ cycle'.sent = {}
    BY <1>6, CycleInIsCycle DEF PushEdits, CycleIn
  <2>2. products' \in [Products -> Row]
    BY <1>6 DEF PushEdits, TillInv, Row
  <2>3. TillInv'
    BY <1>6, <2>2, FlagsTillInv DEF PushEdits, TillInv, Row
  <2> QED
    BY <1>6, <2>1, <2>3, CycleWireInv, StoreUnchanged DEF PushEdits
<1>7. ASSUME SeedProducts
      PROVE  TillInv' /\ WireInv' /\ StoreInv'
  <2> DEFINE pulled(p) == IF cycle.got[p].stored
                          THEN RowWith(cycle.got[p].stock, FALSE)
                          ELSE NoRow
  <2>1. \A p \in Products : pulled(p) \in Row /\ ~pulled(p).localOnly
    <3> TAKE p \in Products
    <3>1. cycle.got[p] \in ServerRow
      BY <1>a DEF Cycle
    <3>2. cycle.got[p].stock \in Int
      BY <3>1 DEF ServerRow
    <3> QED
      BY <3>2 DEF RowWith, NoRow, Row
  <2>2. /\ products' = [p \in Products |-> IF Flagged(p) THEN products[p] ELSE pulled(p)]
        /\ movements' = [p \in Products |-> IF Flagged(p) THEN movements[p] ELSE NotMoved]
    BY <1>7 DEF SeedProducts
  <2>3. NotMoved \in Movement /\ NotMoved.by # "movement"
    BY DEF NotMoved, Movement
  <2> HIDE DEF pulled
  <2>4. products' \in [Products -> Row] /\ movements' \in [Products -> Movement]
    BY <2>1, <2>2, <2>3 DEF TillInv
  <2>5. UnpushedInStock' /\ OnlyHereMoves' /\ BalanceIsStock'
    BY <2>1, <2>2, <2>3 DEF TillInv, UnpushedInStock, OnlyHereMoves, BalanceIsStock
  <2>6. TillInv'
    BY <2>4, <2>5 DEF TillInv
  <2> QED
    BY <1>7, <2>6, IdleIsCycle, CycleWireInv, StoreUnchanged DEF SeedProducts
<1>8. ASSUME ListForBusiness
      PROVE  TillInv' /\ WireInv' /\ StoreInv'
  <2>1. cycle' \in Cycle /\ cycle'.creates = cycle.creates /\ cycle'.sent = cycle.sent
    BY <1>8, <1>a DEF ListForBusiness, Cycle, StoreInv
  <2> QED
    BY <1>8, <2>1, CycleWireInv, TillUnchanged, StoreUnchanged DEF ListForBusiness, till
<1> QED
  BY <1>1, <1>2, <1>3, <1>4, <1>5, <1>6, <1>7, <1>8

-------------------------------------------------------------------------------
(* What is lost on the way *)

LEMMA LossIInv ==
  ASSUME TillInv, WireInv, StoreInv, AbandonCycle \/ LoseCreate
  PROVE  TillInv' /\ WireInv' /\ StoreInv'
<1>a. cycle \in Cycle
  BY DEF WireInv
<1>1. /\ cycle' \in Cycle
      /\ cycle'.creates \subseteq cycle.creates /\ cycle'.sent = {}
  BY <1>a, IdleIsCycle DEF AbandonCycle, LoseCreate, Cycle
<1>2. /\ lateSales' = lateSales \cup cycle.todo
      /\ lateCreates' = lateCreates \cup (IF cycle.answered THEN {} ELSE cycle.sent)
  BY DEF AbandonCycle, LoseCreate, Abandon
<1>3. lateSales' \subseteq Sales /\ lateCreates' \subseteq CreateCall
  BY <1>a, <1>2 DEF Cycle, WireInv
<1>4. lateCreates' \subseteq lateCreates \cup cycle.sent
  BY <1>2
<1>5. WireInv'
  BY <1>1, <1>3, <1>4 DEF AbandonCycle, LoseCreate, WireInv, till
<1> QED
  BY <1>5, TillUnchanged, StoreUnchanged DEF AbandonCycle, LoseCreate, till

-------------------------------------------------------------------------------
(* The server *)

LEMMA ServerIInv ==
  ASSUME TillInv, WireInv, StoreInv,
         \/ HandleCreate \/ Late
         \/ \E p \in Products : RefuseCreate(p)
         \/ \E s \in Sales : BookSale(s) \/ FailSale(s)
  PROVE  TillInv' /\ WireInv' /\ StoreInv'
<1>a. cycle \in Cycle
  BY DEF WireInv
<1>1. ASSUME HandleCreate
      PROVE  TillInv' /\ WireInv' /\ StoreInv'
  <2>1. PICK c \in cycle.sent : Create(c)
    BY <1>1 DEF HandleCreate
  <2>2. c \in CreateCall
    BY <1>a DEF Cycle
  <2>3. cycle' \in Cycle /\ cycle'.creates = cycle.creates /\ cycle'.sent = cycle.sent
    BY <1>1, <1>a DEF HandleCreate, Cycle
  <2> QED
    BY <1>1, <2>1, <2>2, <2>3, CycleWireInv, TillUnchanged, CreateStoreInv
    DEF HandleCreate, till
<1>2. ASSUME NEW p \in Products, RefuseCreate(p)
      PROVE  TillInv' /\ WireInv' /\ StoreInv'
  <2>1. cycle' \in Cycle /\ cycle'.creates = cycle.creates /\ cycle'.sent = {}
    BY <1>2, <1>a DEF RefuseCreate, Cycle
  <2> QED
    BY <1>2, <2>1, CycleWireInv, TillUnchanged, StoreUnchanged DEF RefuseCreate, till
<1>3. ASSUME NEW s \in Sales, BookSale(s)
      PROVE  TillInv' /\ WireInv' /\ StoreInv'
  <2>1. cycle' \in Cycle /\ cycle'.creates = cycle.creates /\ cycle'.sent = cycle.sent
    BY <1>3, <1>a DEF BookSale, Cycle
  <2> QED
    BY <1>3, <2>1, CycleWireInv, TillUnchanged, SyncOneStoreInv DEF BookSale, till
<1>4. ASSUME NEW s \in Sales, FailSale(s)
      PROVE  TillInv' /\ WireInv' /\ StoreInv'
  <2>1. cycle' \in Cycle /\ cycle'.creates = cycle.creates /\ cycle'.sent = cycle.sent
    BY <1>4, <1>a DEF FailSale, Cycle
  <2> QED
    BY <1>4, <2>1, CycleWireInv, TillUnchanged, StoreUnchanged DEF FailSale, till
<1>5. ASSUME NEW s \in Sales, BookLateSale(s)
      PROVE  TillInv' /\ WireInv' /\ StoreInv'
  BY <1>5, TillUnchanged, WireUnchanged, SyncOneStoreInv DEF BookLateSale, till
<1>6. ASSUME NEW c \in lateCreates, HandleLateCreate(c)
      PROVE  TillInv' /\ WireInv' /\ StoreInv'
  <2>1. c \in CreateCall
    BY DEF WireInv
  <2> QED
    BY <1>6, <2>1, TillUnchanged, WireUnchanged, CreateStoreInv DEF HandleLateCreate, till
<1> QED
  BY <1>1, <1>2, <1>3, <1>4, <1>5, <1>6 DEF Late

-------------------------------------------------------------------------------
(* The theorems *)

LEMMA StepIInv == IInv /\ [Next]_vars => IInv'
<1> SUFFICES ASSUME IInv, [Next]_vars
             PROVE  IInv'
  OBVIOUS
<1>a. TillInv /\ WireInv /\ StoreInv
  BY Parts
<1>1. CASE Operate
  BY <1>1, OperateIInv
<1>2. CASE CycleStep
  BY <1>2, <1>a, TillStepIInv, ServerIInv, PartsPrime DEF CycleStep
<1>3. CASE Fault
  BY <1>3, <1>a, TillStepIInv, LossIInv, ServerIInv, PartsPrime DEF Fault
<1>4. CASE Late
  BY <1>4, <1>a, ServerIInv, PartsPrime
<1>5. CASE UNCHANGED vars
  BY <1>5, <1>a, TillUnchanged, WireUnchanged, StoreUnchanged, PartsPrime DEF vars, till
<1> QED
  BY <1>1, <1>2, <1>3, <1>4, <1>5 DEF Next

(* The inductive invariant holds in every reachable state of the till and  *)
(* the server (db/index.ts, inventory.ts, sync/index.ts, product_service). *)
THEOREM StockInvariant == Spec => []IInv
BY InitIInv, StepIInv, PTL DEF Spec

(* Type correctness; with it, no create ever carries a stock that the      *)
(* server's validation refuses, however much of the product was sold       *)
(* before it was pushed (pushNewProducts).                                 *)
THEOREM TypeCorrect == Spec => []TypeOK
BY StockInvariant, PTL DEF IInv

(* The last movement of a product carries its stock, for any number of     *)
(* products and sales (recordStockMovement, createLocalOrder).             *)
THEOREM LedgerAgreesWithStock == Spec => []BalanceIsStock
BY StockInvariant, PTL DEF IInv
-------------------------------------------------------------------------------
(* The server's figure *)

InTime(p) == p \notin soldEarly \cup movedEarly

Calls == cycle.creates \cup cycle.sent \cup lateCreates

\* An order's line refers to a product that is stored.
BookedIfStored == \A s \in orders : HasProduct(s)

\* A row that waits for its create has the stock it was made with, or counts as early.
WaitsWithOpening ==
  \A p \in Products : products[p].localOnly =>
    products[p].here /\ (InTime(p) => products[p].stock = opening[p])

\* A create that could still store something carries that stock too.
CreatesCarryOpening ==
  \A c \in Calls :
    \/ catalogue[c.id].stored
    \/ products[c.id].localOnly /\ (InTime(c.id) => c.stock = opening[c.id])

\* One create is awaited at a time; when it is answered its product is stored.
AnswerMeansStored ==
  /\ \A c, d \in cycle.sent : c = d
  /\ cycle.answered => cycle.sent # {} /\ \A c \in cycle.sent : catalogue[c.id].stored

ExactInv ==
  /\ TypeOK /\ BookedIfStored /\ ServerStockExact
  /\ WaitsWithOpening /\ CreatesCarryOpening /\ AnswerMeansStored

\* What a step leaves alone, or only moves in one direction.
EarlyGrows == soldEarly \subseteq soldEarly' /\ movedEarly \subseteq movedEarly'
StoredStays == \A p \in Products : catalogue[p].stored => catalogue'[p].stored
StillWaits == \A p \in Products :
                products[p].localOnly => products'[p].localOnly \/ catalogue'[p].stored

LEMMA TypedStep == IInv /\ [Next]_vars => TypeOK /\ TypeOK'
BY StepIInv, PTL DEF IInv

LEMMA CallsTyped ==
  ASSUME TypeOK
  PROVE  \A c \in Calls : c.id \in Products
BY DEF TypeOK, Calls, CreateCall

LEMMA ServerSame ==
  ASSUME ExactInv, EarlyGrows, UNCHANGED <<catalogue, orders, line, opening>>
  PROVE  BookedIfStored' /\ ServerStockExact'
<1>1. BookedIfStored'
  BY DEF ExactInv, BookedIfStored, HasProduct
<1>2. ServerStockExact'
  BY DEF ExactInv, ServerStockExact, EarlyGrows, Quantity, SalesOf
<1> QED BY <1>1, <1>2

LEMMA TillSame ==
  ASSUME ExactInv, EarlyGrows, UNCHANGED opening,
         \A p \in Products : products'[p].localOnly =>
           \/ products[p].localOnly /\ products'[p].here = products[p].here
                                    /\ products'[p].stock = products[p].stock
           \/ products'[p].here /\ ~InTime(p)'
  PROVE  WaitsWithOpening'
BY DEF ExactInv, WaitsWithOpening, EarlyGrows, InTime

LEMMA CreatesSame ==
  ASSUME ExactInv, TypeOK', EarlyGrows, StoredStays, StillWaits, UNCHANGED opening,
         Calls' \subseteq Calls
  PROVE  CreatesCarryOpening'
<1>1. \A c \in Calls' : c.id \in Products /\ c \in Calls
  BY CallsTyped DEF ExactInv
<1> QED BY <1>1 DEF ExactInv, CreatesCarryOpening, EarlyGrows, InTime, StoredStays, StillWaits

LEMMA AnswerSame ==
  ASSUME ExactInv, StoredStays,
         \/ cycle'.sent = {} /\ ~cycle'.answered
         \/ cycle'.sent = cycle.sent /\ cycle'.answered = cycle.answered
  PROVE  AnswerMeansStored'
<1>1. \A c \in cycle.sent : c.id \in Products
  BY DEF ExactInv, TypeOK, CreateCall
<1> QED BY <1>1 DEF ExactInv, AnswerMeansStored, StoredStays

\* A step of the till or the network that sends nothing new.
LEMMA QuietStep ==
  ASSUME ExactInv, TypeOK', EarlyGrows, StillWaits, UNCHANGED <<catalogue, orders, line, opening>>,
         \A p \in Products : products'[p].localOnly =>
           \/ products[p].localOnly /\ products'[p].here = products[p].here
                                    /\ products'[p].stock = products[p].stock
           \/ products'[p].here /\ ~InTime(p)',
         Calls' \subseteq Calls,
         \/ cycle'.sent = {} /\ ~cycle'.answered
         \/ cycle'.sent = cycle.sent /\ cycle'.answered = cycle.answered
  PROVE  ExactInv'
<1>1. StoredStays
  BY DEF StoredStays
<1> QED BY <1>1, ServerSame, TillSame, CreatesSame, AnswerSame DEF ExactInv

LEMMA MoveStockMoves ==
  ASSUME TypeOK, NEW p \in Products, NEW delta, MoveStock(p, delta)
  PROVE  \A q \in Products : /\ products'[q].localOnly = products[q].localOnly
                             /\ products'[q].here = products[q].here
                             /\ q # p => products'[q] = products[q]
BY DEF TypeOK, Row, MoveStock

(* A sale rung up, an edit or a movement: whichever touches a row that     *)
(* waits for its create counts as early.                                   *)
LEMMA PeopleExact ==
  ASSUME ExactInv, TypeOK',
         \/ \E s \in Sales : CreateLocalOrder(s)
         \/ \E p \in Products : UpdateProduct(p) \/ RecordStockMovement(p)
  PROVE  ExactInv'
<1>0. TypeOK /\ \A p \in Products : products[p].localOnly => products[p].here
  BY DEF ExactInv, WaitsWithOpening
<1>1. ASSUME NEW s \in Sales, CreateLocalOrder(s)
      PROVE  ExactInv'
  <2>1. PICK p \in Products : p = line[s].product
    BY <1>0 DEF TypeOK
  <2>2. /\ MoveStock(p, -line[s].quantity) /\ UNCHANGED <<wire, server, line, opening, movedEarly>>
        /\ soldEarly' = IF products[p].localOnly THEN soldEarly \cup {p} ELSE soldEarly
    BY <1>1, <2>1 DEF CreateLocalOrder
  <2>3. \A q \in Products : /\ products'[q].localOnly = products[q].localOnly
                            /\ products'[q].here = products[q].here
                            /\ q # p => products'[q] = products[q]
    BY <1>0, <2>2, MoveStockMoves
  <2>4. EarlyGrows /\ (products[p].localOnly => ~InTime(p)')
    BY <2>2 DEF EarlyGrows, InTime
  <2>5. StillWaits
    BY <2>3 DEF StillWaits
  <2>6. Calls' = Calls /\ cycle' = cycle
    BY <2>2 DEF Calls, wire
  <2> QED BY <1>0, <2>2, <2>3, <2>4, <2>5, <2>6, QuietStep DEF server
<1>2. ASSUME NEW p \in Products, RecordStockMovement(p)
      PROVE  ExactInv'
  <2>2. PICK delta :
        /\ MoveStock(p, delta) /\ UNCHANGED <<wire, server, line, opening, soldEarly>>
        /\ movedEarly' = IF products[p].localOnly THEN movedEarly \cup {p} ELSE movedEarly
    BY <1>2 DEF RecordStockMovement
  <2>3. \A q \in Products : /\ products'[q].localOnly = products[q].localOnly
                            /\ products'[q].here = products[q].here
                            /\ q # p => products'[q] = products[q]
    BY <1>0, <2>2, MoveStockMoves
  <2>4. EarlyGrows /\ (products[p].localOnly => ~InTime(p)')
    BY <2>2 DEF EarlyGrows, InTime
  <2>5. StillWaits
    BY <2>3 DEF StillWaits
  <2>6. Calls' = Calls /\ cycle' = cycle
    BY <2>2 DEF Calls, wire
  <2> QED BY <1>0, <2>2, <2>3, <2>4, <2>5, <2>6, QuietStep DEF server
<1>3. ASSUME NEW p \in Products, UpdateProduct(p)
      PROVE  ExactInv'
  <2>1. products' = [products EXCEPT ![p].pendingUpdate = ~products[p].localOnly]
    BY <1>3 DEF UpdateProduct, Edited
  <2>2. \A q \in Products : /\ products'[q].localOnly = products[q].localOnly
                            /\ products'[q].here = products[q].here
                            /\ products'[q].stock = products[q].stock
    BY <1>0, <2>1 DEF TypeOK, Row
  <2>3. UNCHANGED <<wire, server, history>>
    BY <1>3 DEF UpdateProduct
  <2>4. EarlyGrows /\ StillWaits /\ Calls' = Calls /\ cycle' = cycle
    BY <2>2, <2>3 DEF EarlyGrows, StillWaits, history, wire, Calls
  <2> QED BY <2>2, <2>3, <2>4, QuietStep DEF server, history
<1> QED BY <1>1, <1>2, <1>3

(* A new product: nothing about it is on its way yet.                      *)
LEMMA AddProductExact ==
  ASSUME ExactInv, TypeOK', NEW p \in Products, AddProduct(p)
  PROVE  ExactInv'
<1>1. PICK n \in 0 .. MaxStock : /\ products' = [products EXCEPT ![p] = RowWith(n, TRUE)]
                                /\ opening' = [opening EXCEPT ![p] = n]
  BY DEF AddProduct
<1>2. /\ ~products[p].here /\ ~catalogue[p].stored
      /\ UNCHANGED <<wire, server, line, soldEarly, movedEarly>>
  BY DEF AddProduct
<1>3. TypeOK
  BY DEF ExactInv
<1>4. /\ products'[p] = RowWith(n, TRUE) /\ opening'[p] = n
      /\ \A q \in Products : q # p => products'[q] = products[q] /\ opening'[q] = opening[q]
  BY <1>1, <1>3 DEF TypeOK
<1>5. \A c \in Calls : c.id # p /\ c.id \in Products
  BY <1>2, <1>3, CallsTyped DEF ExactInv, CreatesCarryOpening, WaitsWithOpening
<1>6. Calls' = Calls /\ cycle' = cycle /\ catalogue' = catalogue /\ orders' = orders
  BY <1>2 DEF Calls, wire, server
<1>7. BookedIfStored'
  BY <1>2, <1>6 DEF ExactInv, BookedIfStored, HasProduct
<1>8. ServerStockExact'
  BY <1>2, <1>4, <1>6 DEF ExactInv, ServerStockExact, Quantity, SalesOf
<1>9. WaitsWithOpening'
  BY <1>2, <1>4 DEF ExactInv, WaitsWithOpening, InTime, RowWith
<1>10. CreatesCarryOpening'
  BY <1>2, <1>4, <1>5, <1>6 DEF ExactInv, CreatesCarryOpening, InTime
<1>11. AnswerMeansStored'
  BY <1>6 DEF ExactInv, AnswerMeansStored
<1> QED BY <1>7, <1>8, <1>9, <1>10, <1>11 DEF ExactInv

(* The edit form: another opening stock while no create is out, and a      *)
(* change that counts as early once one is.                                *)
LEMMA SaveProductFormExact ==
  ASSUME ExactInv, TypeOK', NEW p \in Products, SaveProductForm(p)
  PROVE  ExactInv'
<1>0. TypeOK /\ \A q \in Products : products[q].localOnly => products[q].here
  BY DEF ExactInv, WaitsWithOpening
<1>1. PICK n \in 0 .. MaxStock :
        /\ products' = Edited(p, n)
        /\ IF products[p].localOnly /\ p \notin soldEarly \cup movedEarly /\ ~CreateOut(p)
           THEN opening' = [opening EXCEPT ![p] = n] /\ UNCHANGED movedEarly
           ELSE /\ movedEarly' = IF products[p].localOnly THEN movedEarly \cup {p} ELSE movedEarly
                /\ UNCHANGED opening
  BY DEF SaveProductForm
<1>2. UNCHANGED <<wire, server, line, soldEarly>>
  BY DEF SaveProductForm
<1>3. /\ products'[p].stock = n
      /\ \A q \in Products : /\ products'[q].localOnly = products[q].localOnly
                             /\ products'[q].here = products[q].here
                             /\ q # p => products'[q] = products[q]
  BY <1>0, <1>1 DEF Edited, TypeOK, Row
<1>4. /\ Calls' = Calls /\ cycle' = cycle /\ catalogue' = catalogue /\ orders' = orders
      /\ StillWaits /\ EarlyGrows
  BY <1>1, <1>2, <1>3 DEF Calls, wire, server, StillWaits, EarlyGrows
<1>5. CASE UNCHANGED opening /\ (products[p].localOnly => p \in soldEarly' \cup movedEarly')
  <2>1. \A q \in Products : products'[q].localOnly =>
           \/ products[q].localOnly /\ products'[q].here = products[q].here
                                    /\ products'[q].stock = products[q].stock
           \/ products'[q].here /\ ~InTime(q)'
    <3> SUFFICES ASSUME NEW q \in Products, products'[q].localOnly
                 PROVE  \/ /\ products[q].localOnly /\ products'[q].here = products[q].here
                           /\ products'[q].stock = products[q].stock
                        \/ products'[q].here /\ ~InTime(q)'
      OBVIOUS
    <3>1. CASE q # p
      BY <1>3, <3>1
    <3>2. CASE q = p
      BY <1>0, <1>3, <1>5, <3>2 DEF InTime
    <3> QED BY <3>1, <3>2
  <2>2. UNCHANGED <<catalogue, orders, line, opening>>
    BY <1>2, <1>4, <1>5
  <2> QED BY <1>4, <2>1, <2>2, QuietStep
<1>6. CASE /\ products[p].localOnly /\ ~CreateOut(p)
           /\ opening' = [opening EXCEPT ![p] = n] /\ UNCHANGED movedEarly
  <2>1. \A c \in Calls : c.id # p /\ c.id \in Products
    BY <1>0, <1>6, CallsTyped DEF CreateOut, Calls
  <2>2. opening'[p] = n /\ \A q \in Products : q # p => opening'[q] = opening[q]
    BY <1>0, <1>6 DEF TypeOK
  <2>3. BookedIfStored'
    BY <1>2, <1>4 DEF ExactInv, BookedIfStored, HasProduct
  <2>4. ServerStockExact'
    BY <1>2, <1>4, <1>6, <2>2 DEF ExactInv, ServerStockExact, Quantity, SalesOf, CreateOut
  <2>5. WaitsWithOpening'
    <3> SUFFICES ASSUME NEW q \in Products, products'[q].localOnly
                 PROVE  products'[q].here /\ (InTime(q)' => products'[q].stock = opening'[q])
      BY DEF WaitsWithOpening
    <3>1. CASE q # p
      BY <1>2, <1>3, <1>6, <2>2, <3>1 DEF ExactInv, WaitsWithOpening, InTime
    <3>2. CASE q = p
      BY <1>0, <1>3, <2>2, <3>2
    <3> QED BY <3>1, <3>2
  <2>6. CreatesCarryOpening'
    <3> SUFFICES ASSUME NEW c \in Calls
                 PROVE  \/ catalogue'[c.id].stored
                        \/ products'[c.id].localOnly /\ (InTime(c.id)' => c.stock = opening'[c.id])
      BY <1>4 DEF CreatesCarryOpening
    <3>1. c.id # p /\ c.id \in Products
      BY <2>1
    <3>2. products'[c.id] = products[c.id] /\ opening'[c.id] = opening[c.id]
      BY <1>3, <2>2, <3>1
    <3>3. \/ catalogue[c.id].stored
          \/ products[c.id].localOnly /\ (InTime(c.id) => c.stock = opening[c.id])
      BY DEF ExactInv, CreatesCarryOpening
    <3>4. InTime(c.id)' => InTime(c.id)
      BY <1>2, <1>6 DEF InTime
    <3> QED BY <1>4, <3>2, <3>3, <3>4
  <2>7. AnswerMeansStored'
    BY <1>4 DEF ExactInv, AnswerMeansStored
  <2> QED BY <2>3, <2>4, <2>5, <2>6, <2>7 DEF ExactInv
<1> QED BY <1>1, <1>2, <1>5, <1>6

(* The cycle at the till and the network.                                  *)
LEMMA CycleExact ==
  ASSUME ExactInv, TypeOK',
         \/ BeginCycle \/ SendCreate \/ ReceiveCreate \/ EndCreates
         \/ \E done \in SUBSET Products : PushEdits(done)
         \/ SeedProducts \/ ListForBusiness \/ AbandonCycle \/ LoseCreate
         \/ \E p \in Products : RefuseCreate(p)
         \/ \E s \in Sales : FailSale(s)
  PROVE  ExactInv'
<1>a. cycle \in Cycle /\ TypeOK
  BY DEF ExactInv, TypeOK, Cycle
<1>b. \A phase, todo, creates : /\ CycleIn(phase, todo, creates).creates = creates
                                /\ CycleIn(phase, todo, creates).sent = {}
                                /\ ~CycleIn(phase, todo, creates).answered
  BY DEF CycleIn
<1>c. Idle.creates = {} /\ Idle.sent = {} /\ ~Idle.answered
  BY DEF Idle, CycleIn
\* Steps that leave the rows, or at least what is said of them here.
<1>1. ASSUME UNCHANGED <<server, history>>,
             \A p \in Products : /\ products'[p].here = products[p].here
                                 /\ products'[p].stock = products[p].stock
                                 /\ products'[p].localOnly = products[p].localOnly,
             Calls' \subseteq Calls,
             \/ cycle'.sent = {} /\ ~cycle'.answered
             \/ cycle'.sent = cycle.sent /\ cycle'.answered = cycle.answered
      PROVE  ExactInv'
  <2>1. EarlyGrows /\ StillWaits
    BY <1>1 DEF EarlyGrows, StillWaits, history
  <2> QED BY <1>1, <2>1, QuietStep DEF server, history
<1>2. CASE BeginCycle
  <2>1. cycle'.creates = {} /\ cycle'.sent = {} /\ ~cycle'.answered
    BY <1>2, <1>b DEF BeginCycle
  <2> QED BY <1>1, <1>2, <2>1 DEF BeginCycle, till, Calls
<1>3. CASE SendCreate
  <2>1. PICK c \in cycle.creates :
             cycle' = [cycle EXCEPT !.creates = @ \ {c}, !.sent = {c}]
    BY <1>3 DEF SendCreate
  <2>2. cycle'.creates \subseteq cycle.creates /\ cycle'.sent = {c} /\ cycle'.answered = cycle.answered
    BY <1>a, <2>1 DEF Cycle
  <2>3. Calls' \subseteq Calls
    BY <1>3, <2>2 DEF SendCreate, Calls
  <2>4. ~cycle.answered
    BY <1>3 DEF SendCreate, ExactInv, AnswerMeansStored
  <2>5. AnswerMeansStored'
    BY <2>2, <2>4 DEF AnswerMeansStored
  <2>6. EarlyGrows /\ StillWaits /\ StoredStays
    BY <1>3 DEF SendCreate, EarlyGrows, StillWaits, StoredStays, till, server, history
  <2>7. BookedIfStored' /\ ServerStockExact'
    BY <1>3, <2>6, ServerSame DEF SendCreate, server, history
  <2>8. WaitsWithOpening'
    BY <1>3, <2>6, TillSame DEF SendCreate, till, history
  <2>9. CreatesCarryOpening'
    BY <1>3, <2>3, <2>6, CreatesSame DEF SendCreate, history
  <2> QED BY <2>5, <2>7, <2>8, <2>9 DEF ExactInv
<1>4. CASE ReceiveCreate
  <2>1. PICK c \in cycle.sent : products' = [products EXCEPT ![c.id].localOnly = FALSE]
    BY <1>4 DEF ReceiveCreate
  <2>2. c.id \in Products /\ catalogue[c.id].stored
    BY <1>4, <1>a DEF ReceiveCreate, ExactInv, AnswerMeansStored, Cycle, CreateCall
  <2>3. /\ \A p \in Products : p # c.id => products'[p] = products[p]
        /\ ~products'[c.id].localOnly
    BY <1>a, <2>1, <2>2 DEF TypeOK, Row
  <2>4. EarlyGrows /\ StillWaits
    BY <1>4, <2>2, <2>3 DEF ReceiveCreate, EarlyGrows, StillWaits, server, history
  <2>5. cycle'.creates = cycle.creates /\ cycle'.sent = {} /\ ~cycle'.answered
    BY <1>4, <1>a DEF ReceiveCreate, Cycle
  <2>6. Calls' \subseteq Calls
    BY <1>4, <2>5 DEF ReceiveCreate, Calls
  <2> QED BY <1>4, <2>3, <2>4, <2>5, <2>6, QuietStep DEF ReceiveCreate, server, history
<1>5. CASE EndCreates
  <2>1. cycle'.creates = {} /\ cycle'.sent = {} /\ ~cycle'.answered
    BY <1>5, <1>b DEF EndCreates
  <2> QED BY <1>1, <1>5, <2>1 DEF EndCreates, till, Calls
<1>6. ASSUME NEW done \in SUBSET Products, PushEdits(done)
      PROVE  ExactInv'
  <2>1. cycle'.creates = {} /\ cycle'.sent = {} /\ ~cycle'.answered
    BY <1>6, <1>b DEF PushEdits
  <2>2. \A p \in Products : /\ products'[p].here = products[p].here
                            /\ products'[p].stock = products[p].stock
                            /\ products'[p].localOnly = products[p].localOnly
    BY <1>6, <1>a DEF PushEdits, TypeOK, Row
  <2> QED BY <1>1, <1>6, <2>1, <2>2 DEF PushEdits, Calls
<1>7. CASE SeedProducts
  <2>1. /\ \A p \in Products : products[p].localOnly => products'[p] = products[p]
        /\ \A p \in Products : products'[p].localOnly => products'[p] = products[p]
    BY <1>7 DEF SeedProducts, Flagged, RowWith, NoRow
  <2>2. EarlyGrows /\ StillWaits
    BY <1>7, <2>1 DEF SeedProducts, EarlyGrows, StillWaits, history
  <2>3. Calls' \subseteq Calls /\ cycle'.sent = {} /\ ~cycle'.answered
    BY <1>7, <1>c DEF SeedProducts, Calls
  <2> QED BY <1>7, <2>1, <2>2, <2>3, QuietStep DEF SeedProducts, server, history
<1>8. CASE ListForBusiness
  <2>1. /\ cycle'.creates = cycle.creates /\ cycle'.sent = cycle.sent
        /\ cycle'.answered = cycle.answered
    BY <1>8, <1>a DEF ListForBusiness, Cycle
  <2> QED BY <1>1, <1>8, <2>1 DEF ListForBusiness, till, Calls
<1>9. CASE AbandonCycle \/ LoseCreate
  <2>1. /\ cycle'.creates \subseteq cycle.creates /\ cycle'.sent = {} /\ ~cycle'.answered
    BY <1>9, <1>a, <1>c DEF AbandonCycle, LoseCreate, Cycle
  <2>2. lateCreates' \subseteq lateCreates \cup cycle.sent
    BY <1>9 DEF AbandonCycle, LoseCreate, Abandon
  <2> QED BY <1>1, <1>9, <2>1, <2>2 DEF AbandonCycle, LoseCreate, till, Calls
<1>10. ASSUME NEW p \in Products, RefuseCreate(p)
       PROVE  ExactInv'
  <2>1. cycle'.creates = cycle.creates /\ cycle'.sent = {} /\ ~cycle'.answered
    BY <1>10, <1>a DEF RefuseCreate, Cycle
  <2> QED BY <1>1, <1>10, <2>1 DEF RefuseCreate, till, Calls
<1>11. ASSUME NEW s \in Sales, FailSale(s)
       PROVE  ExactInv'
  <2>1. /\ cycle'.creates = cycle.creates /\ cycle'.sent = cycle.sent
        /\ cycle'.answered = cycle.answered
    BY <1>11, <1>a DEF FailSale, Cycle
  <2> QED BY <1>1, <1>11, <2>1 DEF FailSale, till, Calls
<1> QED
  BY <1>2, <1>3, <1>4, <1>5, <1>6, <1>7, <1>8, <1>9, <1>10, <1>11

\* The list of creates: what waits, as it is now.
LEMMA ListedExact ==
  ASSUME ExactInv, TypeOK', ReceiveResults
  PROVE  ExactInv'
<1>1. /\ cycle'.creates = ListUnpushedProducts /\ cycle'.sent = {} /\ ~cycle'.answered
      /\ UNCHANGED <<products, lateCreates, server, history>>
  BY DEF ReceiveResults, CycleIn
<1>2. \A c \in ListUnpushedProducts :
        products[c.id].localOnly /\ (InTime(c.id) => c.stock = opening[c.id])
  <2> SUFFICES ASSUME NEW p \in Products, products[p].localOnly
               PROVE  InTime(p) => products[p].stock = opening[p]
    BY DEF ListUnpushedProducts
  <2> QED BY DEF ExactInv, WaitsWithOpening
<1>3. EarlyGrows /\ StoredStays
  BY <1>1 DEF EarlyGrows, StoredStays, server, history
<1>4. BookedIfStored' /\ ServerStockExact'
  BY <1>1, <1>3, ServerSame DEF server, history
<1>5. WaitsWithOpening'
  BY <1>1, <1>3, TillSame DEF history
<1>6. CreatesCarryOpening'
  BY <1>1, <1>2 DEF ExactInv, CreatesCarryOpening, Calls, InTime, server, history
<1>7. AnswerMeansStored'
  BY <1>1, <1>3, AnswerSame
<1> QED BY <1>4, <1>5, <1>6, <1>7 DEF ExactInv

-------------------------------------------------------------------------------
(* What the server stores *)

LEMMA BookedQuantityIsInt ==
  ASSUME TypeOK, NEW sales \in SUBSET Sales
  PROVE  Quantity(sales) \in Int
<1> DEFINE f == [s \in Sales |-> line[s].quantity]
<1>1. IsFiniteSet(sales) /\ \A s \in sales : f[s] \in Int
  BY FS_Subset DEF TypeOK
<1> HIDE DEF f
<1>2. SumOver(f, sales) \in Int
  BY <1>1, SumIsInt
<1> QED BY <1>2 DEF Quantity, f

LEMMA BookedQuantityAdds ==
  ASSUME TypeOK, NEW sales \in SUBSET Sales, NEW s \in Sales, s \notin sales
  PROVE  Quantity(sales \cup {s}) = Quantity(sales) + line[s].quantity
<1> DEFINE f == [q \in Sales |-> line[q].quantity]
<1>1. IsFiniteSet(sales) /\ \A q \in sales \cup {s} : f[q] \in Int
  BY FS_Subset DEF TypeOK
<1>2. f[s] = line[s].quantity
  OBVIOUS
<1> HIDE DEF f
<1>3. SumOver(f, sales \cup {s}) = SumOver(f, sales) + f[s]
  BY <1>1, SumAdds
<1> QED BY <1>2, <1>3 DEF Quantity, f

(* Booking takes the line's quantity once, and that is what the sum says.  *)
LEMMA SyncOneExact ==
  ASSUME ExactInv, NEW s \in Sales, HasProduct(s), SyncOne(s), UNCHANGED history
  PROVE  BookedIfStored' /\ ServerStockExact' /\ StoredStays
<1>0. TypeOK /\ BookedIfStored /\ ServerStockExact
  BY DEF ExactInv
<1>1. PICK p \in Products : p = line[s].product /\ catalogue[p].stored
  BY <1>0 DEF TypeOK, HasProduct
<1>2. orders' = orders \cup {s} /\ UNCHANGED <<line, opening, soldEarly, movedEarly>>
  BY DEF SyncOne, history
<1>3. CASE s \in orders
  <2>1. orders' = orders /\ catalogue' = catalogue
    BY <1>2, <1>3 DEF SyncOne
  <2> QED BY <1>0, <1>2, <2>1
             DEF BookedIfStored, HasProduct, ServerStockExact, StoredStays, Quantity, SalesOf
<1>4. CASE s \notin orders
  <2>1. catalogue' = [catalogue EXCEPT ![p].stock = @ - line[s].quantity]
    BY <1>1, <1>4 DEF SyncOne
  <2>2. /\ catalogue'[p].stock = catalogue[p].stock - line[s].quantity
        /\ \A q \in Products : /\ catalogue'[q].stored = catalogue[q].stored
                               /\ q # p => catalogue'[q] = catalogue[q]
    BY <1>0, <2>1 DEF TypeOK, ServerRow
  <2>3. BookedIfStored'
    <3> SUFFICES ASSUME NEW t \in orders \cup {s} PROVE catalogue'[line[t].product].stored
      BY <1>2 DEF BookedIfStored, HasProduct
    <3>1. line[t].product \in Products /\ catalogue[line[t].product].stored
      BY <1>0, <1>1 DEF TypeOK, BookedIfStored, HasProduct
    <3> QED BY <2>2, <3>1
  <2>4. ServerStockExact'
    <3> SUFFICES ASSUME NEW q \in Products \ (soldEarly \cup movedEarly), catalogue'[q].stored
                 PROVE  catalogue'[q].stock = opening[q] - Quantity((orders \cup {s}) \cap SalesOf(q))
      BY <1>2 DEF ServerStockExact, Quantity, SalesOf
    <3>1. catalogue[q].stored /\ catalogue[q].stock = opening[q] - Quantity(orders \cap SalesOf(q))
      BY <1>0, <2>2 DEF ServerStockExact
    <3>2. CASE q # p
      <4>1. (orders \cup {s}) \cap SalesOf(q) = orders \cap SalesOf(q)
        BY <1>1, <3>2 DEF SalesOf
      <4> QED BY <2>2, <3>1, <3>2, <4>1
    <3>3. CASE q = p
      <4> DEFINE mine == orders \cap SalesOf(q)
      <4>1. (orders \cup {s}) \cap SalesOf(q) = mine \cup {s} /\ mine \in SUBSET Sales /\ s \notin mine
        BY <1>1, <1>4, <3>3 DEF SalesOf
      <4> HIDE DEF mine
      <4>2. Quantity(mine \cup {s}) = Quantity(mine) + line[s].quantity
        BY <1>0, <4>1, BookedQuantityAdds
      <4>3. Quantity(mine) \in Int /\ line[s].quantity \in Int /\ opening[q] \in Int
        BY <1>0, <4>1, BookedQuantityIsInt DEF TypeOK
      <4>4. catalogue'[q].stock = opening[q] - Quantity(mine) - line[s].quantity
        BY <2>2, <3>1, <3>3 DEF mine
      <4>5. Quantity((orders \cup {s}) \cap SalesOf(q)) = Quantity(mine) + line[s].quantity
        BY <4>1, <4>2
      <4>6. \A a, b, k \in Int : a - b - k = a - (b + k)
        OBVIOUS
      <4> QED BY <4>3, <4>4, <4>5, <4>6
    <3> QED BY <3>2, <3>3
  <2> QED BY <2>2, <2>3, <2>4 DEF StoredStays
<1> QED BY <1>3, <1>4

(* A create stores the opening stock, if nothing else touched the product. *)
LEMMA CreateExact ==
  ASSUME ExactInv, NEW c \in Calls, Create(c), UNCHANGED <<orders, history>>
  PROVE  BookedIfStored' /\ ServerStockExact' /\ StoredStays /\ catalogue'[c.id].stored
<1>0. TypeOK /\ BookedIfStored /\ ServerStockExact /\ CreatesCarryOpening /\ c.id \in Products
  BY CallsTyped DEF ExactInv
<1>1. UNCHANGED <<orders, line, opening, soldEarly, movedEarly>>
  BY DEF history
<1>2. CASE catalogue[c.id].stored
  <2>1. catalogue' = catalogue
    BY <1>2 DEF Create
  <2> QED BY <1>0, <1>1, <1>2, <2>1
             DEF BookedIfStored, HasProduct, ServerStockExact, StoredStays, Quantity, SalesOf
<1>3. CASE ~catalogue[c.id].stored
  <2>1. catalogue' = [catalogue EXCEPT ![c.id] = Stored(c.stock)]
    BY <1>3 DEF Create
  <2>2. /\ catalogue'[c.id].stored /\ catalogue'[c.id].stock = c.stock
        /\ \A q \in Products : q # c.id => catalogue'[q] = catalogue[q]
    BY <1>0, <2>1 DEF TypeOK, Stored
  <2>3. StoredStays
    BY <2>2 DEF StoredStays
  <2>4. BookedIfStored'
    BY <1>0, <1>1, <2>3 DEF BookedIfStored, HasProduct, StoredStays, TypeOK
  <2>5. orders \cap SalesOf(c.id) = {}
    BY <1>0, <1>3 DEF BookedIfStored, HasProduct, SalesOf
  <2>6. Quantity({}) = 0
    BY SumEmpty DEF Quantity
  <2>7. InTime(c.id) => c.stock = opening[c.id] /\ opening[c.id] \in Int
    BY <1>0, <1>3 DEF CreatesCarryOpening, TypeOK
  <2>8. ServerStockExact'
    <3> SUFFICES ASSUME NEW q \in Products \ (soldEarly \cup movedEarly), catalogue'[q].stored
                 PROVE  catalogue'[q].stock = opening[q] - Quantity(orders \cap SalesOf(q))
      BY <1>1 DEF ServerStockExact, Quantity, SalesOf
    <3>1. CASE q # c.id
      BY <1>0, <2>2, <3>1 DEF ServerStockExact
    <3>2. CASE q = c.id
      <4>1. Quantity(orders \cap SalesOf(q)) = 0
        BY <2>5, <2>6, <3>2
      <4>2. catalogue'[q].stock = opening[q] /\ opening[q] \in Int
        BY <2>2, <2>7, <3>2 DEF InTime
      <4> QED BY <4>1, <4>2
    <3> QED BY <3>1, <3>2
  <2> QED BY <2>2, <2>3, <2>4, <2>8
<1> QED BY <1>2, <1>3

LEMMA ServerExact ==
  ASSUME ExactInv, TypeOK',
         \/ HandleCreate \/ Late
         \/ \E s \in Sales : BookSale(s) \/ SellElsewhere(s)
  PROVE  ExactInv'
<1>0. cycle \in Cycle
  BY DEF ExactInv, TypeOK, Cycle
\* What remains of the invariant when the server's part is known to hold.
<1>1. ASSUME StoredStays, UNCHANGED <<products, lateCreates, history>>, Calls' = Calls,
             BookedIfStored', ServerStockExact', AnswerMeansStored'
      PROVE  ExactInv'
  <2>1. EarlyGrows /\ StillWaits
    BY <1>1 DEF EarlyGrows, StillWaits, history
  <2>2. WaitsWithOpening'
    BY <1>1, <2>1, TillSame DEF history
  <2>3. CreatesCarryOpening'
    BY <1>1, <2>1, CreatesSame DEF history
  <2> QED BY <1>1, <2>2, <2>3 DEF ExactInv
<1>2. CASE HandleCreate
  <2>1. PICK c \in cycle.sent : Create(c)
    BY <1>2 DEF HandleCreate
  <2>2. cycle'.creates = cycle.creates /\ cycle'.sent = cycle.sent
    BY <1>0, <1>2 DEF HandleCreate, Cycle
  <2>3. c \in Calls
    BY DEF Calls
  <2>4. BookedIfStored' /\ ServerStockExact' /\ StoredStays /\ catalogue'[c.id].stored
    BY <1>2, <2>1, <2>3, CreateExact DEF HandleCreate
  <2>5. AnswerMeansStored'
    BY <2>2, <2>4 DEF ExactInv, AnswerMeansStored
  <2> QED BY <1>1, <1>2, <2>2, <2>4, <2>5 DEF HandleCreate, till, Calls
<1>3. ASSUME NEW s \in Sales, BookSale(s)
      PROVE  ExactInv'
  <2>1. /\ cycle'.creates = cycle.creates /\ cycle'.sent = cycle.sent
        /\ cycle'.answered = cycle.answered
    BY <1>0, <1>3 DEF BookSale, Cycle
  <2>2. BookedIfStored' /\ ServerStockExact' /\ StoredStays
    BY <1>3, SyncOneExact DEF BookSale
  <2>3. AnswerMeansStored'
    BY <2>1, <2>2, AnswerSame
  <2> QED BY <1>1, <1>3, <2>1, <2>2, <2>3 DEF BookSale, till, Calls
<1>4. ASSUME NEW s \in Sales, SellElsewhere(s)
      PROVE  ExactInv'
  <2>2. BookedIfStored' /\ ServerStockExact' /\ StoredStays
    BY <1>4, SyncOneExact DEF SellElsewhere
  <2>3. AnswerMeansStored'
    BY <1>4, <2>2, AnswerSame DEF SellElsewhere, wire
  <2> QED BY <1>1, <1>4, <2>2, <2>3 DEF SellElsewhere, wire, Calls
<1>5. ASSUME NEW s \in Sales, BookLateSale(s)
      PROVE  ExactInv'
  <2>2. BookedIfStored' /\ ServerStockExact' /\ StoredStays
    BY <1>5, SyncOneExact DEF BookLateSale
  <2>3. AnswerMeansStored'
    BY <1>5, <2>2, AnswerSame DEF BookLateSale, wire
  <2> QED BY <1>1, <1>5, <2>2, <2>3 DEF BookLateSale, till, wire, Calls
<1>6. ASSUME NEW c \in lateCreates, HandleLateCreate(c)
      PROVE  ExactInv'
  <2>1. c \in Calls
    BY DEF Calls
  <2>2. BookedIfStored' /\ ServerStockExact' /\ StoredStays
    BY <1>6, <2>1, CreateExact DEF HandleLateCreate
  <2>3. AnswerMeansStored'
    BY <1>6, <2>2, AnswerSame DEF HandleLateCreate, wire
  <2> QED BY <1>1, <1>6, <2>2, <2>3 DEF HandleLateCreate, till, wire, Calls
<1> QED BY <1>2, <1>3, <1>4, <1>5, <1>6 DEF Late

LEMMA InitExact == Init => ExactInv
<1> SUFFICES ASSUME Init PROVE ExactInv
  OBVIOUS
<1>1. TypeOK
  BY InitIInv DEF IInv
<1>2. BookedIfStored
  BY DEF Init, BookedIfStored
<1>3. ServerStockExact
  <2>1. Quantity({}) = 0
    BY SumEmpty DEF Quantity
  <2>2. \A p \in Products : orders \cap SalesOf(p) = {}
    BY DEF Init
  <2>3. \A p \in Products : catalogue[p].stock = opening[p] /\ opening[p] \in Int
    BY <1>1 DEF Init, TypeOK
  <2>4. \A p \in Products : Quantity(orders \cap SalesOf(p)) = 0
    BY <2>1, <2>2
  <2> QED BY <2>3, <2>4 DEF ServerStockExact
<1>4. WaitsWithOpening
  BY DEF Init, WaitsWithOpening, NoRow
<1>5. CreatesCarryOpening /\ AnswerMeansStored
  BY DEF Init, CreatesCarryOpening, AnswerMeansStored, Calls, Idle, CycleIn
<1> QED BY <1>1, <1>2, <1>3, <1>4, <1>5 DEF ExactInv

LEMMA StepExact == IInv /\ ExactInv /\ [Next]_vars => ExactInv'
<1> SUFFICES ASSUME ExactInv, TypeOK', [Next]_vars PROVE ExactInv'
  BY TypedStep
<1>1. CASE Operate
  BY <1>1, PeopleExact, AddProductExact, SaveProductFormExact, ServerExact DEF Operate
<1>2. CASE CycleStep
  BY <1>2, CycleExact, ListedExact, ServerExact DEF CycleStep
<1>3. CASE Fault
  BY <1>3, CycleExact DEF Fault
<1>4. CASE Late
  BY <1>4, ServerExact
<1>5. CASE UNCHANGED vars
  <2>1. EarlyGrows /\ StillWaits /\ Calls' = Calls
    BY <1>5 DEF vars, till, wire, server, history, EarlyGrows, StillWaits, Calls
  <2> QED BY <1>5, <2>1, QuietStep DEF vars, till, wire, server, history, ExactInv, WaitsWithOpening
<1> QED BY <1>1, <1>2, <1>3, <1>4, <1>5 DEF Next

(* The server's stock of a product is what it started with less the sum of *)
(* what was booked of it, however creates, orders and late requests        *)
(* interleave (product_service Create, order_sync_service syncOne), unless *)
(* it was sold or moved while its create was still waiting.                *)
THEOREM ServerFigureExact == Spec => []ServerStockExact
<1>1. ExactInv => ServerStockExact
  BY DEF ExactInv
<1> QED BY InitIInv, StepIInv, InitExact, StepExact, <1>1, PTL DEF Spec
===============================================================================
