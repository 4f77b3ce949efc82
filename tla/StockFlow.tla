------------------------------- MODULE StockFlow -------------------------------
(***************************************************************************)
(* The stock of a product, as the till and the server each count it.       *)
(*                                                                         *)
(* The till takes a sale from its own stock at once and journals the       *)
(* movement; the server takes it when the order is booked.  A product made *)
(* on the till brings its stock with its create.  The pull at the end of a *)
(* cycle writes the server's figures over the till's, and the edit form    *)
(* writes the sum of its opening stocks over them.  One tab, one line      *)
(* to a sale, no deletions: how orders are claimed and retried is          *)
(* OrderSync, how rows and tombstones travel is CatalogueSync.             *)
(***************************************************************************)
EXTENDS Sums, FiniteSets

CONSTANTS
  Products,  \* product ids
  Sales,     \* client_generated_id of every sale, at this till or another
  MaxQty,    \* bound: quantity of a line or of a manual movement
  MaxStock   \* bound: stock a product starts with or is moved up to by hand

ASSUME StockFlowAssumption ==
  /\ IsFiniteSet(Products) /\ IsFiniteSet(Sales)
  /\ MaxQty \in Nat \ {0}
  /\ MaxStock \in Nat

VARIABLES
  products,    \* IndexedDB: row of each product
  movements,   \* IndexedDB: each product's last movement, until a pull or the edit form overwrites the stock
  queue,       \* IndexedDB: where each sale stands
  cycle,       \* the tab's sync cycle
  lateSales,   \* sales in an order request that nobody waits for any more
  lateCreates, \* create requests that nobody waits for any more
  catalogue,   \* server: row of each product
  orders,      \* server: rows of the orders table
  line,        \* what each sale sells
  opening,     \* the stock each product started with: what was last entered before its create was listed
  soldEarly,   \* products sold while their row waited for its create
  movedEarly   \* products whose stock was changed by hand while their row waited for its create

till    == <<products, movements, queue>>
wire    == <<cycle, lateSales, lateCreates>>
server  == <<catalogue, orders>>
history == <<line, opening, soldEarly, movedEarly>>
vars    == <<till, wire, server, history>>

NoRow == [here |-> FALSE, stock |-> 0, localOnly |-> FALSE, pendingUpdate |-> FALSE]

RowWith(n, localOnly) ==
  [here |-> TRUE, stock |-> n, localOnly |-> localOnly, pendingUpdate |-> FALSE]

Flagged(p) == products[p].localOnly \/ products[p].pendingUpdate

\* A product as the server holds it, or does not.
Unknown   == [stored |-> FALSE, stock |-> 0]
Stored(n) == [stored |-> TRUE, stock |-> n]

\* The balance_after of the movement that last wrote the row's stock, or "none" if
\* a pull, the edit form or no one did since.
Moved(n)   == [by |-> "movement", balance |-> n]
NotMoved   == [by |-> "none", balance |-> 0]

(* todo: sales of the request the server has not looked at; ok: those      *)
(* booked; creates: calls still to be made; sent: the one being awaited;   *)
(* got: the server's list.                                                 *)
CycleIn(phase, todo, creates) ==
  [phase |-> phase, todo |-> todo, ok |-> {}, creates |-> creates, sent |-> {},
   answered |-> FALSE, got |-> [p \in Products |-> Unknown]]

Idle == CycleIn("idle", {}, {})

\* Some products are at the server from the start; the till has pulled nothing yet.
Init ==
  /\ products = [p \in Products |-> NoRow]
  /\ movements = [p \in Products |-> NotMoved]
  /\ queue = [s \in Sales |-> "absent"]
  /\ cycle = Idle
  /\ lateSales = {} /\ lateCreates = {}
  /\ \E known \in SUBSET Products :
       catalogue \in {c \in [Products -> {Unknown} \cup {Stored(n) : n \in 0 .. MaxStock}] :
                        \A p \in Products : c[p].stored <=> p \in known}
  /\ orders = {}
  /\ line \in [Sales -> [product : Products, quantity : 1 .. MaxQty]]
  /\ opening = [p \in Products |-> catalogue[p].stock]
  /\ soldEarly = {} /\ movedEarly = {}

-------------------------------------------------------------------------------
(* The till *)

NotNegative(n) == IF n < 0 THEN 0 ELSE n

\* Broken on purpose: the movement records the balance before it is clamped.
MoveStock_RawBalance(p, delta) ==
  LET balance == NotNegative(products[p].stock + delta) IN
  /\ products' = [products EXCEPT ![p].stock = balance]
  /\ movements' = [movements EXCEPT ![p] = Moved(products[p].stock + delta)]

\* Broken on purpose: selling more than there is leaves a negative stock.
MoveStock_BelowZero(p, delta) ==
  LET balance == products[p].stock + delta IN
  /\ products' = [products EXCEPT ![p].stock = balance]
  /\ movements' = [movements EXCEPT ![p] = Moved(balance)]

\* Stock and ledger move together; stock stops at zero.
MoveStock(p, delta) ==
  LET balance == NotNegative(products[p].stock + delta) IN
  /\ products' = [products EXCEPT ![p].stock = balance]
  /\ movements' = [movements EXCEPT ![p] = Moved(balance)]

CreateLocalOrder(s) ==
  LET p == line[s].product IN
  /\ queue[s] = "absent"
  /\ products[p].here
  /\ queue' = [queue EXCEPT ![s] = "queued"]
  /\ MoveStock(p, -line[s].quantity)
  /\ soldEarly' = IF products[p].localOnly THEN soldEarly \cup {p} ELSE soldEarly
  /\ UNCHANGED <<wire, server, line, opening, movedEarly>>

\* A new product with its opening stock; no movement is journalled for that.
AddProduct(p) ==
  /\ ~products[p].here /\ ~catalogue[p].stored
  /\ \E n \in 0 .. MaxStock :
       /\ products' = [products EXCEPT ![p] = RowWith(n, TRUE)]
       /\ opening' = [opening EXCEPT ![p] = n]
  /\ UNCHANGED <<movements, queue, wire, server, line, soldEarly, movedEarly>>

\* The row takes what it is given; unless its create is still to come it is flagged.
Edited(p, n) ==
  [products EXCEPT ![p].stock = n, ![p].pendingUpdate = ~products[p].localOnly]

\* The store page's edit, which leaves the stock out.
UpdateProduct(p) ==
  /\ products[p].here
  /\ products' = Edited(p, products[p].stock)
  /\ UNCHANGED <<movements, queue, wire, server, history>>

\* A figure for p is listed, on its way or stored.
CreateOut(p) ==
  \/ catalogue[p].stored
  \/ \E c \in cycle.creates \cup cycle.sent \cup lateCreates : c.id = p

(* The edit form saves the whole product, and the sum of its opening       *)
(* stocks as its stock: no movement is journalled, and the server takes    *)
(* no stock from an edit.  Before the create is listed and before anything *)
(* was sold or moved, it is simply another opening stock.                  *)
SaveProductForm(p) ==
  /\ products[p].here
  /\ \E n \in 0 .. MaxStock :
       /\ products' = Edited(p, n)
       /\ IF products[p].localOnly /\ p \notin soldEarly \cup movedEarly /\ ~CreateOut(p)
          THEN opening' = [opening EXCEPT ![p] = n] /\ UNCHANGED movedEarly
          ELSE /\ movedEarly' = IF products[p].localOnly THEN movedEarly \cup {p} ELSE movedEarly
               /\ UNCHANGED opening
  /\ movements' = [movements EXCEPT ![p] = NotMoved]
  /\ UNCHANGED <<queue, wire, server, line, soldEarly>>

(* A count, waste, a goods receipt, a return, a leg of a transfer: every   *)
(* journalled change but a sale.  None of them is sent to the server.      *)
RecordStockMovement(p) ==
  /\ products[p].here
  /\ \E delta \in -MaxQty .. MaxQty :
       /\ delta # 0 /\ products[p].stock + delta <= MaxStock
       /\ MoveStock(p, delta)
  /\ movedEarly' = IF products[p].localOnly THEN movedEarly \cup {p} ELSE movedEarly
  /\ UNCHANGED <<queue, wire, server, line, opening, soldEarly>>

-------------------------------------------------------------------------------
(* The sync cycle *)

Queued == {s \in Sales : queue[s] = "queued"}

BeginCycle ==
  /\ cycle.phase = "idle"
  /\ cycle' = CycleIn("orders", Queued, {})
  /\ UNCHANGED <<till, lateSales, lateCreates, server, history>>

ListUnpushedProducts ==
  {[id |-> p, stock |-> products[p].stock] : p \in {q \in Products : products[q].localOnly}}

\* Booked sales are done, the others stay queued; the creates are listed.
ReceiveResults ==
  /\ cycle.phase = "orders" /\ cycle.todo = {}
  /\ queue' = [s \in Sales |-> IF s \in cycle.ok THEN "synced" ELSE queue[s]]
  /\ cycle' = CycleIn("create", {}, ListUnpushedProducts)
  /\ UNCHANGED <<products, movements, lateSales, lateCreates, server, history>>

SendCreate ==
  /\ cycle.sent = {}
  /\ \E c \in cycle.creates : cycle' = [cycle EXCEPT !.creates = @ \ {c}, !.sent = {c}]
  /\ UNCHANGED <<till, lateSales, lateCreates, server, history>>

\* markProductPushed: the row is read again, so a sale made meanwhile keeps its effect.
ReceiveCreate ==
  /\ cycle.answered
  /\ \E c \in cycle.sent : products' = [products EXCEPT ![c.id].localOnly = FALSE]
  /\ cycle' = [cycle EXCEPT !.sent = {}, !.answered = FALSE]
  /\ UNCHANGED <<movements, queue, lateSales, lateCreates, server, history>>

EndCreates ==
  /\ cycle.phase = "create" /\ cycle.creates = {} /\ cycle.sent = {}
  /\ cycle' = CycleIn("edit", {}, {})
  /\ UNCHANGED <<till, lateSales, lateCreates, server, history>>

\* The edits that are stored lose their flag, the others are refused or lost; the
\* server takes no stock from an edit.
PushEdits(done) ==
  /\ cycle.phase = "edit"
  /\ products' = [p \in Products |->
       IF p \in done /\ ~products[p].localOnly
       THEN [products[p] EXCEPT !.pendingUpdate = FALSE] ELSE products[p]]
  /\ cycle' = CycleIn("pull", {}, {})
  /\ UNCHANGED <<movements, queue, lateSales, lateCreates, server, history>>

\* Broken on purpose: a pull only adds rows the till does not have yet.
SeedProducts_MergeOnly ==
  /\ cycle.phase = "seed"
  /\ products' = [p \in Products |->
       IF products[p].here \/ ~cycle.got[p].stored THEN products[p]
       ELSE RowWith(cycle.got[p].stock, FALSE)]
  /\ cycle' = Idle
  /\ UNCHANGED <<movements, queue, lateSales, lateCreates, server, history>>

\* Every row that is not flagged is replaced by the server's, stock included.
SeedProducts ==
  /\ cycle.phase = "seed"
  /\ products' = [p \in Products |->
       IF Flagged(p) THEN products[p]
       ELSE IF cycle.got[p].stored THEN RowWith(cycle.got[p].stock, FALSE)
       ELSE NoRow]
  /\ movements' = [p \in Products |-> IF Flagged(p) THEN movements[p] ELSE NotMoved]
  /\ cycle' = Idle
  /\ UNCHANGED <<queue, lateSales, lateCreates, server, history>>

\* What is on the wire may still be carried out.
Abandon ==
  /\ lateSales' = lateSales \cup cycle.todo
  /\ lateCreates' = lateCreates \cup (IF cycle.answered THEN {} ELSE cycle.sent)

\* The order request or its answer is lost, or the page goes away: the cycle is over.
AbandonCycle ==
  /\ cycle.phase # "idle"
  /\ Abandon
  /\ cycle' = Idle
  /\ UNCHANGED <<till, server, history>>

\* A create or its answer is lost: the loop goes on.
LoseCreate ==
  /\ cycle.sent # {}
  /\ Abandon
  /\ cycle' = [cycle EXCEPT !.sent = {}, !.answered = FALSE]
  /\ UNCHANGED <<till, server, history>>

-------------------------------------------------------------------------------
(* The server *)

\* A row of the orders table is new only once, and only then takes its stock.
SyncOne(s) ==
  /\ orders' = orders \cup {s}
  /\ catalogue' = IF s \in orders THEN catalogue
                  ELSE [catalogue EXCEPT ![line[s].product].stock = @ - line[s].quantity]

\* The foreign key of the order's line.
HasProduct(s) == catalogue[line[s].product].stored

BookSale(s) ==
  /\ s \in cycle.todo /\ HasProduct(s)
  /\ SyncOne(s)
  /\ cycle' = [cycle EXCEPT !.todo = @ \ {s}, !.ok = @ \cup {s}]
  /\ UNCHANGED <<till, lateSales, lateCreates, history>>

\* The order's transaction is rolled back.
FailSale(s) ==
  /\ s \in cycle.todo
  /\ cycle' = [cycle EXCEPT !.todo = @ \ {s}]
  /\ UNCHANGED <<till, lateSales, lateCreates, server, history>>

\* Broken on purpose: a repeated create replaces the stored row.
Create_Upsert(c) == catalogue' = [catalogue EXCEPT ![c.id] = Stored(c.stock)]

\* A create of a stored id changes nothing and succeeds.
Create(c) ==
  catalogue' = IF catalogue[c.id].stored THEN catalogue
               ELSE [catalogue EXCEPT ![c.id] = Stored(c.stock)]

HandleCreate ==
  /\ ~cycle.answered
  /\ \E c \in cycle.sent : Create(c)
  /\ cycle' = [cycle EXCEPT !.answered = TRUE]
  /\ UNCHANGED <<till, lateSales, lateCreates, orders, history>>

\* 409 or 422: the row stays flagged.
RefuseCreate(p) ==
  /\ ~cycle.answered
  /\ \E c \in cycle.sent : c.id = p
  /\ cycle' = [cycle EXCEPT !.sent = {}]
  /\ UNCHANGED <<till, lateSales, lateCreates, server, history>>

ListForBusiness ==
  /\ cycle.phase = "pull"
  /\ cycle' = [cycle EXCEPT !.phase = "seed", !.got = catalogue]
  /\ UNCHANGED <<till, lateSales, lateCreates, server, history>>

BookLateSale(s) ==
  /\ s \in lateSales /\ HasProduct(s)
  /\ SyncOne(s)
  /\ UNCHANGED <<till, wire, history>>

HandleLateCreate(c) ==
  /\ Create(c)
  /\ UNCHANGED <<till, wire, orders, history>>

\* Another till sells the product and its order is booked.
SellElsewhere(s) ==
  /\ queue[s] = "absent" /\ HasProduct(s)
  /\ queue' = [queue EXCEPT ![s] = "elsewhere"]
  /\ SyncOne(s)
  /\ UNCHANGED <<products, movements, wire, history>>

-------------------------------------------------------------------------------
Operate ==
  \/ \E s \in Sales : CreateLocalOrder(s) \/ SellElsewhere(s)
  \/ \E p \in Products :
       AddProduct(p) \/ UpdateProduct(p) \/ SaveProductForm(p) \/ RecordStockMovement(p)

\* What a cycle left alone does; a refusal is an answer like any other.
CycleStep ==
  \/ BeginCycle \/ ReceiveResults \/ SendCreate \/ ReceiveCreate \/ EndCreates
  \/ \E done \in SUBSET Products : PushEdits(done)
  \/ SeedProducts \/ HandleCreate \/ ListForBusiness
  \/ \E p \in Products : RefuseCreate(p)
  \/ \E s \in Sales : BookSale(s) \/ (~HasProduct(s) /\ FailSale(s))

Fault ==
  \/ AbandonCycle \/ LoseCreate
  \/ \E s \in Sales : FailSale(s)

Late ==
  \/ \E s \in Sales : BookLateSale(s)
  \/ \E c \in lateCreates : HandleLateCreate(c)

Next == Operate \/ CycleStep \/ Fault \/ Late

Spec == Init /\ [][Next]_vars

\* The till keeps cycling and the server keeps answering.
FairSpec == Spec /\ WF_vars(CycleStep)

-------------------------------------------------------------------------------
(* Properties *)

Row == [here : BOOLEAN, stock : Int, localOnly : BOOLEAN, pendingUpdate : BOOLEAN]
ServerRow == [stored : BOOLEAN, stock : Int]
CreateCall == [id : Products, stock : Int]

\* The types of the variables; a create never carries a stock that validation refuses.
TypeOK ==
  /\ products \in [Products -> Row]
  /\ movements \in [Products -> [by : {"movement", "none"}, balance : Int]]
  /\ queue \in [Sales -> {"absent", "queued", "synced", "elsewhere"}]
  /\ cycle \in [phase : {"idle", "orders", "create", "edit", "pull", "seed"},
                todo : SUBSET Sales, ok : SUBSET Sales,
                creates : SUBSET CreateCall, sent : SUBSET CreateCall,
                answered : BOOLEAN, got : [Products -> ServerRow]]
  /\ lateSales \subseteq Sales /\ lateCreates \subseteq CreateCall
  /\ catalogue \in [Products -> ServerRow]
  /\ orders \subseteq Sales
  /\ line \in [Sales -> [product : Products, quantity : 1 .. MaxQty]]
  /\ opening \in [Products -> Nat]
  /\ soldEarly \subseteq Products /\ movedEarly \subseteq Products
  /\ \A c \in cycle.creates \cup cycle.sent \cup lateCreates : c.stock >= 0

(* "The product's stock_quantity and the movement ledger can never         *)
(* disagree" holds of sales and movements: whichever of them came last,    *)
(* its balance is the stock.  It ends where something else writes the      *)
(* stock, a pull or the edit form (see SaveProductForm).                   *)
BalanceIsStock ==
  \A p \in Products : movements[p].by = "movement" => products[p].stock = movements[p].balance

Quantity(sales) == SumOver([s \in Sales |-> line[s].quantity], sales)

SalesOf(p) == {s \in Sales : line[s].product = p}

(* The server's figure is what the product started with less what was      *)
(* booked: no replayed or late create, edit or order takes a sale back or  *)
(* counts it again.  Left out are products that were sold, moved or given  *)
(* another figure between the listing of their create and its answer, or   *)
(* sold or moved before; see SoldStockTakenOnce.                           *)
ServerStockExact ==
  \A p \in Products \ (soldEarly \cup movedEarly) :
    catalogue[p].stored =>
      catalogue[p].stock = opening[p] - Quantity(orders \cap SalesOf(p))

(* The same for every product that was not moved by hand: once all its     *)
(* sales are booked, each has been taken from the server's stock once.     *)
SoldStockTakenOnce ==
  \A p \in Products \ movedEarly :
    LET sold == {s \in SalesOf(p) : queue[s] # "absent"} IN
    catalogue[p].stored /\ sold \subseteq orders =>
      catalogue[p].stock = opening[p] - Quantity(sold)

\* A step that neither people nor the network had a hand in.
Undisturbed == CycleStep \/ Late

\* The server does not take the create or an edit of p.
Refused(p) ==
  \/ RefuseCreate(p)
  \/ products[p].pendingUpdate /\ \E done \in SUBSET (Products \ {p}) : PushEdits(done)

(* Once people and the network leave the till alone, every sale of a       *)
(* product is booked and the till's stock is the server's, whatever the    *)
(* edit form or a movement wrote before, unless the server refuses its     *)
(* create or its edit again and again.                                     *)
FiguresAgree ==
  <>[][Undisturbed]_vars => \A p \in Products :
    \/ <>[]( /\ Queued \cap SalesOf(p) = {}
             /\ products[p].here =>
                  catalogue[p].stored /\ products[p].stock = catalogue[p].stock)
    \/ []<><<Refused(p)>>_vars
===============================================================================
