------------------------------ MODULE GoodsDesk -------------------------------
(***************************************************************************)
(* Purchase orders, goods receipts, purchase returns and stock transfers   *)
(* on the till's own database, worked on from several tabs.                *)
(*                                                                         *)
(* Only a single stock movement is a transaction.  What is made of several *)
(* (a receipt of many lines, the two legs of a transfer) can be cut short  *)
(* by a closed tab between any two awaits, and be interleaved with others. *)
(* What a movement does to the stock itself is StockFlow's                 *)
(* RecordStockMovement; here it counts as journalled.                      *)
(***************************************************************************)
EXTENDS Integers, FiniteSets

CONSTANTS
  Desks,        \* open tabs
  Products,
  Orders,       \* ids of the purchase orders there may be
  Ordered,      \* units of each product each of them is for
  Deliveries,   \* what may arrive: units of some products
  MaxUnits,     \* bound: units of a transfer
  MaxCalls      \* bound: how many operations are begun

ASSUME GoodsDeskAssumption ==
  /\ IsFiniteSet(Desks)
  /\ Ordered \in [Orders -> [Products -> Nat]]
  /\ \A o \in Orders : \E p \in Products : Ordered[o][p] > 0
  /\ \A l \in Deliveries : DOMAIN l \subseteq Products /\ \A p \in DOMAIN l : l[p] \in Nat
  /\ MaxUnits \in Nat /\ MaxCalls \in Nat

Statuses == {"draft", "ordered", "partial", "received", "cancelled"}

VARIABLES
  orders,     \* the purchase orders that were created
  sequence,   \* the last reference number given out
  gone,       \* products that are no longer on the till
  booked,     \* units journalled as received, of each order and product
  out, in,    \* units journalled as transferred, by leg
  returned,   \* units on purchase returns
  sentBack,   \* units journalled as returned
  batches,    \* receipts whose batch is on the product
  arrived,    \* receipts that were booked, of each product
  begun,      \* how many operations were begun; the last one's number
  call,       \* what each tab is in the middle of
  marred,     \* orders with a receipt that was cut short or overwrote another
  halved,     \* products with a transfer or return that was cut short
  raced       \* a reference number was put over one that had not been read

vars == <<orders, sequence, gone, booked, out, in, returned, sentBack, batches,
          arrived, begun, call, marred, halved, raced>>

desk    == <<orders, sequence>>
journal == <<booked, out, in, returned, sentBack, batches, arrived>>
flaws   == <<marred, halved, raced>>

Nothing == [p \in Products |-> 0]

NoOrder == [reference |-> 0, status |-> "none", received |-> Nothing]

Idle == [op |-> "none", step |-> "none"]

Goes(d, c) == call' = [call EXCEPT ![d] = c]
Ends(d)    == Goes(d, Idle)
Free(d)    == call[d] = Idle
Begins     == begun < MaxCalls /\ begun' = begun + 1
At(d, op, step) == call[d].op = op /\ call[d].step = step

Created == {o \in Orders : orders[o] # NoOrder}

Init ==
  /\ orders = [o \in Orders |-> NoOrder]
  /\ sequence = 0
  /\ gone = {}
  /\ booked = [o \in Orders |-> Nothing]
  /\ out = Nothing /\ in = Nothing
  /\ returned = Nothing /\ sentBack = Nothing
  /\ batches = [p \in Products |-> {}]
  /\ arrived = [p \in Products |-> {}]
  /\ begun = 0
  /\ call = [d \in Desks |-> Idle]
  /\ marred = {} /\ halved = {} /\ raced = FALSE

-------------------------------------------------------------------------------
(* createPurchaseOrder *)

ReadSequence(d, o) ==
  /\ Free(d)
  /\ o \notin Created /\ \A t \in Desks : call[t].op = "create" => call[t].order # o
  /\ Begins
  /\ Goes(d, [op |-> "create", step |-> "number", order |-> o, seen |-> sequence])
  /\ UNCHANGED <<desk, gone, journal, flaws>>

\* Broken on purpose: the count starts again with every order.
NextNumber_Restarts(seen) == 1

\* Numbers count up within a day; the date in them keeps days apart.
NextNumber(seen) == seen + 1

\* Two tabs that have read the same number give the next one out twice.
WriteSequence(d) ==
  /\ At(d, "create", "number")
  /\ sequence' = NextNumber(call[d].seen)
  /\ raced' = (raced \/ sequence # call[d].seen)
  /\ Goes(d, [op |-> "create", step |-> "add", order |-> call[d].order, number |-> sequence'])
  /\ UNCHANGED <<orders, gone, journal, begun, marred, halved>>

AddOrder(d, status) ==
  /\ At(d, "create", "add")
  /\ orders' = [orders EXCEPT ![call[d].order] =
                  [reference |-> call[d].number, status |-> status, received |-> Nothing]]
  /\ Ends(d)
  /\ UNCHANGED <<sequence, gone, journal, begun, flaws>>

\* Offered for an order received since, too, by a page that was opened before.
CancelOrder(o) ==
  /\ o \in Created
  /\ orders' = [orders EXCEPT ![o].status = "cancelled"]
  /\ UNCHANGED <<sequence, gone, journal, begun, call, flaws>>

-------------------------------------------------------------------------------
(* receiveGoods *)

NoProduct == "no product"

(* seen: the order as it was read; received: its lines, counted up since;  *)
(* delivery: what is still to be gone through; product, had: the line it   *)
(* is at and the batches it has read of it.                                *)
Receipt(step, o, seen, no, received, delivery, product, had) ==
  [op |-> "receive", step |-> step, order |-> o, seen |-> seen, no |-> no,
   received |-> received, delivery |-> delivery, product |-> product, had |-> had]

\* A page that was opened before still offers it for an order closed since.
GetOrder(d, o, delivery) ==
  /\ Free(d)
  /\ o \in Created
  /\ DOMAIN delivery # {}
  /\ Begins
  /\ Goes(d, Receipt("line", o, orders[o], begun', orders[o].received, delivery, NoProduct, {}))
  /\ UNCHANGED <<desk, gone, journal, flaws>>

Smaller(m, n) == IF m < n THEN m ELSE n

\* Broken on purpose: the line says what arrived, however much was ordered.
Counted_Unclamped(o, p, had, n) == had + n

Counted(o, p, had, n) == Smaller(Ordered[o][p], had + n)

\* Broken on purpose: nothing is booked on a line that is full.
Journal_UnlessFull(o, p, c) ==
  IF p \notin gone /\ c.received[p] < Ordered[o][p]
    THEN /\ booked' = [booked EXCEPT ![o][p] = @ + c.delivery[p]]
         /\ arrived' = [arrived EXCEPT ![p] = @ \cup {c.no}]
    ELSE UNCHANGED <<booked, arrived>>

\* The movement of a line.  Of a product that is gone there is none.
Journal(o, p, c) ==
  IF p \notin gone
    THEN /\ booked' = [booked EXCEPT ![o][p] = @ + c.delivery[p]]
         /\ arrived' = [arrived EXCEPT ![p] = @ \cup {c.no}]
    ELSE UNCHANGED <<booked, arrived>>

Without(delivery, p) == [q \in DOMAIN delivery \ {p} |-> delivery[q]]

\* A line: the progress is counted in the copy, the movement booked.
BookLine(d, p) ==
  LET c == call[d] IN
  /\ At(d, "receive", "line")
  /\ p \in DOMAIN c.delivery
  /\ c.delivery[p] > 0 /\ Ordered[c.order][p] > 0
  /\ Journal(c.order, p, c)
  /\ Goes(d, Receipt("batch", c.order, c.seen, c.no,
                     [c.received EXCEPT ![p] = Counted(c.order, p, @, c.delivery[p])],
                     Without(c.delivery, p), p, {}))
  /\ UNCHANGED <<desk, gone, out, in, returned, sentBack, batches, begun, flaws>>

\* Nothing of it came, or the order has no line for it.
SkipLine(d, p) ==
  LET c == call[d] IN
  /\ At(d, "receive", "line")
  /\ p \in DOMAIN c.delivery
  /\ c.delivery[p] = 0 \/ Ordered[c.order][p] = 0
  /\ Goes(d, Receipt("line", c.order, c.seen, c.no, c.received,
                     Without(c.delivery, p), NoProduct, {}))
  /\ UNCHANGED <<desk, gone, journal, begun, flaws>>

\* The batch, if the delivery names one, is appended to those just read.
ReadBatches(d, named) ==
  LET c == call[d] IN
  /\ At(d, "receive", "batch")
  /\ IF named /\ c.product \notin gone
       THEN Goes(d, Receipt("append", c.order, c.seen, c.no, c.received, c.delivery,
                            c.product, batches[c.product]))
       ELSE Goes(d, Receipt("line", c.order, c.seen, c.no, c.received, c.delivery, NoProduct, {}))
  /\ UNCHANGED <<desk, gone, journal, begun, flaws>>

AppendBatch(d) ==
  LET c == call[d] IN
  /\ At(d, "receive", "append")
  /\ batches' = IF c.product \in gone THEN batches
                ELSE [batches EXCEPT ![c.product] = c.had \cup {c.no}]
  /\ Goes(d, Receipt("line", c.order, c.seen, c.no, c.received, c.delivery, NoProduct, {}))
  /\ UNCHANGED <<desk, gone, booked, out, in, returned, sentBack, arrived, begun, flaws>>

\* Broken on purpose: an order is received as soon as something of it is.
StatusAfter_Any(o, received, before) ==
  IF \E p \in Products : received[p] > 0 THEN "received" ELSE before

StatusAfter(o, received, before) ==
  IF \A p \in Products : received[p] >= Ordered[o][p] THEN "received"
  ELSE IF \E p \in Products : received[p] > 0 THEN "partial"
  ELSE before

\* Broken on purpose: the progress is put beside the status, but not in the lines.
PutOrder_StatusOnly(d) ==
  LET c == call[d] IN
  /\ At(d, "receive", "line")
  /\ DOMAIN c.delivery = {}
  /\ orders' = [orders EXCEPT ![c.order].status = StatusAfter(c.order, c.received, c.seen.status)]
  /\ marred' = IF orders[c.order] = c.seen THEN marred ELSE marred \cup {c.order}
  /\ Ends(d)
  /\ UNCHANGED <<sequence, gone, journal, begun, halved, raced>>

\* The whole order, as it was read and counted up since.
PutOrder(d) ==
  LET c == call[d] IN
  /\ At(d, "receive", "line")
  /\ DOMAIN c.delivery = {}
  /\ orders' = [orders EXCEPT ![c.order] =
                  [reference |-> c.seen.reference,
                   status    |-> StatusAfter(c.order, c.received, c.seen.status),
                   received  |-> c.received]]
  /\ marred' = IF orders[c.order] = c.seen THEN marred ELSE marred \cup {c.order}
  /\ Ends(d)
  /\ UNCHANGED <<sequence, gone, journal, begun, halved, raced>>

-------------------------------------------------------------------------------
(* transferStock and createPurchaseReturn *)

Leaves(total, p, n) == IF p \in gone THEN total ELSE [total EXCEPT ![p] = @ + n]

TransferOut(d, p, n) ==
  /\ Free(d)
  /\ p \notin gone
  /\ Begins
  /\ out' = Leaves(out, p, n)
  /\ Goes(d, [op |-> "transfer", step |-> "in", product |-> p, units |-> n])
  /\ UNCHANGED <<desk, gone, booked, in, returned, sentBack, batches, arrived, flaws>>

\* Broken on purpose: the second leg is journalled as a first one.
TransferIn_Out(d) ==
  /\ At(d, "transfer", "in")
  /\ out' = Leaves(out, call[d].product, call[d].units)
  /\ Ends(d)
  /\ UNCHANGED <<desk, gone, booked, in, returned, sentBack, batches, arrived, begun, flaws>>

TransferIn(d) ==
  /\ At(d, "transfer", "in")
  /\ in' = Leaves(in, call[d].product, call[d].units)
  /\ Ends(d)
  /\ UNCHANGED <<desk, gone, booked, out, returned, sentBack, batches, arrived, begun, flaws>>

\* The return is recorded first, its movements follow line by line.
AddReturn(d, lines) ==
  /\ Free(d)
  /\ Created # {}
  /\ DOMAIN lines # {}
  /\ Begins
  /\ returned' = [p \in Products |-> returned[p] + IF p \in DOMAIN lines THEN lines[p] ELSE 0]
  /\ Goes(d, [op |-> "return", step |-> "line", delivery |-> lines])
  /\ UNCHANGED <<desk, gone, booked, out, in, sentBack, batches, arrived, flaws>>

SendBack(d, p) ==
  LET lines == call[d].delivery IN
  /\ At(d, "return", "line")
  /\ p \in DOMAIN lines
  /\ sentBack' = Leaves(sentBack, p, lines[p])
  /\ IF DOMAIN lines = {p}
       THEN Ends(d)
       ELSE Goes(d, [op |-> "return", step |-> "line", delivery |-> Without(lines, p)])
  /\ UNCHANGED <<desk, gone, booked, out, in, returned, batches, arrived, begun, flaws>>

-------------------------------------------------------------------------------

\* The tab is closed, or a write fails.
Interrupt(d) ==
  /\ ~Free(d)
  /\ marred' = IF call[d].op = "receive" THEN marred \cup {call[d].order} ELSE marred
  /\ halved' = IF call[d].op = "transfer" THEN halved \cup {call[d].product}
               ELSE IF call[d].op = "return" THEN halved \cup DOMAIN call[d].delivery
               ELSE halved
  /\ Ends(d)
  /\ UNCHANGED <<desk, gone, journal, begun, raced>>

\* A product is deleted here, or missing from the server's list.
RemoveProduct(p) ==
  /\ p \notin gone
  /\ gone' = gone \cup {p}
  /\ UNCHANGED <<desk, journal, begun, call, flaws>>

\* The list of the server replaces what the till has, batches included.
Pull ==
  /\ batches' = [p \in Products |-> {}]
  /\ UNCHANGED <<desk, gone, booked, out, in, returned, sentBack, arrived, begun, call, flaws>>

Next ==
  \/ \E d \in Desks :
       \/ \E o \in Orders : ReadSequence(d, o)
       \/ WriteSequence(d)
       \/ \E status \in {"draft", "ordered"} : AddOrder(d, status)
       \/ \E o \in Orders, delivery \in Deliveries : GetOrder(d, o, delivery)
       \/ \E p \in Products : BookLine(d, p) \/ SkipLine(d, p)
       \/ \E named \in BOOLEAN : ReadBatches(d, named)
       \/ AppendBatch(d)
       \/ PutOrder(d)
       \/ \E p \in Products, n \in 1 .. MaxUnits : TransferOut(d, p, n)
       \/ TransferIn(d)
       \/ \E lines \in Deliveries : AddReturn(d, lines)
       \/ \E p \in Products : SendBack(d, p)
       \/ Interrupt(d)
  \/ \E o \in Orders : CancelOrder(o)
  \/ \E p \in Products : RemoveProduct(p)
  \/ Pull

Spec == Init /\ [][Next]_vars

-------------------------------------------------------------------------------

TypeOK ==
  /\ orders \in [Orders -> [reference : Nat, status : Statuses \cup {"none"},
                            received : [Products -> Nat]]]
  /\ \A o \in Orders, p \in Products : orders[o].received[p] <= Ordered[o][p]
  /\ sequence \in Nat
  /\ gone \subseteq Products
  /\ booked \in [Orders -> [Products -> Nat]]
  /\ {out, in, returned, sentBack} \subseteq [Products -> Nat]
  /\ {batches, arrived} \subseteq [Products -> SUBSET (1 .. MaxCalls)]
  /\ begun \in 0 .. MaxCalls
  /\ marred \subseteq Orders /\ halved \subseteq Products /\ raced \in BOOLEAN

(* receiveGoods books a line before its batch and before the order shows   *)
(* it: whatever is cut short or overwritten, neither an order nor a batch  *)
(* ever tells of goods that were not booked, as long as the product is on  *)
(* the till.                                                               *)
NotOverstated ==
  /\ \A o \in Orders, p \in Products \ gone : orders[o].received[p] <= booked[o][p]
  /\ \A p \in Products : batches[p] \subseteq arrived[p]

Receiving(o) == \E d \in Desks : call[d].op = "receive" /\ call[d].order = o

(* receiveGoods: when nothing is under way an order shows what was booked  *)
(* for it, up to what was ordered, unless a receipt was cut short or put   *)
(* the order over a change it had not seen.                                *)
ShownWhenDone ==
  \A o \in Orders \ marred : ~Receiving(o) =>
    \A p \in Products \ gone : orders[o].received[p] = Smaller(Ordered[o][p], booked[o][p])

\* What the status of an order says of its lines.
Tells(o, order) ==
  LET all == \A p \in Products : order.received[p] = Ordered[o][p]
  IN /\ order.status = "received" => all
     /\ order.status = "partial" => ~all
     /\ order.status \in {"draft", "ordered"} => order.received = Nothing

(* The status of an order says what its lines say, also when receipts and  *)
(* cancellations overwrite each other.                                     *)
StatusTellsLines == \A o \in Created : Tells(o, orders[o])

Moving(p) ==
  \E d \in Desks : \/ call[d].op = "transfer" /\ call[d].product = p
                   \/ call[d].op = "return" /\ p \in DOMAIN call[d].delivery

(* transferStock writes a matched pair, createPurchaseReturn a movement    *)
(* for each line of the return: never more than what left or was recorded, *)
(* and all of it unless it was cut short.                                  *)
LegsMatch ==
  \A p \in Products :
    /\ in[p] <= out[p] /\ sentBack[p] <= returned[p]
    /\ p \notin gone \cup halved /\ ~Moving(p) => in[p] = out[p] /\ sentBack[p] = returned[p]

(* nextPurchaseReference: two orders have different numbers, as long as no *)
(* two of them were numbered at the same time.                             *)
ReferencesDistinct ==
  ~raced => \A o, q \in Created : o # q => orders[o].reference # orders[q].reference
===============================================================================
